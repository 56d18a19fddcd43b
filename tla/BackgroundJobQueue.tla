------------------------- MODULE BackgroundJobQueue -------------------------
(***************************************************************************)
(* The persistent job queue of features/backgroundJob: the table           *)
(* public.background_jobs and the worker loop that every server process    *)
(* runs over it.                                                           *)
(*                                                                         *)
(* A worker claims the oldest eligible row in a transaction (SELECT ...    *)
(* FOR UPDATE SKIP LOCKED, then UPDATE), runs the handler of the row's     *)
(* type outside any transaction, and reports the outcome with an UPDATE    *)
(* addressed by id alone.  Nothing but the 30 minute lease keeps two       *)
(* processes off one row, and no later write looks at the lease again.     *)
(*                                                                         *)
(* Abstractions.  created_at is the job's number.  The clock is reduced to *)
(* what the queries ask of it: a lease is "live" or "expired", and a live  *)
(* lease of a running row may expire whenever the environment lets it      *)
(* (LeaseExpires).  SELECT and UPDATE of a claim are two steps, with the   *)
(* row lock held between them; every other statement is one step.          *)
(* Payload, result and error are left out.                                 *)
(***************************************************************************)
EXTENDS Naturals, Integers

CONSTANTS
    Jobs,             \* job numbers in the order of created_at
    HandledJobs,      \* the jobs whose type has a registered handler
    Workers,          \* server processes, one worker loop each
    NoWorker,         \* locked_by IS NULL
    RequestedLimits,  \* values callers pass as maxAttempts
    SlowHandlers,     \* may a handler outlive its lease without renewing it?
    MaxFaults         \* bound on crashes, database errors and slow handlers

ASSUME JobsAssumption     == Jobs \subseteq Nat \ {0}
ASSUME HandledAssumption  == HandledJobs \subseteq Jobs
ASSUME WorkersAssumption  == NoWorker \notin Workers
ASSUME LimitsAssumption   == RequestedLimits \subseteq Int
ASSUME SlowAssumption     == SlowHandlers \in BOOLEAN
ASSUME FaultsAssumption   == MaxFaults \in Nat

VARIABLES
    status,       \* background_jobs.status, "absent" before the row exists
    maxAttempts,  \* background_jobs.max_attempts
    attempts,     \* background_jobs.attempts
    lockedBy,     \* background_jobs.locked_by
    lease,        \* background_jobs.locked_until against now()
    pc,           \* where each process's worker loop is
    cur,          \* the row a worker has locked or claimed, NoJob if none
    att,          \* job.attempts of the snapshot the claim returned
    faults        \* faults taken from the budget MaxFaults

rowVars    == <<status, maxAttempts, attempts, lockedBy, lease>>
workerVars == <<pc, cur, att>>
vars       == <<rowVars, workerVars, faults>>

NoJob    == 0
Statuses == {"absent", "queued", "running", "completed", "failed"}
Leases   == {"none", "live", "expired"}
Finished == {"completed", "failed"}

(* "succeeded" and "errored": the handler is over, its outcome unreported. *)
Holding == {"claimed", "handling", "succeeded", "errored"}
PCs     == {"down", "idle", "claiming"} \cup Holding

TypeOK ==
    /\ status \in [Jobs -> Statuses]
    /\ maxAttempts \in [Jobs -> Nat]
    /\ attempts \in [Jobs -> Nat]
    /\ lockedBy \in [Jobs -> Workers \cup {NoWorker}]
    /\ lease \in [Jobs -> Leases]
    /\ pc \in [Workers -> PCs]
    /\ cur \in [Workers -> Jobs \cup {NoJob}]
    /\ att \in [Workers -> Nat]
    /\ faults \in 0..MaxFaults

-----------------------------------------------------------------------------

Holds(w, j) == pc[w] \in Holding /\ cur[w] = j

(* No claim transaction has locked row j: another UPDATE of it would wait. *)
Unlocked(j) == \A v \in Workers : pc[v] = "claiming" => cur[v] # j

(* Mutants of the claim: a crashed worker's row is never taken over; a     *)
(* running row is taken whatever its lease; a failed row is taken again.   *)
ClaimableOnlyQueued(j)  == status[j] = "queued"
ClaimableIgnoresLease(j) == status[j] \in {"queued", "running"}
ClaimableAfterFailure(j) ==
    \/ status[j] \in {"queued", "failed"}
    \/ status[j] = "running" /\ lease[j] = "expired"

(* The WHERE clause of the claim. *)
Claimable(j) ==
    \/ status[j] = "queued"
    \/ status[j] = "running" /\ lease[j] = "expired"

Init ==
    /\ status = [j \in Jobs |-> "absent"]
    /\ maxAttempts = [j \in Jobs |-> 1]
    /\ attempts = [j \in Jobs |-> 0]
    /\ lockedBy = [j \in Jobs |-> NoWorker]
    /\ lease = [j \in Jobs |-> "none"]
    /\ pc = [w \in Workers |-> "idle"]
    /\ cur = [w \in Workers |-> NoJob]
    /\ att = [w \in Workers |-> 0]
    /\ faults = 0

(* Math.max(1, Math.floor(params.maxAttempts ?? 1)) *)
EffectiveLimit(m) == IF m < 1 THEN 1 ELSE m

Enqueue(j, m) ==
    /\ status[j] = "absent"
    /\ \A k \in Jobs : k < j => status[k] # "absent"
    /\ status' = [status EXCEPT ![j] = "queued"]
    /\ maxAttempts' = [maxAttempts EXCEPT ![j] = EffectiveLimit(m)]
    /\ UNCHANGED <<attempts, lockedBy, lease, workerVars, faults>>

-----------------------------------------------------------------------------
(* The claim transaction. *)

LockRow(w, j) ==
    /\ pc[w] = "idle"
    /\ Claimable(j) /\ Unlocked(j)
    /\ \A k \in Jobs : k < j => ~(Claimable(k) /\ Unlocked(k))
    /\ pc' = [pc EXCEPT ![w] = "claiming"]
    /\ cur' = [cur EXCEPT ![w] = j]
    /\ UNCHANGED <<rowVars, att, faults>>

(* now() + interval '30 minutes' *)
NewLease == "live"

(* Mutant: a takeover continues the attempt of the worker it replaces. *)
TakeoverSameAttempt(j) ==
    IF status[j] = "running" THEN attempts[j] ELSE attempts[j] + 1

ClaimedAttempt(j) == attempts[j] + 1

CommitClaim(w) ==
    LET j == cur[w] IN
    /\ pc[w] = "claiming"
    /\ status' = [status EXCEPT ![j] = "running"]
    /\ attempts' = [attempts EXCEPT ![j] = ClaimedAttempt(j)]
    /\ lockedBy' = [lockedBy EXCEPT ![j] = w]
    /\ lease' = [lease EXCEPT ![j] = NewLease]
    /\ pc' = [pc EXCEPT ![w] = "claimed"]
    /\ att' = [att EXCEPT ![w] = ClaimedAttempt(j)]
    /\ UNCHANGED <<maxAttempts, cur, faults>>

-----------------------------------------------------------------------------
(* runClaimedJob *)

StartHandler(w) ==
    /\ pc[w] = "claimed"
    /\ pc' = [pc EXCEPT
            ![w] = IF cur[w] \in HandledJobs THEN "handling" ELSE "errored"]
    /\ UNCHANGED <<rowVars, cur, att, faults>>

(* context.updateProgress: the row is taken by id, whoever owns it now. *)
UpdateProgress(w) ==
    LET j == cur[w] IN
    /\ pc[w] = "handling"
    /\ Unlocked(j)
    /\ lockedBy' = [lockedBy EXCEPT ![j] = w]
    /\ lease' = [lease EXCEPT ![j] = NewLease]
    /\ UNCHANGED <<status, maxAttempts, attempts, workerVars, faults>>

HandlerReturns(w) ==
    /\ pc[w] = "handling"
    /\ pc' = [pc EXCEPT ![w] = "succeeded"]
    /\ UNCHANGED <<rowVars, cur, att, faults>>

HandlerThrows(w) ==
    /\ pc[w] = "handling"
    /\ pc' = [pc EXCEPT ![w] = "errored"]
    /\ UNCHANGED <<rowVars, cur, att, faults>>

(* One UPDATE by id that ends the attempt, and the worker's next turn. *)
Report(w, newStatus) ==
    LET j == cur[w] IN
    /\ Unlocked(j)
    /\ status' = [status EXCEPT ![j] = newStatus]
    /\ lockedBy' = [lockedBy EXCEPT ![j] = NoWorker]
    /\ lease' = [lease EXCEPT ![j] = "none"]
    /\ pc' = [pc EXCEPT ![w] = "idle"]
    /\ cur' = [cur EXCEPT ![w] = NoJob]
    /\ UNCHANGED <<maxAttempts, attempts, att, faults>>

ReportCompleted(w) == pc[w] = "succeeded" /\ Report(w, "completed")

(* Mutant: one retry too many. *)
ShouldRetryOnceMore(w) == att[w] <= maxAttempts[cur[w]]

(* The decision uses the claimed snapshot, not the row as it is now. *)
ShouldRetry(w) == att[w] < maxAttempts[cur[w]]

FailOrRequeue(w) ==
    /\ pc[w] = "errored"
    /\ Report(w, IF ShouldRetry(w) THEN "queued" ELSE "failed")

-----------------------------------------------------------------------------
(* Faults, each taken from the budget, and what follows them. *)

Fault == faults < MaxFaults /\ faults' = faults + 1

(* claimNextJob throws (also with its commit done but not acknowledged) or *)
(* failOrRequeueJob does: runWorker logs and leaves its loop, and the next *)
(* interval starts it again.                                               *)
LoopExits(w) ==
    /\ Fault
    /\ pc[w] \in {"claiming", "claimed", "errored"}
    /\ pc' = [pc EXCEPT ![w] = "idle"]
    /\ cur' = [cur EXCEPT ![w] = NoJob]
    /\ UNCHANGED <<rowVars, att>>

(* The UPDATE to "completed" throws inside the try, having had no effect   *)
(* or having committed without its answer arriving: the catch takes over   *)
(* either way, and FailOrRequeue then writes over a completed row.  (The   *)
(* other UPDATEs need no such action: a report whose answer is lost is the *)
(* report, for the loop leaves the job either way, and a lost answer to    *)
(* updateProgress is UpdateProgress followed by HandlerThrows.)            *)
CompletionThrows(w) ==
    LET j == cur[w] IN
    /\ Fault
    /\ pc[w] = "succeeded"
    /\ pc' = [pc EXCEPT ![w] = "errored"]
    /\ UNCHANGED <<maxAttempts, attempts, cur, att>>
    /\ \/ UNCHANGED <<status, lockedBy, lease>>
       \/ /\ Unlocked(j)
          /\ status' = [status EXCEPT ![j] = "completed"]
          /\ lockedBy' = [lockedBy EXCEPT ![j] = NoWorker]
          /\ lease' = [lease EXCEPT ![j] = "none"]

Crash(w) ==
    /\ Fault
    /\ pc[w] # "down"
    /\ pc' = [pc EXCEPT ![w] = "down"]
    /\ cur' = [cur EXCEPT ![w] = NoJob]
    /\ UNCHANGED <<rowVars, att>>

Restart(w) ==
    /\ pc[w] = "down"
    /\ pc' = [pc EXCEPT ![w] = "idle"]
    /\ UNCHANGED <<rowVars, cur, att, faults>>

(* now() passes locked_until.  Without SlowHandlers a handler renews, or   *)
(* ends, within the lease, so that only an abandoned row expires.          *)
LeaseExpires(j) ==
    /\ status[j] = "running" /\ lease[j] = "live"
    /\ lease' = [lease EXCEPT ![j] = "expired"]
    /\ \/ (\A w \in Workers : ~Holds(w, j)) /\ UNCHANGED faults
       \/ SlowHandlers /\ Fault
    /\ UNCHANGED <<status, maxAttempts, attempts, lockedBy, workerVars>>

-----------------------------------------------------------------------------

WorkerStep(w) ==
    \/ \E j \in Jobs : LockRow(w, j)
    \/ CommitClaim(w)
    \/ StartHandler(w)
    \/ UpdateProgress(w)
    \/ HandlerReturns(w)
    \/ HandlerThrows(w)
    \/ ReportCompleted(w)
    \/ FailOrRequeue(w)
    \/ LoopExits(w)
    \/ CompletionThrows(w)
    \/ Crash(w)
    \/ Restart(w)

Next ==
    \/ \E j \in Jobs, m \in RequestedLimits : Enqueue(j, m)
    \/ \E w \in Workers : WorkerStep(w)
    \/ \E j \in Jobs : LeaseExpires(j)

(* The poll timer restarts every loop, an awaited statement or handler     *)
(* ends, a process manager restarts a crashed process, and time passes.    *)
Fairness ==
    /\ \A w \in Workers :
        /\ WF_vars(\E j \in Jobs : LockRow(w, j))
        /\ WF_vars(CommitClaim(w))
        /\ WF_vars(StartHandler(w))
        /\ WF_vars(HandlerReturns(w) \/ HandlerThrows(w))
        /\ WF_vars(ReportCompleted(w))
        /\ WF_vars(FailOrRequeue(w))
        /\ WF_vars(Restart(w))
    /\ \A j \in Jobs : WF_vars(LeaseExpires(j))

Spec     == Init /\ [][Next]_vars
FairSpec == Spec /\ Fairness

-----------------------------------------------------------------------------
(* Properties that hold however slow the handlers are. *)

(* The claim skips a running row whose locked_until is NULL, so a running  *)
(* row without a lease would never be picked up again.                     *)
RunningHasLease == \A j \in Jobs : status[j] = "running" => lease[j] # "none"

(* Two processes may run the same job at once, but never as the same       *)
(* attempt: the claimed job.attempts identifies the run.                   *)
AttemptIdentifiesRun ==
    \A v, w \in Workers, j \in Jobs :
        v # w /\ Holds(v, j) /\ Holds(w, j) => att[v] # att[w]

(* Every enqueued job comes to rest, whatever crashes, database errors and *)
(* lapsed leases (finitely many) happen on the way.                        *)
EveryJobSettles ==
    \A j \in Jobs : status[j] # "absent" ~> [](status[j] \in Finished)

-----------------------------------------------------------------------------
(* Properties that rest on handlers renewing their lease in time.          *)

(* At most one process runs a job. *)
OneRunnerPerJob ==
    \A v, w \in Workers, j \in Jobs :
        Holds(v, j) /\ Holds(w, j) => v = w

(* Nobody touches the row of a finished job, neither a late report nor a   *)
(* late progress update of an earlier attempt, but for the process that    *)
(* completed it and was not told so: it holds the completed row and, in    *)
(* the very step in which it lets go of it, may take the completion back.  *)
TakenBack(j) ==
    /\ status[j] = "completed"
    /\ \E w \in Workers :
          /\ pc[w] = "errored" /\ cur[w] = j /\ cur'[w] = NoJob
          /\ status'[j] = IF attempts[j] < maxAttempts[j] THEN "queued" ELSE "failed"

FinishedRowsAreFinal ==
    [][\A j \in Jobs : status[j] \in Finished =>
            /\ status'[j] = status[j] \/ TakenBack(j)
            /\ lockedBy'[j] = NoWorker
            /\ lease'[j] = "none"]_vars

(* The processes running a job, as its submitter could observe them. *)
Runners == [j \in Jobs |-> {w \in Workers : Holds(w, j)}]

Lifecycle == INSTANCE JobLifecycle WITH
    Limits <- {EffectiveLimit(m) : m \in RequestedLimits},
    phase <- status, limit <- maxAttempts, runs <- attempts, runners <- Runners

(* The queue implements JobLifecycle: one runner at a time, retries and    *)
(* failures decided by attempts actually begun, nothing lost, and nothing  *)
(* undone but by a process that does not know that it has completed.       *)
ImplementsLifecycle == Lifecycle!Spec
=============================================================================
