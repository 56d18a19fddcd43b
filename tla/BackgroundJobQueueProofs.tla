---------------------- MODULE BackgroundJobQueueProofs ----------------------
(***************************************************************************)
(* Theorems of BackgroundJobQueue, for every set of jobs and of processes  *)
(* and every bound on faults.                                              *)
(***************************************************************************)
EXTENDS BackgroundJobQueue, TLAPS

(* A worker past the claim's SELECT has a row. *)
BusyHasJob ==
    \A w \in Workers : pc[w] \in {"claiming"} \cup Holding => cur[w] \in Jobs

Typed == TypeOK /\ BusyHasJob

USE DEF NoJob, NewLease, ClaimedAttempt

LEMMA EffectiveLimitType ==
    ASSUME NEW m \in RequestedLimits
    PROVE  EffectiveLimit(m) \in Nat \ {0}
BY LimitsAssumption DEF EffectiveLimit

LEMMA EnqueueTyped ==
    ASSUME Typed, NEW j \in Jobs, NEW m \in RequestedLimits, Enqueue(j, m)
    PROVE  Typed'
BY EffectiveLimitType
   DEF Typed, TypeOK, BusyHasJob, Enqueue, Statuses, workerVars

LEMMA ClaimTyped ==
    ASSUME Typed, NEW w \in Workers,
           (\E j \in Jobs : LockRow(w, j)) \/ CommitClaim(w)
    PROVE  Typed'
<1>1. ASSUME NEW j \in Jobs, LockRow(w, j)
      PROVE  Typed'
  BY <1>1 DEF Typed, TypeOK, BusyHasJob, LockRow, rowVars, PCs, Holding
<1>2. CASE CommitClaim(w)
  <2>1. cur[w] \in Jobs
    BY <1>2 DEF Typed, BusyHasJob, CommitClaim
  <2>2. TypeOK'
    <3>1. attempts[cur[w]] + 1 \in Nat
      <4>1. attempts \in [Jobs -> Nat]
        BY DEF Typed, TypeOK
      <4>2. QED
        BY <2>1, <4>1
    <3>2. attempts' \in [Jobs -> Nat] /\ att' \in [Workers -> Nat]
      BY <1>2, <2>1, <3>1 DEF Typed, TypeOK, CommitClaim
    <3>3. QED
      BY <1>2, <2>1, <3>2
         DEF Typed, TypeOK, CommitClaim, Statuses, Leases, PCs, Holding
  <2>3. BusyHasJob'
    BY <1>2, <2>1 DEF Typed, TypeOK, BusyHasJob, CommitClaim, PCs, Holding
  <2>4. QED
    BY <2>2, <2>3 DEF Typed
<1>3. QED
  BY <1>1, <1>2

LEMMA HandlerTyped ==
    ASSUME Typed, NEW w \in Workers,
           StartHandler(w) \/ UpdateProgress(w) \/ HandlerReturns(w) \/ HandlerThrows(w)
    PROVE  Typed'
BY DEF Typed, TypeOK, BusyHasJob, StartHandler, UpdateProgress, HandlerReturns,
       HandlerThrows, rowVars, workerVars, Leases, PCs, Holding

LEMMA ReportTyped ==
    ASSUME Typed, NEW w \in Workers, ReportCompleted(w) \/ FailOrRequeue(w)
    PROVE  Typed'
<1>1. PICK p \in {"completed", "queued", "failed"} : Report(w, p)
  BY DEF ReportCompleted, FailOrRequeue
<1>2. QED
  BY <1>1 DEF Typed, TypeOK, BusyHasJob, Report, Statuses, Leases, PCs, Holding

LEMMA FaultTyped ==
    ASSUME Typed, NEW w \in Workers,
           LoopExits(w) \/ CompletionThrows(w) \/ Crash(w) \/ Restart(w)
    PROVE  Typed'
<1> USE FaultsAssumption DEF Typed, TypeOK, BusyHasJob, Fault, PCs, Holding
<1>1. CASE LoopExits(w) \/ Crash(w) \/ Restart(w)
  BY <1>1 DEF LoopExits, Crash, Restart, rowVars
<1>2. CASE CompletionThrows(w)
  <2>1. UNCHANGED <<maxAttempts, attempts, cur, att>>
    BY <1>2 DEF CompletionThrows
  <2>2. pc' \in [Workers -> PCs] /\ faults' \in 0..MaxFaults /\ BusyHasJob'
    BY <1>2 DEF CompletionThrows
  <2>3. /\ status' \in [Jobs -> Statuses]
        /\ lockedBy' \in [Jobs -> Workers \cup {NoWorker}]
        /\ lease' \in [Jobs -> Leases]
    BY <1>2 DEF CompletionThrows, Statuses, Leases
  <2>4. QED
    BY <2>1, <2>2, <2>3
<1>3. QED
  BY <1>1, <1>2

LEMMA ExpiryTyped ==
    ASSUME Typed, NEW j \in Jobs, LeaseExpires(j)
    PROVE  Typed'
BY FaultsAssumption
   DEF Typed, TypeOK, BusyHasJob, LeaseExpires, Fault, workerVars, Leases

LEMMA StepTyped == Typed /\ [Next]_vars => Typed'
<1> SUFFICES ASSUME Typed, [Next]_vars
             PROVE  Typed'
  OBVIOUS
<1>1. ASSUME NEW w \in Workers, WorkerStep(w)
      PROVE  Typed'
  BY <1>1, ClaimTyped, HandlerTyped, ReportTyped, FaultTyped DEF WorkerStep
<1>2. CASE UNCHANGED vars
  BY <1>2 DEF Typed, TypeOK, BusyHasJob, vars, rowVars, workerVars
<1>3. QED
  BY <1>1, <1>2, EnqueueTyped, ExpiryTyped DEF Next

LEMMA InitTyped == Init => Typed
BY FaultsAssumption DEF Init, Typed, TypeOK, BusyHasJob, Statuses, Leases, PCs, Holding

LEMMA AlwaysTyped == Spec => []Typed
BY InitTyped, StepTyped, PTL DEF Spec

(* Every reachable state of the queue has its type. *)
THEOREM TypeCorrect == Spec => []TypeOK
<1>1. Typed => TypeOK
  BY DEF Typed
<1>2. QED
  BY <1>1, AlwaysTyped, PTL
-----------------------------------------------------------------------------
(* However slow the handlers are *)

(* A run's attempt was counted on the row, so the next claim exceeds it. *)
AttemptCounted ==
    \A w \in Workers, j \in Jobs : Holds(w, j) => att[w] <= attempts[j]

RunInv == Typed /\ RunningHasLease /\ AttemptCounted /\ AttemptIdentifiesRun

LEMMA RunStep == RunInv /\ [Next]_vars => RunInv'
<1> SUFFICES ASSUME RunInv, [Next]_vars
             PROVE  RunInv'
  OBVIOUS
<1> USE DEF Holds
<1>0. Typed /\ Typed'
  BY StepTyped DEF RunInv
<1>1. RunningHasLease'
  <2>1. ASSUME NEW w \in Workers, WorkerStep(w)
        PROVE  RunningHasLease'
    <3>1. CASE CommitClaim(w)
      BY <1>0, <3>1 DEF RunInv, RunningHasLease, Typed, TypeOK, CommitClaim
    <3>2. CASE UpdateProgress(w)
      BY <1>0, <3>2 DEF RunInv, RunningHasLease, Typed, TypeOK, UpdateProgress
    <3>3. ASSUME NEW p \in {"completed", "queued", "failed"}, Report(w, p)
          PROVE  RunningHasLease'
      BY <1>0, <3>3 DEF RunInv, RunningHasLease, Typed, TypeOK, Report
    <3>4. CASE UNCHANGED rowVars
      BY <3>4 DEF RunInv, RunningHasLease, rowVars
    <3>5. CASE CompletionThrows(w)
      BY <1>0, <3>5 DEF RunInv, RunningHasLease, Typed, TypeOK, CompletionThrows
    <3>6. QED
      BY <2>1, <3>1, <3>2, <3>3, <3>4, <3>5
         DEF WorkerStep, LockRow, StartHandler, HandlerReturns, HandlerThrows,
             ReportCompleted, FailOrRequeue, LoopExits, Crash, Restart
  <2>2. ASSUME NEW j \in Jobs, NEW m \in RequestedLimits, Enqueue(j, m)
        PROVE  RunningHasLease'
    BY <1>0, <2>2 DEF RunInv, RunningHasLease, Typed, TypeOK, Enqueue
  <2>3. ASSUME NEW j \in Jobs, LeaseExpires(j)
        PROVE  RunningHasLease'
    BY <1>0, <2>3 DEF RunInv, RunningHasLease, Typed, TypeOK, LeaseExpires
  <2>4. CASE UNCHANGED vars
    BY <2>4 DEF RunInv, RunningHasLease, vars, rowVars
  <2>5. QED
    BY <2>1, <2>2, <2>3, <2>4 DEF Next
<1>2. (AttemptCounted /\ AttemptIdentifiesRun)'
  <2> USE DEF RunInv, AttemptCounted, AttemptIdentifiesRun
  <2>1. ASSUME NEW w \in Workers, CommitClaim(w)
        PROVE  (AttemptCounted /\ AttemptIdentifiesRun)'
    <3> DEFINE j == cur[w]
    <3>1. j \in Jobs /\ cur' = cur
      BY <1>0, <2>1 DEF Typed, BusyHasJob, CommitClaim
    <3>2. attempts' = [attempts EXCEPT ![j] = attempts[j] + 1]
          /\ att' = [att EXCEPT ![w] = attempts[j] + 1]
      BY <2>1 DEF CommitClaim
    <3>3. /\ attempts \in [Jobs -> Nat]
          /\ att \in [Workers -> Nat]
          /\ pc \in [Workers -> PCs]
      BY <1>0 DEF Typed, TypeOK
    <3>4. /\ pc' = [pc EXCEPT ![w] = "claimed"]
          /\ pc[w] = "claiming"
      BY <2>1 DEF CommitClaim
    <3>5. ASSUME NEW v \in Workers, NEW k \in Jobs, Holds(v, k)'
          PROVE  IF v = w THEN k = j /\ att'[v] = attempts[j] + 1
                          ELSE Holds(v, k) /\ att'[v] = att[v]
      BY <3>1, <3>2, <3>3, <3>4, <3>5
    <3>6. \A k \in Jobs : attempts'[k] = IF k = j THEN attempts[k] + 1 ELSE attempts[k]
      BY <3>1, <3>2, <3>3
    <3>7. AttemptCounted'
      BY <3>3, <3>5, <3>6
    <3>8. AttemptIdentifiesRun'
      BY <3>3, <3>5, <3>1
    <3>9. QED
      BY <3>7, <3>8
  <2>2. ASSUME UNCHANGED <<attempts, att>>,
               \A v \in Workers, k \in Jobs : Holds(v, k)' => Holds(v, k)
        PROVE  (AttemptCounted /\ AttemptIdentifiesRun)'
    BY <2>2
  <2>3. ASSUME NEW w \in Workers, WorkerStep(w), ~CommitClaim(w)
        PROVE  (AttemptCounted /\ AttemptIdentifiesRun)'
    <3>1. UNCHANGED <<attempts, att>>
      BY <2>3 DEF WorkerStep, LockRow, StartHandler, UpdateProgress,
           HandlerReturns, HandlerThrows, ReportCompleted, FailOrRequeue, Report,
           LoopExits, CompletionThrows, Crash, Restart, rowVars, workerVars
    <3>2. \A v \in Workers, k \in Jobs : Holds(v, k)' => Holds(v, k)
      BY <1>0, <2>3 DEF WorkerStep, LockRow, StartHandler, UpdateProgress,
           HandlerReturns, HandlerThrows, ReportCompleted, FailOrRequeue, Report,
           LoopExits, CompletionThrows, Crash, Restart, rowVars, workerVars,
           Typed, TypeOK, Holding
    <3>3. QED
      BY <2>2, <3>1, <3>2
  <2>4. ASSUME UNCHANGED <<attempts, workerVars>>
        PROVE  (AttemptCounted /\ AttemptIdentifiesRun)'
    BY <2>4 DEF workerVars
  <2>5. QED
    BY <2>1, <2>3, <2>4
       DEF Next, Enqueue, LeaseExpires, vars, rowVars, workerVars
<1>3. QED
  BY <1>0, <1>1, <1>2 DEF RunInv

LEMMA AlwaysRunInv == Spec => []RunInv
<1>1. Init => RunInv
  BY InitTyped DEF Init, RunInv, RunningHasLease, AttemptCounted,
     AttemptIdentifiesRun, Holds, Holding
<1>2. QED
  BY <1>1, RunStep, PTL DEF Spec

(* A running row always carries a lease, so that some worker's claim can   *)
(* pick it up once the lease has passed, whatever failed before.           *)
THEOREM RunningLeased == Spec => []RunningHasLease
<1>1. RunInv => RunningHasLease
  BY DEF RunInv
<1>2. QED
  BY <1>1, AlwaysRunInv, PTL

(* Two processes on one job are always different attempts of it.           *)
THEOREM AttemptsIdentifyRuns == Spec => []AttemptIdentifiesRun
<1>1. RunInv => AttemptIdentifiesRun
  BY DEF RunInv
<1>2. QED
  BY <1>1, AlwaysRunInv, PTL
-----------------------------------------------------------------------------
(* When handlers renew, or end, within their lease *)

(* The row of a process at work is running, leased and locked by it, or it *)
(* is completed and that process has not been told; nobody has claimed it  *)
(* since.                                                                  *)
OwnRow(w, j) ==
    /\ att[w] = attempts[j]
    /\ \/ status[j] = "running" /\ lease[j] = "live" /\ lockedBy[j] = w
       \/ status[j] = "completed" /\ pc[w] = "errored"

RunnerOwnsRow == \A w \in Workers, j \in Jobs : Holds(w, j) => OwnRow(w, j)

(* A locked row stays claimable until its claim commits. *)
ClaimStands ==
    \A w \in Workers : pc[w] = "claiming" => Claimable(cur[w])

ClaimsDistinct ==
    \A v, w \in Workers :
        pc[v] = "claiming" /\ pc[w] = "claiming" /\ cur[v] = cur[w] => v = w

FinishedUnlocked ==
    \A j \in Jobs :
        status[j] \in Finished => lockedBy[j] = NoWorker /\ lease[j] = "none"

OwnerInv ==
    /\ Typed
    /\ RunnerOwnsRow
    /\ OneRunnerPerJob
    /\ ClaimStands
    /\ ClaimsDistinct
    /\ FinishedUnlocked

LEMMA InitOwnerInv == Init => OwnerInv
BY InitTyped
   DEF Init, OwnerInv, RunnerOwnsRow, OneRunnerPerJob, ClaimStands,
       ClaimsDistinct, FinishedUnlocked, Holds, Holding, Finished

LEMMA EnqueueOwner ==
    ASSUME OwnerInv, NEW j \in Jobs, NEW m \in RequestedLimits, Enqueue(j, m)
    PROVE  OwnerInv'
<1>1. Typed'
  BY EnqueueTyped DEF OwnerInv
<1>2. QED
  BY <1>1 DEF OwnerInv, RunnerOwnsRow, OwnRow, OneRunnerPerJob, ClaimStands,
     ClaimsDistinct, FinishedUnlocked, Holds, Claimable, Enqueue, Typed, TypeOK,
     Finished, workerVars

LEMMA LockRowOwner ==
    ASSUME OwnerInv, NEW w \in Workers, NEW j \in Jobs, LockRow(w, j)
    PROVE  OwnerInv'
<1>1. Typed'
  BY ClaimTyped DEF OwnerInv
<1>2. QED
  BY <1>1 DEF OwnerInv, RunnerOwnsRow, OwnRow, OneRunnerPerJob, ClaimStands,
     ClaimsDistinct, FinishedUnlocked, Holds, Holding, Claimable, Unlocked,
     LockRow, Typed, TypeOK, rowVars

LEMMA CommitClaimOwner ==
    ASSUME OwnerInv, NEW w \in Workers, CommitClaim(w)
    PROVE  OwnerInv'
<1>1. Typed'
  BY ClaimTyped DEF OwnerInv
<1>2. cur[w] \in Jobs
  BY DEF OwnerInv, Typed, BusyHasJob, CommitClaim
<1>3. \A v \in Workers : ~Holds(v, cur[w])
  BY <1>2 DEF OwnerInv, RunnerOwnsRow, OwnRow, ClaimStands, Claimable, CommitClaim
<1> USE <1>2 DEF OwnerInv, Typed, TypeOK, CommitClaim
<1>4. RunnerOwnsRow' /\ OneRunnerPerJob'
  BY <1>3 DEF RunnerOwnsRow, OwnRow, OneRunnerPerJob, Holds, Holding
<1>5. ClaimStands' /\ ClaimsDistinct'
  BY DEF ClaimStands, ClaimsDistinct, Claimable, BusyHasJob
<1>6. FinishedUnlocked'
  BY DEF FinishedUnlocked, Finished
<1>7. QED
  BY <1>1, <1>4, <1>5, <1>6

LEMMA HandlerOwner ==
    ASSUME OwnerInv, NEW w \in Workers,
           StartHandler(w) \/ UpdateProgress(w) \/ HandlerReturns(w) \/ HandlerThrows(w)
    PROVE  OwnerInv'
<1>1. Typed'
  BY HandlerTyped DEF OwnerInv
<1>2. CASE UpdateProgress(w)
  <2>1. cur[w] \in Jobs /\ Holds(w, cur[w])
    BY <1>2 DEF OwnerInv, Typed, BusyHasJob, UpdateProgress, Holds, Holding
  <2>2. lockedBy' = lockedBy /\ lease' = lease
    BY <1>2, <2>1
       DEF OwnerInv, RunnerOwnsRow, OwnRow, UpdateProgress, Typed, TypeOK
  <2>3. QED
    BY <1>1, <1>2, <2>2
       DEF OwnerInv, RunnerOwnsRow, OwnRow, OneRunnerPerJob, ClaimStands,
           ClaimsDistinct, FinishedUnlocked, Holds, Claimable, UpdateProgress,
           workerVars
<1>3. CASE StartHandler(w) \/ HandlerReturns(w) \/ HandlerThrows(w)
  BY <1>1, <1>3
     DEF OwnerInv, RunnerOwnsRow, OwnRow, OneRunnerPerJob, ClaimStands,
         ClaimsDistinct, FinishedUnlocked, Holds, Holding, Claimable,
         StartHandler, HandlerReturns, HandlerThrows, Typed, TypeOK, rowVars
<1>4. QED
  BY <1>2, <1>3

LEMMA ReportOwner ==
    ASSUME OwnerInv, NEW w \in Workers, pc[w] \in {"succeeded", "errored"},
           NEW p \in {"completed", "queued", "failed"}, Report(w, p)
    PROVE  OwnerInv'
<1> DEFINE j == cur[w]
<1>1. Typed'
  <2>1. OwnerInv => Typed
    BY DEF OwnerInv
  <2>2. QED
    BY <2>1 DEF Typed, TypeOK, BusyHasJob, Report, Statuses, Leases, PCs, Holding
<1>2. j \in Jobs /\ Holds(w, j)
  BY DEF OwnerInv, Typed, BusyHasJob, Holds, Holding
<1>3. \A v \in Workers : Holds(v, j) => v = w
  BY <1>2 DEF OwnerInv, OneRunnerPerJob
<1> USE <1>2 DEF OwnerInv, Typed, TypeOK, Report
<1>4. RunnerOwnsRow' /\ OneRunnerPerJob'
  BY <1>3 DEF RunnerOwnsRow, OwnRow, OneRunnerPerJob, Holds, Holding
<1>5. ClaimStands' /\ ClaimsDistinct'
  BY DEF ClaimStands, ClaimsDistinct, Claimable, Unlocked, BusyHasJob
<1>6. FinishedUnlocked'
  BY DEF FinishedUnlocked, Finished
<1>7. QED
  BY <1>1, <1>4, <1>5, <1>6

(* A completion that throws leaves its process with the row it holds,      *)
(* running as before or completed.                                         *)
LEMMA ThrowsOwner ==
    ASSUME OwnerInv, NEW w \in Workers, CompletionThrows(w)
    PROVE  OwnerInv'
<1> DEFINE j == cur[w]
<1>1. Typed'
  BY FaultTyped DEF OwnerInv
<1>2. j \in Jobs /\ Holds(w, j) /\ pc[w] = "succeeded"
  BY DEF OwnerInv, Typed, BusyHasJob, Holds, Holding, CompletionThrows
<1>3. \A v \in Workers : Holds(v, j) => v = w
  BY <1>2 DEF OwnerInv, OneRunnerPerJob
<1> USE <1>2 DEF OwnerInv, Typed, TypeOK, CompletionThrows
<1>4. RunnerOwnsRow' /\ OneRunnerPerJob'
  BY <1>3 DEF RunnerOwnsRow, OwnRow, OneRunnerPerJob, Holds, Holding
<1>5. ClaimStands' /\ ClaimsDistinct'
  BY DEF ClaimStands, ClaimsDistinct, Claimable, Unlocked, BusyHasJob
<1>6. FinishedUnlocked'
  BY DEF FinishedUnlocked, Finished
<1>7. QED
  BY <1>1, <1>4, <1>5, <1>6

LEMMA FaultOwner ==
    ASSUME OwnerInv, NEW w \in Workers,
           LoopExits(w) \/ Crash(w) \/ Restart(w)
    PROVE  OwnerInv'
<1>1. Typed'
  BY FaultTyped DEF OwnerInv
<1>2. QED
  BY <1>1
     DEF OwnerInv, RunnerOwnsRow, OwnRow, OneRunnerPerJob, ClaimStands,
         ClaimsDistinct, FinishedUnlocked, Holds, Holding, Claimable, LoopExits,
         Crash, Restart, Typed, TypeOK, rowVars

LEMMA ExpiryOwner ==
    ASSUME ~SlowHandlers, OwnerInv, NEW j \in Jobs, LeaseExpires(j)
    PROVE  OwnerInv'
<1>1. Typed'
  BY ExpiryTyped DEF OwnerInv
<1>2. QED
  BY <1>1
     DEF OwnerInv, RunnerOwnsRow, OwnRow, OneRunnerPerJob, ClaimStands,
         ClaimsDistinct, FinishedUnlocked, Holds, Claimable, LeaseExpires, Typed,
         TypeOK, Finished, workerVars

LEMMA OwnerStep ==
    ASSUME ~SlowHandlers
    PROVE  OwnerInv /\ [Next]_vars => OwnerInv'
<1> SUFFICES ASSUME OwnerInv, [Next]_vars
             PROVE  OwnerInv'
  OBVIOUS
<1>1. ASSUME NEW w \in Workers, WorkerStep(w)
      PROVE  OwnerInv'
  <2>1. CASE ReportCompleted(w) \/ FailOrRequeue(w)
    BY <2>1, ReportOwner DEF ReportCompleted, FailOrRequeue
  <2>2. QED
    BY <1>1, <2>1, LockRowOwner, CommitClaimOwner, HandlerOwner, ThrowsOwner,
       FaultOwner DEF WorkerStep
<1>2. CASE UNCHANGED vars
  BY <1>2, StepTyped
     DEF OwnerInv, RunnerOwnsRow, OwnRow, OneRunnerPerJob, ClaimStands,
         ClaimsDistinct, FinishedUnlocked, Holds, Claimable, vars, rowVars,
         workerVars
<1>3. QED
  BY <1>1, <1>2, EnqueueOwner, ExpiryOwner DEF Next

LEMMA AlwaysOwnerInv ==
    ASSUME ~SlowHandlers
    PROVE  Spec => []OwnerInv
BY InitOwnerInv, OwnerStep, PTL DEF Spec

(* With handlers that respect their lease, no two processes ever run one   *)
(* job: the inductive invariant adds that a row being run is locked by its *)
(* runner and that a claimed row has none.                                 *)
THEOREM OneRunner ==
    ASSUME ~SlowHandlers
    PROVE  Spec => []OneRunnerPerJob
<1>1. OwnerInv => OneRunnerPerJob
  BY DEF OwnerInv
<1>2. QED
  BY <1>1, AlwaysOwnerInv, PTL

(* Under the same assumption no step of any process changes the status,    *)
(* the owner or the lease of a finished row, but for the one in which the  *)
(* process that completed it and was not told so takes that back, to what  *)
(* the attempts begun on the row say.                                      *)
THEOREM FinishedStays ==
    ASSUME ~SlowHandlers
    PROVE  Spec => FinishedRowsAreFinal
<1> DEFINE Stays(j) == status'[j] = status[j] \/ TakenBack(j)
           Final == \A j \in Jobs : status[j] \in Finished =>
                        /\ status'[j] = status[j] \/ TakenBack(j)
                        /\ lockedBy'[j] = NoWorker
                        /\ lease'[j] = "none"
<1>1. OwnerInv /\ OwnerInv' /\ [Next]_vars => [Final]_vars
  <2> SUFFICES ASSUME OwnerInv, OwnerInv', Next,
                      NEW j \in Jobs, status[j] \in Finished
               PROVE  /\ Stays(j)
                      /\ lockedBy'[j] = NoWorker
                      /\ lease'[j] = "none"
    OBVIOUS
  <2> USE DEF OwnerInv, Typed, TypeOK, BusyHasJob, Finished
  <2>0. ASSUME status'[j] = status[j]
        PROVE  lockedBy'[j] = NoWorker /\ lease'[j] = "none"
    BY <2>0 DEF FinishedUnlocked
  <2>1. ASSUME NEW w \in Workers, CommitClaim(w)
        PROVE  status'[j] = status[j]
    BY <2>1 DEF ClaimStands, Claimable, CommitClaim
  <2>2. ASSUME NEW w \in Workers, ReportCompleted(w)
        PROVE  status'[j] = status[j]
    <3>1. Holds(w, cur[w]) /\ cur[w] \in Jobs /\ pc[w] = "succeeded"
      BY <2>2 DEF ReportCompleted, Holds, Holding
    <3>2. cur[w] # j
      BY <3>1 DEF RunnerOwnsRow, OwnRow
    <3>3. QED
      BY <2>2, <3>2 DEF ReportCompleted, Report
  <2>3. ASSUME NEW w \in Workers, FailOrRequeue(w)
        PROVE  Stays(j) /\ lockedBy'[j] = NoWorker /\ lease'[j] = "none"
    <3>1. Holds(w, cur[w]) /\ cur[w] \in Jobs /\ pc[w] = "errored"
      BY <2>3 DEF FailOrRequeue, Holds, Holding
    <3>2. CASE cur[w] # j
      BY <2>0, <2>3, <3>2 DEF FailOrRequeue, Report
    <3>3. CASE cur[w] = j
      <4>1. status[j] = "completed" /\ att[w] = attempts[j]
        BY <3>1, <3>3 DEF RunnerOwnsRow, OwnRow
      <4>2. /\ status'[j] = IF attempts[j] < maxAttempts[j] THEN "queued" ELSE "failed"
            /\ cur'[w] = NoJob
            /\ lockedBy'[j] = NoWorker
            /\ lease'[j] = "none"
        BY <2>3, <3>3, <4>1 DEF FailOrRequeue, Report, ShouldRetry
      <4>3. QED
        BY <3>1, <3>3, <4>1, <4>2 DEF TakenBack
    <3>4. QED
      BY <3>2, <3>3
  <2>4. ASSUME NEW w \in Workers, CompletionThrows(w)
        PROVE  status'[j] = status[j]
    <3>1. Holds(w, cur[w]) /\ cur[w] \in Jobs /\ pc[w] = "succeeded"
      BY <2>4 DEF CompletionThrows, Holds, Holding
    <3>2. cur[w] # j
      BY <3>1 DEF RunnerOwnsRow, OwnRow
    <3>3. QED
      BY <2>4, <3>2 DEF CompletionThrows
  <2>5. ASSUME NEW i \in Jobs, NEW m \in RequestedLimits, Enqueue(i, m)
        PROVE  status'[j] = status[j]
    BY <2>5 DEF Enqueue
  <2>6. CASE status' = status
    BY <2>0, <2>6
  <2>7. QED
    BY <2>0, <2>1, <2>2, <2>3, <2>4, <2>5, <2>6
       DEF Next, WorkerStep, LockRow, StartHandler, UpdateProgress,
           HandlerReturns, HandlerThrows, LoopExits, Crash, Restart,
           LeaseExpires, rowVars
<1>2. QED
  BY <1>1, AlwaysOwnerInv, OwnerStep, PTL DEF FinishedRowsAreFinal, Spec

-----------------------------------------------------------------------------
(* The queue implements JobLifecycle *)

LEMMA ClaimBegins ==
    ASSUME OwnerInv, NEW w \in Workers, CommitClaim(w)
    PROVE  Lifecycle!Begin(cur[w], w) /\ cur[w] \in Jobs
<1> DEFINE j == cur[w]
<1>1. j \in Jobs /\ Claimable(j)
  BY DEF OwnerInv, Typed, BusyHasJob, ClaimStands, CommitClaim
<1>2. \A v \in Workers : ~Holds(v, j)
  BY <1>1 DEF OwnerInv, RunnerOwnsRow, OwnRow, Claimable
<1>3. \A v \in Workers, k \in Jobs :
          Holds(v, k)' <=> Holds(v, k) \/ (v = w /\ k = j)
  BY <1>1 DEF OwnerInv, Typed, TypeOK, Holds, Holding, CommitClaim
<1>4. Runners' = [Runners EXCEPT ![j] = {w}] /\ Runners[j] = {}
  BY <1>1, <1>2, <1>3 DEF Runners
<1>5. QED
  BY <1>1, <1>4 DEF Lifecycle!Begin, Claimable, CommitClaim

(* Ending worker w's attempt, whatever happens to the row. *)
LEMMA RunnerLeaves ==
    ASSUME OwnerInv, NEW w \in Workers, pc[w] \in Holding,
           NEW q \in {"idle", "down"},
           pc' = [pc EXCEPT ![w] = q], cur' = [cur EXCEPT ![w] = NoJob]
    PROVE  /\ cur[w] \in Jobs
           /\ Runners[cur[w]] = {w}
           /\ Runners' = [Runners EXCEPT ![cur[w]] = {}]
<1> DEFINE j == cur[w]
<1>1. j \in Jobs /\ Holds(w, j)
  BY DEF OwnerInv, Typed, BusyHasJob, Holds
<1>2. \A v \in Workers : Holds(v, j) => v = w
  BY <1>1 DEF OwnerInv, OneRunnerPerJob
<1>3. \A v \in Workers, k \in Jobs : Holds(v, k)' <=> Holds(v, k) /\ v # w
  BY <1>1 DEF OwnerInv, Typed, TypeOK, Holds, Holding
<1>4. \A k \in Jobs : k # j => ~Holds(w, k)
  BY DEF Holds
<1>5. Runners[j] = {w}
  BY <1>1, <1>2 DEF Runners
<1>6. Runners' = [Runners EXCEPT ![j] = {}]
  BY <1>1, <1>2, <1>3, <1>4 DEF Runners
<1>7. QED
  BY <1>1, <1>5, <1>6

LEMMA ReportEnds ==
    ASSUME OwnerInv, NEW w \in Workers, ReportCompleted(w) \/ FailOrRequeue(w)
    PROVE  \E p \in {"queued", "completed", "failed"} :
               Lifecycle!End(cur[w], w, p) /\ cur[w] \in Jobs
<1> DEFINE j == cur[w]
<1>1. PICK p \in {"queued", "completed", "failed"} :
          /\ Report(w, p)
          /\ p = "completed" => pc[w] = "succeeded"
          /\ p = "queued" => att[w] < maxAttempts[j]
          /\ p = "failed" => ~(att[w] < maxAttempts[j])
  BY DEF ReportCompleted, FailOrRequeue, ShouldRetry
<1>2. pc[w] \in Holding
  BY DEF ReportCompleted, FailOrRequeue, Holding
<1>3. j \in Jobs /\ Runners[j] = {w} /\ Runners' = [Runners EXCEPT ![j] = {}]
  BY <1>1, <1>2, RunnerLeaves DEF Report
<1>4. /\ att[w] = attempts[j]
      /\ status[j] = "running" \/ (status[j] = "completed" /\ p # "completed")
  BY <1>1, <1>2, <1>3
     DEF OwnerInv, RunnerOwnsRow, OwnRow, Holds, ReportCompleted, FailOrRequeue,
         Report
<1>5. attempts[j] \in Nat /\ maxAttempts[j] \in Nat
  BY <1>3 DEF OwnerInv, Typed, TypeOK
<1>6. Lifecycle!MayEndAs(j, p)
  BY <1>1, <1>4, <1>5 DEF Lifecycle!MayEndAs
<1>7. QED
  BY <1>1, <1>3, <1>4, <1>6 DEF Lifecycle!End, Report

LEMMA FaultLoses ==
    ASSUME OwnerInv, NEW w \in Workers, LoopExits(w) \/ Crash(w) \/ Restart(w)
    PROVE  UNCHANGED Lifecycle!vars \/ (cur[w] \in Jobs /\ Lifecycle!Lose(cur[w], w))
<1>1. CASE (LoopExits(w) \/ Crash(w)) /\ pc[w] \in Holding
  <2>1. /\ cur[w] \in Jobs
        /\ Runners[cur[w]] = {w}
        /\ Runners' = [Runners EXCEPT ![cur[w]] = {}]
    BY <1>1, RunnerLeaves DEF LoopExits, Crash
  <2>2. QED
    BY <1>1, <2>1 DEF Lifecycle!Lose, LoopExits, Crash, rowVars
<1>2. CASE ~((LoopExits(w) \/ Crash(w)) /\ pc[w] \in Holding)
  <2>1. \A v \in Workers, k \in Jobs : Holds(v, k)' <=> Holds(v, k)
    BY <1>2 DEF OwnerInv, Typed, TypeOK, Holds, Holding, LoopExits, Crash, Restart
  <2>2. Runners' = Runners
    BY <2>1 DEF Runners
  <2>3. QED
    BY <2>2 DEF Lifecycle!vars, LoopExits, Crash, Restart, rowVars
<1>3. QED
  BY <1>1, <1>2

LEMMA ThrowsIsUntold ==
    ASSUME OwnerInv, NEW w \in Workers, CompletionThrows(w)
    PROVE  UNCHANGED Lifecycle!vars \/ (cur[w] \in Jobs /\ Lifecycle!EndUntold(cur[w], w))
<1> DEFINE j == cur[w]
<1>1. j \in Jobs /\ Holds(w, j) /\ pc[w] = "succeeded"
  BY DEF OwnerInv, Typed, BusyHasJob, Holds, Holding, CompletionThrows
<1>2. \A v \in Workers, k \in Jobs : Holds(v, k)' <=> Holds(v, k)
  BY DEF OwnerInv, Typed, TypeOK, Holds, Holding, CompletionThrows
<1>3. Runners' = Runners
  BY <1>2 DEF Runners
<1>4. Runners[j] = {w}
  BY <1>1 DEF OwnerInv, OneRunnerPerJob, Runners
<1>5. status[j] = "running"
  BY <1>1 DEF OwnerInv, RunnerOwnsRow, OwnRow
<1>6. QED
  BY <1>1, <1>3, <1>4, <1>5
     DEF Lifecycle!vars, Lifecycle!EndUntold, CompletionThrows

(* Steps in which no process takes or leaves a job. *)
LEMMA QuietSteps ==
    ASSUME OwnerInv, NEW w \in Workers,
           \/ \E j \in Jobs : LockRow(w, j)
           \/ StartHandler(w)
           \/ UpdateProgress(w)
           \/ HandlerReturns(w)
           \/ HandlerThrows(w)
    PROVE  UNCHANGED Lifecycle!vars
<1>1. \A v \in Workers, k \in Jobs : Holds(v, k)' <=> Holds(v, k)
  BY DEF OwnerInv, Typed, TypeOK, Holds, Holding, LockRow, StartHandler,
     UpdateProgress, HandlerReturns, HandlerThrows, workerVars
<1>2. Runners' = Runners
  BY <1>1 DEF Runners
<1>3. QED
  BY <1>2 DEF Lifecycle!vars, LockRow, StartHandler, UpdateProgress,
     HandlerReturns, HandlerThrows, rowVars

LEMMA LifecycleStep ==
    ASSUME ~SlowHandlers
    PROVE  OwnerInv /\ [Next]_vars => [Lifecycle!Next]_(Lifecycle!vars)
<1> SUFFICES ASSUME OwnerInv, [Next]_vars
             PROVE  [Lifecycle!Next]_(Lifecycle!vars)
  OBVIOUS
<1>1. ASSUME NEW w \in Workers, WorkerStep(w)
      PROVE  [Lifecycle!Next]_(Lifecycle!vars)
  BY <1>1, ClaimBegins, ReportEnds, FaultLoses, ThrowsIsUntold, QuietSteps
     DEF WorkerStep, Lifecycle!Next
<1>2. ASSUME NEW j \in Jobs, NEW m \in RequestedLimits, Enqueue(j, m)
      PROVE  Lifecycle!Next
  <2>1. Runners' = Runners
    BY <1>2 DEF Enqueue, Runners, Holds, workerVars
  <2>2. Lifecycle!Submit(j, EffectiveLimit(m))
    BY <1>2, <2>1 DEF Enqueue, Lifecycle!Submit
  <2>3. QED
    BY <2>2 DEF Lifecycle!Next
<1>3. ASSUME UNCHANGED <<status, maxAttempts, attempts, workerVars>>
      PROVE  UNCHANGED Lifecycle!vars
  BY <1>3 DEF Lifecycle!vars, Runners, Holds, workerVars
<1>4. QED
  BY <1>1, <1>2, <1>3 DEF Next, LeaseExpires, vars, rowVars

(* With handlers that respect their lease the queue keeps the promise of   *)
(* JobLifecycle, step by step.                                             *)
THEOREM QueueImplementsLifecycle ==
    ASSUME ~SlowHandlers
    PROVE  Spec => ImplementsLifecycle
<1>1. Init => Lifecycle!Init
  BY DEF Init, Lifecycle!Init, Runners, Holds, Holding
<1>2. QED
  BY <1>1, LifecycleStep, AlwaysOwnerInv, PTL
     DEF Spec, ImplementsLifecycle, Lifecycle!Spec
=============================================================================
