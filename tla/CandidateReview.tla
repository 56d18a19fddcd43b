--------------------------- MODULE CandidateReview ---------------------------
(***************************************************************************)
(* The review of dictionary candidates, in features/productConfigAgent/    *)
(* dictionary: values and names of fields the dictionary does not know     *)
(* become candidates, a person approves, splits or rejects them, one by    *)
(* one or in a batch run by the background job queue, and a recheck        *)
(* resolves the candidates that a change of the dictionary has settled.    *)
(*                                                                         *)
(* A review is a series of statements outside any transaction.  What it    *)
(* changes counts only once the dictionary version is raised, which is     *)
(* what makes caches load it, and once the documents it affects are        *)
(* marked.                                                                 *)
(*                                                                         *)
(* Abstractions.  The dictionary is the set of keys it settles: an alias,  *)
(* a value kind or a split resolution.  The terms and further aliases of   *)
(* a payload, which do not bear on the candidate's own key, are left out,  *)
(* as are moving a value to another term type, creating one without the    *)
(* alias of the candidate on request (suppressCandidateRawAlias), and      *)
(* refreshing the affected documents at once.  A field name is a candidate *)
(* of one product type.                                                    *)
(* The reads of the batch of term types are one step with its              *)
(* transaction.                                                            *)
(***************************************************************************)
EXTENDS Naturals, Sequences, FiniteSets

CONSTANTS
    Values,      \* dictionary_candidates, ids used and still free
    TermTypes,   \* dictionary_term_type_candidates
    Waiting,     \* candidates that wait for a review at first
    KeyOf,       \* normalizedRawValue, normalizedFieldName
    Requests,    \* requests that review one candidate
    Batch,       \* the background job
    Operations,  \* its operations
    BatchDefers, \* deferCandidateRecheck of the batch
    Deferred,    \* the deferred recheck
    MaxAttempts, \* attempts of a job
    MaxFaults    \* bound on errors and restarts

Candidates == Values \cup TermTypes
Keys       == {KeyOf[c] : c \in Candidates}
Indices    == DOMAIN Operations
Actions    == {"approve", "retype", "split", "reject"}

VARIABLES
    status,    \* status of the candidates
    known,     \* keys the dictionary settles
    published, \* those it settled when its version was last raised
    at,        \* what each request, the job and the recheck do
    op,        \* operation each request and the job are at
    results,   \* resultByOperationIndex of the running job
    progress,  \* progress.operationResults in the row of the job
    attempts,  \* attempts in the row of the job
    affected,  \* affectedDocumentIds of the running job, as keys
    owed,      \* changes whose documents are not marked yet, and their actor
    todo,      \* what each recheck has still to save
    again,     \* candidateRecheckJobPending
    waiting,   \* actors whose deferred recheck has not begun
    found,     \* what the extraction has found
    lost,      \* a deferred recheck failed or died with the process
    faults

dictionary == <<known, published>>
job        == <<results, progress, attempts, affected>>
recheck    == <<again, waiting, lost>>
vars == <<status, dictionary, at, op, job, owed, todo, recheck, found, faults>>

Statuses == {"none", "pending", "approved", "split", "rejected", "auto_resolved", "done"}
Outcomes == {"none", "ok", "failed"}
Op == [candidate : Candidates, action : Actions, defer : BOOLEAN]
NoOp == [action |-> "none"]

Actors == Requests \cup {Batch}

ASSUME ActorAssumption     == Batch \notin Requests /\ Deferred \notin Actors
ASSUME BoundsAssumption    == MaxAttempts \in Nat \ {0} /\ MaxFaults \in Nat
ASSUME OperationAssumption ==
    /\ Operations \in Seq(Op)
    /\ \A i, j \in Indices : Operations[i] = Operations[j] => i = j

TypeOK ==
    /\ status \in [Candidates -> Statuses]
    /\ known \subseteq Keys /\ published \subseteq known
    /\ at \in [Actors \cup {Deferred} ->
                 {"new", "queued", "next", "write", "save", "resolve", "bump", "recheck",
                  "rechecking", "mark", "off", "timer", "answered", "failed"}]
    /\ op \in [Actors -> Op \cup {NoOp}]
    /\ results \in [Indices -> Outcomes] /\ progress \in [Indices -> Outcomes]
    /\ attempts \in 0..(MaxAttempts + MaxFaults)
    /\ affected \subseteq Keys
    /\ owed \subseteq Actors \X Keys
    /\ DOMAIN todo = Actors \cup {Deferred}
    /\ again \in BOOLEAN /\ lost \in BOOLEAN
    /\ waiting \subseteq Actors
    /\ found \in [do : {"nothing", "insert", "save"}, candidates : SUBSET Candidates]
    /\ faults \in 0..MaxFaults

Nothing == [do |-> "nothing", candidates |-> {}]
NoRow   == [c \in {} |-> "done"]

Init ==
    /\ status = [c \in Candidates |-> IF c \in Waiting THEN "pending" ELSE "none"]
    /\ known = {} /\ published = {}
    /\ at = [a \in Actors \cup {Deferred} |->
               IF a = Batch THEN "queued" ELSE IF a = Deferred THEN "off" ELSE "new"]
    /\ op = [a \in Actors |-> NoOp]
    /\ results = [i \in Indices |-> "none"] /\ progress = results
    /\ attempts = 0 /\ affected = {} /\ owed = {}
    /\ todo = [a \in Actors \cup {Deferred} |-> NoRow]
    /\ again = FALSE /\ waiting = {} /\ lost = FALSE
    /\ found = Nothing
    /\ faults = 0

Fault   == faults < MaxFaults /\ faults' = faults + 1
Go(a, stage) == at' = [at EXCEPT ![a] = stage]

-----------------------------------------------------------------------------
(* The rows of the candidates *)

Same(c)        == {d \in Candidates : KeyOf[d] = KeyOf[c] /\ d # c}
Approved       == {"approved", "split"}
IsApproved(c)  == status[c] \in Approved
Taken(c, s)    == \E d \in Same(c) :
                      status[d] = s \/ (s \in Approved /\ IsApproved(d))
Set(c, s)      == status' = [status EXCEPT ![c] = s]

(* A save whose status another candidate of the key has is merged: the     *)
(* row gets a status of its own instead.                                   *)
Decide(c, s) == Set(c, IF Taken(c, s) THEN "done" ELSE s)

Changing(o) == o.action # "reject"
IsFast(o)   == o.candidate \in TermTypes /\ o.action = "approve"
KeyOfOp(o)  == KeyOf[o.candidate]

(* createValueCandidate, createTermTypeCandidate: a normalization that     *)
(* does not find the key in its cache ...                                  *)
Find(k) ==
    /\ found = Nothing
    /\ k \notin published
    /\ LET ofKey == {c \in Candidates : KeyOf[c] = k}
           pending == {c \in ofKey : status[c] = "pending"}
       IN  /\ \A c \in ofKey : status[c] # "rejected"
           /\ found' = IF pending # {} THEN [do |-> "save", candidates |-> pending]
                                       ELSE [do |-> "insert", candidates |-> ofKey]
    /\ UNCHANGED <<status, dictionary, at, op, job, owed, todo, recheck, faults>>

(* ... adds a candidate unless one is pending by then, ...                 *)
Insert ==
    /\ found.do = "insert"
    /\ LET free == {c \in found.candidates : status[c] = "none"} IN
       \/ /\ \A c \in found.candidates : status[c] # "pending"
          /\ \E c \in free : Set(c, "pending")
       \/ /\ free = {} \/ \E c \in found.candidates : status[c] = "pending"
          /\ UNCHANGED status
    /\ found' = Nothing
    /\ UNCHANGED <<dictionary, at, op, job, owed, todo, recheck, faults>>

(* ... or saves the one it has read, status included, which the unique key *)
(* refuses when another has become pending.                                *)
Save ==
    /\ found.do = "save"
    /\ \E c \in found.candidates :
          \/ ~Taken(c, "pending") /\ Set(c, "pending")
          \/ UNCHANGED status
    /\ found' = Nothing
    /\ UNCHANGED <<dictionary, at, op, job, owed, todo, recheck, faults>>

-----------------------------------------------------------------------------
(* One operation: reviewCandidateAndRefresh of a request, and the same     *)
(* operation in a batch.                                                   *)

Request(r, o) ==
    /\ at[r] = "new"
    /\ status[o.candidate] # "none"
    /\ op' = [op EXCEPT ![r] = o]
    /\ Go(r, "write")
    /\ UNCHANGED <<status, dictionary, job, owed, todo, recheck, found, faults>>

(* What follows an operation: a request raises the version, a batch goes   *)
(* on and raises it once.                                                  *)
Done(a) ==
    IF a = Batch
    THEN LET i == CHOOSE i \in Indices : Operations[i] = op[a] IN
         /\ results' = [results EXCEPT ![i] = "ok"]
         /\ affected' = affected \cup {KeyOfOp(op[a])}
         /\ Go(a, "next")
         /\ UNCHANGED <<progress, attempts>>
    ELSE Go(a, IF Changing(op[a]) THEN "bump" ELSE "answered") /\ UNCHANGED job

(* Mutant: creating a value forgets the alias of the candidate itself.     *)
LearnsLess(o) == IsFast(o) \/ o.action = "retype"

(* Operations that settle the candidate's key before they save it.         *)
Learns(o) == IsFast(o) \/ o.action \in {"approve", "retype"}

Learn(a) ==
    /\ known' = known \cup {KeyOfOp(op[a])}
    /\ owed' = owed \cup {<<a, KeyOfOp(op[a])>>}
    /\ UNCHANGED published

(* rejectValueCandidate, rejectTermTypeCandidate                           *)
Reject(a) ==
    /\ at[a] = "write" /\ op[a].action = "reject"
    /\ Decide(op[a].candidate, "rejected")
    /\ Done(a)
    /\ UNCHANGED <<dictionary, op, owed, todo, recheck, found, faults>>

(* reviewTermTypeCandidatesBatch and splitTermTypeCandidate are one        *)
(* transaction.                                                            *)
ReviewTermType(a) ==
    LET c == op[a].candidate IN
    /\ at[a] = "write" /\ c \in TermTypes /\ op[a].action \in {"approve", "split"}
    /\ Learn(a)
    /\ Decide(c, IF op[a].action = "split" THEN "split" ELSE "approved")
    /\ Done(a)
    /\ UNCHANGED <<op, todo, recheck, found, faults>>

(* approveValueCandidateAsAlias, createValueFromCandidate and              *)
(* updateTermTypeValueKind write the dictionary first, splitValueCandidate *)
(* writes that of the parts.                                               *)
WriteDictionary(a) ==
    /\ at[a] = "write" /\ op[a].candidate \in Values /\ op[a].action # "reject"
    /\ IF Learns(op[a]) THEN Learn(a) ELSE UNCHANGED <<dictionary, owed>>
    /\ Go(a, "save")
    /\ UNCHANGED <<status, op, job, todo, recheck, found, faults>>

(* saveValueCandidateAsApproved.  updateTermTypeValueKind saves without    *)
(* it: it throws when another candidate of the key is approved.            *)
SaveApproved(a) ==
    LET c == op[a].candidate IN
    /\ at[a] = "save"
    /\ op[a].action = "retype" => ~Taken(c, "approved")
    /\ Decide(c, IF op[a].action = "split" THEN "split" ELSE "approved")
    /\ IF op[a].action = "split" THEN Go(a, "resolve") /\ UNCHANGED job ELSE Done(a)
    /\ UNCHANGED <<dictionary, op, owed, todo, recheck, found, faults>>

(* The split resolutions of splitValueCandidate.                           *)
SaveResolutions(a) ==
    /\ at[a] = "resolve"
    /\ Learn(a)
    /\ Done(a)
    /\ UNCHANGED <<status, op, todo, recheck, found, faults>>

-----------------------------------------------------------------------------
(* After the operations: the version, the recheck, the marks *)

Defers(a) == IF a = Batch THEN BatchDefers ELSE op[a].defer

Bump(a) ==
    /\ at[a] = "bump"
    /\ published' = known
    /\ Go(a, IF Defers(a) THEN "mark" ELSE "recheck")
    /\ UNCHANGED <<status, known, op, job, owed, todo, recheck, found, faults>>

(* recheckPendingCandidatesAfterDictionaryUpdate reads the candidates; it  *)
(* resolves those the dictionary settles, and those no normalization       *)
(* refers to any more.                                                     *)
Recheck(a) ==
    LET pending == {c \in Candidates : status[c] = "pending"}
        settled == {c \in pending : KeyOf[c] \in known}
    IN
    /\ at[a] = "recheck"
    /\ \E unreferenced \in SUBSET pending :
          todo' = [todo EXCEPT ![a] = [c \in settled \cup unreferenced |->
                      IF c \in unreferenced THEN "done" ELSE "auto_resolved"]]
    /\ Go(a, "rechecking")
    /\ waiting' = IF a = Deferred THEN {} ELSE waiting
    /\ UNCHANGED <<status, dictionary, op, job, owed, again, lost, found, faults>>

(* It saves them one by one, as it has read them.                          *)
Resolve(a) ==
    /\ at[a] = "rechecking"
    /\ \E c \in DOMAIN todo[a] :
          /\ Decide(c, todo[a][c])
          /\ todo' = [todo EXCEPT ![a] = [d \in DOMAIN @ \ {c} |-> @[d]]]
    /\ UNCHANGED <<dictionary, at, op, job, owed, recheck, found, faults>>

Rechecked(a) ==
    /\ at[a] = "rechecking" /\ DOMAIN todo[a] = {}
    /\ Go(a, "mark")
    /\ UNCHANGED <<status, dictionary, op, job, owed, todo, recheck, found, faults>>

Schedule(a) ==
    /\ again' = (again \/ at[Deferred] \in {"recheck", "rechecking", "mark"})
    /\ waiting' = waiting \cup {a}
    /\ UNCHANGED lost

ScheduledAt == IF at[Deferred] = "off" THEN "timer" ELSE at[Deferred]

(* markDocumentsDictionaryDirty, then scheduleDeferredCandidateRecheck.    *)
Mark(a) ==
    LET keys == IF a = Batch THEN affected ELSE {KeyOfOp(op[a])} IN
    /\ at[a] = "mark" /\ a \in Actors
    /\ owed' = owed \ ({a} \X keys)
    /\ IF Defers(a)
       THEN Schedule(a) /\ at' = [at EXCEPT ![a] = "answered", ![Deferred] = ScheduledAt]
       ELSE Go(a, "answered") /\ UNCHANGED recheck
    /\ UNCHANGED <<status, dictionary, op, job, todo, found, faults>>

Timer ==
    /\ at[Deferred] = "timer"
    /\ Go(Deferred, "recheck")
    /\ UNCHANGED <<status, dictionary, op, job, owed, todo, recheck, found, faults>>

(* Mutant: a review during the recheck is not followed by another.         *)
FinallyOff == Go(Deferred, "off")

Finally == Go(Deferred, IF again THEN "timer" ELSE "off")

EndDeferred ==
    /\ at[Deferred] = "mark"
    /\ Finally
    /\ again' = FALSE
    /\ UNCHANGED <<status, dictionary, op, job, owed, todo, waiting, lost, found, faults>>

-----------------------------------------------------------------------------
(* The batch: runCandidateReviewBatchBackgroundJob, reviewCandidatesBatch *)

Ok(res) == {i \in Indices : res[i] = "ok"}

(* Mutant: what an earlier attempt completed is not collected.             *)
NothingCollected(res) == {}

(* Keys whose documents the completed results name.                        *)
Collected(res) == {KeyOfOp(Operations[i]) : i \in Ok(res)}

(* Mutant: an attempt begins with no results.                              *)
NoResults == [i \in Indices |-> "none"]

Resumed == progress

Start ==
    /\ at[Batch] = "queued"
    /\ Go(Batch, "next")
    /\ attempts' = attempts + 1
    /\ results' = Resumed
    /\ affected' = Collected(Resumed)
    /\ UNCHANGED <<status, dictionary, op, progress, owed, todo, recheck, found, faults>>

Unrecorded == {i \in Indices : results[i] # "none" /\ progress[i] = "none"}
Open       == {i \in Indices : results[i] = "none"}
FastOpen   == {i \in Open : IsFast(Operations[i])}
First(i, s) == i \in s /\ \A j \in s : i <= j
AtNext     == at[Batch] = "next" /\ Unrecorded = {}

(* reviewTermTypeCandidatesBatch: all field names, in one transaction.     *)
ReviewTermTypes ==
    LET of(c)  == \E i \in FastOpen : Operations[i].candidate = c
        keys   == {KeyOfOp(Operations[i]) : i \in FastOpen}
    IN
    /\ AtNext /\ FastOpen # {}
    /\ status' = [c \in Candidates |-> IF of(c) THEN "approved" ELSE status[c]]
    /\ known' = known \cup keys
    /\ owed' = owed \cup ({Batch} \X keys)
    /\ results' = [i \in Indices |-> IF i \in FastOpen THEN "ok" ELSE results[i]]
    /\ affected' = affected \cup keys
    /\ UNCHANGED <<published, at, op, progress, attempts, todo, recheck, found, faults>>

NextOperation ==
    /\ AtNext /\ FastOpen = {}
    /\ \E i \in Open : First(i, Open) /\ op' = [op EXCEPT ![Batch] = Operations[i]]
    /\ Go(Batch, "write")
    /\ UNCHANGED <<status, dictionary, job, owed, todo, recheck, found, faults>>

(* onOperationProcessed: the result goes to the row of the job.            *)
Record ==
    /\ at[Batch] = "next"
    /\ \E i \in Unrecorded :
          First(i, Unrecorded) /\ progress' = [progress EXCEPT ![i] = results[i]]
    /\ UNCHANGED <<status, dictionary, at, op, results, attempts, affected, owed, todo,
                   recheck, found, faults>>

Changed == \E i \in Ok(results) : Changing(Operations[i])

AllProcessed ==
    /\ AtNext /\ Open = {}
    /\ Go(Batch, IF Changed THEN "bump" ELSE "answered")
    /\ UNCHANGED <<status, dictionary, op, job, owed, todo, recheck, found, faults>>

-----------------------------------------------------------------------------
(* Errors and restarts *)

Drop(a) == todo' = [todo EXCEPT ![a] = NoRow]

Throw(r) ==
    /\ at[r] \in {"write", "save", "resolve", "bump", "recheck", "rechecking", "mark"}
    /\ Fault
    /\ Go(r, "failed")
    /\ Drop(r)
    /\ UNCHANGED <<status, dictionary, op, job, owed, recheck, found>>

(* An operation that throws has failed; so has one whose result cannot be  *)
(* written, unless that is the result of a field name or a failure.        *)
Failed(i) ==
    /\ results' = [results EXCEPT ![i] = "failed"]
    /\ Go(Batch, "next")
    /\ UNCHANGED <<progress, attempts, affected>>

OperationThrows ==
    /\ Fault
    /\ \/ /\ at[Batch] \in {"write", "save", "resolve"}
          /\ \E i \in Open : First(i, Open) /\ Failed(i)
       \/ /\ at[Batch] = "next"
          /\ \E i \in Unrecorded :
                /\ First(i, Unrecorded) /\ Failed(i)
                /\ ~IsFast(Operations[i]) /\ results[i] = "ok"
    /\ UNCHANGED <<status, dictionary, op, owed, todo, recheck, found>>

(* A retype that meets an approved candidate of the key throws.            *)
Refused(a) ==
    /\ at[a] = "save" /\ op[a].action = "retype" /\ Taken(op[a].candidate, "approved")
    /\ IF a = Batch THEN \E i \in Open : First(i, Open) /\ Failed(i)
                    ELSE Go(a, "failed") /\ UNCHANGED job
    /\ UNCHANGED <<status, dictionary, op, owed, todo, recheck, found, faults>>

AttemptThrows ==
    /\ \/ /\ at[Batch] = "next"
          /\ \E i \in Unrecorded :
                First(i, Unrecorded) /\ (IsFast(Operations[i]) \/ results[i] = "failed")
       \/ at[Batch] \in {"bump", "recheck", "rechecking", "mark"}
    /\ Fault
    /\ Go(Batch, IF attempts < MaxAttempts THEN "queued" ELSE "failed")
    /\ Drop(Batch)
    /\ UNCHANGED <<status, dictionary, op, job, owed, recheck, found>>

DeferredThrows ==
    /\ at[Deferred] \in {"recheck", "rechecking", "mark"}
    /\ Fault
    /\ Finally
    /\ Drop(Deferred)
    /\ again' = FALSE /\ lost' = TRUE
    /\ UNCHANGED <<status, dictionary, op, job, owed, waiting, found>>

(* The process dies: its requests and the timer are gone, the job is taken *)
(* up again when its lease has ended.                                      *)
Restart ==
    /\ Fault
    /\ at' = [a \in Actors \cup {Deferred} |->
                 IF a = Deferred THEN "off"
                 ELSE IF at[a] \in {"new", "queued", "answered", "failed"} THEN at[a]
                 ELSE IF a = Batch THEN "queued" ELSE "failed"]
    /\ todo' = [a \in Actors \cup {Deferred} |-> NoRow]
    /\ found' = Nothing
    /\ again' = FALSE /\ lost' = TRUE
    /\ UNCHANGED <<status, dictionary, op, job, owed, waiting>>

(* A rejection never comes to the recheck.                                 *)
Ops == {o \in Op : /\ o.candidate \in TermTypes => o.action # "retype"
                   /\ o.action = "reject" => ~o.defer}

Act(a) ==
    \/ Reject(a) \/ ReviewTermType(a) \/ WriteDictionary(a) \/ SaveApproved(a)
    \/ SaveResolutions(a) \/ Refused(a) \/ Bump(a) \/ Mark(a)

DeferredRecheck ==
    \/ Timer \/ Recheck(Deferred) \/ Resolve(Deferred) \/ Rechecked(Deferred) \/ EndDeferred

Next ==
    \/ \E k \in Keys : Find(k)
    \/ Insert \/ Save
    \/ \E r \in Requests : Throw(r) \/ \E o \in Ops : Request(r, o)
    \/ \E a \in Actors : Act(a) \/ Recheck(a) \/ Resolve(a) \/ Rechecked(a)
    \/ Start \/ ReviewTermTypes \/ NextOperation \/ Record \/ AllProcessed
    \/ DeferredRecheck
    \/ OperationThrows \/ AttemptThrows \/ DeferredThrows \/ Restart

(* A timer fires, and the recheck it starts goes on; one statement of a    *)
(* program after the other is executed.                                    *)
Spec == Init /\ [][Next]_vars /\ WF_vars(DeferredRecheck)

-----------------------------------------------------------------------------
(* Correctness properties *)

(* A candidate that was approved for its value or name is known to the     *)
(* dictionary, whatever failed or raced: the dictionary is written before  *)
(* the candidate.                                                          *)
ApprovedIsKnown == \A c \in Candidates : status[c] = "approved" => KeyOf[c] \in known

InForce(a, o) ==
    Changing(o) => KeyOfOp(o) \in published /\ <<a, KeyOfOp(o)>> \notin owed

(* When a request or a batch is answered, what it reports as done is in    *)
(* force: the version was raised after the change and the documents are    *)
(* marked.  For a batch this holds through every error and restart between *)
(* an operation, its record and the end of the attempt.                    *)
AnsweredIsInForce ==
    /\ \A r \in Requests : at[r] = "answered" => InForce(r, op[r])
    /\ at[Batch] = "answered" => \A i \in Ok(progress) : InForce(Batch, Operations[i])

(* A batch that is taken up again leaves alone what it has recorded, so it *)
(* does not undo decisions made since.                                     *)
RecordedIsNotRepeated ==
    [][at[Batch] # "queued" =>
          \A i \in Indices : progress[i] = "ok" => results'[i] = results[i]]_vars

(* A deferred recheck comes, also for the changes made while one was under *)
(* way, unless it fails or the process is restarted.                       *)
DeferredRecheckComes == waiting # {} ~> (waiting = {} \/ lost)

=============================================================================
