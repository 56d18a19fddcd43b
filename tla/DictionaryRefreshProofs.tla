----------------------- MODULE DictionaryRefreshProofs -----------------------
(***************************************************************************)
(* The dirty refresh, alone and in the maintenance of every night, for any *)
(* number of processes, reviews, documents, scripts and requests: its      *)
(* advisory lock excludes, every variable keeps its type, and marks reach  *)
(* the documents and archives whose refresh nothing disturbs.              *)
(***************************************************************************)
EXTENDS DailyMaintenance, WellFoundedInduction, TLAPS

Working(p) == at[p] \notin {"idle", "lock"}

(* A process that works holds the lock.  The converse fails: the lock is   *)
(* released after the job is over, when the next may have begun.           *)
LockInv ==
    /\ at \in [Processes -> Stages]
    /\ \A p \in Processes : Working(p) => lock = p

Shape(w) ==
    \/ w = Idle
    \/ \E doing, doc, from, todo :
          w = [doing |-> doing, doc |-> doc, from |-> from, todo |-> todo]

(* A process normalizes at one stage of its job only.                      *)
WorkInv ==
    /\ DOMAIN work = Actors
    /\ \A a \in Actors : Shape(work[a])
    /\ \A p \in Processes : work[p].doing = "normalizing" => at[p] = "normalize"

JobInv == LockInv /\ WorkInv

LEMMA JobInit == Init => JobInv
<1> SUFFICES ASSUME Init PROVE JobInv
  OBVIOUS
<1>1. LockInv
  BY DEF Init, LockInv, Working, Stages
<1>2. work = [a \in Actors |-> Idle] /\ Processes \subseteq Actors
  BY DEF Init, Actors
<1>3. Idle.doing # "normalizing"
  BY DEF Idle
<1>4. WorkInv
  BY <1>2, <1>3 DEF WorkInv, Shape
<1>5. QED
  BY <1>1, <1>4 DEF JobInv

-----------------------------------------------------------------------------
(* How the work of an actor changes *)

LEMMA StopsKeeps ==
    ASSUME WorkInv, NEW a \in Actors, work' = [work EXCEPT ![a] = Idle],
           \A p \in Processes : at'[p] = at[p] \/ p = a
    PROVE  WorkInv'
<1>1. Shape(Idle) /\ Idle.doing # "normalizing"
  BY DEF Shape, Idle
<1>2. /\ DOMAIN work' = Actors
      /\ \A b \in Actors : work'[b] = IF b = a THEN Idle ELSE work[b]
  BY DEF WorkInv
<1>3. QED
  BY <1>1, <1>2 DEF WorkInv, Actors

LEMMA NormalizeKeeps ==
    ASSUME WorkInv, NEW a \in Actors, NEW d, Normalize(a, d),
           \A p \in Processes : IF p = a THEN at'[p] = "normalize" ELSE at'[p] = at[p]
    PROVE  WorkInv'
<1>1. PICK v : work' = [work EXCEPT ![a] = [doing |-> "normalizing", doc |-> d,
                                            from |-> v, todo |-> Writes]]
  BY DEF Normalize
<1>2. Shape([doing |-> "normalizing", doc |-> d, from |-> v, todo |-> Writes])
  BY DEF Shape
<1>3. QED
  BY <1>1, <1>2 DEF WorkInv, Actors

LEMMA WriteKeeps ==
    ASSUME WorkInv, NEW a \in Actors, WriteLands(a)
    PROVE  WorkInv'
<1>1. PICK w : work' = [work EXCEPT ![a] = [work[a] EXCEPT !.todo = @ \ {w}]]
  BY DEF WriteLands
<1>2. work[a] # Idle /\ at' = at
  BY DEF WriteLands, Idle, jobs
<1>3. PICK doing, doc, from, todo :
          work[a] = [doing |-> doing, doc |-> doc, from |-> from, todo |-> todo]
  BY <1>2 DEF WorkInv, Shape
<1>4. work' = [work EXCEPT
          ![a] = [doing |-> doing, doc |-> doc, from |-> from, todo |-> todo \ {w}]]
  <2>1. work[a].todo = todo
    BY <1>3
  <2>2. [work[a] EXCEPT !.todo = todo \ {w}]
            = [doing |-> doing, doc |-> doc, from |-> from, todo |-> todo \ {w}]
    BY <1>3
  <2>3. work' = [work EXCEPT ![a] = [work[a] EXCEPT !.todo = todo \ {w}]]
    BY <1>1, <2>1
  <2>4. QED
    BY <2>2, <2>3
<1>5. Shape([doing |-> doing, doc |-> doc, from |-> from, todo |-> todo \ {w}])
  BY DEF Shape
<1>6. QED
  BY <1>2, <1>3, <1>4, <1>5 DEF WorkInv, Actors

LEMMA FailureStops ==
    ASSUME NEW a \in Actors, NormalizationFails(a)
    PROVE  work' = [work EXCEPT ![a] = Idle]
BY DEF NormalizationFails, Throws, Interrupted

LEMMA RestKeeps ==
    ASSUME WorkInv, UNCHANGED work, NEW p \in Processes, at[p] # "normalize",
           \A q \in Processes : at'[q] = at[q] \/ q = p
    PROVE  WorkInv'
BY DEF WorkInv

-----------------------------------------------------------------------------
(* Reviews *)

LEMMA ReviewKeeps ==
    ASSUME JobInv, NEW r \in Reviewers, ReviewStep(r) \/ WriteLands(r)
    PROVE  JobInv'
<1>1. r \in Actors /\ r \notin Processes /\ WorkInv
  BY ActorAssumption DEF Actors, JobInv
<1>2. UNCHANGED <<lock, at>>
  BY DEF ReviewStep, ChangeDictionary, Mark, RefreshAffected, AffectedRefreshed, MarkFails,
     RefreshAffectedFails, WriteLands, jobs
<1>3. LockInv'
  BY <1>2 DEF JobInv, LockInv, Working
<1>4. CASE ChangeDictionary(r) \/ Mark(r) \/ MarkFails(r)
  <2>1. UNCHANGED work
    BY <1>4 DEF ChangeDictionary, Mark, MarkFails
  <2>2. QED
    BY <1>1, <1>2, <1>3, <2>1 DEF JobInv, WorkInv
<1>5. CASE RefreshAffected(r)
  <2>1. PICK d : Normalize(r, d)
    BY <1>5 DEF RefreshAffected
  <2>2. QED
    BY <1>1, <1>2, <1>3, <2>1, NormalizeKeeps DEF JobInv
<1>6. CASE AffectedRefreshed(r) \/ RefreshAffectedFails(r)
  <2>1. work' = [work EXCEPT ![r] = Idle]
    BY <1>1, <1>6, FailureStops DEF AffectedRefreshed, RefreshAffectedFails
  <2>2. QED
    BY <1>1, <1>2, <1>3, <2>1, StopsKeeps DEF JobInv
<1>7. CASE WriteLands(r)
  BY <1>1, <1>3, <1>7, WriteKeeps DEF JobInv
<1>8. QED
  BY <1>4, <1>5, <1>6, <1>7 DEF ReviewStep

-----------------------------------------------------------------------------
(* The steps of a job *)

(* A step inside a job leaves the lock and all other processes alone, and  *)
(* a process that does not work does not begin to.                         *)
LEMMA StageKeepsLock ==
    ASSUME LockInv, NEW p \in Processes, NEW stage \in Stages,
           at' = [at EXCEPT ![p] = stage], lock' = lock,
           Working(p) \/ stage \in {"idle", "lock"}
    PROVE  LockInv'
BY DEF LockInv, Working

LEMMA ReleaseKeepsLock ==
    ASSUME LockInv, NEW p \in Processes, lock = p \/ lock' = lock, lock' \in {NoProcess, lock},
           at' = [at EXCEPT ![p] = "idle"] \/ (at' = at /\ ~Working(p))
    PROVE  LockInv'
BY DEF LockInv, Working, Stages

LEMMA TryLockKeepsLock ==
    ASSUME LockInv, NEW p \in Processes, TryLock(p)
    PROVE  LockInv'
<1>1. CASE LockFree /\ lock' = p /\ at' = [at EXCEPT ![p] = "select"]
  <2>1. \A q \in Processes : ~Working(q)
    BY <1>1, ActorAssumption DEF LockInv, LockFree
  <2>2. QED
    BY <1>1, <2>1 DEF LockInv, Working, Stages
<1>2. CASE at' = [at EXCEPT ![p] = "idle"] /\ UNCHANGED lock
  BY <1>2, StageKeepsLock DEF Stages
<1>3. QED
  BY <1>1, <1>2 DEF TryLock

LEMMA JobStepKeeps ==
    ASSUME JobInv, NEW p \in Processes, JobStep(p)
    PROVE  JobInv'
<1>1. LockInv /\ WorkInv /\ p \in Actors
  BY DEF JobInv, Actors
<1>2. ASSUME NEW stage \in Stages, at' = [at EXCEPT ![p] = stage]
      PROVE  \A q \in Processes : IF q = p THEN at'[q] = stage ELSE at'[q] = at[q]
  BY <1>1, <1>2 DEF LockInv
<1>3. CASE StartJob(p)
  BY <1>1, <1>2, <1>3, StageKeepsLock, RestKeeps DEF StartJob, Stages, JobInv
<1>4. CASE TryLock(p)
  <2>1. at[p] = "lock" /\ UNCHANGED work
        /\ \E stage \in Stages : at' = [at EXCEPT ![p] = stage]
    BY <1>4 DEF TryLock, Stages
  <2>2. WorkInv'
    BY <1>1, <1>2, <2>1, RestKeeps
  <2>3. QED
    BY <1>1, <1>4, <2>2, TryLockKeepsLock DEF JobInv
<1>5. CASE SelectDirty(p) \/ FindDirtyArchive(p) \/ FinishJob(p)
  <2>1. /\ Working(p) /\ at[p] # "normalize" /\ UNCHANGED <<lock, work>>
        /\ \E stage \in Stages : at' = [at EXCEPT ![p] = stage]
    BY <1>5 DEF SelectDirty, FindDirtyArchive, FinishJob, GoOn, Working, Stages
  <2>2. QED
    BY <1>1, <1>2, <2>1, StageKeepsLock, RestKeeps DEF JobInv
<1>6. CASE RefreshDocument(p)
  <2>1. /\ Working(p) /\ UNCHANGED lock /\ at' = [at EXCEPT ![p] = "normalize"]
        /\ Normalize(p, Current(p))
    BY <1>6 DEF RefreshDocument, Working
  <2>2. LockInv'
    BY <1>1, <2>1, StageKeepsLock DEF Stages
  <2>3. WorkInv'
    BY <1>1, <1>2, <2>1, NormalizeKeeps DEF Stages
  <2>4. QED
    BY <2>2, <2>3 DEF JobInv
<1>7. CASE WriteLands(p)
  BY <1>1, <1>7, WriteKeeps DEF WriteLands, jobs, JobInv, LockInv, Working
<1>8. CASE DocumentRefreshed(p) \/ CommitArchive(p) \/ DocumentFails(p)
  <2>1. Working(p) /\ UNCHANGED lock
    BY <1>1, <1>8 DEF DocumentRefreshed, Normalized, CommitArchive, DocumentFails,
       WorkInv, Working
  <2>2. \E stage \in Stages : at' = [at EXCEPT ![p] = stage]
    BY <1>8 DEF DocumentRefreshed, CommitArchive, DocumentFails, GoOn, Stages
  <2>3. work' = [work EXCEPT ![p] = Idle]
    BY <1>1, <1>8, FailureStops DEF DocumentRefreshed, CommitArchive, DocumentFails
  <2>4. QED
    BY <1>1, <1>2, <2>1, <2>2, <2>3, StageKeepsLock, StopsKeeps DEF JobInv
<1>9. CASE LockArchive(p)
  <2>1. /\ Working(p) /\ at' = [at EXCEPT ![p] = "commit"] /\ UNCHANGED lock
        /\ work' = [work EXCEPT ![p] = [doing |-> "archiving", doc |-> Current(p),
                        from |-> document[Current(p)].from, todo |-> {}]]
    BY <1>9 DEF LockArchive, Working
  <2>2. Shape([doing |-> "archiving", doc |-> Current(p),
               from |-> document[Current(p)].from, todo |-> {}])
    BY DEF Shape
  <2>3. WorkInv'
    BY <1>1, <1>2, <2>1, <2>2 DEF WorkInv, Actors, Stages
  <2>4. LockInv'
    BY <1>1, <2>1, StageKeepsLock DEF Stages
  <2>5. QED
    BY <2>3, <2>4 DEF JobInv
<1>10. CASE JobFails(p)
  <2>1. /\ lock = p /\ lock' = NoProcess /\ at' = [at EXCEPT ![p] = "idle"]
        /\ at[p] # "normalize" /\ UNCHANGED work
    BY <1>1, <1>10 DEF JobFails, LockInv, Working
  <2>2. QED
    BY <1>1, <1>2, <2>1, ReleaseKeepsLock, RestKeeps DEF JobInv, Stages
<1>11. QED
  BY <1>3, <1>4, <1>5, <1>6, <1>7, <1>8, <1>9, <1>10 DEF JobStep

LEMMA CrashKeeps ==
    ASSUME JobInv, NEW p \in Processes, Crash(p)
    PROVE  JobInv'
<1>1. LockInv /\ WorkInv /\ p \in Actors
  BY DEF JobInv, Actors
<1>2. work' = [work EXCEPT ![p] = Idle] /\ at' = [at EXCEPT ![p] = "idle"]
  BY DEF Crash, Interrupted
<1>3. LockInv'
  BY <1>1, ReleaseKeepsLock DEF Crash
<1>4. WorkInv'
  BY <1>1, <1>2, StopsKeeps DEF LockInv
<1>5. QED
  BY <1>3, <1>4 DEF JobInv

LEMMA JobInvStep == JobInv /\ [Next]_vars => JobInv'
<1> SUFFICES ASSUME JobInv, [Next]_vars PROVE JobInv'
  OBVIOUS
<1>1. ASSUME UNCHANGED jobs, UNCHANGED work PROVE JobInv'
  BY <1>1 DEF jobs, JobInv, LockInv, WorkInv, Working
<1>2. ASSUME NEW p \in Processes, Unlock(p) PROVE JobInv'
  <2>1. LockInv'
    BY <1>2, ReleaseKeepsLock DEF Unlock, Working, JobInv
  <2>2. WorkInv'
    BY <1>2 DEF Unlock, JobInv, WorkInv
  <2>3. QED
    BY <2>1, <2>2 DEF JobInv
<1>3. CASE LateWriteLands
  BY <1>1, <1>3 DEF LateWriteLands
<1>4. CASE UNCHANGED vars
  BY <1>1, <1>4 DEF vars
<1>5. QED
  BY <1>2, <1>3, <1>4, ReviewKeeps, JobStepKeeps, CrashKeeps DEF Next

(* One dirty refresh job works at a time, in whatever order the processes  *)
(* start, finish, release the lock late and die.                           *)
THEOREM OneRefresh == Spec => []OneRefreshAtATime
<1>1. JobInv => OneRefreshAtATime
  BY DEF JobInv, LockInv, Working, OneRefreshAtATime
<1>2. QED
  BY JobInit, JobInvStep, <1>1, PTL DEF Spec

-----------------------------------------------------------------------------
(* Types *)

(* A document is being worked on only while it is in the queue.            *)
QueueInv ==
    \A p \in Processes :
        /\ at[p] \in {"normalize", "find", "refresh", "commit"} => queue[p] # {}
        /\ work[p].doing = "normalizing" => work[p].doc = Current(p)
        /\ at[p] = "commit" => work[p].doing = "archiving"

TypeInv == TypeOK /\ QueueInv /\ JobInv

LEMMA LeastNumber ==
    ASSUME NEW T \in SUBSET Nat, T # {}
    PROVE  \E x \in T : \A y \in T : x <= y
<1> DEFINE R == OpToRel(<, Nat)
<1>1. \A x, y \in Nat : <<y, x>> \in R <=> y < x
  BY DEF OpToRel
<1>2. IsWellFoundedOn(R, Nat)
  BY NatLessThanWellFounded
<1> HIDE DEF R
<1>3. PICK x \in T : \A y \in T : ~ (<<y, x>> \in R)
  BY <1>2, WFMin
<1>4. \A y \in T : ~ (y < x) /\ y \in Nat /\ x \in Nat
  BY <1>1, <1>3
<1>5. QED
  BY <1>4

LEMMA CurrentIsQueued ==
    ASSUME TypeOK, NEW p \in Processes, queue[p] # {}
    PROVE  Current(p) \in queue[p] /\ Current(p) \in Documents
<1>1. queue[p] \in SUBSET Documents /\ queue[p] \in SUBSET Nat
  BY DocumentAssumption DEF TypeOK
<1>2. \E d \in queue[p] : \A e \in queue[p] : d <= e
  BY <1>1, LeastNumber
<1>3. QED
  BY <1>1, <1>2 DEF Current

LEMMA VersionsAreNumbers == Versions \subseteq Nat /\ 0 \in Versions
BY BoundAssumption DEF Versions

LEMMA ContentStays ==
    ASSUME NEW s, NEW c \in Content(s), NEW v \in Versions
    PROVE  /\ [c EXCEPT !.status = s] \in Content(s)
           /\ [c EXCEPT !.status = "dictionary_dirty"] \in Content(s)
           /\ [c EXCEPT !.from = v] \in Content(s)
           /\ c.from \in Versions
BY DEF Content

LEMMA TypeInit == Init => TypeInv
<1> SUFFICES ASSUME Init PROVE TypeInv
  OBVIOUS
<1>1. TypeOK
  BY ArchiveAssumption, BoundAssumption, VersionsAreNumbers
  DEF Init, TypeOK, Content, NoArchive, Stages
<1>2. QueueInv
  BY DEF Init, QueueInv, Actors, Idle
<1>3. QED
  BY <1>1, <1>2, JobInit DEF TypeInv

LEMMA IdleTyped ==
    ASSUME TypeOK, NEW a \in Actors
    PROVE  [work EXCEPT ![a] = Idle] \in [Actors -> Work \cup {Idle}]
BY DEF TypeOK

(* A process, and a review that has something to do, has a cache.          *)
LEMMA Housed ==
    ASSUME TypeOK, NEW a \in Actors, a \in Processes \/ review[a].doing = "refresh"
    PROVE  ProcessOf(a) \in Processes
<1>1. CASE a \in Processes
  BY <1>1 DEF ProcessOf
<1>2. CASE a \notin Processes
  <2>1. a \in Reviewers
    BY <1>2 DEF Actors
  <2>2. review[a] \in Reviewing
    BY <1>2, <2>1 DEF TypeOK, Idle
  <2>3. QED
    BY <1>2, <2>2 DEF ProcessOf, Reviewing
<1>3. QED
  BY <1>1, <1>2

LEMMA NormalizeTyped ==
    ASSUME TypeOK, NEW a \in Actors, NEW d \in Documents, Normalize(a, d),
           ProcessOf(a) \in Processes
    PROVE  /\ work' \in [Actors -> Work \cup {Idle}] /\ disturbed' \subseteq Documents
           /\ cached' \in [Processes -> Versions]
<1>1. PICK v \in CachedDictionary(ProcessOf(a)) :
          /\ cached' = [cached EXCEPT ![ProcessOf(a)] = v]
          /\ work' = [work EXCEPT ![a] = [doing |-> "normalizing", doc |-> d,
                                          from |-> v, todo |-> Writes]]
          /\ disturbed' = IF BeingNormalized(d) \/ v < due[d]
                          THEN disturbed \cup {d} ELSE disturbed
  BY DEF Normalize
<1>2. v \in Versions
  BY DEF CachedDictionary, TypeOK
<1>3. [doing |-> "normalizing", doc |-> d, from |-> v, todo |-> Writes] \in Work
  BY <1>2 DEF Work
<1>4. QED
  BY <1>1, <1>2, <1>3 DEF TypeOK

LEMMA WorkTyped ==
    ASSUME TypeOK, NEW a \in Actors, work[a].doing # "nothing"
    PROVE  /\ work[a] \in Work
           /\ work[a].doc \in Documents /\ work[a].from \in Versions
           /\ work[a].todo \subseteq Writes
BY DEF TypeOK, Work, Idle

LEMMA FailureTyped ==
    ASSUME TypeOK, NEW a \in Actors, NormalizationFails(a)
    PROVE  /\ work' \in [Actors -> Work \cup {Idle}]
           /\ late' \subseteq Write /\ disturbed' \subseteq Documents
           /\ faults' \in 0..MaxFaults
<1>1. CASE Throws(a)
  BY <1>1, IdleTyped, BoundAssumption DEF Throws, TypeOK, Fault, NoFault
<1>2. CASE Interrupted(a)
  <2>1. work[a].doc \in Documents /\ work[a].from \in Versions /\ work[a].todo \subseteq Writes
    BY <1>2, WorkTyped DEF Interrupted, Writing
  <2>2. PICK K \in SUBSET work[a].todo :
            late' = late \cup {[doc |-> work[a].doc, write |-> w, from |-> work[a].from] : w \in K}
    BY <1>2 DEF Interrupted
  <2>3. late' \subseteq Write
    BY <2>1, <2>2 DEF TypeOK, Write
  <2>4. QED
    BY <1>2, <2>1, <2>3, IdleTyped, BoundAssumption DEF Interrupted, TypeOK, Fault
<1>3. QED
  BY <1>1, <1>2 DEF NormalizationFails

LEMMA WrittenTyped ==
    ASSUME NEW c \in Content("normalized"), NEW write, NEW from \in Versions
    PROVE  Written(c, write, from) \in Content("normalized")
BY ContentStays DEF Written

LEMMA WriteTyped ==
    ASSUME TypeOK, NEW a \in Actors, WriteLands(a)
    PROVE  TypeOK'
<1>1. /\ work[a] \in Work
      /\ work[a].doc \in Documents /\ work[a].from \in Versions
      /\ work[a].todo \subseteq Writes
  BY WorkTyped DEF WriteLands
<1>2. PICK w \in work[a].todo :
          /\ document' = [document EXCEPT ![work[a].doc] = Written(@, w, work[a].from)]
          /\ work' = [work EXCEPT ![a].todo = @ \ {w}]
  BY DEF WriteLands
<1>3. document' \in [Documents -> Content("normalized")]
  BY <1>1, <1>2, WrittenTyped DEF TypeOK
<1>4. [work[a] EXCEPT !.todo = @ \ {w}] \in Work
  BY <1>1 DEF Work
<1>5. work' \in [Actors -> Work \cup {Idle}]
  BY <1>2, <1>4 DEF TypeOK
<1>6. QED
  BY <1>3, <1>5 DEF TypeOK, WriteLands, NoFault, jobs, ghost

LEMMA LateTyped ==
    ASSUME TypeOK, LateWriteLands
    PROVE  TypeOK'
<1>1. PICK w \in late :
          /\ document' = [document EXCEPT ![w.doc] = Written(@, w.write, w.from)]
          /\ late' = late \ {w}
  BY DEF LateWriteLands
<1>2. w.doc \in Documents /\ w.from \in Versions
  BY DEF TypeOK, Write
<1>3. document' \in [Documents -> Content("normalized")]
  BY <1>1, <1>2, WrittenTyped DEF TypeOK
<1>4. QED
  BY <1>1, <1>3 DEF TypeOK, LateWriteLands, NoFault, jobs, ghost

LEMMA MarkTyped ==
    ASSUME TypeOK, NEW r \in Reviewers, Mark(r)
    PROVE  TypeOK'
<1>1. review[r] \in Reviewing
  BY DEF TypeOK, Mark, Idle
<1>2. review[r].docs \subseteq Documents /\ review[r].version \in Versions
  BY <1>1 DEF Reviewing
<1>3. document' \in [Documents -> Content("normalized")]
  BY ContentStays DEF Mark, MarkedDocuments, TypeOK
<1>4. archive' \in [Documents -> Content("archived") \cup {NoArchive}]
  BY ContentStays DEF Mark, MarkedArchives, TypeOK
<1>5. due' \in [Documents -> Versions] /\ disturbed' \subseteq Documents
  BY <1>2 DEF Mark, TypeOK
<1>6. review' \in [Reviewers -> Reviewing \cup {Idle}]
  BY DEF Mark, TypeOK
<1>7. QED
  BY <1>3, <1>4, <1>5, <1>6 DEF Mark, TypeOK, NoFault, jobs

LEMMA ReviewTyped ==
    ASSUME TypeOK, NEW r \in Reviewers, ReviewStep(r)
    PROVE  TypeOK'
<1>1. r \in Actors
  BY DEF Actors
<1>2. review[r].doing \in {"mark", "refresh"} => review[r] \in Reviewing
  BY DEF TypeOK, Idle
<1>3. CASE ChangeDictionary(r)
  <2>1. dictionary' \in Versions /\ dictionary + 1 \in Versions
    BY <1>3, BoundAssumption DEF ChangeDictionary, TypeOK, Versions
  <2>2. review' \in [Reviewers -> Reviewing \cup {Idle}] /\ cached' \in [Processes -> Versions]
    <3>1. PICK S \in SUBSET Documents \ {{}}, doing \in {"mark", "refresh"}, p \in Processes :
              /\ cached' = [cached EXCEPT ![p] = dictionary + 1]
              /\ review' = [review EXCEPT
                  ![r] = [doing |-> doing, docs |-> S, version |-> dictionary + 1, in |-> p]]
      BY <1>3 DEF ChangeDictionary
    <3>2. [doing |-> doing, docs |-> S, version |-> dictionary + 1, in |-> p] \in Reviewing
      BY <2>1 DEF Reviewing
    <3>3. QED
      BY <2>1, <3>1, <3>2 DEF TypeOK
  <2>3. QED
    BY <1>3, <2>1, <2>2 DEF ChangeDictionary, TypeOK, NoFault, jobs, ghost
<1>4. CASE Mark(r)
  BY <1>4, MarkTyped
<1>5. CASE RefreshAffected(r)
  <2>1. PICK d \in review[r].docs : Normalize(r, d)
    BY <1>5 DEF RefreshAffected
  <2>2. d \in Documents
    BY <1>2, <1>5 DEF RefreshAffected, Reviewing
  <2>3. ProcessOf(r) \in Processes
    BY <1>1, <1>5, Housed DEF RefreshAffected
  <2>4. QED
    BY <1>1, <1>5, <2>1, <2>2, <2>3, NormalizeTyped
    DEF RefreshAffected, TypeOK, NoFault, jobs
<1>6. CASE AffectedRefreshed(r)
  <2>1. review' \in [Reviewers -> Reviewing \cup {Idle}]
    <3> DEFINE rest == review[r].docs \ {work[r].doc}
    <3>1. CASE review[r] \in Reviewing
      <4>1. [review[r] EXCEPT !.docs = rest] \in Reviewing
        BY <3>1 DEF Reviewing
      <4>2. QED
        BY <1>6, <4>1 DEF AffectedRefreshed, TypeOK
    <3>2. CASE review[r] = Idle
      <4>1. [review[r] EXCEPT !.docs = rest] = Idle
        BY <3>2 DEF Idle
      <4>2. QED
        BY <1>6, <4>1 DEF AffectedRefreshed, TypeOK
    <3>3. QED
      BY <3>1, <3>2 DEF TypeOK
  <2>2. QED
    BY <1>1, <1>6, <2>1, IdleTyped DEF AffectedRefreshed, TypeOK, NoFault, rows, jobs, ghost
<1>7. CASE MarkFails(r)
  BY <1>7, BoundAssumption DEF MarkFails, TypeOK, Fault, rows, jobs, ghost
<1>8. CASE RefreshAffectedFails(r)
  BY <1>1, <1>8, FailureTyped DEF RefreshAffectedFails, TypeOK, rows, jobs
<1>9. QED
  BY <1>3, <1>4, <1>5, <1>6, <1>7, <1>8 DEF ReviewStep

LEMMA JobTyped ==
    ASSUME TypeInv, NEW p \in Processes, JobStep(p)
    PROVE  TypeOK'
<1>1. /\ TypeOK /\ p \in Actors
      /\ at[p] \in {"normalize", "find", "refresh", "commit"} => queue[p] # {}
  BY DEF Actors, TypeInv, QueueInv
<1>2. queue[p] # {} => Current(p) \in Documents
  BY <1>1, CurrentIsQueued
<1>3. CASE StartJob(p) \/ TryLock(p) \/ FinishJob(p) \/ JobFails(p)
  BY <1>1, <1>3, BoundAssumption
  DEF StartJob, TryLock, FinishJob, JobFails, TypeOK, Stages, NoFault, Fault, rows, ghost
<1>4. CASE SelectDirty(p)
  <2>1. Oldest(DirtyDocuments) \subseteq Documents
    BY DEF Oldest, DirtyDocuments
  <2>2. QED
    BY <1>1, <1>4, <2>1 DEF SelectDirty, TypeOK, Stages, NoFault, rows, ghost
<1>5. CASE RefreshDocument(p)
  <2>1. Current(p) \in Documents /\ ProcessOf(p) \in Processes /\ Normalize(p, Current(p))
    BY <1>2, <1>5 DEF RefreshDocument, ProcessOf
  <2>2. QED
    BY <1>1, <1>5, <2>1, NormalizeTyped DEF RefreshDocument, TypeOK, Stages, NoFault
<1>6. CASE WriteLands(p)
  BY <1>1, <1>6, WriteTyped
<1>7. CASE DocumentRefreshed(p)
  BY <1>1, <1>7, IdleTyped DEF DocumentRefreshed, TypeOK, Stages, NoFault, rows, ghost
<1>8. CASE FindDirtyArchive(p)
  BY <1>1, <1>8 DEF FindDirtyArchive, GoOn, TypeOK, Stages, NoFault, rows, ghost
<1>9. CASE LockArchive(p)
  <2>1. Current(p) \in Documents
    BY <1>1, <1>2, <1>9 DEF LockArchive
  <2>2. document[Current(p)].from \in Versions
    BY <1>1, <2>1, ContentStays DEF TypeOK
  <2>3. work' \in [Actors -> Work \cup {Idle}]
    BY <1>1, <1>9, <2>1, <2>2 DEF LockArchive, TypeOK, Work
  <2>4. QED
    BY <1>1, <1>9, <2>3 DEF LockArchive, TypeOK, Stages, NoFault, rows, ghost
<1>10. CASE CommitArchive(p)
  <2>1. work[p].from \in Versions
    BY <1>1, <1>10, WorkTyped DEF CommitArchive, TypeInv, QueueInv
  <2>2. archive' \in [Documents -> Content("archived") \cup {NoArchive}]
    BY <1>1, <1>10, <2>1 DEF CommitArchive, TypeOK, Content
  <2>3. QED
    BY <1>1, <1>10, <2>2, IdleTyped
    DEF CommitArchive, GoOn, TypeOK, Stages, NoFault, ghost
<1>11. CASE DocumentFails(p)
  <2>1. /\ work' \in [Actors -> Work \cup {Idle}]
        /\ late' \subseteq Write /\ disturbed' \subseteq Documents
        /\ faults' \in 0..MaxFaults
    BY <1>1, <1>11, FailureTyped, IdleTyped, BoundAssumption
    DEF DocumentFails, TypeOK, Fault
  <2>2. QED
    BY <1>1, <1>11, <2>1 DEF DocumentFails, GoOn, TypeOK, Stages, rows
<1>12. QED
  BY <1>3, <1>4, <1>5, <1>6, <1>7, <1>8, <1>9, <1>10, <1>11 DEF JobStep

LEMMA CrashTyped ==
    ASSUME TypeOK, NEW p \in Processes, Crash(p)
    PROVE  TypeOK'
<1>1. p \in Actors
  BY DEF Actors
<1>2. /\ work' \in [Actors -> Work \cup {Idle}]
      /\ late' \subseteq Write /\ disturbed' \subseteq Documents
      /\ faults' \in 0..MaxFaults
  BY <1>1, FailureTyped, IdleTyped, BoundAssumption
  DEF Crash, NormalizationFails, TypeOK, Fault
<1>3. QED
  BY <1>2 DEF Crash, CacheLost, TypeOK, Stages

LEMMA CurrentStays ==
    ASSUME NEW p, queue'[p] = queue[p]
    PROVE  Current(p)' = Current(p)
BY DEF Current

(* What one process does says nothing of the queues of the others.         *)
LEMMA QueueKeeps ==
    ASSUME QueueInv, NEW p,
           \A q \in Processes \ {p} :
               at'[q] = at[q] /\ queue'[q] = queue[q] /\ work'[q] = work[q],
           p \in Processes =>
               /\ at'[p] \in {"normalize", "find", "refresh", "commit"} => queue'[p] # {}
               /\ work'[p].doing = "normalizing" => work'[p].doc = Current(p)'
               /\ at'[p] = "commit" => work'[p].doing = "archiving"
    PROVE  QueueInv'
<1>1. \A q \in Processes \ {p} : Current(q)' = Current(q)
  BY CurrentStays
<1>2. QED
  BY <1>1 DEF QueueInv

LEMMA WriteKeepsQueue ==
    ASSUME TypeInv, NEW a \in Actors, WriteLands(a)
    PROVE  QueueInv'
<1>1. PICK w \in work[a].todo : work' = [work EXCEPT ![a].todo = @ \ {w}]
  BY DEF WriteLands
<1>2. UNCHANGED <<at, queue>> /\ work[a] \in Work
  BY WorkTyped DEF WriteLands, jobs, TypeInv
<1>3. work'[a].doing = work[a].doing /\ work'[a].doc = work[a].doc
  BY <1>1, <1>2 DEF Work, TypeInv, TypeOK
<1>4. \A q \in Processes \ {a} : work'[q] = work[q]
  BY <1>1 DEF TypeInv, TypeOK, Actors
<1>5. \A q \in Processes : Current(q)' = Current(q)
  BY <1>2, CurrentStays
<1>6. QED
  BY <1>2, <1>3, <1>4, <1>5 DEF QueueInv, TypeInv

LEMMA ReviewKeepsQueue ==
    ASSUME TypeInv, NEW r \in Reviewers, ReviewStep(r)
    PROVE  QueueInv'
<1>1. r \in Actors /\ r \notin Processes
  BY ActorAssumption DEF Actors
<1>2. UNCHANGED <<at, queue>>
  BY DEF ReviewStep, ChangeDictionary, Mark, RefreshAffected, AffectedRefreshed, MarkFails,
     RefreshAffectedFails, jobs
<1>3. \E w : work' = [work EXCEPT ![r] = w]
  <2>1. UNCHANGED work \/ \E w : work' = [work EXCEPT ![r] = w]
    BY FailureStops, <1>1 DEF ReviewStep, ChangeDictionary, Mark, RefreshAffected, Normalize,
       AffectedRefreshed, MarkFails, RefreshAffectedFails
  <2>2. [work EXCEPT ![r] = work[r]] = work
    BY DEF TypeInv, TypeOK
  <2>3. QED
    BY <2>1, <2>2
<1>4. \A q \in Processes : work'[q] = work[q]
  BY <1>1, <1>3 DEF TypeInv, TypeOK, Actors
<1>5. QED
  BY <1>1, <1>2, <1>4, QueueKeeps DEF TypeInv

LEMMA StopKeepsQueue ==
    ASSUME TypeInv, NEW p \in Processes, NEW stage, NEW todo,
           at' = [at EXCEPT ![p] = stage], queue' = [queue EXCEPT ![p] = todo],
           work' = [work EXCEPT ![p] = Idle] \/ (UNCHANGED work /\ at[p] # "normalize"),
           stage \in {"normalize", "find", "refresh"} => todo # {}, stage # "commit"
    PROVE  QueueInv'
<1>1. Idle.doing # "normalizing"
  BY DEF Idle
<1>2. /\ at'[p] = stage /\ queue'[p] = todo
      /\ \A q \in Processes \ {p} : at'[q] = at[q] /\ queue'[q] = queue[q]
  BY DEF TypeInv, TypeOK
<1>3. work'[p].doing # "normalizing"
  BY <1>1 DEF TypeInv, TypeOK, JobInv, WorkInv, Actors
<1>4. \A q \in Processes \ {p} : work'[q] = work[q]
  BY DEF TypeInv, TypeOK, Actors
<1>5. QED
  BY <1>2, <1>3, <1>4, QueueKeeps DEF TypeInv

LEMMA JobKeepsQueue ==
    ASSUME TypeInv, NEW p \in Processes, JobStep(p)
    PROVE  QueueInv'
<1>1. /\ TypeOK /\ p \in Actors /\ queue = [queue EXCEPT ![p] = queue[p]]
      /\ at[p] \in {"normalize", "find", "refresh", "commit"} => queue[p] # {}
  BY DEF Actors, TypeInv, QueueInv, TypeOK
<1>2. CASE StartJob(p) \/ TryLock(p) \/ FinishJob(p) \/ JobFails(p)
  <2>1. PICK stage : at' = [at EXCEPT ![p] = stage] /\ stage \in {"lock", "idle", "select"}
    BY <1>2 DEF StartJob, TryLock, FinishJob, JobFails
  <2>2. UNCHANGED <<queue, work>> /\ at[p] # "normalize"
    BY <1>2 DEF StartJob, TryLock, FinishJob, JobFails
  <2>3. QED
    BY <1>1, <2>1, <2>2, StopKeepsQueue
<1>3. CASE SelectDirty(p)
  BY <1>1, <1>3, StopKeepsQueue DEF SelectDirty
<1>4. CASE RefreshDocument(p)
  <2>1. /\ at' = [at EXCEPT ![p] = "normalize"] /\ queue' = queue /\ queue[p] # {}
        /\ Normalize(p, Current(p))
    BY <1>4 DEF RefreshDocument
  <2>2. work'[p].doc = Current(p) /\ \A q \in Processes \ {p} : work'[q] = work[q]
    BY <1>1, <2>1 DEF Normalize, TypeOK, Actors
  <2>3. at'[p] = "normalize" /\ \A q \in Processes \ {p} : at'[q] = at[q]
    BY <1>1, <2>1 DEF TypeOK
  <2>4. QED
    BY <1>1, <2>1, <2>2, <2>3, CurrentStays, QueueKeeps DEF TypeInv
<1>5. CASE WriteLands(p)
  BY <1>1, <1>5, WriteKeepsQueue
<1>6. CASE DocumentRefreshed(p)
  <2>1. at[p] = "normalize"
    BY <1>6 DEF DocumentRefreshed, Normalized, TypeInv, JobInv, WorkInv
  <2>2. QED
    BY <1>1, <1>6, <2>1, StopKeepsQueue DEF DocumentRefreshed
<1>7. CASE FindDirtyArchive(p)
  <2>1. PICK stage, todo :
            /\ at' = [at EXCEPT ![p] = stage] /\ queue' = [queue EXCEPT ![p] = todo]
            /\ (stage = "refresh" /\ todo # {}) \/ stage = "next"
    BY <1>1, <1>7 DEF FindDirtyArchive, GoOn
  <2>2. QED
    BY <1>1, <1>7, <2>1, StopKeepsQueue DEF FindDirtyArchive
<1>8. CASE LockArchive(p)
  <2>1. /\ at' = [at EXCEPT ![p] = "commit"] /\ queue' = queue /\ queue[p] # {}
        /\ work'[p].doing = "archiving" /\ \A q \in Processes \ {p} : work'[q] = work[q]
    BY <1>1, <1>8 DEF LockArchive, TypeOK, Actors
  <2>2. \A q \in Processes \ {p} : at'[q] = at[q]
    BY <1>1, <2>1 DEF TypeOK
  <2>3. QED
    BY <1>1, <2>1, <2>2, QueueKeeps DEF TypeInv
<1>9. CASE CommitArchive(p) \/ DocumentFails(p)
  <2>1. work' = [work EXCEPT ![p] = Idle] /\ GoOn(p)
    BY <1>1, <1>9, FailureStops DEF CommitArchive, DocumentFails
  <2>2. QED
    BY <1>1, <2>1, StopKeepsQueue DEF GoOn
<1>10. QED
  BY <1>2, <1>3, <1>4, <1>5, <1>6, <1>7, <1>8, <1>9 DEF JobStep

LEMMA TypeInvStep == TypeInv /\ [Next]_vars => TypeInv'
<1> SUFFICES ASSUME TypeInv, [Next]_vars PROVE TypeInv'
  OBVIOUS
<1>1. JobInv'
  BY JobInvStep DEF TypeInv
<1>2. ASSUME UNCHANGED <<at, queue, work>> PROVE QueueInv'
  BY <1>2, CurrentStays DEF TypeInv, QueueInv
<1>3. ASSUME NEW p \in Processes, Crash(p) PROVE QueueInv'
  <2>1. /\ at' = [at EXCEPT ![p] = "idle"] /\ queue' = [queue EXCEPT ![p] = {}]
        /\ work' = [work EXCEPT ![p] = Idle]
    BY <1>3 DEF Crash, Interrupted
  <2>2. QED
    BY <2>1, StopKeepsQueue
<1>4. ASSUME NEW p \in Processes, Unlock(p) PROVE TypeOK'
  BY <1>4 DEF Unlock, TypeInv, TypeOK, NoFault, rows, ghost
<1>5. CASE \E r \in Reviewers : ReviewStep(r) \/ WriteLands(r)
  BY <1>1, <1>5, ReviewTyped, ReviewKeepsQueue, WriteTyped, WriteKeepsQueue DEF TypeInv, Actors
<1>6. CASE \E p \in Processes : JobStep(p) \/ Unlock(p) \/ Crash(p)
  BY <1>1, <1>2, <1>3, <1>4, <1>6, JobTyped, JobKeepsQueue, CrashTyped DEF Unlock, TypeInv
<1>7. CASE LateWriteLands
  BY <1>1, <1>2, <1>7, LateTyped DEF LateWriteLands, jobs, TypeInv
<1>8. CASE UNCHANGED vars
  <2>1. TypeOK'
    BY <1>8 DEF vars, rows, jobs, ghost, TypeInv, TypeOK
  <2>2. QED
    BY <1>1, <1>2, <1>8, <2>1 DEF vars, jobs, TypeInv
<1>9. QED
  BY <1>5, <1>6, <1>7, <1>8 DEF Next

(* Every variable keeps its type: a job that is at a document has one in   *)
(* its queue, and a late write is of a document and a version there are.   *)
THEOREM RefreshTypeCorrect == Spec => []TypeOK
<1>1. TypeInv => TypeOK
  BY DEF TypeInv
<1>2. QED
  BY TypeInit, TypeInvStep, <1>1, PTL DEF Spec

-----------------------------------------------------------------------------
(* Marks *)

Normalizes(a, d) == work[a].doing = "normalizing" /\ work[a].doc = d

(* A change is made before documents are marked for it, and what lands     *)
(* late was interrupted.                                                   *)
VersionInv ==
    /\ \A d \in Documents : due[d] <= dictionary
    /\ \A r \in Reviewers : review[r].doing = "mark" => review[r].version <= dictionary
    /\ \A w \in late : w.doc \in disturbed

(* The mark of an undisturbed document is cleared before its extraction is *)
(* stored by nobody but the one who will store it, and everyone who        *)
(* normalizes it does so with a dictionary it was not marked after.        *)
RefreshedInv ==
    \A d \in Documents \ disturbed :
        /\ document[d].status = "normalized" =>
               \/ document[d].from >= due[d]
               \/ \E a \in Actors : Normalizes(a, d) /\ work[a].todo = {"extraction"}
        /\ \A a \in Actors : Normalizes(a, d) =>
               /\ work[a].from >= due[d]
               /\ "extraction" \notin work[a].todo => document[d].from >= due[d]
               /\ d \in Broken => work[a].todo = Writes

(* What an archive is made of is new enough from the moment the archive is *)
(* found dirty to the commit of its refresh.                               *)
ArchivedInv(excused) ==
    \A d \in Documents \ disturbed :
        /\ archive[d].status = "archived" /\ d \notin excused => archive[d].from >= due[d]
        /\ \A p \in Processes : Current(p) = d =>
               /\ at[p] \in {"find", "refresh"} => document[d].from >= due[d]
               /\ at[p] = "commit" => work[p].from >= due[d]

MarkInv(excused) == TypeInv /\ VersionInv /\ RefreshedInv /\ ArchivedInv(excused)

LEMMA MarkInit == ASSUME NEW excused, Init PROVE MarkInv(excused)
<1>1. TypeInv
  BY TypeInit
<1>2. Idle.doing = "nothing" /\ NoArchive.status = "none"
  BY DEF Idle, NoArchive
<1>3. VersionInv
  BY <1>2 DEF Init, VersionInv
<1>4. RefreshedInv
  BY <1>2 DEF Init, RefreshedInv, Normalizes
<1>5. ArchivedInv(excused)
  BY <1>2 DEF Init, ArchivedInv
<1>6. QED
  BY <1>1, <1>3, <1>4, <1>5 DEF MarkInv

LEMMA VersionInvStep ==
    ASSUME NEW excused, MarkInv(excused), [Next]_vars
    PROVE  VersionInv'
<1>1. TypeInv /\ TypeInv' /\ VersionInv /\ TypeOK /\ TypeOK'
  BY TypeInvStep DEF MarkInv, TypeInv
<1>2. /\ dictionary \in Nat /\ dictionary' \in Nat
      /\ \A d \in Documents : due[d] \in Nat /\ due'[d] \in Nat
      /\ \A r \in Reviewers : review[r].doing = "mark" => review[r].version \in Nat
  <2>1. \A r \in Reviewers : review[r].doing = "mark" => review[r] \in Reviewing
    BY <1>1 DEF TypeOK, Idle
  <2>2. \A r \in Reviewers : review[r].doing = "mark" => review[r].version \in Versions
    BY <2>1 DEF Reviewing
  <2>3. QED
    BY <1>1, <2>2, VersionsAreNumbers DEF TypeOK
<1>3. ASSUME UNCHANGED <<dictionary, due>>,
             \A r \in Reviewers : review'[r].doing = "mark" =>
                 review[r].doing = "mark" /\ review'[r].version = review[r].version,
             \A w \in late' : w \in late \/ w.doc \in disturbed',
             disturbed \subseteq disturbed'
      PROVE  VersionInv'
  BY <1>1, <1>3 DEF VersionInv
<1>4. ASSUME NEW a \in Actors, NormalizationFails(a)
      PROVE  /\ \A w \in late' : w \in late \/ w.doc \in disturbed'
             /\ disturbed \subseteq disturbed'
  BY <1>4 DEF NormalizationFails, Throws, Interrupted
<1>5. ASSUME NEW r \in Reviewers, ReviewStep(r) PROVE VersionInv'
  <2>1. r \in Actors /\ Idle.doing = "nothing"
    BY DEF Actors, Idle
  <2>2. CASE ChangeDictionary(r)
    <3>1. PICK S \in SUBSET Documents, doing \in {"mark", "refresh"}, p \in Processes :
              review' = [review EXCEPT
                  ![r] = [doing |-> doing, docs |-> S, version |-> dictionary + 1, in |-> p]]
      BY <2>2 DEF ChangeDictionary
    <3>2. \A q \in Reviewers : review'[q].version = dictionary + 1 \/ review'[q] = review[q]
      BY <1>1, <3>1 DEF TypeOK
    <3>3. QED
      BY <1>1, <1>2, <2>2, <3>2 DEF ChangeDictionary, VersionInv, ghost
  <2>3. CASE Mark(r)
    <3>1. /\ due' = [d \in Documents |->
                        IF d \in review[r].docs /\ review[r].version > due[d]
                            THEN review[r].version ELSE due[d]]
          /\ review' = [review EXCEPT ![r] = Idle] /\ disturbed \subseteq disturbed'
          /\ UNCHANGED <<dictionary, late>> /\ review[r].doing = "mark"
      BY <2>3 DEF Mark
    <3>2. \A q \in Reviewers : review'[q] = review[q] \/ review'[q].doing # "mark"
      BY <1>1, <2>1, <3>1 DEF TypeOK
    <3>3. QED
      BY <1>1, <1>2, <3>1, <3>2 DEF VersionInv
  <2>4. CASE RefreshAffected(r)
    BY <1>3, <2>4 DEF RefreshAffected, Normalize, rows
  <2>5. CASE AffectedRefreshed(r)
    <3> DEFINE rest == review[r].docs \ {work[r].doc}
    <3>1. review' = [review EXCEPT
              ![r] = IF rest = {} THEN Idle ELSE [review[r] EXCEPT !.docs = rest]]
      BY <2>5 DEF AffectedRefreshed
    <3>2. \A q \in Reviewers : review'[q].doing = "mark" =>
              review[q].doing = "mark" /\ review'[q].version = review[q].version
      <4>1. /\ [review[r] EXCEPT !.docs = rest].doing = review[r].doing
            /\ review[r] # Idle => [review[r] EXCEPT !.docs = rest].version = review[r].version
        BY <1>1 DEF TypeOK, Reviewing, Idle
      <4>2. QED
        BY <1>1, <2>1, <3>1, <4>1 DEF TypeOK
    <3>3. QED
      BY <1>3, <2>5, <3>2 DEF AffectedRefreshed, rows, ghost
  <2>6. CASE MarkFails(r) \/ RefreshAffectedFails(r)
    <3>1. \A q \in Reviewers : review'[q] = review[q] \/ review'[q].doing # "mark"
      BY <1>1, <2>1, <2>6 DEF MarkFails, RefreshAffectedFails, TypeOK
    <3>2. QED
      BY <1>3, <1>4, <2>1, <2>6, <3>1 DEF MarkFails, RefreshAffectedFails, rows, ghost
  <2>7. QED
    BY <1>5, <2>2, <2>3, <2>4, <2>5, <2>6 DEF ReviewStep
<1>6. ASSUME NEW a \in Actors, WriteLands(a) PROVE VersionInv'
  BY <1>3, <1>6 DEF WriteLands, ghost
<1>7. ASSUME NEW p \in Processes, JobStep(p) \/ Unlock(p) \/ Crash(p) PROVE VersionInv'
  <2>1. p \in Actors
    BY DEF Actors
  <2>2. UNCHANGED <<dictionary, due, review>>
    BY <1>7 DEF JobStep, StartJob, TryLock, SelectDirty, RefreshDocument, WriteLands,
       DocumentRefreshed, FindDirtyArchive, LockArchive, CommitArchive, DocumentFails,
       FinishJob, JobFails, Unlock, Crash, CacheLost, rows, ghost
  <2>3. /\ \A w \in late' : w \in late \/ w.doc \in disturbed'
        /\ disturbed \subseteq disturbed'
    BY <1>4, <1>7, <2>1 DEF JobStep, StartJob, TryLock, SelectDirty, RefreshDocument, Normalize,
       WriteLands, DocumentRefreshed, FindDirtyArchive, LockArchive, CommitArchive,
       DocumentFails, FinishJob, JobFails, Unlock, Crash, ghost, NormalizationFails
  <2>4. QED
    BY <1>3, <2>2, <2>3
<1>8. CASE LateWriteLands
  BY <1>3, <1>8 DEF LateWriteLands, ghost
<1>9. CASE UNCHANGED vars
  BY <1>3, <1>9 DEF vars, rows, ghost
<1>10. QED
  BY <1>5, <1>6, <1>7, <1>8, <1>9 DEF Next, Actors

LEMMA Numbers ==
    ASSUME TypeOK
    PROVE  /\ dictionary \in Nat
           /\ \A d \in Documents : due[d] \in Nat /\ document[d].from \in Nat
           /\ \A p \in Processes : CachedDictionary(p) \subseteq Nat
           /\ \A a \in Actors : work[a].doing # "nothing" => work[a].from \in Nat
<1>1. \A d \in Documents : document[d].from \in Versions
  BY ContentStays DEF TypeOK
<1>2. QED
  BY <1>1, VersionsAreNumbers, WorkTyped DEF TypeOK, CachedDictionary

-----------------------------------------------------------------------------
(* How each kind of step leaves the documents *)

LEMMA RestRefreshed ==
    ASSUME RefreshedInv, UNCHANGED <<document, due, work>>, disturbed \subseteq disturbed'
    PROVE  RefreshedInv'
BY DEF RefreshedInv, Normalizes

(* An actor is done, or fails where no mark is cleared.                    *)
LEMMA StopRefreshed ==
    ASSUME TypeOK, RefreshedInv, NEW a \in Actors, NEW w, w.doing # "normalizing",
           work' = [work EXCEPT ![a] = w],
           UNCHANGED <<document, due>>, disturbed \subseteq disturbed',
           \/ work[a].doing # "normalizing"
           \/ work[a].todo # {"extraction"}
           \/ work[a].doc \in disturbed'
    PROVE  RefreshedInv'
<1>1. \A b \in Actors : work'[b] = IF b = a THEN w ELSE work[b]
  BY DEF TypeOK
<1> SUFFICES ASSUME NEW d \in Documents \ disturbed'
             PROVE  /\ document[d].status = "normalized" =>
                           \/ document[d].from >= due[d]
                           \/ \E b \in Actors : Normalizes(b, d)' /\ work'[b].todo = {"extraction"}
                    /\ \A b \in Actors : Normalizes(b, d)' =>
                           /\ work'[b].from >= due[d]
                           /\ "extraction" \notin work'[b].todo => document[d].from >= due[d]
                           /\ d \in Broken => work'[b].todo = Writes
  BY DEF RefreshedInv
<1>2. d \in Documents \ disturbed
  OBVIOUS
<1>3. \A b \in Actors \ {a} : (Normalizes(b, d)' <=> Normalizes(b, d)) /\ work'[b] = work[b]
  BY <1>1 DEF Normalizes
<1>4. ~ Normalizes(a, d)'
  BY <1>1 DEF Normalizes
<1>5. ~ (Normalizes(a, d) /\ work[a].todo = {"extraction"})
  BY DEF Normalizes
<1>6. QED
  BY <1>2, <1>3, <1>4, <1>5 DEF RefreshedInv

LEMMA NormalizeRefreshed ==
    ASSUME TypeOK, RefreshedInv, NEW a \in Actors, NEW e, Normalize(a, e),
           ProcessOf(a) \in Processes,
           work[a].doing # "normalizing", UNCHANGED <<document, due>>
    PROVE  RefreshedInv'
<1>1. PICK v \in CachedDictionary(ProcessOf(a)) :
          /\ work' = [work EXCEPT ![a] = [doing |-> "normalizing", doc |-> e,
                                          from |-> v, todo |-> Writes]]
          /\ disturbed' = IF BeingNormalized(e) \/ v < due[e]
                          THEN disturbed \cup {e} ELSE disturbed
  BY DEF Normalize
<1> DEFINE w == [doing |-> "normalizing", doc |-> e, from |-> v, todo |-> Writes]
<1>2. \A b \in Actors : work'[b] = IF b = a THEN w ELSE work[b]
  BY <1>1 DEF TypeOK
<1>3. disturbed \subseteq disturbed' /\ (e \in disturbed' \/ ~ (v < due[e]))
  BY <1>1
<1>4. "extraction" \in w.todo /\ w.todo = Writes /\ w.doc = e
  BY DEF Writes
<1>5. e \in Documents \ disturbed' => w.from >= due[e]
  <2>1. v \in Nat /\ (e \in Documents => due[e] \in Nat) /\ w.from = v
    BY <1>1, Numbers
  <2>2. QED
    BY <1>3, <2>1
<1>6. \A d \in Documents, b \in Actors : Normalizes(b, d) => b # a
  BY DEF Normalizes
<1>7. \A d \in Documents, b \in Actors \ {a} : Normalizes(b, d)' <=> Normalizes(b, d)
  BY <1>2 DEF Normalizes
<1>8. \A d : Normalizes(a, d)' => d = e
  BY <1>2, <1>4 DEF Normalizes
<1> HIDE DEF w
<1>9. QED
  BY <1>2, <1>3, <1>4, <1>5, <1>6, <1>7, <1>8 DEF RefreshedInv

LEMMA WriteRefreshed ==
    ASSUME TypeOK, RefreshedInv, NEW a \in Actors, WriteLands(a)
    PROVE  RefreshedInv'
<1>1. /\ work[a] \in Work /\ work[a].doc \in Documents \ Broken
      /\ work[a].todo \subseteq Writes
      /\ work[a].doing = "normalizing" /\ UNCHANGED <<due, disturbed>>
  BY WorkTyped DEF WriteLands, ghost
<1>2. PICK w \in work[a].todo :
          /\ document' = [document EXCEPT ![work[a].doc] = Written(@, w, work[a].from)]
          /\ work' = [work EXCEPT ![a].todo = @ \ {w}]
  BY DEF WriteLands
<1>3. /\ work'[a].doing = work[a].doing /\ work'[a].doc = work[a].doc
      /\ work'[a].from = work[a].from /\ work'[a].todo = work[a].todo \ {w}
      /\ \A b \in Actors \ {a} : work'[b] = work[b]
  BY <1>1, <1>2 DEF Work, TypeOK
<1>4. \A b \in Actors, d \in Documents : Normalizes(b, d)' <=> Normalizes(b, d)
  BY <1>3 DEF Normalizes
<1> SUFFICES ASSUME NEW d \in Documents \ disturbed
             PROVE  /\ document'[d].status = "normalized" =>
                           \/ document'[d].from >= due[d]
                           \/ \E b \in Actors : Normalizes(b, d) /\ work'[b].todo = {"extraction"}
                    /\ \A b \in Actors : Normalizes(b, d) =>
                           /\ work[b].from >= due[d]
                           /\ "extraction" \notin work'[b].todo => document'[d].from >= due[d]
                           /\ d \in Broken => work'[b].todo = Writes
  BY <1>1, <1>3, <1>4 DEF RefreshedInv
<1>5. CASE d # work[a].doc
  <2>1. document'[d] = document[d] /\ ~ Normalizes(a, d)
    BY <1>2, <1>5 DEF TypeOK, Normalizes
  <2>2. QED
    BY <1>3, <2>1 DEF RefreshedInv
<1>6. CASE d = work[a].doc
  <2>1. document'[d] = Written(document[d], w, work[a].from) /\ document[d] \in Content("normalized")
    BY <1>2, <1>6 DEF TypeOK
  <2>2. Normalizes(a, d) /\ d \notin Broken
    BY <1>1, <1>6 DEF Normalizes
  <2>3. \A b \in Actors : Normalizes(b, d) => work[b].from >= due[d]
    BY DEF RefreshedInv
  <2>4. CASE w = "extraction"
    <3>1. document'[d].from = work[a].from
      BY <2>1, <2>4 DEF Written, Content
    <3>2. QED
      BY <2>2, <2>3, <3>1
  <2>5. CASE w = "status"
    <3>1. document'[d].from = document[d].from
      BY <2>1, <2>5 DEF Written, Content
    <3>2. \A b \in Actors : "extraction" \notin work'[b].todo => "extraction" \notin work[b].todo
      BY <1>3, <2>5
    <3>3. "extraction" \in work[a].todo => work'[a].todo = {"extraction"}
      BY <1>1, <1>3, <2>5 DEF Writes
    <3>4. "extraction" \notin work[a].todo => document[d].from >= due[d]
      BY <2>2 DEF RefreshedInv
    <3>5. QED
      BY <2>2, <2>3, <3>1, <3>2, <3>3, <3>4 DEF RefreshedInv
  <2>6. QED
    BY <1>1, <2>4, <2>5 DEF Writes
<1>7. QED
  BY <1>5, <1>6

LEMMA LateRefreshed ==
    ASSUME TypeOK, VersionInv, RefreshedInv, LateWriteLands
    PROVE  RefreshedInv' /\ \A d \in Documents \ disturbed' : document'[d] = document[d]
<1>1. PICK w \in late : document' = [document EXCEPT ![w.doc] = Written(@, w.write, w.from)]
  BY DEF LateWriteLands
<1>2. w.doc \in disturbed /\ UNCHANGED <<due, disturbed, work>>
  BY DEF VersionInv, LateWriteLands, ghost
<1>3. \A d \in Documents \ disturbed : document'[d] = document[d]
  BY <1>1, <1>2 DEF TypeOK
<1>4. QED
  BY <1>2, <1>3 DEF RefreshedInv, Normalizes

(* A marked document is normalized by nobody, or disturbed.                *)
LEMMA MarkRefreshed ==
    ASSUME TypeOK, RefreshedInv, NEW r \in Reviewers, Mark(r)
    PROVE  RefreshedInv'
<1> DEFINE S == review[r].docs
<1>1. UNCHANGED work /\ disturbed' = disturbed \cup {d \in S : BeingNormalized(d) \/ BeingArchived(d)}
  BY DEF Mark
<1>2. \A d \in Documents \ S : document'[d] = document[d] /\ due'[d] = due[d]
  BY DEF Mark, MarkedDocuments
<1>3. \A d \in Documents \cap S : document'[d].status = "dictionary_dirty"
  BY DEF Mark, MarkedDocuments, TypeOK, Content
<1>4. \A d \in Documents \cap S, a \in Actors : d \notin disturbed' => ~ Normalizes(a, d)
  BY <1>1 DEF BeingNormalized, Normalizes
<1> HIDE DEF S
<1> SUFFICES ASSUME NEW d \in Documents \ disturbed'
             PROVE  /\ document'[d].status = "normalized" =>
                           \/ document'[d].from >= due'[d]
                           \/ \E b \in Actors : Normalizes(b, d) /\ work[b].todo = {"extraction"}
                    /\ \A b \in Actors : Normalizes(b, d) =>
                           /\ work[b].from >= due'[d]
                           /\ "extraction" \notin work[b].todo => document'[d].from >= due'[d]
                           /\ d \in Broken => work[b].todo = Writes
  BY <1>1 DEF RefreshedInv, Normalizes
<1>5. CASE d \in S
  BY <1>3, <1>4, <1>5
<1>6. CASE d \notin S
  BY <1>1, <1>2, <1>6 DEF RefreshedInv
<1>7. QED
  BY <1>5, <1>6

LEMMA RefreshedInvStep ==
    ASSUME TypeInv, VersionInv, RefreshedInv, [Next]_vars
    PROVE  RefreshedInv'
<1>1. TypeOK /\ Idle.doing # "normalizing"
  BY DEF TypeInv, Idle
<1>2. ASSUME NEW a \in Actors, NormalizationFails(a), UNCHANGED <<document, due>>
      PROVE  RefreshedInv'
  <2>1. work' = [work EXCEPT ![a] = Idle] /\ disturbed \subseteq disturbed'
    BY <1>2, FailureStops DEF NormalizationFails, Throws, Interrupted
  <2>2. work[a].todo # {"extraction"} \/ work[a].doc \in disturbed'
    BY <1>2 DEF NormalizationFails, Throws, Interrupted, Writes
  <2>3. QED
    BY <1>1, <1>2, <2>1, <2>2, StopRefreshed
<1>3. ASSUME NEW r \in Reviewers, ReviewStep(r) PROVE RefreshedInv'
  <2>1. r \in Actors
    BY DEF Actors
  <2>2. CASE ChangeDictionary(r) \/ MarkFails(r)
    BY <2>2, RestRefreshed DEF ChangeDictionary, MarkFails, rows, ghost
  <2>3. CASE Mark(r)
    BY <1>1, <2>3, MarkRefreshed
  <2>4. CASE RefreshAffected(r)
    BY <1>1, <2>1, <2>4, Housed, NormalizeRefreshed, ActorAssumption DEF RefreshAffected, Idle
  <2>5. CASE AffectedRefreshed(r)
    BY <1>1, <2>1, <2>5, StopRefreshed DEF AffectedRefreshed, Normalized, rows, ghost
  <2>6. CASE RefreshAffectedFails(r)
    BY <1>2, <2>1, <2>6 DEF RefreshAffectedFails, rows
  <2>7. QED
    BY <1>3, <2>2, <2>3, <2>4, <2>5, <2>6 DEF ReviewStep
<1>4. ASSUME NEW p \in Processes, JobStep(p) PROVE RefreshedInv'
  <2>1. p \in Actors /\ (work[p].doing = "normalizing" => at[p] = "normalize")
    BY DEF Actors, TypeInv, JobInv, WorkInv
  <2>2. CASE StartJob(p) \/ TryLock(p) \/ SelectDirty(p) \/ FindDirtyArchive(p) \/ FinishJob(p)
             \/ JobFails(p)
    BY <2>2, RestRefreshed
    DEF StartJob, TryLock, SelectDirty, FindDirtyArchive, FinishJob, JobFails, rows, ghost
  <2>3. CASE RefreshDocument(p)
    BY <1>1, <2>1, <2>3, Housed, NormalizeRefreshed DEF RefreshDocument
  <2>4. CASE WriteLands(p)
    BY <1>1, <2>1, <2>4, WriteRefreshed
  <2>5. CASE DocumentRefreshed(p)
    BY <1>1, <2>1, <2>5, StopRefreshed DEF DocumentRefreshed, Normalized, rows, ghost
  <2>6. CASE LockArchive(p)
    BY <1>1, <2>1, <2>6, StopRefreshed DEF LockArchive, rows, ghost
  <2>7. CASE CommitArchive(p)
    BY <1>1, <2>1, <2>7, StopRefreshed DEF CommitArchive, ghost
  <2>8. CASE DocumentFails(p)
    <3>1. CASE NormalizationFails(p)
      BY <1>2, <2>1, <2>8, <3>1 DEF DocumentFails, rows
    <3>2. CASE at[p] \in {"find", "refresh", "commit"} /\ work' = [work EXCEPT ![p] = Idle]
               /\ UNCHANGED disturbed
      BY <1>1, <2>1, <2>8, <3>2, StopRefreshed DEF DocumentFails, rows
    <3>3. QED
      BY <2>8, <3>1, <3>2 DEF DocumentFails
  <2>9. QED
    BY <1>4, <2>2, <2>3, <2>4, <2>5, <2>6, <2>7, <2>8 DEF JobStep
<1>5. ASSUME NEW p \in Processes, Crash(p) PROVE RefreshedInv'
  <2>1. p \in Actors
    BY DEF Actors
  <2>2. CASE Interrupted(p)
    BY <1>2, <1>5, <2>1, <2>2 DEF NormalizationFails, Crash, CacheLost
  <2>3. CASE ~ Writing(p) /\ work' = [work EXCEPT ![p] = Idle] /\ UNCHANGED disturbed
    <3>1. ~ (Normalizes(p, work[p].doc) /\ work[p].todo = {"extraction"}
             /\ work[p].doc \in Documents \ disturbed)
      <4>1. {"extraction"} # {} /\ {"extraction"} # Writes
        BY DEF Writes
      <4>2. QED
        BY <2>1, <2>3, <4>1 DEF Writing, RefreshedInv, Normalizes
    <3>2. work[p].doing = "normalizing" => work[p].doc \in Documents
      BY <1>1, <2>1, WorkTyped
    <3>3. QED
      BY <1>1, <1>5, <2>1, <2>3, <3>1, <3>2, StopRefreshed DEF Crash, CacheLost, Normalizes
  <2>4. QED
    BY <1>5, <2>2, <2>3 DEF Crash
<1>6. CASE \E p \in Processes : Unlock(p)
  BY <1>6, RestRefreshed DEF Unlock, rows, ghost
<1>7. CASE \E r \in Reviewers : WriteLands(r)
  BY <1>1, <1>7, WriteRefreshed DEF Actors
<1>8. CASE LateWriteLands
  BY <1>1, <1>8, LateRefreshed
<1>9. CASE UNCHANGED vars
  BY <1>9, RestRefreshed DEF vars, rows, ghost
<1>10. QED
  BY <1>3, <1>4, <1>5, <1>6, <1>7, <1>8, <1>9 DEF Next

-----------------------------------------------------------------------------
(* How each kind of step leaves the archives *)

(* What a process holds for the archive of its current document.           *)
Sound(p, d) ==
    /\ at[p] \in {"find", "refresh"} => document[d].from >= due[d]
    /\ at[p] = "commit" => work[p].from >= due[d]

LEMMA RestArchived ==
    ASSUME NEW excused, ArchivedInv(excused), UNCHANGED due, disturbed \subseteq disturbed',
           \A d \in Documents \ disturbed' : archive'[d] = archive[d],
           \A p \in Processes, d \in Documents \ disturbed' : Current(p)' = d => Sound(p, d)'
    PROVE  ArchivedInv(excused)'
BY DEF ArchivedInv, Sound

LEMMA SoundStays ==
    ASSUME NEW excused, ArchivedInv(excused), NEW d \in Documents \ disturbed',
           NEW p \in Processes,
           UNCHANGED due, disturbed \subseteq disturbed', Current(p)' = d,
           document'[d].from = document[d].from \/ document'[d].from >= due[d],
           at'[p] = at[p], queue'[p] = queue[p],
           at[p] = "commit" => work'[p] = work[p]
    PROVE  Sound(p, d)'
<1>1. Current(p) = d
  BY CurrentStays
<1>2. Sound(p, d)
  BY <1>1 DEF ArchivedInv, Sound
<1>3. QED
  BY <1>2 DEF Sound

(* A write of an undisturbed document is of a version it was not marked    *)
(* after.                                                                  *)
LEMMA WriteIsRecent ==
    ASSUME TypeOK, RefreshedInv, NEW a \in Actors, WriteLands(a),
           NEW d \in Documents \ disturbed
    PROVE  document'[d].from = document[d].from \/ document'[d].from >= due[d]
<1>1. /\ work[a] \in Work /\ work[a].todo \subseteq Writes /\ work[a].doing = "normalizing"
  BY WorkTyped DEF WriteLands
<1>2. PICK w \in work[a].todo :
          document' = [document EXCEPT ![work[a].doc] = Written(@, w, work[a].from)]
  BY DEF WriteLands
<1>3. CASE d # work[a].doc
  BY <1>2, <1>3 DEF TypeOK
<1>4. CASE d = work[a].doc
  <2>1. work[a].from >= due[d]
    BY <1>1, <1>4 DEF RefreshedInv, Normalizes
  <2>2. document'[d] = Written(document[d], w, work[a].from) /\ document[d] \in Content("normalized")
    BY <1>2, <1>4 DEF TypeOK
  <2>3. QED
    BY <2>1, <2>2 DEF Written, Content
<1>5. QED
  BY <1>3, <1>4

LEMMA MarkArchived ==
    ASSUME NEW excused, TypeOK, ArchivedInv(excused), NEW r \in Reviewers, Mark(r)
    PROVE  ArchivedInv(excused)'
<1> DEFINE S == review[r].docs
<1>1. /\ UNCHANGED <<work, at, queue>>
      /\ disturbed' = disturbed \cup {d \in S : BeingNormalized(d) \/ BeingArchived(d)}
  BY DEF Mark, jobs
<1>2. \A d \in Documents \ S : document'[d] = document[d] /\ due'[d] = due[d] /\ archive'[d] = archive[d]
  BY DEF Mark, MarkedDocuments, MarkedArchives
<1>3. \A d \in Documents \cap S : archive'[d].status # "archived"
  <2>1. NoArchive.status = "none"
    BY DEF NoArchive
  <2>2. \A d \in Documents : archive[d] # NoArchive =>
            [archive[d] EXCEPT !.status = "dictionary_dirty"].status = "dictionary_dirty"
    BY DEF TypeOK, Content
  <2>3. QED
    BY <2>1, <2>2 DEF Mark, MarkedArchives
<1>4. \A p \in Processes, d \in S :
          d \notin disturbed' /\ Current(p) = d => at[p] \notin {"find", "refresh", "commit"}
  BY <1>1 DEF BeingArchived
<1>5. \A p \in Processes : Current(p)' = Current(p)
  BY <1>1, CurrentStays
<1> HIDE DEF S
<1>6. QED
  BY <1>1, <1>2, <1>3, <1>4, <1>5 DEF ArchivedInv

LEMMA JobArchived ==
    ASSUME NEW excused, MarkInv(excused), NEW p \in Processes, JobStep(p)
    PROVE  ArchivedInv(excused)'
<1>1. /\ TypeOK /\ ArchivedInv(excused) /\ RefreshedInv /\ p \in Actors
      /\ (work[p].doing = "normalizing" => at[p] = "normalize" /\ work[p].doc = Current(p))
  BY DEF Actors, TypeInv, JobInv, WorkInv, MarkInv, QueueInv
<1>2. UNCHANGED due /\ disturbed \subseteq disturbed'
  BY DEF JobStep, StartJob, TryLock, SelectDirty, RefreshDocument, Normalize, WriteLands,
     DocumentRefreshed, FindDirtyArchive, LockArchive, CommitArchive, DocumentFails, FinishJob,
     JobFails, NormalizationFails, Throws, Interrupted, rows, ghost
<1>3. \A q \in Processes \ {p} :
          at'[q] = at[q] /\ queue'[q] = queue[q] /\ work'[q] = work[q]
  <2>1. /\ UNCHANGED at \/ \E stage : at' = [at EXCEPT ![p] = stage]
        /\ UNCHANGED queue \/ \E todo : queue' = [queue EXCEPT ![p] = todo]
    BY DEF JobStep, StartJob, TryLock, SelectDirty, RefreshDocument, WriteLands,
       DocumentRefreshed, FindDirtyArchive, LockArchive, CommitArchive, DocumentFails, FinishJob,
       JobFails, GoOn, jobs
  <2>2. UNCHANGED work \/ \E w : work' = [work EXCEPT ![p] = w]
    BY <1>1, FailureStops DEF JobStep, StartJob, TryLock, SelectDirty, RefreshDocument, Normalize,
       WriteLands, DocumentRefreshed, FindDirtyArchive, LockArchive, CommitArchive, DocumentFails,
       FinishJob, JobFails
  <2>3. QED
    BY <1>1, <2>1, <2>2 DEF TypeOK, Actors
<1>4. ASSUME \A d \in Documents \ disturbed' :
                 document'[d].from = document[d].from \/ document'[d].from >= due[d],
             \A d \in Documents \ disturbed' : Current(p)' = d => Sound(p, d)'
      PROVE  \A q \in Processes, d \in Documents \ disturbed' : Current(q)' = d => Sound(q, d)'
  BY <1>1, <1>2, <1>3, <1>4, SoundStays
<1>5. ASSUME UNCHANGED <<document, archive>>,
             \A d \in Documents \ disturbed' : Current(p)' = d => Sound(p, d)'
      PROVE  ArchivedInv(excused)'
  BY <1>1, <1>2, <1>4, <1>5, RestArchived
<1>6. CASE at'[p] \notin {"find", "refresh", "commit"} /\ UNCHANGED <<document, archive>>
  BY <1>5, <1>6 DEF Sound
<1>7. CASE StartJob(p) \/ TryLock(p) \/ SelectDirty(p) \/ RefreshDocument(p) \/ FinishJob(p)
           \/ JobFails(p) \/ DocumentFails(p)
  BY <1>1, <1>6, <1>7 DEF StartJob, TryLock, SelectDirty, RefreshDocument, FinishJob, JobFails,
     DocumentFails, GoOn, rows, TypeOK
<1>8. CASE WriteLands(p)
  <2>1. at' = at /\ queue' = queue /\ at[p] = "normalize" /\ archive' = archive
    BY <1>1, <1>8 DEF WriteLands, jobs
  <2>2. \A d \in Documents \ disturbed' : Current(p)' = d => Sound(p, d)'
    BY <2>1 DEF Sound
  <2>3. \A d \in Documents \ disturbed' :
            document'[d].from = document[d].from \/ document'[d].from >= due[d]
    BY <1>1, <1>2, <1>8, WriteIsRecent
  <2>4. QED
    BY <1>1, <1>2, <1>4, <2>1, <2>2, <2>3, RestArchived
<1>9. CASE DocumentRefreshed(p)
  <2>1. /\ at'[p] = "find" /\ queue' = queue /\ UNCHANGED <<document, archive, disturbed>>
        /\ work[p].doing = "normalizing" /\ work[p].todo = {}
    BY <1>1, <1>9 DEF DocumentRefreshed, Normalized, rows, ghost, TypeOK
  <2>2. Current(p)' = work[p].doc
    BY <1>1, <2>1, CurrentStays
  <2>3. \A d \in Documents \ disturbed : work[p].doc = d => document[d].from >= due[d]
    BY <1>1, <2>1 DEF RefreshedInv, Normalizes
  <2>4. QED
    BY <1>2, <1>5, <2>1, <2>2, <2>3 DEF Sound
<1>10. CASE FindDirtyArchive(p)
  <2>1. CASE at' = [at EXCEPT ![p] = "refresh"] /\ UNCHANGED queue
    <3>1. at'[p] = "refresh" /\ at[p] = "find" /\ Current(p)' = Current(p)
          /\ UNCHANGED <<document, archive, disturbed>>
      BY <1>1, <1>10, <2>1, CurrentStays DEF FindDirtyArchive, rows, ghost, TypeOK
    <3>2. QED
      BY <1>1, <1>2, <1>5, <3>1 DEF ArchivedInv, Sound
  <2>2. CASE GoOn(p)
    BY <1>1, <1>6, <1>10, <2>2 DEF FindDirtyArchive, GoOn, rows, TypeOK
  <2>3. QED
    BY <1>10, <2>1, <2>2 DEF FindDirtyArchive
<1>11. CASE LockArchive(p)
  <2>1. /\ at'[p] = "commit" /\ at[p] = "refresh" /\ Current(p)' = Current(p)
        /\ UNCHANGED <<document, archive, disturbed>>
        /\ work'[p].from = document[Current(p)].from
    BY <1>1, <1>11, CurrentStays DEF LockArchive, rows, ghost, TypeOK
  <2>2. QED
    BY <1>1, <1>2, <1>5, <2>1 DEF ArchivedInv, Sound
<1>12. CASE CommitArchive(p)
  <2>1. /\ at[p] = "commit" /\ at'[p] = "next" /\ UNCHANGED <<document, disturbed>>
        /\ archive' = [archive EXCEPT
               ![Current(p)] = [status |-> "archived", from |-> work[p].from]]
    BY <1>1, <1>12 DEF CommitArchive, GoOn, ghost, TypeOK
  <2>2. \A q \in Processes, d \in Documents \ disturbed' : Current(q)' = d => Sound(q, d)'
    BY <1>4, <2>1 DEF Sound
  <2>3. \A d \in Documents \ disturbed :
            archive'[d] = archive[d] \/ archive'[d].from >= due[d]
    BY <1>1, <2>1 DEF ArchivedInv, TypeOK
  <2>4. QED
    BY <1>1, <1>2, <2>1, <2>2, <2>3 DEF ArchivedInv, Sound
<1>13. QED
  BY <1>7, <1>8, <1>9, <1>10, <1>11, <1>12 DEF JobStep

LEMMA ArchivedInvStep ==
    ASSUME NEW excused, MarkInv(excused), [Next]_vars
    PROVE  ArchivedInv(excused)'
<1>1. /\ TypeOK /\ ArchivedInv(excused) /\ RefreshedInv /\ VersionInv
      /\ \A a \in Actors : work[a].doing = "normalizing" /\ a \in Processes => at[a] = "normalize"
  BY DEF TypeInv, JobInv, WorkInv, MarkInv
<1>2. ASSUME UNCHANGED <<document, archive, due, at, queue>>, disturbed \subseteq disturbed',
             \A p \in Processes : work'[p] = work[p]
      PROVE  ArchivedInv(excused)'
  BY <1>1, <1>2, SoundStays, RestArchived
<1>3. ASSUME NEW r \in Reviewers, ReviewStep(r) PROVE ArchivedInv(excused)'
  <2>1. r \in Actors /\ r \notin Processes
    BY ActorAssumption DEF Actors
  <2>2. CASE Mark(r)
    BY <1>1, <2>2, MarkArchived
  <2>3. CASE ~ Mark(r)
    <3>1. UNCHANGED <<document, archive, due, at, queue>> /\ disturbed \subseteq disturbed'
      BY <1>3, <2>3 DEF ReviewStep, ChangeDictionary, RefreshAffected, Normalize,
         AffectedRefreshed, MarkFails, RefreshAffectedFails, NormalizationFails, Throws,
         Interrupted, rows, jobs, ghost
    <3>2. UNCHANGED work \/ \E w : work' = [work EXCEPT ![r] = w]
      BY <1>3, <2>1, <2>3, FailureStops DEF ReviewStep, ChangeDictionary, RefreshAffected,
         Normalize, AffectedRefreshed, MarkFails, RefreshAffectedFails
    <3>3. \A p \in Processes : work'[p] = work[p]
      BY <1>1, <2>1, <3>2 DEF TypeOK, Actors
    <3>4. QED
      BY <1>2, <3>1, <3>3
  <2>4. QED
    BY <2>2, <2>3
<1>4. ASSUME NEW r \in Reviewers, WriteLands(r) PROVE ArchivedInv(excused)'
  <2>1. r \in Actors /\ r \notin Processes
    BY ActorAssumption DEF Actors
  <2>2. UNCHANGED <<archive, due, disturbed, at, queue>>
    BY <1>4 DEF WriteLands, jobs, ghost
  <2>3. \A p \in Processes : work'[p] = work[p]
    BY <1>1, <1>4, <2>1 DEF WriteLands, TypeOK, Actors
  <2>4. \A d \in Documents \ disturbed' :
            document'[d].from = document[d].from \/ document'[d].from >= due[d]
    BY <1>1, <1>4, <2>1, <2>2, WriteIsRecent
  <2>5. QED
    BY <1>1, <2>2, <2>3, <2>4, SoundStays, RestArchived
<1>5. CASE LateWriteLands
  <2>1. UNCHANGED <<archive, due, disturbed, at, queue, work>>
    BY <1>5 DEF LateWriteLands, jobs, ghost
  <2>2. QED
    BY <1>1, <1>5, <2>1, LateRefreshed, SoundStays, RestArchived
<1>6. ASSUME NEW p \in Processes, Crash(p) PROVE ArchivedInv(excused)'
  <2>1. /\ UNCHANGED <<document, archive, due>> /\ disturbed \subseteq disturbed'
        /\ at' = [at EXCEPT ![p] = "idle"] /\ queue' = [queue EXCEPT ![p] = {}]
        /\ work' = [work EXCEPT ![p] = Idle]
    BY <1>6 DEF Crash, CacheLost, Interrupted
  <2>2. \A q \in Processes \ {p} :
            at'[q] = at[q] /\ queue'[q] = queue[q] /\ work'[q] = work[q]
    BY <1>1, <2>1 DEF TypeOK, Actors
  <2>3. at'[p] = "idle"
    BY <1>1, <2>1 DEF TypeOK
  <2>4. \A q \in Processes, d \in Documents \ disturbed' : Current(q)' = d => Sound(q, d)'
    BY <1>1, <2>1, <2>2, <2>3, SoundStays DEF Sound
  <2>5. QED
    BY <1>1, <2>1, <2>4, RestArchived
<1>7. CASE \E p \in Processes : Unlock(p)
  BY <1>2, <1>7 DEF Unlock, rows, ghost
<1>8. CASE UNCHANGED vars
  BY <1>2, <1>8 DEF vars, rows, jobs, ghost
<1>9. QED
  BY <1>3, <1>4, <1>5, <1>6, <1>7, <1>8, JobArchived DEF Next

LEMMA MarkInvStep == ASSUME NEW excused PROVE MarkInv(excused) /\ [Next]_vars => MarkInv(excused)'
BY TypeInvStep, VersionInvStep, RefreshedInvStep, ArchivedInvStep DEF MarkInv

LEMMA MarkInvReaches ==
    ASSUME NEW excused, MarkInv(excused)
    PROVE  MarksReach(excused)
<1>1. DOMAIN document = Documents /\ RefreshedInv /\ ArchivedInv(excused)
  BY DEF MarkInv, TypeInv, TypeOK
<1>2. \A d \in Documents, a \in Actors : ~BeingNormalized(d) => ~Normalizes(a, d)
  BY DEF BeingNormalized, Normalizes
<1>3. QED
  BY <1>1, <1>2 DEF MarksReach, RefreshedInv, ArchivedInv

(* Where only the refresh makes archives, the extraction and the archive   *)
(* of every document whose refresh was not disturbed are as new as the     *)
(* change it was last marked for, or still marked.                         *)
THEOREM MarksReachWhatIsRefreshed == Spec => []MarksReachContent
<1>1. Init => MarkInv({})
  BY MarkInit
<1>2. MarkInv({}) /\ [Next]_vars => MarkInv({})'
  BY MarkInvStep
<1>3. MarkInv({}) => MarksReachContent
  BY MarkInvReaches DEF MarksReachContent
<1>4. QED
  BY <1>1, <1>2, <1>3, PTL DEF Spec

-----------------------------------------------------------------------------
(* The maintenance of every night: what its steps do to the refresh *)

(* A fault, the loss of a cache, or the late release of the lock of a job  *)
(* that is over.                                                           *)
Aside ==
    /\ UNCHANGED <<dictionary, document, archive, at, queue, work, late, review, ghost>>
    /\ cached' \in [Processes -> Versions]
    /\ faults' \in 0..MaxFaults
    /\ lock' = lock \/ \E p \in Processes : at[p] = "idle" /\ lock' = Released(lock, p)

LEMMA MaintenanceSteps ==
    ASSUME TypeOK, [MaintenanceNext]_maintVars
    PROVE  Next \/ Aside \/ \E a \in Archivers : CommitNewArchive(a)
<1>1. /\ UNCHANGED vars => Aside
      /\ UNCHANGED rows =>
             UNCHANGED <<dictionary, document, archive>> /\ cached' \in [Processes -> Versions]
  BY DEF vars, rows, jobs, ghost, Aside, TypeOK
<1>2. Fault => faults' \in 0..MaxFaults
  BY BoundAssumption DEF Fault, TypeOK
<1>3. Processes \subseteq Archivers /\ Scripts \subseteq Archivers /\ Callers \subseteq Archivers
  BY DEF Archivers
<1>4. ASSUME NEW a \in Archivers, Archives(a) PROVE Aside \/ CommitNewArchive(a)
  BY <1>1, <1>4
  DEF Archives, TryArchiveLock, SelectCandidates, ReadDocument, EndArchive
<1>5. ASSUME NEW p \in Processes, Maintains(p) PROVE Next \/ Aside \/ CommitNewArchive(p)
  BY <1>1, <1>3, <1>4, <1>5 DEF Maintains, BeginDay, RefreshNow, EndDay, Next, JobStep
<1>6. ASSUME NEW p \in Processes, JobGoesOn(p) PROVE Next
  BY <1>6 DEF JobGoesOn, Next
<1>7. ASSUME NEW p \in Processes, Dies(p) PROVE Next \/ Aside
  BY <1>2, <1>7 DEF Dies, Next, Aside, CacheLost, TypeOK
<1>8. ASSUME NEW a \in Archivers, ArchiveFails(a) \/ SelectThrows(a) \/ ScriptDies(a) PROVE Aside
  BY <1>1, <1>2, <1>8 DEF ArchiveFails, SelectThrows, ScriptDies, Aside, jobs
<1>9. CASE UNCHANGED maintVars
  BY <1>1, <1>9 DEF maintVars
<1>10. CASE MaintenanceNext
  <2>1. CASE \E p \in Processes : Maintains(p) \/ JobGoesOn(p) \/ Dies(p)
    BY <1>3, <1>5, <1>6, <1>7, <2>1
  <2>2. CASE \E a \in Scripts : StartScript(a) \/ ScriptDies(a)
    BY <1>1, <1>3, <1>8, <2>2 DEF StartScript
  <2>3. CASE \E a \in Callers, d \in Documents, force \in BOOLEAN : RequestArchive(a, d, force)
    BY <1>1, <2>3 DEF RequestArchive
  <2>4. CASE \E a \in Scripts \cup Callers : Archives(a)
    BY <1>3, <1>4, <2>4
  <2>5. CASE \E a \in Archivers : ArchiveFails(a) \/ SelectThrows(a)
    BY <1>8, <2>5
  <2>6. CASE \/ \E r \in Reviewers : ReviewStep(r) \/ WriteLands(r)
             \/ \E p \in Processes : Unlock(p)
             \/ LateWriteLands
    BY <2>6 DEF Next
  <2>7. QED
    BY <1>10, <2>1, <2>2, <2>3, <2>4, <2>5, <2>6 DEF MaintenanceNext
<1>11. QED
  BY <1>9, <1>10

LEMMA AsideKeepsJobs == JobInv /\ Aside => JobInv'
<1> SUFFICES ASSUME JobInv, Aside PROVE JobInv'
  OBVIOUS
<1>1. \A q \in Processes : Working(q) => lock' = lock
  BY DEF Aside, JobInv, LockInv, Working, Released
<1>2. UNCHANGED <<at, work>>
  BY DEF Aside
<1>3. QED
  BY <1>1, <1>2 DEF JobInv, LockInv, WorkInv, Working

LEMMA AsideKeeps ==
    ASSUME NEW excused, MarkInv(excused), Aside
    PROVE  MarkInv(excused)'
<1>1. UNCHANGED <<dictionary, document, archive, at, queue, work, late, review, due, disturbed>>
  BY DEF Aside, ghost
<1>2. /\ lock' \in Processes \cup {NoProcess} /\ faults' \in 0..MaxFaults
      /\ cached' \in [Processes -> Versions]
  BY DEF Aside, Released, MarkInv, TypeInv, TypeOK
<1>3. JobInv'
  BY AsideKeepsJobs DEF MarkInv, TypeInv
<1>4. TypeOK'
  BY <1>1, <1>2 DEF MarkInv, TypeInv, TypeOK
<1>5. \A p \in Processes : Current(p)' = Current(p)
  BY <1>1, CurrentStays
<1>6. QueueInv'
  BY <1>1, <1>5 DEF MarkInv, TypeInv, QueueInv
<1>7. VersionInv' /\ RefreshedInv'
  BY <1>1 DEF MarkInv, VersionInv, RefreshedInv, Normalizes
<1>8. ArchivedInv(excused)'
  BY <1>1, <1>5 DEF MarkInv, ArchivedInv
<1>9. QED
  BY <1>3, <1>4, <1>6, <1>7, <1>8 DEF MarkInv, TypeInv

-----------------------------------------------------------------------------
(* What the archivers hold *)

(* An archiver that saw its document settled read it normalized.           *)
Truthful(v) == v.at = "commit" /\ v.settled => v.read.status = "normalized"

DaysInv ==
    /\ dayLock \in Processes \cup {NoProcess}
    /\ archiveLock \in Archivers \cup {NoProcess}
    /\ day \in [Archivers -> Day \cup {Resting}]
    /\ premature \subseteq Documents
    /\ \A a \in Archivers : Truthful(day[a])

LEMMA TodayKeeps ==
    ASSUME DaysInv, NEW a \in Archivers, NEW v \in Day \cup {Resting}, Truthful(v), Today(a, v),
           dayLock' \in Processes \cup {NoProcess}, archiveLock' \in Archivers \cup {NoProcess},
           premature' \subseteq Documents
    PROVE  DaysInv'
<1>1. day' \in [Archivers -> Day \cup {Resting}]
  BY DEF DaysInv, Today
<1>2. \A b \in Archivers : day'[b] = IF b = a THEN v ELSE day[b]
  BY DEF DaysInv, Today
<1>3. \A b \in Archivers : Truthful(day'[b])
  BY <1>2 DEF DaysInv
<1>4. QED
  BY <1>1, <1>3 DEF DaysInv, Truthful

LEMMA AtKeeps ==
    ASSUME DaysInv, NEW a \in Archivers,
           NEW stage \in {"refresh", "wait", "archive", "select", "end"},
           At(a, stage) \/ Today(a, Resting),
           dayLock' \in Processes \cup {NoProcess}, archiveLock' \in Archivers \cup {NoProcess},
           UNCHANGED premature
    PROVE  DaysInv'
<1>1. [at |-> stage] \in Day /\ Truthful([at |-> stage]) /\ Truthful(Resting)
  BY DEF Day, Truthful, Resting
<1>2. QED
  BY <1>1, TodayKeeps DEF At, DaysInv

LEMMA RestKeepsDays ==
    ASSUME DaysInv, NEW a \in Archivers, NEW todo \in SUBSET Documents, NEW force \in BOOLEAN,
           Rest(a, todo, force), UNCHANGED <<dayLock, archiveLock>>, premature' \subseteq Documents
    PROVE  DaysInv'
<1> DEFINE v == [at |-> "next", todo |-> todo, force |-> force]
<1>1. v \in Day /\ Truthful(v)
  BY DEF Day, Truthful
<1>2. Today(a, v)
  BY DEF Rest
<1> HIDE DEF v
<1>3. QED
  BY <1>1, <1>2, TodayKeeps DEF DaysInv

LEMMA HeldTyped ==
    ASSUME DaysInv, NEW a \in Archivers, day[a].at \in {"next", "commit"}
    PROVE  /\ day[a].todo \subseteq Documents /\ day[a].force \in BOOLEAN
           /\ day[a].at = "commit" =>
                  day[a].doc \in Documents /\ day[a].read \in Content("normalized")
BY DEF DaysInv, Day, Resting

LEMMA SkipKeeps ==
    ASSUME DaysInv, NEW a \in Archivers, day[a].at \in {"next", "commit"}, Skip(a),
           UNCHANGED <<dayLock, archiveLock>>, premature' \subseteq Documents
    PROVE  DaysInv'
BY HeldTyped, RestKeepsDays DEF Skip

LEMMA CandidateIsWaiting ==
    ASSUME DaysInv, NEW a \in Archivers, day[a].at = "next", day[a].todo # {}
    PROVE  Candidate(a) \in Documents
<1>1. day[a].todo \in SUBSET Documents /\ day[a].todo \in SUBSET Nat
  BY HeldTyped, DocumentAssumption
<1>2. \E d \in day[a].todo : \A e \in day[a].todo : d <= e
  BY <1>1, LeastNumber
<1>3. QED
  BY <1>1, <1>2 DEF Candidate

LEMMA ReadKeeps ==
    ASSUME DaysInv, TypeOK, NEW a \in Archivers, ReadDocument(a)
    PROVE  DaysInv'
<1> DEFINE d == Candidate(a)
           v == [at |-> "commit", todo |-> day[a].todo, force |-> day[a].force, doc |-> d,
                 read |-> document[d],
                 settled |-> document[d].status = "normalized" /\ ~BeingNormalized(d)]
<1>1. day[a].at = "next" /\ d \in Documents /\ UNCHANGED <<dayLock, archiveLock, premature>>
  BY CandidateIsWaiting DEF ReadDocument
<1>2. CASE Skip(a)
  BY <1>1, <1>2, SkipKeeps DEF DaysInv
<1>3. CASE Today(a, v)
  <2>1. (document[d].status = "normalized" /\ ~BeingNormalized(d)) \in BOOLEAN
    OBVIOUS
  <2>2. document[d] \in Content("normalized")
    BY <1>1 DEF TypeOK
  <2>3. v \in Day
    BY <1>1, <2>1, <2>2, HeldTyped DEF Day
  <2>4. Truthful(v)
    BY DEF Truthful
  <2> HIDE DEF v, d
  <2>5. QED
    BY <1>1, <1>3, <2>3, <2>4, TodayKeeps DEF DaysInv
<1>4. QED
  BY <1>2, <1>3 DEF ReadDocument

LEMMA ArchivesKeeps ==
    ASSUME DaysInv, TypeOK, NEW a \in Archivers, Archives(a)
    PROVE  DaysInv'
<1>1. CASE TryArchiveLock(a)
  BY <1>1, AtKeeps DEF TryArchiveLock, Over, DaysInv
<1>2. CASE SelectCandidates(a)
  <2> DEFINE todo == {d \in WithoutArchive :
                         Cardinality({e \in WithoutArchive : e < d}) < ArchiveLimit}
  <2>1. todo \in SUBSET Documents
    BY DEF WithoutArchive
  <2>2. Rest(a, todo, FALSE) /\ UNCHANGED <<dayLock, archiveLock, premature>>
    BY <1>2 DEF SelectCandidates
  <2> HIDE DEF todo
  <2>3. QED
    BY <2>1, <2>2, RestKeepsDays DEF DaysInv
<1>3. CASE ReadDocument(a)
  BY <1>3, ReadKeeps
<1>4. CASE CommitNewArchive(a)
  <2>1. day[a].at = "commit" /\ Skip(a) /\ UNCHANGED <<dayLock, archiveLock>>
    BY <1>4 DEF CommitNewArchive
  <2>2. premature' \subseteq premature \cup {day[a].doc}
    BY <1>4 DEF CommitNewArchive
  <2>3. QED
    BY <2>1, <2>2, HeldTyped, SkipKeeps DEF DaysInv
<1>5. CASE EndArchive(a)
  BY <1>5, AtKeeps DEF EndArchive, Over, Released, DaysInv
<1>6. QED
  BY <1>1, <1>2, <1>3, <1>4, <1>5 DEF Archives

LEMMA DaysInvStep ==
    ASSUME DaysInv, TypeOK, [MaintenanceNext]_maintVars
    PROVE  DaysInv'
<1>1. Processes \subseteq Archivers /\ Scripts \subseteq Archivers /\ Callers \subseteq Archivers
  BY DEF Archivers
<1>2. CASE UNCHANGED days
  BY <1>2 DEF days, DaysInv
<1>3. ASSUME NEW p \in Processes, Maintains(p) PROVE DaysInv'
  <2>1. CASE BeginDay(p)
    BY <1>1, <2>1, AtKeeps DEF BeginDay, DaysInv
  <2>2. CASE RefreshNow(p)
    BY <1>1, <2>2, AtKeeps DEF RefreshNow, DaysInv
  <2>3. CASE Archives(p)
    BY <1>1, <2>3, ArchivesKeeps
  <2>4. CASE EndDay(p)
    BY <1>1, <2>4, AtKeeps DEF EndDay, DaysInv
  <2>5. QED
    BY <1>3, <2>1, <2>2, <2>3, <2>4 DEF Maintains
<1>4. ASSUME NEW p \in Processes, JobGoesOn(p) PROVE DaysInv'
  BY <1>1, <1>2, <1>4, AtKeeps DEF JobGoesOn, days, DaysInv
<1>5. ASSUME NEW p \in Processes, Dies(p) PROVE DaysInv'
  BY <1>1, <1>5, AtKeeps DEF Dies, Released, DaysInv
<1>6. ASSUME NEW a \in Scripts, StartScript(a) \/ ScriptDies(a) PROVE DaysInv'
  BY <1>1, <1>6, AtKeeps DEF StartScript, ScriptDies, Released, DaysInv
<1>7. ASSUME NEW a \in Callers, NEW d \in Documents, NEW force \in BOOLEAN, RequestArchive(a, d, force)
      PROVE  DaysInv'
  BY <1>1, <1>7, RestKeepsDays DEF RequestArchive, DaysInv
<1>8. ASSUME NEW a \in Archivers, ArchiveFails(a) PROVE DaysInv'
  BY <1>8, SkipKeeps DEF ArchiveFails, DaysInv
<1>9. ASSUME NEW a \in Archivers, SelectThrows(a) PROVE DaysInv'
  BY <1>9, AtKeeps DEF SelectThrows, Over, Released, DaysInv
<1>10. CASE UNCHANGED maintVars
  BY <1>2, <1>10 DEF maintVars
<1>11. QED
  BY <1>1, <1>2, <1>3, <1>4, <1>5, <1>6, <1>7, <1>8, <1>9, <1>10, ArchivesKeeps
  DEF MaintenanceNext

-----------------------------------------------------------------------------
(* A new archive is of an undisturbed document as old as its last mark at  *)
(* most, or premature.                                                     *)
LEMMA NewArchiveKeeps ==
    ASSUME MarkInv(premature), DaysInv, NEW a \in Archivers, CommitNewArchive(a)
    PROVE  MarkInv(premature)'
<1> DEFINE e == day[a].doc
<1>1. /\ UNCHANGED <<dictionary, cached, document, lock, at, queue, work, late, review, due, disturbed,
                     faults>>
      /\ day[a].at = "commit"
  BY DEF CommitNewArchive, jobs, ghost
<1>2. e \in Documents /\ day[a].read \in Content("normalized")
  BY <1>1, HeldTyped
<1>3. \A p \in Processes : Current(p)' = Current(p)
  BY <1>1, CurrentStays
<1>4. TypeOK /\ RefreshedInv /\ ArchivedInv(premature)
  BY DEF MarkInv, TypeInv
<1>5. TypeInv'
  <2>1. archive' \in [Documents -> Content("archived") \cup {NoArchive}]
    <3>1. [status |-> "archived", from |-> day[a].read.from] \in Content("archived")
      BY <1>2 DEF Content
    <3>2. QED
      BY <1>4, <3>1 DEF CommitNewArchive, TypeOK
  <2>2. TypeOK'
    BY <1>1, <1>4, <2>1 DEF TypeOK
  <2>3. QueueInv' /\ JobInv'
    BY <1>1, <1>3 DEF MarkInv, TypeInv, QueueInv, JobInv, LockInv, Working, WorkInv
  <2>4. QED
    BY <2>2, <2>3 DEF TypeInv
<1>6. VersionInv' /\ RefreshedInv'
  BY <1>1 DEF MarkInv, VersionInv, RefreshedInv, Normalizes
<1>7. premature \subseteq premature'
  BY DEF CommitNewArchive
<1>8. \A d \in Documents \ {e} : archive'[d] = archive[d]
  BY <1>4 DEF CommitNewArchive, TypeOK
<1>9. ASSUME archive'[e] # archive[e], e \notin premature', e \notin disturbed
      PROVE  archive'[e].from >= due[e]
  <2>1. /\ day[a].settled /\ document[e] = day[a].read /\ ~BeingNormalized(e)
        /\ archive' = [archive EXCEPT ![e] = [status |-> "archived", from |-> day[a].read.from]]
    BY <1>9 DEF CommitNewArchive
  <2>2. document[e].status = "normalized"
    BY <1>1, <2>1 DEF DaysInv, Truthful
  <2>3. document[e].from >= due[e]
    BY <1>2, <1>4, <1>9, <2>1, <2>2 DEF RefreshedInv, Normalizes, BeingNormalized
  <2>4. archive'[e].from = document[e].from
    BY <1>2, <1>4, <2>1 DEF TypeOK
  <2>5. QED
    BY <2>3, <2>4
<1> HIDE DEF e
<1>10. ArchivedInv(premature)'
  BY <1>1, <1>3, <1>4, <1>7, <1>8, <1>9 DEF ArchivedInv
<1>11. QED
  BY <1>5, <1>6, <1>10 DEF MarkInv

MaintenanceInv == MarkInv(premature) /\ DaysInv

LEMMA MaintenanceInvInit == MaintenanceInit => MaintenanceInv
<1> SUFFICES ASSUME MaintenanceInit PROVE MaintenanceInv
  OBVIOUS
<1>1. MarkInv(premature)
  BY MarkInit DEF MaintenanceInit
<1>2. DaysInv
  BY DEF MaintenanceInit, DaysInit, DaysInv, Truthful, Resting
<1>3. QED
  BY <1>1, <1>2 DEF MaintenanceInv

LEMMA MaintenanceInvStep == MaintenanceInv /\ [MaintenanceNext]_maintVars => MaintenanceInv'
<1> SUFFICES ASSUME MaintenanceInv, [MaintenanceNext]_maintVars PROVE MaintenanceInv'
  OBVIOUS
<1>1. MarkInv(premature) /\ DaysInv /\ TypeOK
  BY DEF MaintenanceInv, MarkInv, TypeInv
<1>2. DaysInv'
  BY <1>1, DaysInvStep
<1>3. ASSUME Next \/ Aside, UNCHANGED premature PROVE MarkInv(premature)'
  <2>1. PICK excused : excused = premature
    OBVIOUS
  <2>2. MarkInv(excused)
    BY <1>1, <2>1 DEF MarkInv, ArchivedInv
  <2>3. MarkInv(excused)'
    BY <1>3, <2>2, MarkInvStep, AsideKeeps
  <2>4. QED
    BY <1>3, <2>1, <2>3 DEF MarkInv, ArchivedInv
<1>4. (\E a \in Archivers : CommitNewArchive(a)) => MarkInv(premature)'
  BY <1>1, NewArchiveKeeps
<1>5. (\E a \in Archivers : CommitNewArchive(a)) \/ UNCHANGED premature
  BY DEF MaintenanceNext, Maintains, BeginDay, RefreshNow, Archives, TryArchiveLock,
     SelectCandidates, ReadDocument, EndArchive, EndDay, JobGoesOn, Dies, StartScript,
     ScriptDies, RequestArchive, ArchiveFails, SelectThrows, Archivers, days, maintVars
<1>6. QED
  BY <1>1, <1>2, <1>3, <1>4, <1>5, MaintenanceSteps DEF MaintenanceInv

(* The maintenance types its own variables and those of the refresh.       *)
THEOREM MaintenanceTypeCorrect == MaintenanceSpec => []MaintenanceTypeOK
<1>1. MaintenanceInv => MaintenanceTypeOK
  BY DEF MaintenanceInv, MarkInv, TypeInv, DaysInv, MaintenanceTypeOK
<1>2. QED
  BY MaintenanceInvInit, MaintenanceInvStep, <1>1, PTL DEF MaintenanceSpec

(* With the maintenance of every night too one dirty refresh job works at  *)
(* a time.                                                                 *)
THEOREM OneRefreshInMaintenance == MaintenanceSpec => []OneRefreshAtATime
<1>1. MaintenanceInv => OneRefreshAtATime
  BY DEF MaintenanceInv, MarkInv, TypeInv, JobInv, LockInv, Working, OneRefreshAtATime
<1>2. QED
  BY MaintenanceInvInit, MaintenanceInvStep, <1>1, PTL DEF MaintenanceSpec

(* Every mark reaches the documents whose refresh was not disturbed, and   *)
(* their archives, those too that nights, scripts and requests make, but   *)
(* for archives made of a document whose refresh was not over.             *)
THEOREM MarksReachInMaintenance == MaintenanceSpec => []MarksReachArchives
<1>1. MaintenanceInv => MarksReachArchives
  BY MarkInvReaches DEF MaintenanceInv, MarksReachArchives
<1>2. QED
  BY MaintenanceInvInit, MaintenanceInvStep, <1>1, PTL DEF MaintenanceSpec
=============================================================================
