----------------------- MODULE DocumentPipelineProofs -----------------------
(***************************************************************************)
(* No document is forgotten by the pipeline, for any number of requests,   *)
(* batches, workers, documents, extractions and faults: one that nobody    *)
(* works on is normalized, skipped as a copy, or what a later pending job  *)
(* will find.                                                              *)
(***************************************************************************)
EXTENDS DocumentPipeline, SequenceTheorems, WellFoundedInduction, TLAPS

Whole(d) == Extracted(d, "normalized")

(* What a request or a worker knows of its document when it stands where   *)
(* it stands: only a call that normalizes what there is marks nothing.     *)
Informed(a) ==
    at[a] # "idle" =>
        /\ work[a] \in Work
        /\ at[a] # "write" => work[a].marks
        /\ at[a] \in {"extracted", "write"} => work[a].row \in DOMAIN extractions[work[a].doc]
        /\ at[a] = "write" => /\ work[a].todo # {}
                              /\ "extraction" \notin work[a].todo => Whole(work[a].doc)
        /\ at[a] = "normalized" => Whole(work[a].doc)

AllInformed == \A a \in Extractors : Informed(a)

(* A status that is written late is that of a document left behind.        *)
LateInv ==
    \A l \in late : /\ l.row \in DOMAIN extractions[l.doc]
                    /\ l.part = "status" => l.doc \in disturbed

(* A call that marks nothing has written the status, but the extraction is *)
(* still to be written.                                                    *)
Half(a, d) == WorksOn(a, d) /\ ~work[a].marks /\ work[a].todo = {"extraction"}

(* An extracted document nobody will set the status of once more is failed *)
(* or normalized, or will be when such a call is through.                  *)
Settled(d) ==
    \/ extractions[d] = <<>>
    \/ Owed(d)
    \/ status[d] = "failed"
    \/ status[d] = "normalized" /\ (Whole(d) \/ \E a \in Extractors : Half(a, d))

KnownInv == \A d \in Documents \ disturbed : Settled(d)

PipelineInv == TypeOK /\ AllInformed /\ LateInv /\ KnownInv

Actors == Extractors \cup Batches

-----------------------------------------------------------------------------
(* What an actor does *)

Others(a) ==
    /\ \A x \in Actors : x # a => at'[x] = at[x]
    /\ \A x \in Extractors : x # a => work'[x] = work[x]

(* The actor is at a stage with its work, the others are where they were.  *)
Step(a, stage, w) ==
    /\ at' \in [Actors -> Stages \cup BatchStages]
    /\ work' \in [Extractors -> Work \cup {Nothing}]
    /\ at'[a] = stage /\ work'[a] = w
    /\ Others(a)

LEMMA StepIs ==
    ASSUME TypeOK, NEW a \in Extractors, NEW stage \in Stages, NEW w \in Work \cup {Nothing},
           Go(a, stage), Turn(a, w) \/ (UNCHANGED work /\ w = work[a])
    PROVE  Step(a, stage, w)
<1>1. /\ at \in [Actors -> Stages \cup BatchStages] /\ a \in Actors
      /\ work \in [Extractors -> Work \cup {Nothing}]
  BY DEF TypeOK, Actors
<1>2. /\ at' \in [Actors -> Stages \cup BatchStages] /\ at'[a] = stage
      /\ \A x \in Actors : x # a => at'[x] = at[x]
  BY <1>1 DEF Go
<1>3. /\ work' \in [Extractors -> Work \cup {Nothing}] /\ work'[a] = w
      /\ \A x \in Extractors : x # a => work'[x] = work[x]
  BY <1>1 DEF Turn
<1>4. QED
  BY <1>2, <1>3 DEF Step, Others

LEMMA LeaveIs ==
    ASSUME TypeOK, NEW a \in Extractors, Leave(a)
    PROVE  Step(a, "idle", Nothing)
<1>1. "idle" \in Stages /\ Go(a, "idle") /\ Turn(a, Nothing)
  BY DEF Stages, Leave
<1>2. QED
  BY <1>1, StepIs

(* The extractions of a document only grow, and stay normalized.           *)
Grows(d) ==
    /\ DOMAIN extractions[d] \subseteq DOMAIN extractions'[d]
    /\ Whole(d) => Whole(d)'

(* Only the rows of one document are written.                              *)
Concerns(d) ==
    /\ \A e \in Documents : e # d => status'[e] = status[e] /\ extractions'[e] = extractions[e]
    /\ Grows(d)
    /\ disturbed \subseteq disturbed'

LEMMA InformedStays ==
    ASSUME NEW x \in Extractors, Informed(x), at'[x] = at[x], work'[x] = work[x],
           \A e \in Documents : Grows(e)
    PROVE  Informed(x)'
<1>1. CASE at[x] # "idle"
  <2>1. work[x].doc \in Documents
    BY <1>1 DEF Informed, Work
  <2>2. Grows(work[x].doc)
    BY <2>1
  <2>3. Whole(work[x].doc)' \/ ~Whole(work[x].doc)
    <3>1. PICK d : d = work[x].doc
      OBVIOUS
    <3>2. Whole(d) => Whole(d)'
      BY <2>2, <3>1 DEF Grows
    <3>3. d = work'[x].doc
      BY <3>1
    <3>4. QED
      BY <3>1, <3>2, <3>3 DEF Whole, Extracted
  <2>4. DOMAIN extractions[work[x].doc] \subseteq DOMAIN extractions'[work[x].doc]
    BY <2>2 DEF Grows
  <2>5. QED
    BY <1>1, <2>3, <2>4 DEF Informed
<1>2. QED
  BY <1>1 DEF Informed

(* What somebody else owes a document stays so.                            *)
Minds(x, d) ==
    /\ at[x] # "idle" /\ work[x].doc = d
    /\ \/ work[x].marks /\ at[x] \notin {"find", "create"}
       \/ ~work[x].marks /\ work[x].todo = {"extraction"}

LEMMA SettledStays ==
    ASSUME NEW a, NEW d, Settled(d), Others(a), ~Minds(a, d),
           UNCHANGED <<status[d], extractions[d]>>
    PROVE  Settled(d)'
<1>1. ASSUME Owed(d) PROVE Owed(d)'
  <2>1. PICK x \in Extractors : WorksOn(x, d) /\ work[x].marks /\ at[x] \notin {"find", "create"}
    BY <1>1 DEF Owed
  <2>2. x # a
    BY <2>1 DEF Minds, WorksOn
  <2>3. at'[x] = at[x] /\ work'[x] = work[x]
    BY <2>2 DEF Others, Actors
  <2>4. QED
    BY <2>1, <2>3 DEF Owed, WorksOn
<1>2. ASSUME NEW x \in Extractors, Half(x, d) PROVE Half(x, d)'
  <2>1. x # a
    BY <1>2 DEF Half, Minds, WorksOn
  <2>2. at'[x] = at[x] /\ work'[x] = work[x]
    BY <2>1 DEF Others, Actors
  <2>3. QED
    BY <1>2, <2>2 DEF Half, WorksOn
<1>3. Whole(d)' <=> Whole(d)
  BY DEF Whole, Extracted
<1>4. QED
  BY <1>1, <1>2, <1>3 DEF Settled

LEMMA ActorKeeps ==
    ASSUME PipelineInv, NEW a \in Extractors, Others(a), NEW d \in Documents, Concerns(d),
           at[a] # "idle" => work[a].doc = d, Informed(a)',
           \A l \in late' :
               \/ l \in late
               \/ /\ l.doc = d /\ l.row \in DOMAIN extractions[d]
                  /\ l.part = "status" => d \in disturbed',
           d \in disturbed' \/ Settled(d)'
    PROVE  AllInformed' /\ LateInv' /\ KnownInv'
<1>1. \A e \in Documents : Grows(e)
  BY DEF Concerns, Grows, Whole, Extracted
<1>2. AllInformed'
  <2>1. \A x \in Extractors : x # a => Informed(x)'
    BY <1>1, InformedStays DEF PipelineInv, AllInformed, Others, Actors
  <2>2. QED
    BY <2>1 DEF AllInformed
<1>3. LateInv'
  <2> SUFFICES ASSUME NEW l \in late'
               PROVE  /\ l.row \in DOMAIN extractions'[l.doc]
                      /\ l.part = "status" => l.doc \in disturbed'
    BY DEF LateInv
  <2>1. CASE l \in late
    <3>1. l.doc \in Documents
      BY <2>1 DEF PipelineInv, TypeOK, Write
    <3>2. QED
      BY <1>1, <2>1, <3>1 DEF PipelineInv, LateInv, Concerns, Grows
  <2>2. CASE l \notin late
    BY <1>1, <2>2 DEF Grows
  <2>3. QED
    BY <2>1, <2>2
<1>4. ASSUME NEW e \in Documents \ disturbed', e # d PROVE Settled(e)'
  <2>1. Settled(e) /\ UNCHANGED <<status[e], extractions[e]>>
    BY <1>4 DEF PipelineInv, KnownInv, Concerns
  <2>2. ~Minds(a, e)
    BY <1>4 DEF Minds
  <2>3. QED
    BY <2>1, <2>2, SettledStays
<1>5. KnownInv'
  BY <1>4 DEF KnownInv
<1>6. QED
  BY <1>2, <1>3, <1>5

(* A batch works on no extraction: it sets the status of documents that    *)
(* have none, or that somebody will set the status of again.               *)
LEMMA BatchKeeps ==
    ASSUME PipelineInv, UNCHANGED <<work, extractions, late>>,
           \A x \in Extractors : at'[x] = at[x],
           disturbed \subseteq disturbed',
           \A d \in Documents : \/ status'[d] = status[d] \/ status'[d] = "failed"
                                \/ extractions[d] = <<>> \/ Owed(d) \/ d \in disturbed'
    PROVE  AllInformed' /\ LateInv' /\ KnownInv'
<1>1. \A d \in Documents : Whole(d)' <=> Whole(d)
  BY DEF Whole, Extracted
<1>2. AllInformed'
  <2>1. \A d \in Documents : Grows(d)
    BY <1>1 DEF Grows
  <2>2. QED
    BY <2>1, InformedStays DEF PipelineInv, AllInformed
<1>3. LateInv'
  BY DEF PipelineInv, LateInv
<1>4. ASSUME NEW d \in Documents \ disturbed' PROVE Settled(d)'
  <2>1. Owed(d) => Owed(d)'
    BY DEF Owed, WorksOn
  <2>2. \A x \in Extractors : Half(x, d) => Half(x, d)'
    BY DEF Half, WorksOn
  <2>3. Settled(d)
    BY <1>4 DEF PipelineInv, KnownInv
  <2>4. QED
    BY <1>1, <1>4, <2>1, <2>2, <2>3 DEF Settled
<1>5. QED
  BY <1>2, <1>3, <1>4 DEF KnownInv

LEMMA BatchMoves ==
    ASSUME TypeOK, NEW b \in Batches, NEW stage \in BatchStages, Go(b, stage)
    PROVE  /\ at' \in [Actors -> Stages \cup BatchStages]
           /\ \A x \in Extractors : at'[x] = at[x]
<1>1. at \in [Actors -> Stages \cup BatchStages] /\ b \in Actors
  BY DEF TypeOK, Actors
<1>2. b \notin Extractors
  BY ActorAssumption DEF Extractors
<1>3. QED
  BY <1>1, <1>2 DEF Go, Actors

LEMMA BatchPuts ==
    ASSUME TypeOK, NEW b \in Batches, NEW stage \in BatchStages, NEW x \in Batch, Put(b, stage, x)
    PROVE  /\ at' \in [Actors -> Stages \cup BatchStages] /\ batch' \in [Batches -> Batch]
           /\ \A y \in Extractors : at'[y] = at[y]
<1>1. batch' \in [Batches -> Batch]
  BY DEF TypeOK, Put
<1>2. QED
  BY <1>1, BatchMoves DEF Put

LEMMA BatchIs ==
    ASSUME TypeOK, NEW b \in Batches
    PROVE  /\ batch[b] \in Batch /\ NoBatch \in Batch
           /\ batch[b].docs \subseteq Documents /\ batch[b].parse \subseteq Documents
           /\ batch[b].failed \subseteq Documents /\ batch[b].copies \subseteq Documents
BY DEF TypeOK, Batch, NoBatch

LEMMA DuplicatesAreDocuments ==
    ASSUME NEW S PROVE DuplicatesAmong(S) \subseteq Documents
<1> DEFINE present == {d \in Copies : status[d] # "none"}
<1>1. present \subseteq Documents
  BY CopiesAssumption
<1>2. DuplicatesAmong(S) = {} \/ DuplicatesAmong(S) = present \ {chooseCanonicalDocument(present)}
  BY DEF DuplicatesAmong
<1> HIDE DEF present
<1>3. QED
  BY <1>1, <1>2

(* Each step of a batch.                                                   *)
BatchTypes ==
    /\ status' \in [Documents -> Statuses] /\ blocks' \subseteq Documents
    /\ duplicates' \subseteq Documents /\ disturbed' \subseteq Documents
    /\ at' \in [Actors -> Stages \cup BatchStages] /\ batch' \in [Batches -> Batch]
    /\ faults' \in 0..MaxFaults

LEMMA BatchOK ==
    ASSUME PipelineInv, BatchTypes, UNCHANGED <<work, extractions, late, job, queue>>,
           \A x \in Extractors : at'[x] = at[x],
           disturbed \subseteq disturbed',
           \A d \in Documents : \/ status'[d] = status[d] \/ status'[d] = "failed"
                                \/ extractions[d] = <<>> \/ Owed(d) \/ d \in disturbed'
    PROVE  PipelineInv'
<1>1. TypeOK'
  BY DEF PipelineInv, TypeOK, BatchTypes, Actors
<1>2. QED
  BY <1>1, BatchKeeps DEF PipelineInv

LEMMA BatchKeepsInv ==
    ASSUME PipelineInv, NEW b \in Batches, BatchStep(b)
    PROVE  PipelineInv'
<1> DEFINE x == batch[b]
<1>1. /\ TypeOK /\ x \in Batch /\ NoBatch \in Batch
      /\ x.docs \subseteq Documents /\ x.parse \subseteq Documents
      /\ x.failed \subseteq Documents /\ x.copies \subseteq Documents
  BY BatchIs DEF PipelineInv
<1>2. /\ status \in [Documents -> Statuses] /\ blocks \subseteq Documents
      /\ duplicates \subseteq Documents /\ disturbed \subseteq Documents
      /\ faults \in 0..MaxFaults
  BY <1>1 DEF TypeOK
<1>3. ASSUME NEW stage \in BatchStages, NEW y \in Batch, Put(b, stage, y),
             status' \in [Documents -> Statuses], blocks' \subseteq Documents,
             duplicates' \subseteq Documents,
             UNCHANGED <<work, extractions, late, job, queue, disturbed, faults>>,
             \A d \in Documents : \/ status'[d] = status[d] \/ status'[d] = "failed"
                                  \/ extractions[d] = <<>> \/ Owed(d) \/ d \in disturbed'
      PROVE  PipelineInv'
  BY <1>1, <1>2, <1>3, BatchPuts, BatchOK DEF BatchTypes
<1>4. CASE StartBatch(b)
  <2>1. PICK S \in SUBSET Documents : Put(b, "states", [NoBatch EXCEPT !.docs = S])
    BY <1>4 DEF StartBatch
  <2>2. PICK y : y = [NoBatch EXCEPT !.docs = S]
    OBVIOUS
  <2>3. y \in Batch
    BY <2>2 DEF NoBatch, Batch
  <2>4. UNCHANGED <<rows, work, jobs, late, disturbed, faults>>
    BY <1>4 DEF StartBatch, BatchOnly, UnchangedLate, NoFault
  <2>5. QED
    BY <1>2, <1>3, <2>1, <2>2, <2>3, <2>4 DEF BatchStages, rows, jobs
<1>5. CASE ReadStates(b)
  <2>1. UNCHANGED <<rows, work, jobs, late, disturbed, faults>>
    BY <1>5 DEF ReadStates, BatchOnly, UnchangedLate, NoFault
  <2>2. \E S \in SUBSET Documents, stage \in {"parse", "create"} :
            Put(b, stage, [x EXCEPT !.parse = S])
    <3>1. x.docs \ blocks \in SUBSET Documents
      BY <1>1
    <3>2. {d \in x.docs : status[d] = "none"} \in SUBSET Documents
      BY <1>1
    <3>3. QED
      BY <1>5, <3>1, <3>2 DEF ReadStates
  <2>3. PICK S \in SUBSET Documents, stage \in {"parse", "create"} :
            Put(b, stage, [x EXCEPT !.parse = S])
    BY <2>2
  <2>4. PICK y : y = [x EXCEPT !.parse = S]
    OBVIOUS
  <2>5. y \in Batch
    BY <1>1, <2>4 DEF Batch
  <2>6. QED
    BY <1>2, <1>3, <2>1, <2>3, <2>4, <2>5 DEF BatchStages, rows, jobs
<1>6. CASE CreateDocuments(b)
  <2>1. UNCHANGED <<blocks, extractions, duplicates, work, job, queue, late, disturbed, faults>>
    BY <1>6 DEF CreateDocuments, BatchOnly, UnchangedLate, NoFault, jobs
  <2>2. CASE /\ \A d \in x.parse : status[d] = "none"
             /\ status' = [d \in Documents |-> IF d \in x.parse THEN "uploaded" ELSE status[d]]
             /\ Put(b, "states", [x EXCEPT !.parse = {}])
    <3>1. PICK y : y = [x EXCEPT !.parse = {}]
      OBVIOUS
    <3>2. y \in Batch
      BY <1>1, <3>1 DEF Batch
    <3>3. status' \in [Documents -> Statuses]
      BY <1>2, <2>2 DEF Statuses
    <3>4. ASSUME NEW d \in Documents
          PROVE  \/ status'[d] = status[d] \/ status'[d] = "failed"
                 \/ extractions[d] = <<>> \/ Owed(d) \/ d \in disturbed'
      <4>1. CASE status[d] = "none"
        BY <2>1, <4>1 DEF PipelineInv, KnownInv, Settled
      <4>2. CASE status[d] # "none"
        BY <2>2, <4>2
      <4>3. QED
        BY <4>1, <4>2
    <3>5. QED
      BY <1>2, <1>3, <2>1, <2>2, <3>1, <3>2, <3>3, <3>4 DEF BatchStages
  <2>3. CASE BatchEnds(b) /\ UNCHANGED status
    BY <1>1, <1>2, <1>3, <2>1, <2>3 DEF BatchEnds, BatchStages
  <2>4. QED
    BY <1>6, <2>2, <2>3 DEF CreateDocuments
<1>7. CASE StatesFail(b)
  <2>1. UNCHANGED <<rows, work, jobs, late, disturbed, faults>>
    BY <1>7 DEF StatesFail, BatchOnly, UnchangedLate, NoFault
  <2>2. QED
    BY <1>1, <1>2, <1>3, <1>7, <2>1 DEF StatesFail, BatchEnds, BatchStages, rows, jobs
<1>8. CASE ParseBatch(b)
  <2>1. UNCHANGED <<rows, work, jobs, late, disturbed, faults>>
    BY <1>8 DEF ParseBatch, BatchOnly, UnchangedLate, NoFault
  <2>2. PICK bad \in SUBSET x.parse :
            Put(b, IF bad = {} THEN "save" ELSE "mark",
                [x EXCEPT !.parse = @ \ bad, !.docs = @ \ bad, !.failed = bad])
    BY <1>8 DEF ParseBatch
  <2>3. PICK y : y = [x EXCEPT !.parse = @ \ bad, !.docs = @ \ bad, !.failed = bad]
    OBVIOUS
  <2>4. y \in Batch
    BY <1>1, <2>3 DEF Batch
  <2>5. PICK stage \in {"save", "mark"} : stage = IF bad = {} THEN "save" ELSE "mark"
    OBVIOUS
  <2>6. QED
    BY <1>2, <1>3, <2>1, <2>2, <2>3, <2>4, <2>5 DEF BatchStages, rows, jobs
<1>9. CASE MarkOneFailed(b)
  <2>1. UNCHANGED <<blocks, extractions, duplicates, work, job, queue, late, disturbed, faults>>
    BY <1>9 DEF MarkOneFailed, BatchOnly, UnchangedLate, NoFault, jobs
  <2>2. PICK d \in x.failed :
          /\ SetStatus(d, "failed")
          /\ Put(b, IF x.failed # {d} THEN "mark" ELSE IF x.saved THEN "copies" ELSE "save",
                 [x EXCEPT !.failed = @ \ {d}])
    BY <1>9 DEF MarkOneFailed
  <2>3. PICK y : y = [x EXCEPT !.failed = @ \ {d}]
    OBVIOUS
  <2>4. y \in Batch
    BY <1>1, <2>3 DEF Batch
  <2>5. PICK stage \in {"save", "mark", "copies"} :
            stage = IF x.failed # {d} THEN "mark" ELSE IF x.saved THEN "copies" ELSE "save"
    OBVIOUS
  <2>6. /\ status' \in [Documents -> Statuses]
        /\ \A e \in Documents : status'[e] = status[e] \/ status'[e] = "failed"
    BY <1>2, <2>2 DEF SetStatus, Statuses
  <2>7. QED
    BY <1>2, <1>3, <2>1, <2>2, <2>3, <2>4, <2>5, <2>6 DEF BatchStages
<1>10. CASE SaveAll(b)
  <2>1. UNCHANGED <<status, extractions, duplicates, work, job, queue, late, disturbed, faults>>
    BY <1>10 DEF SaveAll, BatchOnly, UnchangedLate, NoFault, jobs
  <2>2. blocks' \subseteq Documents
    BY <1>1, <1>2, <1>10 DEF SaveAll
  <2>3. PICK y : y = [x EXCEPT !.saved = TRUE]
    OBVIOUS
  <2>4. y \in Batch
    BY <1>1, <2>3 DEF Batch
  <2>5. Put(b, "parsed", y)
    BY <1>10, <2>3 DEF SaveAll
  <2>6. QED
    BY <1>2, <1>3, <2>1, <2>2, <2>4, <2>5 DEF BatchStages
<1>11. CASE MarkAllParsed(b)
  <2>1. UNCHANGED <<blocks, extractions, duplicates, work, job, queue, late, faults>>
    BY <1>11 DEF MarkAllParsed, NoFault, jobs
  <2>2. /\ status' = [d \in Documents |-> IF d \in x.parse THEN "parsed_blocks" ELSE status[d]]
        /\ disturbed' = disturbed \cup Overtaken(x.parse)
    BY <1>11 DEF MarkAllParsed
  <2>3. /\ status' \in [Documents -> Statuses] /\ disturbed' \subseteq Documents
        /\ disturbed \subseteq disturbed'
    BY <1>1, <1>2, <2>2 DEF Statuses, Overtaken
  <2>4. \A d \in Documents : \/ status'[d] = status[d] \/ status'[d] = "failed"
                             \/ extractions[d] = <<>> \/ Owed(d) \/ d \in disturbed'
    BY <1>2, <2>2 DEF Overtaken
  <2>5. PICK y : y = [x EXCEPT !.parse = {}]
    OBVIOUS
  <2>6. y \in Batch
    BY <1>1, <2>5 DEF Batch
  <2>7. Put(b, "copies", y)
    BY <1>11, <2>5 DEF MarkAllParsed
  <2>8. BatchTypes /\ \A e \in Extractors : at'[e] = at[e]
    BY <1>1, <1>2, <2>1, <2>3, <2>6, <2>7, BatchPuts DEF BatchTypes, BatchStages
  <2>9. QED
    BY <2>1, <2>3, <2>4, <2>8, BatchOK
<1>12. CASE SaveFails(b)
  <2>1. UNCHANGED <<rows, work, jobs, late, disturbed, faults>>
    BY <1>12 DEF SaveFails, BatchOnly, UnchangedLate, NoFault
  <2>2. PICK y : y = [x EXCEPT !.docs = @ \ x.parse, !.failed = x.parse, !.parse = {},
                               !.saved = TRUE]
    OBVIOUS
  <2>3. y \in Batch
    BY <1>1, <2>2 DEF Batch
  <2>4. PICK stage \in {"copies", "mark"} : stage = IF x.parse = {} THEN "copies" ELSE "mark"
    OBVIOUS
  <2>5. Put(b, stage, y)
    BY <1>12, <2>2, <2>4 DEF SaveFails
  <2>6. QED
    BY <1>2, <1>3, <2>1, <2>3, <2>5 DEF BatchStages, rows, jobs
<1>13. CASE FindBatchCopies(b)
  <2>1. UNCHANGED <<rows, work, jobs, late, disturbed, faults>>
    BY <1>13 DEF FindBatchCopies, BatchOnly, UnchangedLate, NoFault
  <2>2. PICK found \in {{}, DuplicatesAmong(x.docs)} :
            Put(b, "duplicates", [NoBatch EXCEPT !.copies = found])
    BY <1>13 DEF FindBatchCopies
  <2>3. PICK y : y = [NoBatch EXCEPT !.copies = found]
    OBVIOUS
  <2>4. y \in Batch
    BY <2>3, DuplicatesAreDocuments DEF NoBatch, Batch
  <2>5. QED
    BY <1>2, <1>3, <2>1, <2>2, <2>3, <2>4 DEF BatchStages, rows, jobs
<1>14. CASE StoreBatchDuplicates(b)
  <2>1. UNCHANGED <<status, blocks, extractions, work, job, queue, late, disturbed, faults>>
    BY <1>14 DEF StoreBatchDuplicates, BatchOnly, UnchangedLate, NoFault, jobs
  <2>2. duplicates' \subseteq Documents
    BY <1>1, <1>2, <1>14 DEF StoreBatchDuplicates
  <2>3. QED
    BY <1>1, <1>2, <1>3, <1>14, <2>1, <2>2 DEF StoreBatchDuplicates, BatchEnds, BatchStages
<1>15. CASE BatchStops(b)
  <2>1. UNCHANGED <<rows, work, jobs, late, disturbed>> /\ BatchEnds(b)
    BY <1>15 DEF BatchStops
  <2>2. faults' \in 0..MaxFaults
    BY <1>2, <1>15, BoundAssumption DEF BatchStops, Fault
  <2>3. BatchTypes /\ \A e \in Extractors : at'[e] = at[e]
    BY <1>1, <1>2, <2>1, <2>2, BatchPuts DEF BatchTypes, BatchStages, BatchEnds, rows
  <2>4. QED
    BY <2>1, <2>3, BatchOK DEF rows, jobs
<1>16. QED
  BY <1>4, <1>5, <1>6, <1>7, <1>8, <1>9, <1>10, <1>11, <1>12, <1>13, <1>14, <1>15
     DEF BatchStep

-----------------------------------------------------------------------------
(* Requests and workers *)

LEMMA BusyIs ==
    ASSUME PipelineInv, NEW a \in Extractors, at[a] # "idle"
    PROVE  /\ work[a] \in Work /\ work[a].doc \in Documents /\ work[a].marks \in BOOLEAN
           /\ work[a].row \in Nat /\ work[a].todo \subseteq Writes
           /\ work[a].copies \subseteq Documents
           /\ at[a] # "write" => work[a].marks
BY DEF PipelineInv, AllInformed, Informed, Work

LEMMA TaskIs ==
    ASSUME NEW d \in Documents, NEW p \in BOOLEAN, NEW q \in BOOLEAN
    PROVE  \E w \in Work : w = Task(d, p, q) /\ w.doc = d /\ w.marks /\ w.row = 0 /\ w.todo = {}
<1>1. PICK w : w = Task(d, p, q)
  OBVIOUS
<1>2. w \in Work /\ w.doc = d /\ w.marks /\ w.row = 0 /\ w.todo = {}
  BY <1>1 DEF Task, Work
<1>3. QED
  BY <1>1, <1>2

(* The rows keep their types, and only those of d are written.             *)
RowsOf(d) ==
    /\ status' \in [Documents -> Statuses] /\ blocks' \subseteq Documents
    /\ extractions' \in [Documents -> Seq({"parsed", "normalized"})]
    /\ duplicates' \subseteq Documents
    /\ Concerns(d)

LEMMA SameRows ==
    ASSUME PipelineInv, UNCHANGED rows, disturbed \subseteq disturbed', NEW d \in Documents
    PROVE  RowsOf(d)
BY DEF PipelineInv, TypeOK, RowsOf, Concerns, Grows, Whole, Extracted, rows

LEMMA StatusIsSet ==
    ASSUME PipelineInv, NEW d \in Documents, NEW s \in Statuses, SetStatus(d, s),
           UNCHANGED <<blocks, extractions, duplicates, disturbed>>
    PROVE  RowsOf(d) /\ status'[d] = s
BY DEF PipelineInv, TypeOK, RowsOf, Concerns, Grows, Whole, Extracted, SetStatus

RestOf(d) ==
    /\ batch' = batch /\ job' = job /\ queue' \subseteq Documents
    /\ late' \subseteq Write /\ disturbed' \subseteq Documents /\ faults' \in 0..MaxFaults
    /\ \A l \in late' :
          \/ l \in late
          \/ /\ l.doc = d /\ l.row \in DOMAIN extractions[d]
             /\ l.part = "status" => d \in disturbed'

LEMMA SameRest ==
    ASSUME PipelineInv, UNCHANGED <<batch, jobs, late, disturbed, faults>>, NEW d PROVE RestOf(d)
BY DEF PipelineInv, TypeOK, RestOf, jobs

LEMMA ActorOK ==
    ASSUME PipelineInv, NEW a \in Extractors, NEW stage, NEW w, Step(a, stage, w),
           NEW d \in Documents, at[a] # "idle" => work[a].doc = d,
           RowsOf(d), RestOf(d), Informed(a)', d \in disturbed' \/ Settled(d)'
    PROVE  PipelineInv'
<1>1. TypeOK'
  BY DEF PipelineInv, TypeOK, RowsOf, RestOf, Step, Actors
<1>2. AllInformed' /\ LateInv' /\ KnownInv'
  BY ActorKeeps DEF RowsOf, RestOf, Step
<1>3. QED
  BY <1>1, <1>2 DEF PipelineInv

(* Most steps leave it to the rest of the actor's work to set the status.  *)
LEMMA StillOwes ==
    ASSUME PipelineInv, NEW a \in Extractors, NEW stage, NEW w \in Work, Step(a, stage, w),
           stage \notin {"idle", "find", "create"}, w.marks,
           at[a] # "idle" => work[a].doc = w.doc, RowsOf(w.doc), RestOf(w.doc), Informed(a)'
    PROVE  PipelineInv'
<1>1. at'[a] = stage /\ work'[a] = w /\ w.doc \in Documents
  BY DEF Step, Work
<1>2. PICK d \in Documents : d = w.doc
  BY <1>1
<1>3. Settled(d)'
  BY <1>1, <1>2 DEF Settled, Owed, WorksOn
<1>4. QED
  BY <1>2, <1>3, ActorOK

LEMMA GoesOn ==
    ASSUME PipelineInv, NEW a \in Extractors, NEW stage, NEW w \in Work, Step(a, stage, w),
           stage \notin {"idle", "find", "create", "extracted", "write", "normalized"}, w.marks,
           at[a] # "idle" => work[a].doc = w.doc, RowsOf(w.doc), RestOf(w.doc)
    PROVE  PipelineInv'
<1>1. at'[a] = stage /\ work'[a] = w
  BY DEF Step
<1>2. Informed(a)'
  BY <1>1 DEF Informed
<1>3. QED
  BY <1>2, StillOwes

(* One that is about to begin, or gives up before it has begun, owes       *)
(* nothing.                                                                *)
LEMMA OwesNothing ==
    ASSUME PipelineInv, NEW a \in Extractors, NEW stage, NEW w, Step(a, stage, w),
           stage = "idle" \/ (stage \in {"find", "create"} /\ w \in Work /\ w.marks),
           NEW d \in Documents, at[a] # "idle" => work[a].doc = d, ~Minds(a, d),
           UNCHANGED <<rows, disturbed>>, RestOf(d)
    PROVE  PipelineInv'
<1>1. at'[a] = stage /\ work'[a] = w /\ Others(a)
  BY DEF Step
<1>2. Informed(a)'
  BY <1>1 DEF Informed
<1>3. d \in disturbed' \/ Settled(d)'
  <2>1. CASE d \notin disturbed
    <3>1. Settled(d)
      BY <2>1 DEF PipelineInv, KnownInv
    <3>2. QED
      BY <1>1, <3>1, SettledStays DEF rows
  <2>2. QED
    BY <2>1
<1>4. QED
  BY <1>2, <1>3, SameRows, ActorOK

(* An extraction is added, ...                                             *)
LEMMA AppendIs ==
    ASSUME PipelineInv, NEW d \in Documents,
           extractions' = [extractions EXCEPT ![d] = Append(@, "parsed")],
           UNCHANGED <<status, blocks, duplicates, disturbed>>
    PROVE  RowsOf(d) /\ Len(extractions[d]) + 1 \in DOMAIN extractions'[d]
<1>1. /\ extractions \in [Documents -> Seq({"parsed", "normalized"})]
      /\ status \in [Documents -> Statuses] /\ blocks \subseteq Documents
      /\ duplicates \subseteq Documents
  BY DEF PipelineInv, TypeOK
<1>2. PICK s \in Seq({"parsed", "normalized"}) : s = extractions[d]
  BY <1>1
<1>3. PICK t : t = Append(s, "parsed")
  OBVIOUS
<1>4. /\ t \in Seq({"parsed", "normalized"}) /\ Len(t) = Len(s) + 1 /\ Len(s) \in Nat
      /\ \A n \in 1..Len(s) : t[n] = s[n]
  BY <1>3
<1>5. extractions'[d] = t /\ \A e \in Documents : e # d => extractions'[e] = extractions[e]
  BY <1>1, <1>2, <1>3
<1>6. extractions' \in [Documents -> Seq({"parsed", "normalized"})]
  BY <1>1, <1>2, <1>3, <1>4
<1>7. DOMAIN s = 1..Len(s) /\ DOMAIN t = 1..(Len(s) + 1) /\ DOMAIN s \subseteq DOMAIN t
  BY <1>4
<1>8. Whole(d) => Whole(d)'
  BY <1>2, <1>4, <1>5, <1>7 DEF Whole, Extracted
<1>9. Len(s) + 1 \in DOMAIN t
  BY <1>4, <1>7
<1>10. QED
  BY <1>1, <1>2, <1>5, <1>6, <1>7, <1>8, <1>9 DEF RowsOf, Concerns, Grows

(* ... or becomes normalized.                                              *)
LEMMA NormalizedIs ==
    ASSUME PipelineInv, NEW d \in Documents, NEW n \in DOMAIN extractions[d],
           extractions' = Normalized(d, n),
           UNCHANGED <<status, blocks, duplicates>>, disturbed \subseteq disturbed'
    PROVE  /\ RowsOf(d) /\ Whole(d)' /\ DOMAIN extractions'[d] = DOMAIN extractions[d]
           /\ extractions[d] # <<>>
<1>1. /\ extractions \in [Documents -> Seq({"parsed", "normalized"})]
      /\ status \in [Documents -> Statuses] /\ blocks \subseteq Documents
      /\ duplicates \subseteq Documents
  BY DEF PipelineInv, TypeOK
<1>2. PICK s \in Seq({"parsed", "normalized"}) : s = extractions[d]
  BY <1>1
<1>3. PICK t : t = [s EXCEPT ![n] = "normalized"]
  OBVIOUS
<1>4. /\ t \in Seq({"parsed", "normalized"}) /\ DOMAIN t = DOMAIN s /\ n \in DOMAIN t
      /\ t[n] = "normalized" /\ \A m \in DOMAIN s : t[m] = s[m] \/ t[m] = "normalized"
  BY <1>2, <1>3
<1>5. extractions'[d] = t /\ \A e \in Documents : e # d => extractions'[e] = extractions[e]
  BY <1>1, <1>2, <1>3 DEF Normalized
<1>6. extractions' \in [Documents -> Seq({"parsed", "normalized"})]
  BY <1>1, <1>2, <1>3, <1>4 DEF Normalized
<1>7. Whole(d)'
  BY <1>4, <1>5 DEF Whole, Extracted
<1>8. s # <<>>
  BY <1>2
<1>9. QED
  BY <1>1, <1>2, <1>4, <1>5, <1>6, <1>7, <1>8 DEF RowsOf, Concerns, Grows

-----------------------------------------------------------------------------
(* The steps of requests and workers *)

LEMMA RequestsBegin ==
    ASSUME PipelineInv, NEW a \in Extractors, Upload(a) \/ Extract(a) \/ Generate(a)
    PROVE  PipelineInv'
<1>1. /\ TypeOK /\ blocks \subseteq Documents
      /\ extractions \in [Documents -> Seq({"parsed", "normalized"})]
  BY DEF PipelineInv, TypeOK
<1>2. at[a] = "idle" /\ UNCHANGED <<rows, batch, jobs, late, disturbed, faults>>
  BY DEF Upload, Extract, Generate, Begin, UnchangedLate, NoFault
<1>3. CASE Upload(a)
  <2>1. PICK d \in Documents, p \in BOOLEAN, q \in BOOLEAN :
            Go(a, "find") /\ Turn(a, Task(d, p, q))
    BY <1>3 DEF Upload, Begin
  <2>2. PICK w \in Work : w = Task(d, p, q) /\ w.doc = d /\ w.marks
    BY TaskIs
  <2>3. Step(a, "find", w)
    BY <1>1, <2>1, <2>2, StepIs DEF Stages
  <2>4. RestOf(d) /\ ~Minds(a, d)
    BY <1>2, SameRest DEF Minds
  <2>5. QED
    BY <1>2, <2>2, <2>3, <2>4, OwesNothing
<1>4. CASE Extract(a)
  <2>1. PICK d \in blocks, q \in BOOLEAN : Go(a, "extract") /\ Turn(a, Task(d, FALSE, q))
    BY <1>4 DEF Extract, Begin
  <2>2. PICK w \in Work : w = Task(d, FALSE, q) /\ w.doc = d /\ w.marks
    <3>1. PICK p \in BOOLEAN : p = FALSE
      OBVIOUS
    <3>2. d \in Documents
      BY <1>1
    <3>3. \E w \in Work : w = Task(d, p, q) /\ w.doc = d /\ w.marks /\ w.row = 0 /\ w.todo = {}
      BY <3>2, TaskIs
    <3>4. QED
      BY <3>1, <3>3
  <2>3. Step(a, "extract", w)
    BY <1>1, <2>1, <2>2, StepIs DEF Stages
  <2>4. RowsOf(d) /\ RestOf(d)
    BY <1>1, <1>2, SameRest, SameRows
  <2>5. QED
    BY <1>2, <2>2, <2>3, <2>4, GoesOn
<1>5. CASE Generate(a)
  <2>1. PICK d \in blocks :
            /\ extractions[d] # <<>> /\ Go(a, "write")
            /\ Turn(a, [Task(d, FALSE, FALSE) EXCEPT
                    !.marks = FALSE, !.row = Len(extractions[d]), !.todo = Writes])
    BY <1>5 DEF Generate, Begin
  <2>2. PICK w0 \in Work : w0 = Task(d, FALSE, FALSE) /\ w0.doc = d
    BY <1>1, TaskIs
  <2>3. PICK w : w = [w0 EXCEPT !.marks = FALSE, !.row = Len(extractions[d]), !.todo = Writes]
    OBVIOUS
  <2>4. /\ extractions[d] \in Seq({"parsed", "normalized"}) /\ Len(extractions[d]) \in Nat
        /\ Len(extractions[d]) \in DOMAIN extractions[d]
    BY <1>1, <2>1
  <2>5. /\ w \in Work /\ w.doc = d /\ ~w.marks /\ w.row \in DOMAIN extractions[d]
        /\ w.todo = Writes
    BY <2>2, <2>3, <2>4 DEF Work
  <2>6. Step(a, "write", w)
    BY <1>1, <2>1, <2>2, <2>3, <2>5, StepIs DEF Stages
  <2>7. at'[a] = "write" /\ work'[a] = w /\ Others(a)
    BY <2>6 DEF Step
  <2>8. Informed(a)'
    BY <1>2, <2>5, <2>7 DEF Informed, Writes, rows
  <2>9. d \in disturbed' \/ Settled(d)'
    <3>1. CASE d \notin disturbed
      <4>1. Settled(d) /\ ~Minds(a, d)
        BY <1>1, <1>2, <3>1 DEF PipelineInv, KnownInv, Minds
      <4>2. QED
        BY <1>2, <2>7, <4>1, SettledStays DEF rows
    <3>2. QED
      BY <1>2, <3>1
  <2>10. d \in Documents /\ RowsOf(d) /\ RestOf(d)
    BY <1>1, <1>2, SameRest, SameRows
  <2>11. QED
    BY <1>2, <2>6, <2>8, <2>9, <2>10, ActorOK
<1>6. QED
  BY <1>3, <1>4, <1>5

LEMMA ParseKeeps ==
    ASSUME PipelineInv, NEW a \in Extractors, Parse(a)
    PROVE  PipelineInv'
<1>0. PICK d : d = work[a].doc
  OBVIOUS
<1>1. /\ TypeOK /\ blocks \subseteq Documents /\ duplicates \subseteq Documents
      /\ status \in [Documents -> Statuses]
      /\ extractions \in [Documents -> Seq({"parsed", "normalized"})]
  BY DEF PipelineInv, TypeOK
<1>2. at[a] \in {"find", "create", "blocks", "save", "parsed", "copies", "duplicates"}
  BY DEF Parse, FindDocument, CreateDocument, FindBlocks, SaveBlocks, MarkParsed, FindCopies,
         StoreDuplicates
<1>3. /\ work[a] \in Work /\ d \in Documents /\ work[a].marks
      /\ work[a].copies \subseteq Documents
  BY <1>0, <1>2, BusyIs
<1>4. UNCHANGED <<batch, jobs, late, disturbed, faults>>
  BY DEF Parse, FindDocument, CreateDocument, FindBlocks, SaveBlocks, MarkParsed, FindCopies,
         StoreDuplicates, UnchangedLate, NoFault
<1>5. RestOf(d)
  BY <1>4, SameRest
<1>6. ASSUME NEW stage \in Stages, NEW w \in Work, w.doc = d, w.marks, RowsOf(d),
             stage \in {"blocks", "save", "parsed", "copies", "duplicates", "extract"},
             Go(a, stage), Turn(a, w) \/ (UNCHANGED work /\ w = work[a])
      PROVE  PipelineInv'
  <2>1. Step(a, stage, w)
    BY <1>1, <1>6, StepIs
  <2>2. QED
    BY <1>0, <1>5, <1>6, <2>1, GoesOn
<1>7. ASSUME at[a] \in {"find", "create"} PROVE ~Minds(a, d)
  BY <1>0, <1>3, <1>7 DEF Minds
<1>8. CASE FindDocument(a)
  <2>1. UNCHANGED <<rows, work>> /\ at[a] = "find"
    BY <1>8 DEF FindDocument
  <2>2. RowsOf(d)
    BY <1>3, <1>4, <2>1, SameRows
  <2>3. CASE Go(a, "blocks")
    BY <1>0, <1>3, <1>6, <2>1, <2>2, <2>3 DEF Stages
  <2>4. CASE Go(a, "create")
    <3>1. Step(a, "create", work[a])
      BY <1>1, <1>3, <2>1, <2>4, StepIs DEF Stages
    <3>2. ~Minds(a, d)
      BY <1>7, <2>1
    <3>3. QED
      BY <1>0, <1>3, <1>4, <1>5, <2>1, <3>1, <3>2, OwesNothing
  <2>5. QED
    BY <1>8, <2>3, <2>4 DEF FindDocument
<1>9. CASE CreateDocument(a)
  <2>1. UNCHANGED <<blocks, extractions, duplicates>> /\ at[a] = "create"
    BY <1>0, <1>9 DEF CreateDocument
  <2>2. CASE SetStatus(d, "uploaded") /\ Go(a, "blocks") /\ UNCHANGED work
    <3>1. RowsOf(d)
      <4>1. "uploaded" \in Statuses
        BY DEF Statuses
      <4>2. QED
        BY <1>3, <1>4, <2>1, <2>2, <4>1, StatusIsSet
    <3>2. QED
      BY <1>0, <1>3, <1>6, <2>2, <3>1 DEF Stages
  <2>3. CASE Leave(a) /\ UNCHANGED status
    <3>1. Step(a, "idle", Nothing)
      BY <1>1, <2>3, LeaveIs
    <3>2. ~Minds(a, d) /\ UNCHANGED rows
      BY <1>7, <2>1, <2>3 DEF rows
    <3>3. QED
      BY <1>0, <1>3, <1>4, <1>5, <3>1, <3>2, OwesNothing
  <2>4. QED
    BY <1>0, <1>9, <2>2, <2>3 DEF CreateDocument
<1>10. CASE FindBlocks(a)
  <2>1. PICK w : w = [work[a] EXCEPT !.reparse = FALSE]
    OBVIOUS
  <2>2. w \in Work /\ w.doc = d /\ w.marks
    BY <1>0, <1>3, <2>1 DEF Work
  <2>3. PICK stage \in {"copies", "save"} : Go(a, stage)
    BY <1>10 DEF FindBlocks
  <2>4. Turn(a, w) /\ UNCHANGED rows
    BY <1>10, <2>1 DEF FindBlocks
  <2>5. RowsOf(d)
    BY <1>3, <1>4, <2>4, SameRows
  <2>6. QED
    BY <1>6, <2>2, <2>3, <2>4, <2>5 DEF Stages
<1>11. CASE SaveBlocks(a)
  <2>1. /\ UNCHANGED <<status, extractions, duplicates, work>> /\ Go(a, "parsed")
        /\ blocks' = blocks \cup {d}
    BY <1>0, <1>11 DEF SaveBlocks
  <2>2. blocks' \subseteq Documents
    BY <1>1, <1>3, <2>1
  <2>3. RowsOf(d)
    BY <1>1, <1>4, <2>1, <2>2 DEF RowsOf, Concerns, Grows, Whole, Extracted
  <2>4. QED
    BY <1>0, <1>3, <1>6, <2>1, <2>3 DEF Stages
<1>12. CASE MarkParsed(a)
  <2>1. /\ UNCHANGED <<blocks, extractions, duplicates, work>> /\ Go(a, "copies")
        /\ SetStatus(d, "parsed_blocks")
    BY <1>0, <1>12 DEF MarkParsed
  <2>2. "parsed_blocks" \in Statuses
    BY DEF Statuses
  <2>3. RowsOf(d)
    BY <1>3, <1>4, <2>1, <2>2, StatusIsSet
  <2>4. QED
    BY <1>0, <1>3, <1>6, <2>1, <2>3 DEF Stages
<1>13. CASE FindCopies(a)
  <2>1. PICK found \in {{}, DuplicatesAmong({d})} : Turn(a, [work[a] EXCEPT !.copies = found])
    BY <1>0, <1>13 DEF FindCopies
  <2>2. PICK w : w = [work[a] EXCEPT !.copies = found]
    OBVIOUS
  <2>3. found \subseteq Documents
    BY DuplicatesAreDocuments
  <2>4. w \in Work /\ w.doc = d /\ w.marks
    BY <1>0, <1>3, <2>2, <2>3 DEF Work
  <2>5. Turn(a, w) /\ UNCHANGED rows /\ Go(a, "duplicates")
    BY <1>13, <2>1, <2>2 DEF FindCopies
  <2>6. RowsOf(d)
    BY <1>3, <1>4, <2>5, SameRows
  <2>7. QED
    BY <1>6, <2>4, <2>5, <2>6 DEF Stages
<1>14. CASE StoreDuplicates(a)
  <2>1. PICK w : w = [work[a] EXCEPT !.copies = {}]
    OBVIOUS
  <2>2. w \in Work /\ w.doc = d /\ w.marks
    BY <1>0, <1>3, <2>1 DEF Work
  <2>3. /\ UNCHANGED <<status, blocks, extractions>> /\ Go(a, "extract") /\ Turn(a, w)
        /\ duplicates' = duplicates \cup work[a].copies
    BY <1>14, <2>1 DEF StoreDuplicates
  <2>4. duplicates' \subseteq Documents
    BY <1>1, <1>3, <2>3
  <2>5. Concerns(d)
    BY <1>4, <2>3 DEF Concerns, Grows, Whole, Extracted
  <2>6. RowsOf(d)
    BY <1>1, <2>3, <2>4, <2>5 DEF RowsOf
  <2>7. QED
    BY <1>6, <2>2, <2>3, <2>6 DEF Stages
<1>15. QED
  BY <1>8, <1>9, <1>10, <1>11, <1>12, <1>13, <1>14 DEF Parse

LEMMA ExtractKeeps ==
    ASSUME PipelineInv, NEW a \in Extractors,
           FindExtraction(a) \/ StoreExtraction(a) \/ MarkExtracted(a)
    PROVE  PipelineInv'
<1>0. PICK d : d = work[a].doc
  OBVIOUS
<1>1. /\ TypeOK /\ extractions \in [Documents -> Seq({"parsed", "normalized"})]
  BY DEF PipelineInv, TypeOK
<1>2. at[a] \in {"extract", "llm", "extracted"}
  BY DEF FindExtraction, StoreExtraction, MarkExtracted
<1>3. work[a] \in Work /\ d \in Documents /\ work[a].marks
  BY <1>0, <1>2, BusyIs
<1>4. UNCHANGED <<blocks, duplicates, batch, jobs, late, disturbed, faults>>
  BY DEF FindExtraction, StoreExtraction, MarkExtracted, UnchangedLate, NoFault, rows
<1>5. RestOf(d)
  BY <1>4, SameRest
<1>6. extractions[d] \in Seq({"parsed", "normalized"})
  BY <1>1, <1>3
<1>7. PICK n \in Nat : n = Len(extractions[d])
  BY <1>6
<1>8. CASE FindExtraction(a)
  <2>1. UNCHANGED rows
    BY <1>8 DEF FindExtraction
  <2>2. RowsOf(d)
    BY <1>3, <1>4, <2>1, SameRows
  <2>3. CASE n > 0 /\ Go(a, "write") /\ Turn(a, [work[a] EXCEPT !.row = n, !.todo = Writes])
    <3>1. PICK w : w = [work[a] EXCEPT !.row = n, !.todo = Writes]
      OBVIOUS
    <3>2. /\ w \in Work /\ w.doc = d /\ w.marks /\ w.row = n /\ w.todo = Writes
      BY <1>0, <1>3, <3>1 DEF Work
    <3>3. Step(a, "write", w)
      BY <1>1, <2>3, <3>1, <3>2, StepIs DEF Stages
    <3>4. n \in DOMAIN extractions[d]
      BY <1>6, <1>7, <2>3
    <3>5. at'[a] = "write" /\ work'[a] = w
      BY <3>3 DEF Step
    <3>6. Informed(a)'
      BY <2>1, <3>2, <3>4, <3>5 DEF Informed, Writes, rows
    <3>7. QED
      BY <1>0, <1>5, <2>2, <3>2, <3>3, <3>6, StillOwes
  <2>4. CASE Go(a, "llm") /\ Turn(a, [work[a] EXCEPT !.reextract = FALSE])
    <3>1. PICK w : w = [work[a] EXCEPT !.reextract = FALSE]
      OBVIOUS
    <3>2. w \in Work /\ w.doc = d /\ w.marks
      BY <1>0, <1>3, <3>1 DEF Work
    <3>3. Step(a, "llm", w)
      BY <1>1, <2>4, <3>1, <3>2, StepIs DEF Stages
    <3>4. QED
      BY <1>0, <1>5, <2>2, <3>2, <3>3, GoesOn
  <2>5. QED
    BY <1>0, <1>7, <1>8, <2>3, <2>4 DEF FindExtraction
<1>9. CASE StoreExtraction(a)
  <2>1. /\ extractions' = [extractions EXCEPT ![d] = Append(@, "parsed")]
        /\ Turn(a, [work[a] EXCEPT !.row = n + 1]) /\ Go(a, "extracted") /\ UNCHANGED status
    BY <1>0, <1>7, <1>9 DEF StoreExtraction
  <2>2. RowsOf(d) /\ n + 1 \in DOMAIN extractions'[d]
    BY <1>3, <1>4, <1>7, <2>1, AppendIs
  <2>3. PICK w : w = [work[a] EXCEPT !.row = n + 1]
    OBVIOUS
  <2>4. w \in Work /\ w.doc = d /\ w.marks /\ w.row = n + 1
    BY <1>0, <1>3, <2>3 DEF Work
  <2>5. Step(a, "extracted", w)
    BY <1>1, <2>1, <2>3, <2>4, StepIs DEF Stages
  <2>6. at'[a] = "extracted" /\ work'[a] = w
    BY <2>5 DEF Step
  <2>7. Informed(a)'
    BY <2>2, <2>4, <2>6 DEF Informed
  <2>8. QED
    BY <1>0, <1>5, <2>2, <2>4, <2>5, <2>7, StillOwes
<1>10. CASE MarkExtracted(a)
  <2>1. /\ SetStatus(d, "extracted") /\ Turn(a, [work[a] EXCEPT !.todo = Writes])
        /\ Go(a, "write") /\ UNCHANGED extractions /\ at[a] = "extracted"
    BY <1>0, <1>10 DEF MarkExtracted
  <2>2. "extracted" \in Statuses
    BY DEF Statuses
  <2>3. RowsOf(d)
    BY <1>3, <1>4, <2>1, <2>2, StatusIsSet
  <2>4. PICK w : w = [work[a] EXCEPT !.todo = Writes]
    OBVIOUS
  <2>5. w \in Work /\ w.doc = d /\ w.marks /\ w.row = work[a].row /\ w.todo = Writes
    BY <1>0, <1>3, <2>4 DEF Work
  <2>6. Step(a, "write", w)
    BY <1>1, <2>1, <2>4, <2>5, StepIs DEF Stages
  <2>7. at'[a] = "write" /\ work'[a] = w
    BY <2>6 DEF Step
  <2>8. work[a].row \in DOMAIN extractions[d]
    BY <1>0, <2>1 DEF PipelineInv, AllInformed, Informed
  <2>9. Informed(a)'
    BY <2>1, <2>5, <2>7, <2>8 DEF Informed, Writes
  <2>10. QED
    BY <1>0, <1>5, <2>3, <2>5, <2>6, <2>9, StillOwes
<1>11. QED
  BY <1>8, <1>9, <1>10

(* A write lands: with the last of both the document is whole, and normal. *)
LEMMA WriteKeeps ==
    ASSUME PipelineInv, NEW a \in Extractors, WriteLands(a)
    PROVE  PipelineInv'
<1>0. PICK d : d = work[a].doc
  OBVIOUS
<1>1. TypeOK /\ AllInformed /\ KnownInv
  BY DEF PipelineInv
<1>2. at[a] = "write" /\ UNCHANGED <<blocks, duplicates, batch, jobs, late, disturbed, faults>>
  BY DEF WriteLands, UnchangedLate, NoFault
<1>3. work[a] \in Work /\ d \in Documents /\ work[a].todo \subseteq Writes
  BY <1>0, <1>2, BusyIs
<1>4. RestOf(d)
  BY <1>2, SameRest
<1>5. PICK n \in Nat : n = work[a].row /\ n \in DOMAIN extractions[d]
  BY <1>0, <1>1, <1>2, <1>3 DEF AllInformed, Informed, Work
<1>6. PICK k \in work[a].todo, rest \in SUBSET Writes :
        /\ rest = work[a].todo \ {k}
        /\ IF k = "extraction"
           THEN extractions' = Normalized(d, n) /\ UNCHANGED status
           ELSE SetStatus(d, "normalized") /\ UNCHANGED extractions
        /\ IF rest = {} /\ ~work[a].marks
           THEN Leave(a)
           ELSE /\ Turn(a, [work[a] EXCEPT !.todo = rest, !.row = IF rest = {} THEN 0 ELSE @])
                /\ Go(a, IF rest = {} THEN "normalized" ELSE "write")
  <2>1. PICK k \in work[a].todo :
        LET r == work[a].todo \ {k} IN
        /\ IF k = "extraction"
           THEN extractions' = Normalized(d, n) /\ UNCHANGED status
           ELSE SetStatus(d, "normalized") /\ UNCHANGED extractions
        /\ IF r = {} /\ ~work[a].marks
           THEN Leave(a)
           ELSE /\ Turn(a, [work[a] EXCEPT !.todo = r, !.row = IF r = {} THEN 0 ELSE @])
                /\ Go(a, IF r = {} THEN "normalized" ELSE "write")
    BY <1>0, <1>5 DEF WriteLands
  <2>2. PICK rest : rest = work[a].todo \ {k}
    OBVIOUS
  <2>3. rest \in SUBSET Writes
    BY <1>3, <2>2
  <2>4. QED
    BY <2>1, <2>2, <2>3
<1>7. k \in {"extraction", "status"} /\ (k = "status" => rest \in {{}, {"extraction"}})
  BY <1>3, <1>6 DEF Writes
<1>8. RowsOf(d) /\ (k = "extraction" => Whole(d)' /\ extractions[d] # <<>> /\ UNCHANGED status)
      /\ (k = "status" => status'[d] = "normalized" /\ UNCHANGED extractions)
      /\ DOMAIN extractions'[d] = DOMAIN extractions[d]
  <2>1. CASE k = "extraction"
    BY <1>2, <1>3, <1>5, <1>6, <2>1, NormalizedIs
  <2>2. CASE k = "status"
    <3>1. "normalized" \in Statuses /\ SetStatus(d, "normalized") /\ UNCHANGED extractions
      BY <1>6, <2>2 DEF Statuses
    <3>2. QED
      BY <1>2, <1>3, <2>2, <3>1, StatusIsSet
  <2>3. QED
    BY <1>7, <2>1, <2>2
(* The extraction is written, unless it is still to be.                    *)
<1>9. "extraction" \notin rest => Whole(d)'
  <2>1. CASE k = "status" /\ rest = {}
    <3>1. Whole(d)
      BY <1>0, <1>1, <1>2, <1>6, <2>1 DEF AllInformed, Informed
    <3>2. QED
      BY <1>8, <2>1, <3>1 DEF Whole, Extracted
  <2>2. QED
    BY <1>7, <1>8, <2>1
(* The extraction alone does not change what is known of the document.     *)
<1>10. ASSUME k = "extraction", ~work[a].marks, Others(a), d \notin disturbed
       PROVE  Settled(d)'
  <2>1. Settled(d) /\ extractions[d] # <<>> /\ Whole(d)'
    BY <1>1, <1>3, <1>8, <1>10 DEF KnownInv
  <2>2. CASE Owed(d)
    <3>1. PICK x \in Extractors : WorksOn(x, d) /\ work[x].marks /\ at[x] \notin {"find", "create"}
      BY <2>2 DEF Owed
    <3>2. x # a
      BY <1>10, <3>1
    <3>3. at'[x] = at[x] /\ work'[x] = work[x]
      BY <1>10, <3>2 DEF Others, Actors
    <3>4. QED
      BY <3>1, <3>3 DEF Settled, Owed, WorksOn
  <2>3. CASE status[d] \in {"failed", "normalized"}
    BY <1>8, <1>10, <2>1, <2>3 DEF Settled
  <2>4. QED
    BY <2>1, <2>2, <2>3 DEF Settled
<1>11. CASE rest = {} /\ ~work[a].marks
  <2>1. Step(a, "idle", Nothing)
    BY <1>1, <1>6, <1>11, LeaveIs
  <2>2. at'[a] = "idle" /\ Others(a)
    BY <2>1 DEF Step
  <2>3. Informed(a)'
    BY <2>2 DEF Informed
  <2>4. ASSUME d \notin disturbed PROVE Settled(d)'
    <3>1. CASE k = "status"
      BY <1>8, <1>9, <1>11, <3>1 DEF Settled
    <3>2. CASE k = "extraction"
      BY <1>10, <1>11, <2>2, <2>4, <3>2
    <3>3. QED
      BY <1>7, <3>1, <3>2
  <2>5. QED
    BY <1>0, <1>2, <1>3, <1>4, <1>8, <2>1, <2>3, <2>4, ActorOK
<1>12. CASE rest # {} \/ work[a].marks
  <2>1. PICK w : w = [work[a] EXCEPT !.todo = rest, !.row = IF rest = {} THEN 0 ELSE @]
    OBVIOUS
  <2>2. PICK stage \in {"normalized", "write"} :
            stage = IF rest = {} THEN "normalized" ELSE "write"
    OBVIOUS
  <2>3. /\ w \in Work /\ w.doc = d /\ w.marks = work[a].marks /\ w.todo = rest
        /\ stage = "write" => w.row = n
    BY <1>0, <1>3, <1>5, <2>1, <2>2 DEF Work
  <2>4. Turn(a, w) /\ Go(a, stage)
    BY <1>6, <1>12, <2>1, <2>2
  <2>5. Step(a, stage, w)
    BY <1>1, <2>2, <2>3, <2>4, StepIs DEF Stages
  <2>6. at'[a] = stage /\ work'[a] = w /\ Others(a)
    BY <2>5 DEF Step
  <2>7. Informed(a)'
    <3>1. CASE stage = "normalized"
      <4>1. Whole(d)' /\ w.marks
        BY <1>9, <1>12, <2>2, <2>3, <3>1
      <4>2. QED
        BY <2>3, <2>6, <3>1, <4>1 DEF Informed, Whole
    <3>2. CASE stage = "write"
      <4>1. n \in DOMAIN extractions'[d] /\ rest # {} /\ ("extraction" \notin rest => Whole(d)')
        BY <1>5, <1>8, <1>9, <2>2, <3>2
      <4>2. QED
        BY <2>3, <2>6, <3>2, <4>1 DEF Informed, Whole
    <3>3. QED
      BY <2>2, <3>1, <3>2
  <2>8. CASE work[a].marks
    BY <1>0, <1>4, <1>8, <2>2, <2>3, <2>5, <2>7, <2>8, StillOwes
  <2>9. CASE ~work[a].marks
    <3>1. stage = "write" /\ rest # {}
      BY <1>12, <2>2, <2>9
    <3>2. ASSUME d \notin disturbed PROVE Settled(d)'
      <4>1. CASE k = "status"
        <5>1. rest = {"extraction"}
          BY <1>7, <3>1, <4>1
        <5>2. Half(a, d)'
          BY <2>3, <2>6, <2>9, <3>1, <5>1 DEF Half, WorksOn
        <5>3. QED
          BY <1>8, <4>1, <5>2 DEF Settled
      <4>2. CASE k = "extraction"
        BY <1>10, <2>6, <2>9, <3>2, <4>2
      <4>3. QED
        BY <1>7, <4>1, <4>2
    <3>3. QED
      BY <1>0, <1>2, <1>3, <1>4, <1>8, <2>5, <2>7, <3>2, ActorOK
  <2>10. QED
    BY <2>8, <2>9
<1>13. QED
  BY <1>11, <1>12

(* After a failure the actor marks the document, or has nothing to mark,   *)
(* and leaves it as it is or among those that are left behind.             *)
LEMMA FailureKeeps ==
    ASSUME PipelineInv, NEW a \in Extractors, at[a] # "idle", AfterFailure(a),
           NEW d, d = work[a].doc, UNCHANGED rows, RestOf(d), disturbed \subseteq disturbed',
           work[a].marks \/ d \in disturbed' \/ (UNCHANGED disturbed /\ ~Minds(a, d))
    PROVE  PipelineInv'
<1>1. TypeOK /\ d \in Documents
  BY BusyIs DEF PipelineInv
<1>2. RowsOf(d)
  BY <1>1, SameRows
<1>3. CASE work[a].marks
  <2>1. Go(a, "mark") /\ Turn(a, Task(d, FALSE, FALSE))
    BY <1>3 DEF AfterFailure
  <2>2. PICK p \in BOOLEAN : p = FALSE
    OBVIOUS
  <2>3. PICK w \in Work : w = Task(d, p, p) /\ w.doc = d /\ w.marks
    BY <1>1, TaskIs
  <2>4. Step(a, "mark", w)
    BY <1>1, <2>1, <2>2, <2>3, StepIs DEF Stages
  <2>5. QED
    BY <1>2, <2>3, <2>4, GoesOn
<1>4. CASE ~work[a].marks
  <2>1. Step(a, "idle", Nothing)
    BY <1>1, <1>4, LeaveIs DEF AfterFailure
  <2>2. CASE d \in disturbed'
    <3>1. Informed(a)'
      BY <2>1 DEF Step, Informed
    <3>2. QED
      BY <1>1, <1>2, <2>1, <2>2, <3>1, ActorOK
  <2>3. CASE UNCHANGED disturbed /\ ~Minds(a, d)
    BY <1>1, <2>1, <2>3, OwesNothing
  <2>4. QED
    BY <1>4, <2>2, <2>3
<1>5. QED
  BY <1>3, <1>4, BusyIs

LEMMA FailsKeeps ==
    ASSUME PipelineInv, NEW a \in Extractors, Fails(a)
    PROVE  PipelineInv'
<1>1. PICK d : d = work[a].doc
  OBVIOUS
<1>2. /\ at[a] # "idle" /\ AfterFailure(a) /\ UNCHANGED rows
      /\ UNCHANGED <<batch, jobs, late, disturbed, faults>>
      /\ at[a] = "write" => work[a].todo = Writes
  BY DEF Fails, UnchangedLate, NoFault
<1>3. RestOf(d)
  BY <1>2, SameRest
<1>4. work[a].marks \/ ~Minds(a, d)
  <2>1. at[a] # "write" => work[a].marks
    BY <1>2, BusyIs
  <2>2. Writes # {"extraction"}
    BY DEF Writes
  <2>3. QED
    BY <1>2, <2>1, <2>2 DEF Minds
<1>5. disturbed \subseteq disturbed'
  BY <1>2
<1>6. QED
  BY <1>1, <1>2, <1>3, <1>4, <1>5, FailureKeeps

(* The sibling of a write that fails may be under way.  If that one is the *)
(* status, or no mark follows, the document is left behind.                *)
LEMMA WriteFailsKeeps ==
    ASSUME PipelineInv, NEW a \in Extractors, WriteFails(a)
    PROVE  PipelineInv'
<1>0. PICK d : d = work[a].doc
  OBVIOUS
<1>1. /\ at[a] = "write" /\ faults < MaxFaults /\ faults' = faults + 1 /\ AfterFailure(a)
      /\ UNCHANGED <<rows, batch, jobs>>
  BY DEF WriteFails, Fault
<1>2. /\ d \in Documents /\ work[a] \in Work /\ work[a].row \in Nat
      /\ work[a].todo \subseteq Writes /\ work[a].marks \in BOOLEAN
  BY <1>0, <1>1, BusyIs
<1>3. work[a].row \in DOMAIN extractions[d]
  BY <1>0, <1>1 DEF PipelineInv, AllInformed, Informed
<1>4. PICK k \in work[a].todo :
        /\ late' = late \cup {[part |-> p, doc |-> d, row |-> work[a].row] :
                                  p \in work[a].todo \ {k}}
        /\ disturbed' = IF k = "extraction" /\ ("status" \in work[a].todo \/ ~work[a].marks)
                        THEN disturbed \cup {d} ELSE disturbed
  BY <1>0 DEF WriteFails
<1>5. disturbed \subseteq disturbed' /\ disturbed' \subseteq Documents
  BY <1>2, <1>4 DEF PipelineInv, TypeOK
<1>6. faults' \in 0..MaxFaults /\ late \subseteq Write /\ queue \subseteq Documents
  <2>1. faults \in 0..MaxFaults /\ MaxFaults \in Nat
    BY BoundAssumption DEF PipelineInv, TypeOK
  <2>2. faults' \in 0..MaxFaults
    BY <1>1, <2>1
  <2>3. QED
    BY <2>2 DEF PipelineInv, TypeOK
<1>7. ASSUME NEW l \in late', l \notin late
      PROVE  /\ l \in Write /\ l.doc = d /\ l.row \in DOMAIN extractions[d]
             /\ l.part = "status" => d \in disturbed'
  <2>1. PICK p \in work[a].todo \ {k} : l = [part |-> p, doc |-> d, row |-> work[a].row]
    BY <1>4, <1>7
  <2>2. l \in Write /\ l.doc = d /\ l.row = work[a].row /\ l.part = p
    BY <1>2, <2>1 DEF Write
  <2>3. p = "status" => k = "extraction" /\ "status" \in work[a].todo
    BY <1>2, <2>1 DEF Writes
  <2>4. p = "status" => d \in disturbed'
    BY <1>4, <2>3
  <2>5. QED
    BY <1>3, <2>2, <2>4
<1>8. RestOf(d)
  <2>1. late' \subseteq Write
    BY <1>6, <1>7
  <2>2. QED
    BY <1>1, <1>5, <1>6, <1>7, <2>1 DEF RestOf, jobs
<1>9. work[a].marks \/ d \in disturbed' \/ (UNCHANGED disturbed /\ ~Minds(a, d))
  <2>1. k = "extraction" \/ k = "status"
    BY <1>2 DEF Writes
  <2>2. QED
    BY <1>4, <2>1 DEF Minds
<1>10. QED
  BY <1>0, <1>1, <1>5, <1>8, <1>9, FailureKeeps

(* The last status: normalized, failed, or none at all.                    *)
LEMMA MarksKeep ==
    ASSUME PipelineInv, NEW a \in Extractors,
           MarkNormalized(a) \/ MarkFailed(a) \/ MarkIsLost(a)
    PROVE  PipelineInv'
<1>0. PICK d : d = work[a].doc
  OBVIOUS
<1>1. /\ at[a] \in {"normalized", "mark"} /\ Leave(a)
      /\ UNCHANGED <<blocks, extractions, duplicates, batch, jobs, late>>
  BY DEF MarkNormalized, MarkFailed, MarkIsLost, UnchangedLate, rows
<1>2. TypeOK /\ d \in Documents
  BY <1>0, <1>1, BusyIs DEF PipelineInv
<1>3. Step(a, "idle", Nothing)
  BY <1>1, <1>2, LeaveIs
<1>4. Informed(a)'
  BY <1>3 DEF Step, Informed
<1>5. CASE MarkNormalized(a)
  <2>1. /\ SetStatus(d, "normalized") /\ UNCHANGED <<disturbed, faults>>
        /\ at[a] = "normalized"
    BY <1>0, <1>5 DEF MarkNormalized, UnchangedLate, NoFault
  <2>2. "normalized" \in Statuses
    BY DEF Statuses
  <2>3. RowsOf(d) /\ RestOf(d) /\ status'[d] = "normalized"
    BY <1>1, <1>2, <2>1, <2>2, StatusIsSet, SameRest
  <2>4. Whole(d)
    BY <1>0, <2>1 DEF PipelineInv, AllInformed, Informed
  <2>5. Whole(d)'
    BY <1>1, <2>4 DEF Whole, Extracted
  <2>6. Settled(d)'
    BY <2>3, <2>5 DEF Settled
  <2>7. QED
    BY <1>0, <1>2, <1>3, <1>4, <2>3, <2>6, ActorOK
<1>6. CASE MarkFailed(a)
  <2>1. SetStatus(d, "failed") /\ UNCHANGED <<disturbed, faults>>
    BY <1>0, <1>6 DEF MarkFailed, UnchangedLate, NoFault
  <2>2. "failed" \in Statuses
    BY DEF Statuses
  <2>3. RowsOf(d) /\ RestOf(d) /\ status'[d] = "failed"
    BY <1>1, <1>2, <2>1, <2>2, StatusIsSet, SameRest
  <2>4. Settled(d)'
    BY <2>3 DEF Settled
  <2>5. QED
    BY <1>0, <1>2, <1>3, <1>4, <2>3, <2>4, ActorOK
<1>7. CASE MarkIsLost(a)
  <2>1. /\ UNCHANGED rows /\ disturbed' = disturbed \cup {d}
        /\ faults < MaxFaults /\ faults' = faults + 1
    BY <1>0, <1>7 DEF MarkIsLost, Fault
  <2>2. faults \in 0..MaxFaults /\ MaxFaults \in Nat /\ late \subseteq Write
        /\ queue \subseteq Documents /\ disturbed \subseteq Documents
    BY BoundAssumption DEF PipelineInv, TypeOK
  <2>3. faults' \in 0..MaxFaults
    BY <2>1, <2>2
  <2>4. RestOf(d)
    BY <1>1, <1>2, <2>1, <2>2, <2>3 DEF RestOf, jobs
  <2>5. RowsOf(d)
    BY <1>2, <2>1, SameRows
  <2>6. QED
    BY <1>0, <1>2, <1>3, <1>4, <2>1, <2>4, <2>5, ActorOK
<1>8. QED
  BY <1>5, <1>6, <1>7

LEMMA ActorsKeep ==
    ASSUME PipelineInv, NEW a \in Extractors, ExtractAndNormalize(a)
    PROVE  PipelineInv'
BY ExtractKeeps, WriteKeeps, MarksKeep, FailsKeeps, WriteFailsKeeps DEF ExtractAndNormalize

-----------------------------------------------------------------------------
(* The pending job, late writes and crashes *)

LEMMA LeastNumber ==
    ASSUME NEW T \in SUBSET Nat, T # {}
    PROVE  \E x \in T : \A y \in T : x <= y
<1> DEFINE R == OpToRel(<, Nat)
<1>1. \A x, y \in Nat : <<y, x>> \in R <=> y < x
  BY DEF OpToRel
<1>2. IsWellFoundedOn(R, Nat)
  BY NatLessThanWellFounded
<1> HIDE DEF R
<1>3. PICK x \in T : \A y \in T : ~ (<<y, x>> \in R)
  BY <1>2, WFMin
<1>4. \A y \in T : ~ (y < x) /\ y \in Nat /\ x \in Nat
  BY <1>1, <1>3
<1>5. QED
  BY <1>4

LEMMA TakeKeeps ==
    ASSUME PipelineInv, NEW a \in Extractors, TakeDocument(a)
    PROVE  PipelineInv'
<1>1. /\ TypeOK /\ queue \subseteq Documents /\ queue # {} /\ at[a] = "idle"
      /\ UNCHANGED <<rows, batch, job, late, disturbed, faults>>
  BY DEF PipelineInv, TypeOK, TakeDocument, JobOnly, UnchangedLate, NoFault
<1>2. PICK d : d = CHOOSE e \in queue : \A f \in queue : e <= f
  OBVIOUS
<1>3. d \in queue
  <2>1. queue \in SUBSET Nat
    BY <1>1, DocumentAssumption
  <2>2. \E e \in queue : \A f \in queue : e <= f
    BY <1>1, <2>1, LeastNumber
  <2>3. QED
    BY <1>2, <2>2
<1>4. /\ queue' = queue \ {d} /\ Turn(a, Task(d, FALSE, TRUE)) /\ Go(a, "extract")
  BY <1>2 DEF TakeDocument
<1>5. PICK p \in BOOLEAN, q \in BOOLEAN : p = FALSE /\ q = TRUE
  OBVIOUS
<1>6. PICK w \in Work : w = Task(d, p, q) /\ w.doc = d /\ w.marks
  <2>1. d \in Documents
    BY <1>1, <1>3
  <2>2. QED
    BY <2>1, TaskIs
<1>7. Step(a, "extract", w)
  BY <1>1, <1>4, <1>5, <1>6, StepIs DEF Stages
<1>8. disturbed \subseteq disturbed'
  BY <1>1
<1>9. RowsOf(d)
  BY <1>1, <1>3, <1>8, SameRows
<1>10. RestOf(d)
  BY <1>1, <1>4 DEF PipelineInv, TypeOK, RestOf
<1>11. QED
  BY <1>1, <1>6, <1>7, <1>9, <1>10, GoesOn

(* Nobody moves.                                                           *)
Stands == at' = at /\ work' = work /\ batch' = batch

LEMMA NobodyMoves ==
    ASSUME PipelineInv, Stands, UNCHANGED <<rows, late, disturbed, faults>>,
           job' \in {"none", "select", "running"}, queue' \subseteq Documents
    PROVE  PipelineInv'
<1>1. TypeOK'
  BY DEF PipelineInv, TypeOK, Stands, rows
<1>2. /\ UNCHANGED <<work, extractions, late>> /\ \A x \in Extractors : at'[x] = at[x]
      /\ disturbed \subseteq disturbed' /\ UNCHANGED status
  BY DEF Stands, rows
<1>3. AllInformed' /\ LateInv' /\ KnownInv'
  BY <1>2, BatchKeeps
<1>4. QED
  BY <1>1, <1>3 DEF PipelineInv

LEMMA JobKeeps ==
    ASSUME PipelineInv, StartPending \/ PendingJob
    PROVE  PipelineInv'
<1>1. Stands /\ UNCHANGED <<rows, late, disturbed, faults>>
  BY DEF StartPending, PendingJob, SelectPending, SelectFails, EndPending, JobOnly,
         UnchangedLate, NoFault, Stands
<1>2. job' \in {"none", "select", "running"}
  BY DEF StartPending, PendingJob, SelectPending, SelectFails, EndPending
<1>3. queue \subseteq Documents /\ blocks \subseteq Documents
  BY DEF PipelineInv, TypeOK
<1>4. queue' = queue \/ queue' = FirstOf(MissingExtraction, Limit)
  BY DEF StartPending, PendingJob, SelectPending, SelectFails, EndPending
<1>5. FirstOf(MissingExtraction, Limit) \subseteq Documents
  BY <1>3 DEF FirstOf, MissingExtraction
<1>6. QED
  BY <1>1, <1>2, <1>3, <1>4, <1>5, NobodyMoves

LEMMA LateWritesKeep ==
    ASSUME PipelineInv, LateWriteLands
    PROVE  PipelineInv'
<1>1. PICK l \in late :
        /\ late' = late \ {l}
        /\ IF l.part = "extraction"
           THEN extractions' = Normalized(l.doc, l.row) /\ UNCHANGED status
           ELSE SetStatus(l.doc, "normalized") /\ UNCHANGED extractions
  BY DEF LateWriteLands
<1>2. Stands /\ UNCHANGED <<blocks, duplicates, jobs, disturbed, faults>>
  BY DEF LateWriteLands, NoFault, Stands
<1>3. PICK d \in Documents : d = l.doc
  BY DEF PipelineInv, TypeOK, Write
<1>4. /\ l.part \in {"extraction", "status"} /\ l.row \in DOMAIN extractions[d]
      /\ l.part = "status" => d \in disturbed
  BY <1>3 DEF PipelineInv, TypeOK, Write, Writes, LateInv
<1>5. /\ RowsOf(d)
      /\ l.part = "extraction" => UNCHANGED status /\ Whole(d)'
      /\ l.part = "status" => UNCHANGED extractions
  <2>1. CASE l.part = "extraction"
    BY <1>1, <1>2, <1>3, <1>4, <2>1, NormalizedIs
  <2>2. CASE l.part = "status"
    <3>1. "normalized" \in Statuses /\ SetStatus(d, "normalized") /\ UNCHANGED extractions
      BY <1>1, <1>3, <2>2 DEF Statuses
    <3>2. QED
      BY <1>2, <2>2, <3>1, StatusIsSet
  <2>3. QED
    BY <1>4, <2>1, <2>2
<1>6. \A e \in Documents : Grows(e)
  BY <1>5 DEF RowsOf, Concerns, Grows, Whole, Extracted
<1>7. TypeOK'
  BY <1>1, <1>2, <1>5 DEF PipelineInv, TypeOK, RowsOf, Stands, jobs
<1>8. AllInformed'
  BY <1>2, <1>6, InformedStays DEF PipelineInv, AllInformed, Stands
<1>9. LateInv'
  <2>1. ASSUME NEW m \in late'
        PROVE  m.row \in DOMAIN extractions'[m.doc] /\ (m.part = "status" => m.doc \in disturbed')
    <3>1. m \in late /\ m.doc \in Documents
      BY <1>1, <2>1 DEF PipelineInv, TypeOK, Write
    <3>2. QED
      BY <1>2, <1>6, <3>1 DEF PipelineInv, LateInv, Grows
  <2>2. QED
    BY <2>1 DEF LateInv
<1>10. ASSUME NEW e \in Documents \ disturbed' PROVE Settled(e)'
  <2>1. Settled(e) /\ e \notin disturbed
    BY <1>2, <1>10 DEF PipelineInv, KnownInv
  <2>2. Owed(e) => Owed(e)'
    BY <1>2 DEF Owed, WorksOn, Stands
  <2>3. \A x \in Extractors : Half(x, e) => Half(x, e)'
    BY <1>2 DEF Half, WorksOn, Stands
  <2>4. status'[e] = status[e]
    BY <1>3, <1>4, <1>5, <2>1 DEF RowsOf, Concerns
  <2>5. extractions[e] = <<>> => extractions'[e] = <<>>
    <3>1. CASE e # d \/ l.part = "status"
      BY <1>5, <3>1 DEF RowsOf, Concerns
    <3>2. CASE e = d
      BY <1>4, <3>2
    <3>3. QED
      BY <3>1, <3>2
  <2>6. Whole(e) => Whole(e)'
    BY <1>6 DEF Grows
  <2>7. QED
    BY <2>1, <2>2, <2>3, <2>4, <2>5, <2>6 DEF Settled
<1>11. QED
  BY <1>7, <1>8, <1>9, <1>10 DEF PipelineInv, KnownInv

(* A process that stops leaves what it was working on behind.              *)
LEMMA CrashKeeps ==
    ASSUME PipelineInv, ProcessStops
    PROVE  PipelineInv'
<1>1. PICK stopped \in SUBSET Extractors, server \in BOOLEAN :
        /\ disturbed' = disturbed \cup {d \in Documents : \E a \in stopped : WorksOn(a, d)}
        /\ at' = [a \in Extractors \cup Batches |-> IF a \in stopped THEN "idle" ELSE at[a]]
        /\ work' = [a \in Extractors |-> IF a \in stopped THEN Nothing ELSE work[a]]
        /\ job' = IF server THEN "none" ELSE job
        /\ queue' = IF server THEN {} ELSE queue
  <2>1. PICK gone \in SUBSET Requests, server \in BOOLEAN :
          LET stopped == gone \cup (IF server THEN Workers ELSE {}) IN
          /\ disturbed' = disturbed \cup {d \in Documents : \E a \in stopped : WorksOn(a, d)}
          /\ at' = [a \in Extractors \cup Batches |-> IF a \in stopped THEN "idle" ELSE at[a]]
          /\ work' = [a \in Extractors |-> IF a \in stopped THEN Nothing ELSE work[a]]
          /\ job' = IF server THEN "none" ELSE job
          /\ queue' = IF server THEN {} ELSE queue
    BY DEF ProcessStops
  <2>2. PICK stopped : stopped = gone \cup (IF server THEN Workers ELSE {})
    OBVIOUS
  <2>3. stopped \in SUBSET Extractors
    BY <2>2 DEF Extractors
  <2>4. QED
    BY <2>1, <2>2, <2>3
<1>2. UNCHANGED <<rows, batch, late>> /\ faults < MaxFaults /\ faults' = faults + 1
  BY DEF ProcessStops, Fault
<1>3. /\ TypeOK /\ faults \in 0..MaxFaults /\ MaxFaults \in Nat
  BY BoundAssumption DEF PipelineInv, TypeOK
<1>4. TypeOK'
  <2>1. faults' \in 0..MaxFaults
    BY <1>2, <1>3
  <2>2. at' \in [Extractors \cup Batches -> Stages \cup BatchStages]
    BY <1>1, <1>3 DEF TypeOK, Stages
  <2>3. work' \in [Extractors -> Work \cup {Nothing}]
    BY <1>1, <1>3 DEF TypeOK
  <2>4. disturbed' \subseteq Documents
    BY <1>1, <1>3 DEF TypeOK
  <2>5. job' \in {"none", "select", "running"} /\ queue' \subseteq Documents
    BY <1>1, <1>3 DEF TypeOK
  <2>6. QED
    BY <1>2, <1>3, <2>1, <2>2, <2>3, <2>4, <2>5 DEF TypeOK, rows
<1>5. \A x \in Extractors : IF x \in stopped THEN at'[x] = "idle"
                                             ELSE at'[x] = at[x] /\ work'[x] = work[x]
  BY <1>1
<1>6. disturbed \subseteq disturbed'
  BY <1>1
<1>7. \A d \in Documents : Grows(d) /\ (Whole(d)' <=> Whole(d))
  BY <1>2 DEF Grows, Whole, Extracted, rows
<1>8. AllInformed'
  <2>1. ASSUME NEW x \in Extractors PROVE Informed(x)'
    <3>1. CASE x \in stopped
      BY <1>5, <3>1 DEF Informed
    <3>2. CASE x \notin stopped
      BY <1>5, <1>7, <3>2, InformedStays DEF PipelineInv, AllInformed
    <3>3. QED
      BY <3>1, <3>2
  <2>2. QED
    BY <2>1 DEF AllInformed
<1>9. LateInv'
  BY <1>2, <1>6 DEF PipelineInv, LateInv, rows
<1>10. ASSUME NEW e \in Documents \ disturbed' PROVE Settled(e)'
  <2>1. Settled(e)
    BY <1>6, <1>10 DEF PipelineInv, KnownInv
  <2>2. \A x \in Extractors : WorksOn(x, e) => at'[x] = at[x] /\ work'[x] = work[x]
    BY <1>1, <1>5, <1>10
  <2>3. Owed(e) => Owed(e)'
    BY <2>2 DEF Owed, WorksOn
  <2>4. \A x \in Extractors : Half(x, e) => Half(x, e)'
    BY <2>2 DEF Half, WorksOn
  <2>5. QED
    BY <1>2, <1>7, <1>10, <2>1, <2>3, <2>4 DEF Settled, rows
<1>11. QED
  BY <1>4, <1>8, <1>9, <1>10 DEF PipelineInv, KnownInv

-----------------------------------------------------------------------------
(* The theorems *)

LEMMA PipelineStarts ==
    ASSUME Init PROVE PipelineInv
<1>1. TypeOK
  <2>1. "none" \in Statuses /\ "idle" \in Stages
    BY DEF Statuses, Stages
  <2>2. <<>> \in Seq({"parsed", "normalized"})
    OBVIOUS
  <2>3. NoBatch \in Batch
    BY DEF NoBatch, Batch
  <2>4. 0 \in 0..MaxFaults
    BY BoundAssumption
  <2>5. QED
    BY <2>1, <2>2, <2>3, <2>4 DEF Init, TypeOK
<1>2. AllInformed
  BY DEF Init, AllInformed, Informed
<1>3. LateInv /\ KnownInv
  BY DEF Init, LateInv, KnownInv, Settled
<1>4. QED
  BY <1>1, <1>2, <1>3 DEF PipelineInv

LEMMA PipelineSteps ==
    ASSUME PipelineInv, [Next]_vars PROVE PipelineInv'
<1>1. CASE \E r \in Requests : Request(r)
  <2>1. PICK r \in Extractors : Request(r)
    BY <1>1 DEF Extractors
  <2>2. QED
    BY <2>1, RequestsBegin, ParseKeeps, ActorsKeep DEF Request
<1>2. CASE \E w \in Workers : Worker(w)
  <2>1. PICK w \in Extractors : Worker(w)
    BY <1>2 DEF Extractors
  <2>2. QED
    BY <2>1, TakeKeeps, ActorsKeep DEF Worker
<1>3. CASE \E b \in Batches : BatchStep(b)
  BY <1>3, BatchKeepsInv
<1>4. CASE StartPending \/ PendingJob
  BY <1>4, JobKeeps
<1>5. CASE LateWriteLands
  BY <1>5, LateWritesKeep
<1>6. CASE ProcessStops
  BY <1>6, CrashKeeps
<1>7. CASE UNCHANGED vars
  <2>1. Stands /\ UNCHANGED <<rows, late, disturbed, faults, job, queue>>
    BY <1>7 DEF vars, rows, jobs, Stands
  <2>2. job \in {"none", "select", "running"} /\ queue \subseteq Documents
    BY DEF PipelineInv, TypeOK
  <2>3. QED
    BY <2>1, <2>2, NobodyMoves
<1>8. QED
  BY <1>1, <1>2, <1>3, <1>4, <1>5, <1>6, <1>7 DEF Next

(* What is known of every actor, late write and document stays known.      *)
THEOREM PipelineIsOrderly == Spec => []PipelineInv
<1>1. Init => PipelineInv
  BY PipelineStarts
<1>2. PipelineInv /\ [Next]_vars => PipelineInv'
  BY PipelineSteps
<1>3. QED
  BY <1>1, <1>2, PTL DEF Spec

(* The rows, and what every actor works on, are of their types.            *)
THEOREM PipelineTypeCorrect == Spec => []TypeOK
<1>1. PipelineInv => TypeOK
  BY DEF PipelineInv
<1>2. QED
  BY <1>1, PipelineIsOrderly, PTL

(* Nothing that was parsed is forgotten: a document nobody works on is     *)
(* normalized, a later pending job will find it, or it is a copy.          *)
THEOREM NoDocumentIsForgotten == Spec => []NothingIsForgotten
<1>1. ASSUME PipelineInv PROVE NothingIsForgotten
  <2>1. ASSUME NEW d \in blocks \ disturbed
        PROVE  Busy(d) \/ Finished(d) \/ d \in MissingExtraction \/ d \in duplicates
    <3>1. d \in Documents
      BY <1>1, <2>1 DEF PipelineInv, TypeOK
    <3>2. Settled(d)
      BY <1>1, <2>1, <3>1 DEF PipelineInv, KnownInv
    <3>3. Owed(d) => Busy(d)
      BY DEF Owed, Busy
    <3>4. (\E a \in Extractors : Half(a, d)) => Busy(d)
      BY DEF Half, Busy
    <3>5. QED
      BY <2>1, <3>2, <3>3, <3>4 DEF Settled, Whole, Finished, MissingExtraction
  <2>2. QED
    BY <2>1 DEF NothingIsForgotten
<1>2. QED
  BY <1>1, PipelineIsOrderly, PTL
=============================================================================
