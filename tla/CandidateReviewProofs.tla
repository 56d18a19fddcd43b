------------------------ MODULE CandidateReviewProofs ------------------------
(***************************************************************************)
(* What a review promises, for any candidates, requests and batch: the     *)
(* dictionary knows what a candidate was approved for, and what a request  *)
(* or a batch reports as done is in force when it is answered, through all *)
(* errors and restarts.                                                    *)
(***************************************************************************)
EXTENDS CandidateReview, TLAPS

Outcome == {"done", "auto_resolved"}

(* The part of the types the arguments below need.                         *)
Typed ==
    /\ status \in [Candidates -> Statuses]
    /\ DOMAIN at = Actors \cup {Deferred}
    /\ op \in [Actors -> Op \cup {NoOp}]
    /\ results \in [Indices -> Outcomes] /\ progress \in [Indices -> Outcomes]
    /\ DOMAIN todo = Actors \cup {Deferred}
    /\ \A a \in Actors \cup {Deferred} : \A c \in DOMAIN todo[a] :
          c \in Candidates /\ todo[a][c] \in Outcome

PublishedIsKnown == published \subseteq known

(* The dictionary is written before the candidate is saved.                *)
WrittenBeforeSaved ==
    \A a \in Actors :
        /\ at[a] \in {"write", "save"} => op[a] # NoOp
        /\ at[a] = "save" /\ op[a].action # "split" => KeyOfOp(op[a]) \in known

Published == {"recheck", "rechecking", "mark", "answered"}
Learned   == Published \cup {"bump"}

RequestInv ==
    \A r \in Requests : Changing(op[r]) =>
        /\ at[r] \in Learned => KeyOfOp(op[r]) \in known
        /\ at[r] \in Published => KeyOfOp(op[r]) \in published
        /\ at[r] = "answered" => <<r, KeyOfOp(op[r])>> \notin owed

Reported == {Operations[i] : i \in Ok(results)}
Recorded == {Operations[i] : i \in Ok(progress)}

(* What a batch has completed is known, and so is what it has recorded,    *)
(* between two attempts as well.                                           *)
ReportedIsKnown ==
    \A o \in Reported \cup Recorded : Changing(o) => KeyOfOp(o) \in known

(* An attempt goes by its record and by the operation it is at.            *)
AttemptInv ==
    at[Batch] \notin {"queued", "failed"} =>
        /\ \A o \in Reported : KeyOfOp(o) \in affected
        /\ \A i \in Indices : progress[i] # "none" => results[i] = progress[i]
        /\ at[Batch] \in {"write", "save", "resolve"} =>
              \E i \in Indices : Operations[i] = op[Batch] /\ results[i] = "none"
        /\ at[Batch] \in Learned => progress = results

BatchInv ==
    \A o \in Reported : Changing(o) =>
        /\ at[Batch] \in Published => KeyOfOp(o) \in published
        /\ at[Batch] = "answered" => <<Batch, KeyOfOp(o)>> \notin owed

ReviewInv ==
    /\ Typed /\ PublishedIsKnown /\ ApprovedIsKnown /\ WrittenBeforeSaved
    /\ RequestInv /\ ReportedIsKnown /\ AttemptInv /\ BatchInv

LEMMA ReviewInit == Init => ReviewInv
<1> SUFFICES ASSUME Init PROVE ReviewInv
  OBVIOUS
<1>1. Typed
  BY ActorAssumption DEF Init, Typed, Statuses, Outcomes, NoRow, Actors
<1>2. PublishedIsKnown /\ ApprovedIsKnown
  BY DEF Init, PublishedIsKnown, ApprovedIsKnown
<1>3. WrittenBeforeSaved /\ RequestInv
  BY ActorAssumption DEF Init, WrittenBeforeSaved, RequestInv, Learned, Published, Actors
<1>4. Reported = {} /\ Recorded = {} /\ at[Batch] = "queued"
  BY ActorAssumption DEF Init, Reported, Recorded, Ok, Actors
<1>5. ReportedIsKnown /\ AttemptInv /\ BatchInv
  BY <1>4 DEF ReportedIsKnown, AttemptInv, BatchInv
<1>6. QED
  BY <1>1, <1>2, <1>3, <1>5 DEF ReviewInv

-----------------------------------------------------------------------------
(* Steps that leave the dictionary and the reports alone *)

(* A candidate gets another status; the rest is as it was.                 *)
LEMMA StatusKeeps ==
    ASSUME ReviewInv, UNCHANGED <<dictionary, at, op, job, owed>>,
           status' \in [Candidates -> Statuses],
           \A c \in Candidates : status'[c] = "approved" => status[c] = "approved",
           DOMAIN todo' = Actors \cup {Deferred},
           \A a \in Actors \cup {Deferred} : \A c \in DOMAIN todo'[a] :
               c \in Candidates /\ todo'[a][c] \in Outcome
    PROVE  ReviewInv'
<1>1. Typed' /\ PublishedIsKnown' /\ ApprovedIsKnown'
  BY DEF ReviewInv, Typed, PublishedIsKnown, ApprovedIsKnown, dictionary, job
<1>2. WrittenBeforeSaved' /\ RequestInv'
  BY DEF ReviewInv, WrittenBeforeSaved, RequestInv, dictionary
<1>3. ReportedIsKnown' /\ AttemptInv' /\ BatchInv'
  BY DEF ReviewInv, ReportedIsKnown, AttemptInv, BatchInv, Reported, Recorded, Ok,
     dictionary, job
<1>4. QED
  BY <1>1, <1>2, <1>3 DEF ReviewInv

(* Actors stop, or go on after the version was raised, and are not         *)
(* answered by this step.                                                  *)
LEMMA StageKeeps ==
    ASSUME ReviewInv, UNCHANGED <<status, dictionary, op, job, owed>>,
           DOMAIN at' = Actors \cup {Deferred},
           \A a \in Actors : \/ at'[a] = at[a]
                             \/ at'[a] \in {"queued", "failed"}
                             \/ at[a] \in Published /\ at'[a] \in Published \ {"answered"},
           DOMAIN todo' = Actors \cup {Deferred},
           \A a \in Actors \cup {Deferred} : \A c \in DOMAIN todo'[a] :
               c \in Candidates /\ todo'[a][c] \in Outcome
    PROVE  ReviewInv'
<1>1. Typed' /\ PublishedIsKnown' /\ ApprovedIsKnown'
  BY DEF ReviewInv, Typed, PublishedIsKnown, ApprovedIsKnown, dictionary, job
<1>2. Batch \in Actors /\ Requests \subseteq Actors
  BY DEF Actors
<1>3. /\ \A a \in Actors : at'[a] \in Learned => at[a] \in Learned
      /\ \A a \in Actors : at'[a] \in Published => at[a] \in Published
      /\ \A a \in Actors : at'[a] \in {"answered", "save", "write", "resolve"} => at[a] = at'[a]
      /\ \A a \in Actors : at'[a] \notin {"queued", "failed"} =>
            at[a] \notin {"queued", "failed"} \/ at'[a] = at[a]
  BY DEF Learned, Published
<1>4. WrittenBeforeSaved'
  BY <1>3 DEF ReviewInv, WrittenBeforeSaved, dictionary
<1>5. RequestInv'
  BY <1>2, <1>3 DEF ReviewInv, RequestInv, dictionary
<1>6. Reported' = Reported /\ Recorded' = Recorded
  BY DEF Reported, Recorded, Ok, job
<1>7. ReportedIsKnown' /\ BatchInv'
  BY <1>2, <1>3, <1>6 DEF ReviewInv, ReportedIsKnown, BatchInv, dictionary
<1>8. AttemptInv'
  BY <1>2, <1>3, <1>6 DEF ReviewInv, AttemptInv, job
<1>9. QED
  BY <1>1, <1>4, <1>5, <1>7, <1>8 DEF ReviewInv

-----------------------------------------------------------------------------
(* One operation *)

(* The result of a batch's operation is that of the operation it is at.    *)
LEMMA DoneReports ==
    ASSUME ReviewInv, Done(Batch), at[Batch] \in {"write", "save", "resolve"}
    PROVE  /\ Reported' = Reported \cup {op[Batch]}
           /\ Recorded' = Recorded
           /\ results' \in [Indices -> Outcomes] /\ progress' = progress
           /\ affected' = affected \cup {KeyOfOp(op[Batch])}
           /\ at' = [at EXCEPT ![Batch] = "next"]
           /\ \A i \in Indices : progress[i] # "none" => results'[i] = progress[i]
<1> DEFINE j == CHOOSE i \in Indices : Operations[i] = op[Batch]
<1>1. PICK i \in Indices : Operations[i] = op[Batch] /\ results[i] = "none"
  BY DEF ReviewInv, AttemptInv
<1>2. j = i
  BY <1>1, OperationAssumption
<1>3. /\ results' = [results EXCEPT ![i] = "ok"]
      /\ affected' = affected \cup {KeyOfOp(op[Batch])}
      /\ at' = [at EXCEPT ![Batch] = "next"] /\ progress' = progress
  BY <1>2 DEF Done, Go
<1>4. results \in [Indices -> Outcomes]
  BY DEF ReviewInv, Typed
<1>5. Ok(results') = Ok(results) \cup {i}
  BY <1>1, <1>3, <1>4 DEF Ok
<1>6. Reported' = {Operations[k] : k \in Ok(results')} /\ Recorded' = Recorded
  BY <1>3 DEF Reported, Recorded, Ok
<1>7. Reported' = Reported \cup {op[Batch]}
  BY <1>1, <1>5, <1>6 DEF Reported
<1>8. \A k \in Indices : progress[k] # "none" => results'[k] = progress[k]
  BY <1>1, <1>3, <1>4 DEF ReviewInv, AttemptInv
<1>9. results' \in [Indices -> Outcomes]
  BY <1>3, <1>4 DEF Outcomes
<1>10. QED
  BY <1>3, <1>6, <1>7, <1>8, <1>9

(* An operation that is done has written what it learnt.                   *)
LEMMA DoneKeeps ==
    ASSUME ReviewInv, NEW a \in Actors, at[a] \in {"write", "save", "resolve"}, Done(a),
           known \subseteq known', published' = published, UNCHANGED <<op, todo>>,
           owed' \subseteq owed \cup {<<a, KeyOfOp(op[a])>>},
           Changing(op[a]) => KeyOfOp(op[a]) \in known',
           status' \in [Candidates -> Statuses], ApprovedIsKnown'
    PROVE  ReviewInv'
<1>1. Typed /\ a \in DOMAIN at /\ Batch \in Actors /\ Requests \subseteq Actors
  BY DEF ReviewInv, Typed, Actors
<1>2. CASE a = Batch
  <2>1. /\ Reported' = Reported \cup {op[Batch]} /\ Recorded' = Recorded
        /\ results' \in [Indices -> Outcomes] /\ progress' = progress
        /\ affected' = affected \cup {KeyOfOp(op[Batch])}
        /\ at' = [at EXCEPT ![Batch] = "next"]
        /\ \A i \in Indices : progress[i] # "none" => results'[i] = progress[i]
    BY <1>2, DoneReports
  <2>2. at'[Batch] = "next" /\ \A b \in Actors \ {Batch} : at'[b] = at[b]
    BY <1>1, <2>1 DEF Typed
  <2>3. Typed' /\ PublishedIsKnown'
    BY <1>1, <2>1 DEF ReviewInv, Typed, PublishedIsKnown
  <2>4. WrittenBeforeSaved'
    BY <2>2 DEF ReviewInv, WrittenBeforeSaved
  <2>5. RequestInv'
    <3> SUFFICES ASSUME NEW r \in Requests, Changing(op[r])
                 PROVE  /\ at'[r] \in Learned => KeyOfOp(op[r]) \in known'
                        /\ at'[r] \in Published => KeyOfOp(op[r]) \in published'
                        /\ at'[r] = "answered" => <<r, KeyOfOp(op[r])>> \notin owed'
      BY DEF RequestInv
    <3>1. r # Batch /\ at'[r] = at[r]
      BY <1>1, <2>2, ActorAssumption
    <3>2. <<r, KeyOfOp(op[r])>> \in owed' => <<r, KeyOfOp(op[r])>> \in owed
      BY <1>2, <3>1
    <3>3. QED
      BY <3>1, <3>2 DEF ReviewInv, RequestInv
  <2>6. ReportedIsKnown'
    BY <1>2, <2>1 DEF ReviewInv, ReportedIsKnown
  <2>7. AttemptInv'
    BY <1>2, <2>1, <2>2 DEF ReviewInv, AttemptInv, Learned, Published
  <2>8. BatchInv'
    BY <2>2 DEF BatchInv, Published
  <2>9. QED
    BY <2>3, <2>4, <2>5, <2>6, <2>7, <2>8 DEF ReviewInv
<1>3. CASE a # Batch
  <2>1. /\ at' = [at EXCEPT ![a] = IF Changing(op[a]) THEN "bump" ELSE "answered"]
        /\ UNCHANGED job /\ a \in Requests
    BY <1>3 DEF Done, Go, Actors
  <2>2. /\ at'[a] = IF Changing(op[a]) THEN "bump" ELSE "answered"
        /\ \A b \in Actors \ {a} : at'[b] = at[b]
    BY <1>1, <2>1 DEF Typed
  <2>3. Typed' /\ PublishedIsKnown'
    BY <1>1, <2>1 DEF ReviewInv, Typed, PublishedIsKnown, job
  <2>4. WrittenBeforeSaved'
    BY <2>2 DEF ReviewInv, WrittenBeforeSaved
  <2>5. RequestInv'
    <3> SUFFICES ASSUME NEW r \in Requests, Changing(op[r])
                 PROVE  /\ at'[r] \in Learned => KeyOfOp(op[r]) \in known'
                        /\ at'[r] \in Published => KeyOfOp(op[r]) \in published'
                        /\ at'[r] = "answered" => <<r, KeyOfOp(op[r])>> \notin owed'
      BY DEF RequestInv
    <3>1. CASE r = a
      BY <2>2, <3>1 DEF Published
    <3>2. CASE r # a
      <4>1. <<r, KeyOfOp(op[r])>> \in owed' => <<r, KeyOfOp(op[r])>> \in owed
        BY <3>2
      <4>2. at'[r] = at[r]
        BY <1>1, <2>2, <3>2
      <4>3. QED
        BY <4>1, <4>2 DEF ReviewInv, RequestInv
    <3>3. QED
      BY <3>1, <3>2
  <2>6. /\ Reported' = Reported /\ Recorded' = Recorded
        /\ at'[Batch] = at[Batch] /\ \A k : <<Batch, k>> \in owed' => <<Batch, k>> \in owed
    BY <1>1, <1>3, <2>1, <2>2 DEF Reported, Recorded, Ok, job
  <2>7. ReportedIsKnown' /\ BatchInv'
    BY <2>6 DEF ReviewInv, ReportedIsKnown, BatchInv
  <2>8. AttemptInv'
    BY <2>1, <2>6 DEF ReviewInv, AttemptInv, job
  <2>9. QED
    BY <2>3, <2>4, <2>5, <2>7, <2>8 DEF ReviewInv
<1>4. QED
  BY <1>2, <1>3

(* What a candidate's row gets.                                            *)
LEMMA DecideSets ==
    ASSUME Typed, NEW c \in Candidates, NEW s \in Statuses, Decide(c, s)
    PROVE  /\ status' \in [Candidates -> Statuses]
           /\ \A d \in Candidates :
                 status'[d] = "approved" => status[d] = "approved" \/ (d = c /\ s = "approved")
BY DEF Typed, Decide, Set, Statuses

LEMMA OperationType ==
    ASSUME ReviewInv, NEW a \in Actors, op[a] # NoOp
    PROVE  /\ op[a] \in Op /\ op[a].candidate \in Candidates
           /\ op[a].action \in Actions
BY DEF ReviewInv, Typed, Op

LEMMA RejectKeeps ==
    ASSUME ReviewInv, NEW a \in Actors, Reject(a)
    PROVE  ReviewInv'
<1>1. op[a] # NoOp /\ ~Changing(op[a])
  BY DEF Reject, NoOp, Changing
<1>2. /\ status' \in [Candidates -> Statuses]
      /\ \A d \in Candidates : status'[d] = "approved" => status[d] = "approved"
  BY <1>1, OperationType, DecideSets DEF ReviewInv, Reject, Statuses
<1>3. ApprovedIsKnown' /\ known' = known /\ published' = published
  BY <1>2 DEF ReviewInv, ApprovedIsKnown, Reject, dictionary
<1>4. QED
  BY <1>1, <1>2, <1>3, DoneKeeps DEF Reject

LEMMA ReviewTermTypeKeeps ==
    ASSUME ReviewInv, NEW a \in Actors, ReviewTermType(a)
    PROVE  ReviewInv'
<1> DEFINE c == op[a].candidate
           s == IF op[a].action = "split" THEN "split" ELSE "approved"
<1>1. /\ op[a] # NoOp /\ Decide(c, s) /\ s \in Statuses
      /\ known' = known \cup {KeyOf[c]} /\ published' = published
      /\ owed' = owed \cup {<<a, KeyOfOp(op[a])>>}
  BY DEF ReviewTermType, NoOp, Learn, Statuses, KeyOfOp
<1>2. c \in Candidates
  BY <1>1, OperationType
<1>3. /\ status' \in [Candidates -> Statuses]
      /\ \A d \in Candidates : status'[d] = "approved" => status[d] = "approved" \/ d = c
  <2>1. Typed
    BY DEF ReviewInv
  <2>2. QED
    BY <1>1, <1>2, <2>1, DecideSets
<1>4. ApprovedIsKnown'
  BY <1>1, <1>3 DEF ReviewInv, ApprovedIsKnown
<1>5. QED
  BY <1>1, <1>3, <1>4, DoneKeeps DEF ReviewTermType, KeyOfOp

LEMMA SaveApprovedKeeps ==
    ASSUME ReviewInv, NEW a \in Actors, SaveApproved(a)
    PROVE  ReviewInv'
<1> DEFINE c == op[a].candidate
           s == IF op[a].action = "split" THEN "split" ELSE "approved"
<1>1. Typed /\ Decide(c, s) /\ s \in Statuses /\ at[a] = "save" /\ a \in DOMAIN at
  BY DEF ReviewInv, Typed, SaveApproved, Statuses
<1>2. op[a].action # "split" => KeyOf[c] \in known
  BY <1>1 DEF ReviewInv, WrittenBeforeSaved, KeyOfOp
<1>3. CASE c \in Candidates
  <2>1. /\ status' \in [Candidates -> Statuses]
        /\ \A d \in Candidates : status'[d] = "approved" =>
              status[d] = "approved" \/ (d = c /\ s = "approved")
    BY <1>1, <1>3, DecideSets
  <2>2. ApprovedIsKnown' /\ known' = known /\ published' = published
    BY <1>2, <2>1 DEF ReviewInv, ApprovedIsKnown, SaveApproved, dictionary
  <2>3. CASE op[a].action = "split"
    <3>1. /\ at' = [at EXCEPT ![a] = "resolve"]
          /\ UNCHANGED <<dictionary, op, owed, todo, results, progress, attempts, affected>>
      BY <2>3 DEF SaveApproved, Go, job
    <3>2. at'[a] = "resolve" /\ \A b \in Actors \ {a} : at'[b] = at[b]
      BY <1>1, <3>1 DEF Typed
    <3>3. Typed' /\ PublishedIsKnown'
      BY <1>1, <2>1, <2>2, <3>1 DEF ReviewInv, Typed, PublishedIsKnown
    <3>4. WrittenBeforeSaved' /\ RequestInv'
      <4>1. WrittenBeforeSaved'
        BY <2>2, <3>1, <3>2 DEF ReviewInv, WrittenBeforeSaved
      <4>2. RequestInv'
        BY <2>2, <3>1, <3>2 DEF ReviewInv, RequestInv, Learned, Published, Actors
      <4>3. QED
        BY <4>1, <4>2
    <3>5. /\ Reported' = Reported /\ Recorded' = Recorded /\ Batch \in Actors
          /\ at'[Batch] = at[Batch] \/ (a = Batch /\ at'[Batch] = "resolve")
      BY <3>1, <3>2 DEF Reported, Recorded, Ok, Actors
    <3>6. ReportedIsKnown' /\ BatchInv'
      BY <2>2, <3>1, <3>5 DEF ReviewInv, ReportedIsKnown, BatchInv, Published
    <3>7. AttemptInv'
      BY <1>1, <3>1, <3>5 DEF ReviewInv, AttemptInv, Learned, Published
    <3>8. QED
      BY <2>2, <3>3, <3>4, <3>6, <3>7 DEF ReviewInv
  <2>4. CASE op[a].action # "split"
    <3>1. Done(a) /\ UNCHANGED <<op, owed, todo>>
      BY <2>4 DEF SaveApproved
    <3>2. QED
      BY <1>1, <1>2, <2>1, <2>2, <2>4, <3>1, DoneKeeps DEF KeyOfOp
  <2>5. QED
    BY <2>3, <2>4
<1>4. QED
  BY <1>1, <1>3, OperationType DEF ReviewInv, WrittenBeforeSaved

LEMMA SaveResolutionsKeeps ==
    ASSUME ReviewInv, NEW a \in Actors, SaveResolutions(a)
    PROVE  ReviewInv'
<1>1. /\ known' = known \cup {KeyOfOp(op[a])} /\ published' = published
      /\ owed' = owed \cup {<<a, KeyOfOp(op[a])>>} /\ status' = status
  BY DEF SaveResolutions, Learn
<1>2. status' \in [Candidates -> Statuses] /\ ApprovedIsKnown'
  BY <1>1 DEF ReviewInv, Typed, ApprovedIsKnown
<1>3. QED
  BY <1>1, <1>2, DoneKeeps DEF SaveResolutions

LEMMA WriteDictionaryKeeps ==
    ASSUME ReviewInv, NEW a \in Actors, WriteDictionary(a)
    PROVE  ReviewInv'
<1>1. /\ Typed /\ op[a] # NoOp /\ at[a] = "write" /\ a \in DOMAIN at
      /\ at' = [at EXCEPT ![a] = "save"]
      /\ UNCHANGED <<status, op, todo, results, progress, attempts, affected, published>>
      /\ known \subseteq known' /\ owed' \subseteq owed \cup {<<a, KeyOfOp(op[a])>>}
  <2>1. op[a] # NoOp
    BY DEF ReviewInv, WrittenBeforeSaved, WriteDictionary
  <2>2. QED
    BY <2>1 DEF ReviewInv, Typed, WriteDictionary, Go, job, Learn, dictionary
<1>2. op[a].action # "split" => KeyOfOp(op[a]) \in known'
  <2>1. op[a].action # "split" => Learns(op[a])
    BY <1>1, OperationType DEF WriteDictionary, Learns, Actions
  <2>2. QED
    BY <2>1 DEF WriteDictionary, Learn
<1>3. at'[a] = "save" /\ \A b \in Actors \ {a} : at'[b] = at[b]
  BY <1>1 DEF Typed
<1>4. Typed' /\ PublishedIsKnown' /\ ApprovedIsKnown'
  BY <1>1 DEF ReviewInv, Typed, PublishedIsKnown, ApprovedIsKnown
<1>5. WrittenBeforeSaved'
  BY <1>1, <1>2, <1>3 DEF ReviewInv, WrittenBeforeSaved
<1>6. RequestInv'
  <2> SUFFICES ASSUME NEW r \in Requests, Changing(op[r])
               PROVE  /\ at'[r] \in Learned => KeyOfOp(op[r]) \in known'
                      /\ at'[r] \in Published => KeyOfOp(op[r]) \in published
                      /\ at'[r] = "answered" => <<r, KeyOfOp(op[r])>> \notin owed'
    BY <1>1 DEF RequestInv
  <2>1. CASE r = a
    BY <1>3, <2>1 DEF Learned, Published
  <2>2. CASE r # a
    BY <1>1, <1>3, <2>2 DEF ReviewInv, RequestInv, Actors
  <2>3. QED
    BY <2>1, <2>2
<1>7. /\ Reported' = Reported /\ Recorded' = Recorded /\ Batch \in Actors
      /\ at'[Batch] = at[Batch] \/ (a = Batch /\ at'[Batch] = "save")
  BY <1>1, <1>3 DEF Reported, Recorded, Ok, Actors
<1>8. ReportedIsKnown'
  BY <1>1, <1>7 DEF ReviewInv, ReportedIsKnown
<1>9. BatchInv'
  <2>1. CASE a = Batch
    BY <1>3, <2>1 DEF BatchInv, Published
  <2>2. CASE a # Batch
    BY <1>1, <1>7, <2>2 DEF ReviewInv, BatchInv
  <2>3. QED
    BY <2>1, <2>2
<1>10. AttemptInv'
  BY <1>1, <1>7 DEF ReviewInv, AttemptInv, Learned, Published
<1>11. QED
  BY <1>4, <1>5, <1>6, <1>8, <1>9, <1>10 DEF ReviewInv

(* An operation of the batch fails, before its result is recorded.         *)
LEMMA FailedKeeps ==
    ASSUME ReviewInv, NEW i \in Indices, Failed(i), progress[i] = "none",
           at[Batch] \in {"write", "save", "resolve", "next"},
           UNCHANGED <<status, dictionary, op, owed, todo>>
    PROVE  ReviewInv'
<1>1. /\ Typed /\ Batch \in Actors /\ Batch \in DOMAIN at /\ Requests \subseteq Actors
      /\ results' = [results EXCEPT ![i] = "failed"] /\ UNCHANGED <<progress, affected>>
      /\ at' = [at EXCEPT ![Batch] = "next"]
  BY DEF ReviewInv, Typed, Failed, Go, Actors
<1>2. at'[Batch] = "next" /\ \A b \in Actors \ {Batch} : at'[b] = at[b]
  BY <1>1 DEF Typed
<1>3. Reported' \subseteq Reported /\ Recorded' = Recorded
  <2>1. Ok(results') \subseteq Ok(results) /\ Ok(progress') = Ok(progress)
    BY <1>1 DEF Typed, Ok
  <2>2. QED
    BY <2>1 DEF Reported, Recorded
<1>4. Typed' /\ PublishedIsKnown' /\ ApprovedIsKnown'
  BY <1>1 DEF ReviewInv, Typed, PublishedIsKnown, ApprovedIsKnown, dictionary, Outcomes
<1>5. WrittenBeforeSaved'
  BY <1>2 DEF ReviewInv, WrittenBeforeSaved, dictionary
<1>6. RequestInv'
  BY <1>1, <1>2, ActorAssumption DEF ReviewInv, RequestInv, dictionary
<1>7. ReportedIsKnown' /\ BatchInv'
  BY <1>2, <1>3 DEF ReviewInv, ReportedIsKnown, BatchInv, dictionary, Published
<1>8. AttemptInv'
  BY <1>1, <1>2, <1>3 DEF ReviewInv, AttemptInv, Typed, Learned, Published
<1>9. QED
  BY <1>4, <1>5, <1>6, <1>7, <1>8 DEF ReviewInv

LEMMA OpenIsUnrecorded ==
    ASSUME ReviewInv, at[Batch] \in {"write", "save", "resolve", "next"},
           NEW i \in Open \cup Unrecorded
    PROVE  i \in Indices /\ progress[i] = "none"
BY DEF ReviewInv, AttemptInv, Open, Unrecorded

LEMMA OperationThrowsKeeps ==
    ASSUME ReviewInv, OperationThrows
    PROVE  ReviewInv'
<1>1. PICK i \in Open \cup Unrecorded : Failed(i)
  BY DEF OperationThrows
<1>2. /\ at[Batch] \in {"write", "save", "resolve", "next"}
      /\ UNCHANGED <<status, dictionary, op, owed, todo>>
  BY DEF OperationThrows
<1>3. QED
  BY <1>1, <1>2, OpenIsUnrecorded, FailedKeeps

LEMMA RefusedKeeps ==
    ASSUME ReviewInv, NEW a \in Actors, Refused(a)
    PROVE  ReviewInv'
<1>1. UNCHANGED <<status, dictionary, op, owed, todo>> /\ at[a] = "save"
  BY DEF Refused
<1>2. CASE a = Batch
  <2>1. PICK i \in Open : Failed(i)
    BY <1>2 DEF Refused
  <2>2. QED
    BY <1>1, <1>2, <2>1, OpenIsUnrecorded, FailedKeeps
<1>3. CASE a # Batch
  <2>1. at' = [at EXCEPT ![a] = "failed"] /\ UNCHANGED job
    BY <1>3 DEF Refused, Go
  <2>2. QED
    BY <1>1, <2>1, StageKeeps DEF ReviewInv, Typed
<1>4. QED
  BY <1>2, <1>3

-----------------------------------------------------------------------------
(* After the operations *)

LEMMA BumpKeeps ==
    ASSUME ReviewInv, NEW a \in Actors, Bump(a)
    PROVE  ReviewInv'
<1>1. /\ Typed /\ at[a] = "bump" /\ a \in DOMAIN at /\ Batch \in Actors
      /\ Requests \subseteq Actors /\ published \subseteq known
      /\ published' = known /\ UNCHANGED <<status, known, op, job, owed, todo>>
  BY DEF ReviewInv, Typed, Bump, Actors, PublishedIsKnown
<1>2. PICK stage \in {"mark", "recheck"} : at' = [at EXCEPT ![a] = stage]
  BY DEF Bump, Go
<1>3. at'[a] = stage /\ \A b \in Actors \ {a} : at'[b] = at[b]
  BY <1>1, <1>2 DEF Typed
<1>4. Typed' /\ PublishedIsKnown' /\ ApprovedIsKnown'
  BY <1>1, <1>2 DEF ReviewInv, Typed, PublishedIsKnown, ApprovedIsKnown, job
<1>5. WrittenBeforeSaved'
  BY <1>1, <1>3 DEF ReviewInv, WrittenBeforeSaved
<1>6. RequestInv'
  BY <1>1, <1>3 DEF ReviewInv, RequestInv, Learned, Published
<1>7. Reported' = Reported /\ Recorded' = Recorded
  BY <1>1 DEF Reported, Recorded, Ok, job
<1>8. ReportedIsKnown' /\ BatchInv'
  BY <1>1, <1>3, <1>7 DEF ReviewInv, ReportedIsKnown, BatchInv, Published
<1>9. AttemptInv'
  BY <1>1, <1>3, <1>7 DEF ReviewInv, AttemptInv, job, Learned, Published
<1>10. QED
  BY <1>4, <1>5, <1>6, <1>8, <1>9 DEF ReviewInv

LEMMA MarkKeeps ==
    ASSUME ReviewInv, NEW a \in Actors, Mark(a)
    PROVE  ReviewInv'
<1> DEFINE keys == IF a = Batch THEN affected ELSE {KeyOfOp(op[a])}
<1>1. /\ Typed /\ at[a] = "mark" /\ a \in DOMAIN at /\ Deferred \in DOMAIN at
      /\ Batch \in Actors /\ Requests \subseteq Actors
      /\ owed' = owed \ ({a} \X keys) /\ UNCHANGED <<status, dictionary, op, job, todo>>
  BY DEF ReviewInv, Typed, Mark, Actors
<1>2. \/ at' = [at EXCEPT ![a] = "answered", ![Deferred] = ScheduledAt]
      \/ at' = [at EXCEPT ![a] = "answered"]
  BY DEF Mark, Go
<1>3. /\ at'[a] = "answered" /\ \A b \in Actors \ {a} : at'[b] = at[b]
      /\ DOMAIN at' = DOMAIN at
  BY <1>1, <1>2, ActorAssumption DEF Typed
<1>4. Typed' /\ PublishedIsKnown' /\ ApprovedIsKnown'
  BY <1>1, <1>3 DEF ReviewInv, Typed, PublishedIsKnown, ApprovedIsKnown, dictionary, job
<1>5. WrittenBeforeSaved'
  BY <1>1, <1>3 DEF ReviewInv, WrittenBeforeSaved, dictionary
<1>6. RequestInv'
  <2> SUFFICES ASSUME NEW r \in Requests, Changing(op[r])
               PROVE  /\ at'[r] \in Learned => KeyOfOp(op[r]) \in known
                      /\ at'[r] \in Published => KeyOfOp(op[r]) \in published
                      /\ at'[r] = "answered" => <<r, KeyOfOp(op[r])>> \notin owed'
    BY <1>1 DEF RequestInv, dictionary
  <2>1. CASE r = a
    <3>1. keys = {KeyOfOp(op[r])}
      BY <2>1, ActorAssumption
    <3>2. <<r, KeyOfOp(op[r])>> \notin owed'
      BY <1>1, <2>1, <3>1
    <3>3. QED
      BY <1>1, <2>1, <3>2 DEF ReviewInv, RequestInv, Learned, Published
  <2>2. CASE r # a
    BY <1>1, <1>3, <2>2 DEF ReviewInv, RequestInv
  <2>3. QED
    BY <2>1, <2>2
<1>7. Reported' = Reported /\ Recorded' = Recorded
  BY <1>1 DEF Reported, Recorded, Ok, job
<1>8. ReportedIsKnown'
  BY <1>1, <1>7 DEF ReviewInv, ReportedIsKnown, dictionary
<1>9. BatchInv'
  <2> SUFFICES ASSUME NEW o \in Reported, Changing(o)
               PROVE  /\ at'[Batch] \in Published => KeyOfOp(o) \in published
                      /\ at'[Batch] = "answered" => <<Batch, KeyOfOp(o)>> \notin owed'
    BY <1>1, <1>7 DEF BatchInv, dictionary
  <2>1. CASE a = Batch
    <3>1. KeyOfOp(o) \in keys
      BY <1>1, <2>1 DEF ReviewInv, AttemptInv
    <3>2. QED
      BY <1>1, <2>1, <3>1 DEF ReviewInv, BatchInv, Published
  <2>2. CASE a # Batch
    BY <1>1, <1>3, <2>2 DEF ReviewInv, BatchInv
  <2>3. QED
    BY <2>1, <2>2
<1>10. AttemptInv'
  BY <1>1, <1>3, <1>7 DEF ReviewInv, AttemptInv, job, Learned, Published
<1>11. QED
  BY <1>4, <1>5, <1>6, <1>8, <1>9, <1>10 DEF ReviewInv

(* A recheck saves no candidate as approved.                               *)
LEMMA RecheckKeeps ==
    ASSUME ReviewInv, NEW a \in Actors \cup {Deferred},
           Recheck(a) \/ Resolve(a) \/ Rechecked(a)
    PROVE  ReviewInv'
<1>1. Typed /\ a \in DOMAIN at /\ a \in DOMAIN todo
  BY DEF ReviewInv, Typed
<1>2. CASE Recheck(a)
  <2>1. PICK gone \in SUBSET {c \in Candidates : status[c] = "pending"} :
          todo' = [todo EXCEPT ![a] =
              [c \in {d \in {c \in Candidates : status[c] = "pending"} : KeyOf[d] \in known}
                        \cup gone |->
                  IF c \in gone THEN "done" ELSE "auto_resolved"]]
    BY <1>2 DEF Recheck
  <2>2. /\ DOMAIN todo' = Actors \cup {Deferred}
        /\ \A b \in Actors \cup {Deferred} : \A c \in DOMAIN todo'[b] :
              c \in Candidates /\ todo'[b][c] \in Outcome
    BY <1>1, <2>1 DEF Typed, Outcome
  <2>3. /\ UNCHANGED <<status, dictionary, op, job, owed>>
        /\ at[a] = "recheck" /\ at' = [at EXCEPT ![a] = "rechecking"]
    BY <1>2 DEF Recheck, Go
  <2>4. QED
    BY <1>1, <2>2, <2>3, StageKeeps DEF Typed, Published
<1>3. CASE Resolve(a)
  <2>1. PICK c \in DOMAIN todo[a] :
          /\ Decide(c, todo[a][c])
          /\ todo' = [todo EXCEPT ![a] = [d \in DOMAIN @ \ {c} |-> @[d]]]
    BY <1>3 DEF Resolve
  <2>2. c \in Candidates /\ todo[a][c] \in Outcome
    BY <1>1 DEF Typed
  <2>3. todo[a][c] \in Statuses /\ todo[a][c] # "approved"
    BY <2>2 DEF Outcome, Statuses
  <2>4. /\ status' \in [Candidates -> Statuses]
        /\ \A d \in Candidates : status'[d] = "approved" => status[d] = "approved"
    BY <1>1, <2>1, <2>2, <2>3, DecideSets
  <2>5. /\ DOMAIN todo' = Actors \cup {Deferred}
        /\ \A b \in Actors \cup {Deferred} : \A d \in DOMAIN todo'[b] :
              d \in Candidates /\ todo'[b][d] \in Outcome
    BY <1>1, <2>1 DEF Typed
  <2>6. UNCHANGED <<dictionary, at, op, job, owed>>
    BY <1>3 DEF Resolve
  <2>7. QED
    BY <2>4, <2>5, <2>6, StatusKeeps
<1>4. CASE Rechecked(a)
  <2>1. /\ UNCHANGED <<status, dictionary, op, job, owed, todo>>
        /\ at[a] = "rechecking" /\ at' = [at EXCEPT ![a] = "mark"]
    BY <1>4 DEF Rechecked, Go
  <2>2. QED
    BY <1>1, <2>1, StageKeeps DEF Typed, Published
<1>5. QED
  BY <1>2, <1>3, <1>4

-----------------------------------------------------------------------------
(* Requests and the batch go from one operation to the next *)

(* An actor turns to an operation.                                         *)
LEMMA TurnKeeps ==
    ASSUME ReviewInv, NEW a \in Actors, NEW o \in Op,
           at' = [at EXCEPT ![a] = "write"], op' = [op EXCEPT ![a] = o],
           UNCHANGED <<status, dictionary, job, owed, todo>>,
           a = Batch => /\ at[Batch] \notin {"queued", "failed"}
                        /\ \E i \in Indices : Operations[i] = o /\ results[i] = "none"
    PROVE  ReviewInv'
<1>1. Typed /\ a \in DOMAIN at /\ Batch \in Actors /\ Requests \subseteq Actors
  BY DEF ReviewInv, Typed, Actors
<1>2. /\ at'[a] = "write" /\ \A b \in Actors \ {a} : at'[b] = at[b]
      /\ op'[a] = o /\ \A b \in Actors \ {a} : op'[b] = op[b]
      /\ o # NoOp
  BY <1>1 DEF Typed, Op, NoOp, Actions
<1>3. Typed' /\ PublishedIsKnown' /\ ApprovedIsKnown'
  BY <1>1 DEF ReviewInv, Typed, PublishedIsKnown, ApprovedIsKnown, dictionary, job
<1>4. WrittenBeforeSaved'
  BY <1>2 DEF ReviewInv, WrittenBeforeSaved, dictionary
<1>5. RequestInv'
  BY <1>1, <1>2 DEF ReviewInv, RequestInv, dictionary, Learned, Published
<1>6. /\ Reported' = Reported /\ Recorded' = Recorded
      /\ UNCHANGED <<results, progress, affected>>
  BY DEF Reported, Recorded, Ok, job
<1>7. ReportedIsKnown' /\ BatchInv'
  BY <1>1, <1>2, <1>6 DEF ReviewInv, ReportedIsKnown, BatchInv, dictionary, Published
<1>8. AttemptInv'
  <2>1. CASE a = Batch
    BY <1>2, <1>6, <2>1 DEF ReviewInv, AttemptInv, Learned, Published
  <2>2. CASE a # Batch
    BY <1>1, <1>2, <1>6, <2>2 DEF ReviewInv, AttemptInv
  <2>3. QED
    BY <2>1, <2>2
<1>9. QED
  BY <1>3, <1>4, <1>5, <1>7, <1>8 DEF ReviewInv

LEMMA RequestKeeps ==
    ASSUME ReviewInv, NEW r \in Requests, NEW o \in Op, Request(r, o)
    PROVE  ReviewInv'
<1>1. r \in Actors /\ r # Batch
  BY ActorAssumption DEF Actors
<1>2. QED
  BY <1>1, TurnKeeps DEF Request, Go

LEMMA NextOperationKeeps ==
    ASSUME ReviewInv, NextOperation
    PROVE  ReviewInv'
<1>1. PICK i \in Open : op' = [op EXCEPT ![Batch] = Operations[i]]
  BY DEF NextOperation
<1>2. i \in Indices /\ results[i] = "none" /\ Operations[i] \in Op
  <2>1. i \in Indices /\ results[i] = "none"
    BY DEF Open
  <2>2. Operations \in Seq(Op) /\ Indices = 1..Len(Operations)
    BY OperationAssumption DEF Indices
  <2>3. QED
    BY <2>1, <2>2
<1>3. at[Batch] = "next" /\ Batch \in Actors
  BY DEF NextOperation, AtNext, Actors
<1>4. QED
  BY <1>1, <1>2, <1>3, TurnKeeps DEF NextOperation, Go

(* What changes when only the job does.                                    *)
LEMMA JobKeeps ==
    ASSUME ReviewInv, UNCHANGED <<status, op, published, todo>>,
           known \subseteq known', \A r \in Requests : \A k : <<r, k>> \in owed' => <<r, k>> \in owed,
           DOMAIN at' = DOMAIN at, \A b \in Actors \ {Batch} : at'[b] = at[b],
           at'[Batch] \notin {"write", "save"},
           results' \in [Indices -> Outcomes], progress' \in [Indices -> Outcomes],
           ReportedIsKnown', AttemptInv', BatchInv'
    PROVE  ReviewInv'
<1>1. Typed' /\ PublishedIsKnown' /\ ApprovedIsKnown'
  BY DEF ReviewInv, Typed, PublishedIsKnown, ApprovedIsKnown
<1>2. WrittenBeforeSaved'
  BY DEF ReviewInv, WrittenBeforeSaved
<1>3. RequestInv'
  BY ActorAssumption DEF ReviewInv, RequestInv, Actors
<1>4. QED
  BY <1>1, <1>2, <1>3 DEF ReviewInv

LEMMA StartKeeps ==
    ASSUME ReviewInv, Start
    PROVE  ReviewInv'
<1>1. /\ Typed /\ Batch \in DOMAIN at
      /\ at' = [at EXCEPT ![Batch] = "next"] /\ results' = progress
      /\ affected' = Collected(progress)
      /\ UNCHANGED <<status, known, published, op, progress, owed, todo>>
  BY DEF ReviewInv, Typed, Start, Go, Actors, Resumed, dictionary
<1>2. at'[Batch] = "next" /\ \A b \in Actors \ {Batch} : at'[b] = at[b]
  BY <1>1 DEF Typed
<1>3. Reported' = Recorded /\ Recorded' = Recorded
  BY <1>1 DEF Reported, Recorded, Ok
<1>4. \A o \in Recorded : KeyOfOp(o) \in affected'
  BY <1>1 DEF Recorded, Collected
<1>5. ReportedIsKnown' /\ AttemptInv' /\ BatchInv'
  BY <1>1, <1>2, <1>3, <1>4 DEF ReviewInv, ReportedIsKnown, AttemptInv, BatchInv,
     Learned, Published
<1>6. QED
  BY <1>1, <1>2, <1>5, JobKeeps DEF Typed

LEMMA RecordKeeps ==
    ASSUME ReviewInv, Record
    PROVE  ReviewInv'
<1>1. PICK i \in Unrecorded : progress' = [progress EXCEPT ![i] = results[i]]
  BY DEF Record
<1>2. /\ Typed /\ i \in Indices /\ at[Batch] = "next"
      /\ UNCHANGED <<status, known, published, at, op, results, affected, owed, todo>>
  BY DEF ReviewInv, Record, Unrecorded, dictionary
<1>3. progress' \in [Indices -> Outcomes]
  BY <1>1, <1>2 DEF Typed
<1>4. Ok(progress') \subseteq Ok(progress) \cup Ok(results)
  BY <1>1, <1>2 DEF Typed, Ok
<1>5. Reported' = Reported /\ Recorded' \subseteq Recorded \cup Reported
  BY <1>2, <1>4 DEF Reported, Recorded, Ok
<1>6. ReportedIsKnown' /\ BatchInv'
  BY <1>2, <1>5 DEF ReviewInv, ReportedIsKnown, BatchInv
<1>7. AttemptInv'
  BY <1>1, <1>2, <1>5 DEF ReviewInv, AttemptInv, Typed, Learned, Published
<1>8. QED
  BY <1>2, <1>3, <1>6, <1>7, JobKeeps DEF Typed

LEMMA ReviewTermTypesKeeps ==
    ASSUME ReviewInv, ReviewTermTypes
    PROVE  ReviewInv'
<1> DEFINE keys == {KeyOfOp(Operations[i]) : i \in FastOpen}
<1>1. /\ Typed /\ at[Batch] = "next"
      /\ status' = [c \in Candidates |->
            IF \E i \in FastOpen : Operations[i].candidate = c THEN "approved" ELSE status[c]]
      /\ known' = known \cup keys /\ affected' = affected \cup keys
      /\ results' = [i \in Indices |-> IF i \in FastOpen THEN "ok" ELSE results[i]]
      /\ owed' = owed \cup ({Batch} \X keys)
      /\ UNCHANGED <<published, at, op, progress, todo>>
  BY DEF ReviewInv, ReviewTermTypes, AtNext
<1>2. status' \in [Candidates -> Statuses] /\ results' \in [Indices -> Outcomes]
  BY <1>1 DEF Typed, Statuses, Outcomes
<1>3. ApprovedIsKnown'
  BY <1>1 DEF ReviewInv, ApprovedIsKnown, KeyOfOp
<1>4. FastOpen \subseteq Indices /\ \A i \in FastOpen : results[i] = "none"
  BY DEF FastOpen, Open
<1>5. Ok(results') = Ok(results) \cup FastOpen
  BY <1>1, <1>4 DEF Ok
<1>6. /\ \A o \in Reported' : o \in Reported \/ KeyOfOp(o) \in keys
      /\ Recorded' = Recorded
  BY <1>1, <1>5 DEF Reported, Recorded, Ok
<1>7. ReportedIsKnown' /\ BatchInv'
  BY <1>1, <1>6 DEF ReviewInv, ReportedIsKnown, BatchInv, Published
<1>8. AttemptInv'
  <2>1. \A i \in Indices : progress[i] # "none" => results'[i] = progress[i]
    BY <1>1, <1>4 DEF ReviewInv, AttemptInv
  <2>2. \A o \in Reported' : KeyOfOp(o) \in affected'
    BY <1>1, <1>6 DEF ReviewInv, AttemptInv
  <2>3. QED
    BY <1>1, <2>1, <2>2 DEF AttemptInv, Learned, Published
<1>9. Typed' /\ PublishedIsKnown' /\ WrittenBeforeSaved'
  BY <1>1, <1>2 DEF ReviewInv, Typed, PublishedIsKnown, WrittenBeforeSaved
<1>10. RequestInv'
  BY <1>1, ActorAssumption DEF ReviewInv, RequestInv
<1>11. QED
  BY <1>3, <1>7, <1>8, <1>9, <1>10 DEF ReviewInv

LEMMA AllProcessedKeeps ==
    ASSUME ReviewInv, AllProcessed
    PROVE  ReviewInv'
<1>1. /\ Typed /\ at[Batch] = "next" /\ Batch \in DOMAIN at
      /\ at' = [at EXCEPT ![Batch] = IF Changed THEN "bump" ELSE "answered"]
      /\ UNCHANGED <<status, known, published, op, results, progress, affected, owed, todo>>
  BY DEF ReviewInv, Typed, AllProcessed, AtNext, Go, Actors, dictionary, job
<1>2. /\ at'[Batch] = IF Changed THEN "bump" ELSE "answered"
      /\ \A b \in Actors \ {Batch} : at'[b] = at[b]
  BY <1>1 DEF Typed
<1>3. progress = results
  <2>1. \A i \in Indices : progress[i] = results[i]
    BY <1>1 DEF ReviewInv, AttemptInv, AllProcessed, AtNext, Open, Unrecorded
  <2>2. QED
    BY <1>1, <2>1 DEF Typed
<1>4. ~Changed => \A o \in Reported : ~Changing(o)
  BY DEF Changed, Reported
<1>5. Reported' = Reported /\ Recorded' = Recorded
  BY <1>1 DEF Reported, Recorded, Ok
<1>6. ReportedIsKnown' /\ AttemptInv' /\ BatchInv'
  BY <1>1, <1>2, <1>3, <1>4, <1>5 DEF ReviewInv, ReportedIsKnown, AttemptInv, BatchInv,
     Learned, Published
<1>7. QED
  BY <1>1, <1>2, <1>6, JobKeeps DEF Typed

-----------------------------------------------------------------------------
(* New candidates, timers, errors and restarts *)

LEMMA FindingKeeps ==
    ASSUME ReviewInv, (\E k \in Keys : Find(k)) \/ Insert \/ Save
    PROVE  ReviewInv'
<1>1. Typed
  BY DEF ReviewInv
<1>2. UNCHANGED <<dictionary, at, op, job, owed, todo>>
  BY DEF Find, Insert, Save
<1>3. CASE UNCHANGED status
  BY <1>1, <1>2, <1>3, StatusKeeps DEF Typed
<1>4. CASE \E c : status' = [status EXCEPT ![c] = "pending"]
  <2>1. /\ status' \in [Candidates -> Statuses]
        /\ \A c \in Candidates : status'[c] = "approved" => status[c] = "approved"
    BY <1>1, <1>4 DEF Typed, Statuses
  <2>2. QED
    BY <1>1, <1>2, <2>1, StatusKeeps DEF Typed
<1>5. QED
  BY <1>3, <1>4 DEF Find, Insert, Save, Set

LEMMA DeferredKeeps ==
    ASSUME ReviewInv, Timer \/ EndDeferred \/ DeferredThrows
    PROVE  ReviewInv'
<1>1. Typed /\ UNCHANGED <<status, dictionary, op, job, owed>> /\ Deferred \notin Actors
  BY ActorAssumption DEF ReviewInv, Timer, EndDeferred, DeferredThrows
<1>2. \E stage : at' = [at EXCEPT ![Deferred] = stage]
  BY DEF Timer, EndDeferred, DeferredThrows, Finally, Go
<1>3. DOMAIN at' = Actors \cup {Deferred} /\ \A a \in Actors : at'[a] = at[a]
  BY <1>1, <1>2 DEF Typed
<1>4. todo' = todo \/ todo' = [todo EXCEPT ![Deferred] = NoRow]
  BY DEF Timer, EndDeferred, DeferredThrows, Drop
<1>5. /\ DOMAIN todo' = Actors \cup {Deferred}
      /\ \A a \in Actors \cup {Deferred} : \A c \in DOMAIN todo'[a] :
            c \in Candidates /\ todo'[a][c] \in Outcome
  BY <1>1, <1>4 DEF Typed, NoRow
<1>6. QED
  BY <1>1, <1>3, <1>5, StageKeeps

LEMMA ThrowKeeps ==
    ASSUME ReviewInv, AttemptThrows \/ (\E r \in Requests : Throw(r))
    PROVE  ReviewInv'
<1>1. Typed /\ UNCHANGED <<status, dictionary, op, job, owed>>
  BY DEF ReviewInv, AttemptThrows, Throw
<1>2. PICK a \in Actors, stage \in {"queued", "failed"} :
          at' = [at EXCEPT ![a] = stage] /\ todo' = [todo EXCEPT ![a] = NoRow]
  BY DEF AttemptThrows, Throw, Go, Drop, Actors
<1>3. /\ DOMAIN todo' = Actors \cup {Deferred}
      /\ \A b \in Actors \cup {Deferred} : \A c \in DOMAIN todo'[b] :
            c \in Candidates /\ todo'[b][c] \in Outcome
  BY <1>1, <1>2 DEF Typed, NoRow
<1>4. QED
  BY <1>1, <1>2, <1>3, StageKeeps DEF Typed

LEMMA RestartKeeps ==
    ASSUME ReviewInv, Restart
    PROVE  ReviewInv'
<1>1. Typed /\ UNCHANGED <<status, dictionary, op, job, owed>>
  BY DEF ReviewInv, Restart
<1>2. /\ DOMAIN at' = Actors \cup {Deferred}
      /\ \A a \in Actors : at'[a] = at[a] \/ at'[a] \in {"queued", "failed"}
  BY ActorAssumption DEF Restart
<1>3. /\ DOMAIN todo' = Actors \cup {Deferred}
      /\ \A b \in Actors \cup {Deferred} : \A c \in DOMAIN todo'[b] :
            c \in Candidates /\ todo'[b][c] \in Outcome
  BY DEF Restart, NoRow
<1>4. QED
  BY <1>1, <1>2, <1>3, StageKeeps

-----------------------------------------------------------------------------

LEMMA ActKeeps ==
    ASSUME ReviewInv, NEW a \in Actors, Act(a)
    PROVE  ReviewInv'
BY RejectKeeps, ReviewTermTypeKeeps, WriteDictionaryKeeps, SaveApprovedKeeps,
   SaveResolutionsKeeps, RefusedKeeps, BumpKeeps, MarkKeeps DEF Act

LEMMA ReviewStep == ReviewInv /\ [Next]_vars => ReviewInv'
<1> SUFFICES ASSUME ReviewInv, [Next]_vars PROVE ReviewInv'
  OBVIOUS
<1>1. ASSUME NEW r \in Requests, NEW o \in Ops, Request(r, o) PROVE ReviewInv'
  BY <1>1, RequestKeeps DEF Ops
<1>2. ASSUME NEW a \in Actors, Recheck(a) \/ Resolve(a) \/ Rechecked(a) PROVE ReviewInv'
  BY <1>2, RecheckKeeps
<1>3. CASE DeferredRecheck
  BY <1>3, RecheckKeeps, DeferredKeeps DEF DeferredRecheck
<1>4. CASE Start \/ ReviewTermTypes \/ NextOperation \/ Record \/ AllProcessed
  BY <1>4, StartKeeps, ReviewTermTypesKeeps, NextOperationKeeps, RecordKeeps,
     AllProcessedKeeps
<1>5. CASE UNCHANGED vars
  <2>1. Typed /\ UNCHANGED <<status, dictionary, at, op, job, owed, todo>>
    BY <1>5 DEF ReviewInv, vars
  <2>2. QED
    BY <2>1, StatusKeeps DEF Typed
<1>6. QED
  BY <1>1, <1>2, <1>3, <1>4, <1>5, FindingKeeps, ActKeeps, ThrowKeeps, OperationThrowsKeeps,
     DeferredKeeps, RestartKeeps DEF Next

(* A candidate is approved only for what the dictionary knows, whatever    *)
(* fails or races.                                                         *)
THEOREM ApprovalIsKnown == Spec => []ApprovedIsKnown
<1>1. ReviewInv => ApprovedIsKnown
  BY DEF ReviewInv
<1>2. QED
  BY ReviewInit, ReviewStep, <1>1, PTL DEF Spec

(* What an answered request or batch reports as done is published and its  *)
(* documents are marked, through every error and restart.                  *)
THEOREM AnswerIsInForce == Spec => []AnsweredIsInForce
<1>1. ReviewInv => AnsweredIsInForce
  <2> SUFFICES ASSUME ReviewInv PROVE AnsweredIsInForce
    OBVIOUS
  <2>1. \A r \in Requests : at[r] = "answered" => InForce(r, op[r])
    BY DEF ReviewInv, RequestInv, InForce, Published
  <2>2. ASSUME at[Batch] = "answered", NEW i \in Ok(progress)
        PROVE  InForce(Batch, Operations[i])
    <3>1. progress = results
      BY <2>2 DEF ReviewInv, AttemptInv, Learned, Published
    <3>2. Operations[i] \in Reported
      BY <3>1 DEF Reported
    <3>3. QED
      BY <2>2, <3>2 DEF ReviewInv, BatchInv, InForce, Published
  <2>3. QED
    BY <2>1, <2>2 DEF AnsweredIsInForce
<1>2. QED
  BY ReviewInit, ReviewStep, <1>1, PTL DEF Spec

-----------------------------------------------------------------------------
(* Results change when an operation ends, and when an attempt begins.      *)
LEMMA ResultsChange ==
    ASSUME ReviewInv, [Next]_vars, results' # results, at[Batch] # "queued"
    PROVE  /\ at[Batch] \notin {"queued", "failed"} /\ at'[Batch] = "next"
           /\ progress' = progress
<1>1. /\ Batch \in DOMAIN at
      /\ \A x : at' = [at EXCEPT ![Batch] = x] => at'[Batch] = x
  BY DEF ReviewInv, Typed, Actors
<1>2. ASSUME NEW a \in Actors, Done(a), at[a] \in {"write", "save", "resolve"}
      PROVE  a = Batch /\ at'[Batch] = "next" /\ progress' = progress
  BY <1>1, <1>2 DEF Done, Go, job
<1>3. ASSUME NEW i, Failed(i) PROVE at'[Batch] = "next" /\ progress' = progress
  BY <1>1, <1>3 DEF Failed, Go
<1>4. ASSUME NEW a \in Actors, Act(a)
      PROVE  a = Batch /\ at[a] \notin {"queued", "failed"}
             /\ at'[Batch] = "next" /\ progress' = progress
  <2>1. CASE Reject(a) \/ ReviewTermType(a) \/ SaveResolutions(a)
    BY <1>2, <2>1 DEF Reject, ReviewTermType, SaveResolutions
  <2>2. CASE SaveApproved(a)
    BY <1>2, <2>2 DEF SaveApproved, job
  <2>3. CASE Refused(a)
    BY <1>3, <2>3 DEF Refused, job
  <2>4. CASE WriteDictionary(a) \/ Bump(a) \/ Mark(a)
    BY <2>4 DEF WriteDictionary, Bump, Mark, job
  <2>5. QED
    BY <1>4, <2>1, <2>2, <2>3, <2>4 DEF Act
<1>5. CASE OperationThrows
  BY <1>3, <1>5 DEF OperationThrows
<1>6. CASE ReviewTermTypes
  BY <1>6 DEF ReviewTermTypes, AtNext
<1>7. CASE Start \/ NextOperation \/ Record \/ AllProcessed
  BY <1>7 DEF Start, NextOperation, Record, AllProcessed, job
<1>8. CASE DeferredRecheck \/ AttemptThrows \/ DeferredThrows \/ Restart \/ Insert \/ Save
  BY <1>8 DEF DeferredRecheck, Timer, Recheck, Resolve, Rechecked, EndDeferred,
     AttemptThrows, DeferredThrows, Restart, Insert, Save, job
<1>9. ASSUME NEW a \in Actors, Recheck(a) \/ Resolve(a) \/ Rechecked(a) PROVE FALSE
  BY <1>9 DEF Recheck, Resolve, Rechecked, job
<1>10. ASSUME NEW r \in Requests, NEW o \in Ops, Throw(r) \/ Request(r, o) PROVE FALSE
  BY <1>10 DEF Throw, Request, job
<1>11. ASSUME NEW r \in Requests, Throw(r) PROVE FALSE
  BY <1>11 DEF Throw, job
<1>12. ASSUME NEW k \in Keys, Find(k) PROVE FALSE
  BY <1>12 DEF Find, job
<1>13. CASE UNCHANGED vars
  BY <1>13 DEF vars, job
<1>14. QED
  BY <1>4, <1>5, <1>6, <1>7, <1>8, <1>9, <1>10, <1>11, <1>12, <1>13 DEF Next

(* What an attempt has recorded is not done again by a later one.          *)
THEOREM RecordIsKept == Spec => RecordedIsNotRepeated
<1> DEFINE Rule == at[Batch] # "queued" =>
                      \A i \in Indices : progress[i] = "ok" => results'[i] = results[i]
<1>1. ReviewInv /\ [Next]_vars => [Rule]_vars
  <2> SUFFICES ASSUME ReviewInv, [Next]_vars, at[Batch] # "queued", results' # results,
                      NEW i \in Indices, progress[i] = "ok"
               PROVE  results'[i] = results[i]
    OBVIOUS
  <2>1. /\ at[Batch] \notin {"queued", "failed"} /\ at'[Batch] = "next"
        /\ progress' = progress
    BY ResultsChange
  <2>2. AttemptInv /\ AttemptInv'
    BY ReviewStep DEF ReviewInv
  <2>3. results[i] = progress[i]
    BY <2>1, <2>2 DEF AttemptInv
  <2>4. results'[i] = progress[i]
    BY <2>1, <2>2 DEF AttemptInv
  <2>5. QED
    BY <2>3, <2>4
<1>2. QED
  BY ReviewInit, ReviewStep, <1>1, PTL DEF Spec, RecordedIsNotRepeated

-----------------------------------------------------------------------------
(* Types *)

(* An actor in the middle of an operation has one; a queued job has an     *)
(* attempt left, counting one more for every error or restart.             *)
OpGiven == \A a \in Actors : at[a] \in {"write", "save", "resolve"} => op[a] \in Op
AttemptsLeft ==
    /\ attempts <= MaxAttempts + faults
    /\ at[Batch] = "queued" => attempts < MaxAttempts + faults

TypeInv == TypeOK /\ OpGiven /\ AttemptsLeft

(* The keys of operations are keys of the dictionary.                      *)
LEMMA OperationsTyped ==
    /\ \A i \in Indices : Operations[i] \in Op
    /\ \A o \in Op : o.candidate \in Candidates /\ KeyOfOp(o) \in Keys
<1>1. Operations \in Seq(Op) /\ Indices = 1..Len(Operations)
  BY OperationAssumption DEF Indices
<1>2. \A i \in Indices : Operations[i] \in Op
  BY <1>1
<1>3. ASSUME NEW o \in Op PROVE o.candidate \in Candidates
  BY DEF Op
<1>4. QED
  BY <1>2, <1>3 DEF KeyOfOp, Keys

LEMMA TypesInit == Init => TypeInv
<1> SUFFICES ASSUME Init PROVE TypeInv
  OBVIOUS
<1>1. status \in [Candidates -> Statuses]
  BY DEF Init, Statuses
<1>2. /\ results \in [Indices -> Outcomes] /\ progress \in [Indices -> Outcomes]
      /\ op \in [Actors -> Op \cup {NoOp}]
      /\ DOMAIN todo = Actors \cup {Deferred}
      /\ affected \subseteq Keys /\ owed \subseteq Actors \X Keys
      /\ known \subseteq Keys /\ published \subseteq known /\ waiting \subseteq Actors
  BY DEF Init, Outcomes
<1>3. at \in [Actors \cup {Deferred} ->
                 {"new", "queued", "next", "write", "save", "resolve", "bump", "recheck",
                  "rechecking", "mark", "off", "timer", "answered", "failed"}]
  BY DEF Init
<1>4. again \in BOOLEAN /\ lost \in BOOLEAN
  BY Zenon DEF Init
<1>5. found \in [do : {"nothing", "insert", "save"}, candidates : SUBSET Candidates]
  BY DEF Init, Nothing
<1>6. attempts \in 0..(MaxAttempts + MaxFaults) /\ faults \in 0..MaxFaults /\ AttemptsLeft
  BY BoundsAssumption DEF Init, AttemptsLeft
<1>7. OpGiven
  BY DEF Init, OpGiven
<1>8. QED
  BY <1>1, <1>2, <1>3, <1>4, <1>5, <1>6, <1>7 DEF TypeInv, TypeOK

(* A candidate gets a status.                                              *)
LEMMA DecideTyped ==
    ASSUME TypeOK, NEW c \in Candidates, NEW s \in Statuses, Decide(c, s)
    PROVE  status' \in [Candidates -> Statuses]
BY DEF Decide, Set, TypeOK, Statuses

(* An operation that is done leaves its actor with a result or a next      *)
(* step.                                                                   *)
LEMMA DoneTyped ==
    ASSUME TypeInv, NEW a \in Actors, op[a] \in Op, Done(a),
           at[a] \in {"write", "save", "resolve"}, UNCHANGED <<op, faults>>
    PROVE  /\ at' \in [Actors \cup {Deferred} ->
                 {"new", "queued", "next", "write", "save", "resolve", "bump", "recheck",
                  "rechecking", "mark", "off", "timer", "answered", "failed"}]
           /\ results' \in [Indices -> Outcomes] /\ progress' \in [Indices -> Outcomes]
           /\ attempts' \in 0..(MaxAttempts + MaxFaults)
           /\ affected' \subseteq Keys
           /\ OpGiven' /\ AttemptsLeft'
<1>1. CASE a = Batch
  <2>1. /\ at' = [at EXCEPT ![a] = "next"] /\ UNCHANGED <<progress, attempts>>
        /\ affected' = affected \cup {KeyOfOp(op[a])}
        /\ \E i : results' = [results EXCEPT ![i] = "ok"]
    BY <1>1 DEF Done, Go
  <2>2. results' \in [Indices -> Outcomes]
    BY <2>1 DEF TypeInv, TypeOK, Outcomes
  <2>3. affected' \subseteq Keys
    BY <2>1, OperationsTyped DEF TypeInv, TypeOK
  <2>4. QED
    BY <2>1, <2>2, <2>3 DEF TypeInv, TypeOK, OpGiven, AttemptsLeft
<1>2. CASE a # Batch
  <2>1. /\ at' = [at EXCEPT ![a] = IF Changing(op[a]) THEN "bump" ELSE "answered"]
        /\ UNCHANGED job
    BY <1>2 DEF Done, Go
  <2>2. QED
    BY <1>2, <2>1 DEF TypeInv, TypeOK, OpGiven, AttemptsLeft, job
<1>3. QED
  BY <1>1, <1>2

(* What an operation writes is a key of the dictionary.                    *)
LEMMA LearnTyped ==
    ASSUME TypeOK, NEW a \in Actors, op[a] \in Op, Learn(a)
    PROVE  /\ known' \subseteq Keys /\ published' \subseteq known'
           /\ owed' \subseteq Actors \X Keys
<1>1. KeyOfOp(op[a]) \in Keys
  BY OperationsTyped
<1>2. QED
  BY <1>1 DEF Learn, TypeOK

(* The steps of an operation keep the types, ...                           *)
LEMMA ActKeepsTypes ==
    ASSUME TypeInv, NEW a \in Actors, Act(a)
    PROVE  TypeInv'
<1>1. at[a] \in {"write", "save", "resolve"} =>
         op[a] \in Op /\ op[a].candidate \in Candidates
  BY OperationsTyped DEF TypeInv, OpGiven
<1>2. {"rejected", "split", "approved"} \subseteq Statuses
  BY DEF Statuses
<1>3. CASE Reject(a)
  <2>1. Done(a) /\ op[a] \in Op /\ at[a] = "write" /\ Decide(op[a].candidate, "rejected")
        /\ op[a].candidate \in Candidates
    BY <1>1, <1>3 DEF Reject
  <2>2. status' \in [Candidates -> Statuses]
    BY <1>2, <2>1, DecideTyped DEF TypeInv
  <2>3. UNCHANGED <<dictionary, op, owed, todo, recheck, found, faults>>
    BY <1>3 DEF Reject
  <2>4. QED
    BY <2>1, <2>2, <2>3, DoneTyped DEF TypeInv, TypeOK, dictionary, recheck
<1>4. CASE ReviewTermType(a)
  <2>1. /\ Done(a) /\ op[a] \in Op /\ at[a] = "write" /\ Learn(a)
        /\ \E s \in Statuses : Decide(op[a].candidate, s)
        /\ op[a].candidate \in Candidates
    BY <1>1, <1>2, <1>4 DEF ReviewTermType
  <2>2. status' \in [Candidates -> Statuses]
    BY <2>1, DecideTyped DEF TypeInv
  <2>3. UNCHANGED <<op, todo, recheck, found, faults>>
    BY <1>4 DEF ReviewTermType
  <2>4. QED
    BY <2>1, <2>2, <2>3, DoneTyped, LearnTyped DEF TypeInv, TypeOK, recheck
<1>5. CASE WriteDictionary(a)
  <2>1. /\ op[a] \in Op /\ at' = [at EXCEPT ![a] = "save"]
        /\ Learn(a) \/ UNCHANGED <<dictionary, owed>>
        /\ UNCHANGED <<status, op, job, todo, recheck, found, faults>>
    BY <1>1, <1>5 DEF WriteDictionary, Go
  <2>2. /\ known' \subseteq Keys /\ published' \subseteq known'
        /\ owed' \subseteq Actors \X Keys
    BY <2>1, LearnTyped DEF TypeInv, TypeOK, dictionary
  <2>3. QED
    BY <2>1, <2>2 DEF TypeInv, TypeOK, OpGiven, AttemptsLeft, job, recheck
<1>6. CASE SaveApproved(a)
  <2>1. /\ op[a] \in Op /\ at[a] = "save" /\ op[a].candidate \in Candidates
        /\ \E s \in Statuses : Decide(op[a].candidate, s)
        /\ \/ Done(a)
           \/ at' = [at EXCEPT ![a] = "resolve"] /\ UNCHANGED job
        /\ UNCHANGED <<dictionary, op, owed, todo, recheck, found, faults>>
    BY <1>1, <1>2, <1>6 DEF SaveApproved, Go
  <2>2. status' \in [Candidates -> Statuses]
    BY <2>1, DecideTyped DEF TypeInv
  <2>3. CASE Done(a)
    BY <2>1, <2>2, <2>3, DoneTyped DEF TypeInv, TypeOK, dictionary, recheck
  <2>4. CASE at' = [at EXCEPT ![a] = "resolve"] /\ UNCHANGED job
    BY <2>1, <2>2, <2>4 DEF TypeInv, TypeOK, OpGiven, AttemptsLeft, job, dictionary, recheck
  <2>5. QED
    BY <2>1, <2>3, <2>4
<1>7. CASE SaveResolutions(a)
  <2>1. /\ Done(a) /\ op[a] \in Op /\ at[a] = "resolve" /\ Learn(a)
        /\ UNCHANGED <<status, op, todo, recheck, found, faults>>
    BY <1>1, <1>7 DEF SaveResolutions
  <2>2. QED
    BY <2>1, DoneTyped, LearnTyped DEF TypeInv, TypeOK, recheck
<1>8. CASE Refused(a)
  <2>1. /\ \/ \E i \in Open : Failed(i)
           \/ at' = [at EXCEPT ![a] = "failed"] /\ UNCHANGED job
        /\ UNCHANGED <<status, dictionary, op, owed, todo, recheck, found, faults>>
    BY <1>8 DEF Refused, Go
  <2>2. CASE \E i \in Open : Failed(i)
    BY <2>1, <2>2 DEF Failed, Go, TypeInv, TypeOK, OpGiven, AttemptsLeft, Outcomes,
       dictionary, recheck
  <2>3. CASE at' = [at EXCEPT ![a] = "failed"] /\ UNCHANGED job
    BY <2>1, <2>3 DEF TypeInv, TypeOK, OpGiven, AttemptsLeft, job, dictionary, recheck
  <2>4. QED
    BY <2>1, <2>2, <2>3
<1>9. CASE Bump(a)
  <2>1. /\ published' = known /\ \E next \in {"mark", "recheck"} : at' = [at EXCEPT ![a] = next]
        /\ UNCHANGED <<status, known, op, job, owed, todo, recheck, found, faults>>
    BY <1>9 DEF Bump, Go
  <2>2. QED
    BY <2>1 DEF TypeInv, TypeOK, OpGiven, AttemptsLeft, job, recheck
<1>10. CASE Mark(a)
  <2>1. /\ owed' \subseteq owed
        /\ UNCHANGED <<status, dictionary, op, job, todo, found, faults>>
    BY <1>10 DEF Mark
  <2>2. CASE Defers(a)
    <3>1. /\ Schedule(a)
          /\ at' = [at EXCEPT ![a] = "answered", ![Deferred] = ScheduledAt]
      BY <1>10, <2>2 DEF Mark
    <3>2. waiting' \subseteq Actors /\ UNCHANGED lost
      BY <3>1 DEF Schedule, TypeInv, TypeOK
    <3>3. again' \in BOOLEAN
      BY <3>1, Zenon DEF Schedule
    <3>4. at' \in [Actors \cup {Deferred} ->
                 {"new", "queued", "next", "write", "save", "resolve", "bump", "recheck",
                  "rechecking", "mark", "off", "timer", "answered", "failed"}]
      BY <3>1 DEF ScheduledAt, TypeInv, TypeOK
    <3>5. \A x \in Actors : at'[x] = at[x] \/ at'[x] = "answered"
      BY <3>1, ActorAssumption DEF TypeInv, TypeOK
    <3>6. OpGiven' /\ AttemptsLeft'
      BY <2>1, <3>5 DEF TypeInv, OpGiven, AttemptsLeft, job, Actors
    <3>7. QED
      BY <2>1, <3>2, <3>3, <3>4, <3>6 DEF TypeInv, TypeOK, job, dictionary
  <2>3. CASE ~Defers(a)
    <3>1. at' = [at EXCEPT ![a] = "answered"] /\ UNCHANGED recheck
      BY <1>10, <2>3 DEF Mark, Go
    <3>2. QED
      BY <2>1, <3>1 DEF TypeInv, TypeOK, OpGiven, AttemptsLeft, job, dictionary, recheck
  <2>4. QED
    BY <2>2, <2>3
<1>11. QED
  BY <1>3, <1>4, <1>5, <1>6, <1>7, <1>8, <1>9, <1>10 DEF Act

(* ... and so do the steps of a recheck.                                   *)
LEMMA RecheckKeepsTypes ==
    ASSUME TypeInv, NEW a \in Actors \cup {Deferred},
           Recheck(a) \/ Resolve(a) \/ Rechecked(a),
           \A c \in DOMAIN todo[a] : c \in Candidates /\ todo[a][c] \in Outcome
    PROVE  TypeInv'
<1>1. CASE Recheck(a)
  <2>1. /\ DOMAIN todo' = DOMAIN todo /\ waiting' \subseteq waiting
        /\ at' = [at EXCEPT ![a] = "rechecking"]
        /\ UNCHANGED <<status, dictionary, op, job, owed, again, lost, found, faults>>
    BY <1>1 DEF Recheck, Go
  <2>2. QED
    BY <2>1 DEF TypeInv, TypeOK, OpGiven, AttemptsLeft, job, dictionary
<1>2. CASE Resolve(a)
  <2>1. PICK c \in DOMAIN todo[a] : Decide(c, todo[a][c])
    BY <1>2 DEF Resolve
  <2>2. c \in Candidates /\ todo[a][c] \in Statuses
    BY <2>1 DEF Outcome, Statuses
  <2>3. status' \in [Candidates -> Statuses]
    BY <2>1, <2>2, DecideTyped DEF TypeInv
  <2>4. /\ DOMAIN todo' = DOMAIN todo
        /\ UNCHANGED <<dictionary, at, op, job, owed, recheck, found, faults>>
    BY <1>2 DEF Resolve
  <2>5. QED
    BY <2>3, <2>4 DEF TypeInv, TypeOK, OpGiven, AttemptsLeft, job, dictionary, recheck
<1>3. CASE Rechecked(a)
  BY <1>3 DEF Rechecked, Go, TypeInv, TypeOK, OpGiven, AttemptsLeft, job, dictionary, recheck
<1>4. QED
  BY <1>1, <1>2, <1>3

(* The batch goes from one operation to the next.                          *)
LEMMA BatchKeepsTypes ==
    ASSUME TypeInv,
           Start \/ ReviewTermTypes \/ NextOperation \/ Record \/ AllProcessed
    PROVE  TypeInv'
<1> USE DEF Actors
<1>1. CASE Start
  <2>1. Collected(Resumed) \subseteq Keys
    BY OperationsTyped DEF Collected, Ok
  <2>2. /\ attempts \in Nat /\ attempts < MaxAttempts + faults
        /\ faults \in Nat /\ faults <= MaxFaults
    BY <1>1, BoundsAssumption DEF Start, TypeInv, TypeOK, AttemptsLeft
  <2>3. attempts' = attempts + 1 /\ faults' = faults
    BY <1>1 DEF Start
  <2>4. attempts' \in 0..(MaxAttempts + MaxFaults) /\ attempts' <= MaxAttempts + faults'
    BY <2>2, <2>3, BoundsAssumption
  <2>5. at' = [at EXCEPT ![Batch] = "next"]
    BY <1>1 DEF Start, Go
  <2>6. QED
    BY <1>1, <2>1, <2>4, <2>5 DEF Start, Resumed, TypeInv, TypeOK, OpGiven, AttemptsLeft,
       dictionary, recheck
<1>2. CASE ReviewTermTypes
  <2>1. {KeyOfOp(Operations[i]) : i \in FastOpen} \subseteq Keys
    BY OperationsTyped DEF FastOpen, Open
  <2>2. QED
    BY <1>2, <2>1 DEF ReviewTermTypes, TypeInv, TypeOK, OpGiven, AttemptsLeft, Statuses,
       Outcomes, recheck
<1>3. CASE NextOperation
  <2>1. PICK i \in Indices : op' = [op EXCEPT ![Batch] = Operations[i]]
    BY <1>3 DEF NextOperation, Open
  <2>2. QED
    BY <1>3, <2>1, OperationsTyped DEF NextOperation, Go, TypeInv, TypeOK, OpGiven,
       AttemptsLeft, dictionary, job, recheck
<1>4. CASE Record
  BY <1>4 DEF Record, TypeInv, TypeOK, OpGiven, AttemptsLeft, dictionary, recheck
<1>5. CASE AllProcessed
  BY <1>5 DEF AllProcessed, Go, TypeInv, TypeOK, OpGiven, AttemptsLeft, dictionary, job,
     recheck
<1>6. QED
  BY <1>1, <1>2, <1>3, <1>4, <1>5

(* What is found and the timer of the recheck keep the types.              *)
LEMMA OthersKeepTypes ==
    ASSUME TypeInv,
           \/ \E k \in Keys : Find(k)
           \/ Insert \/ Save \/ Timer \/ EndDeferred
           \/ \E r \in Requests, o \in Ops : Request(r, o)
    PROVE  TypeInv'
<1>1. ASSUME NEW k \in Keys, Find(k) PROVE TypeInv'
  <2>1. found' \in [do : {"nothing", "insert", "save"}, candidates : SUBSET Candidates]
    BY <1>1 DEF Find
  <2>2. UNCHANGED <<status, dictionary, at, op, job, owed, todo, recheck, faults>>
    BY <1>1 DEF Find
  <2>3. QED
    BY <2>1, <2>2 DEF TypeInv, TypeOK, OpGiven, AttemptsLeft, dictionary, job, recheck
<1>2. CASE Insert \/ Save
  <2>1. /\ status' \in [Candidates -> Statuses] /\ found' = Nothing
        /\ UNCHANGED <<dictionary, at, op, job, owed, todo, recheck, faults>>
    BY <1>2 DEF Insert, Save, Set, Statuses, TypeInv, TypeOK
  <2>2. QED
    BY <2>1 DEF Nothing, TypeInv, TypeOK, OpGiven, AttemptsLeft, dictionary, job, recheck
<1>3. CASE Timer \/ EndDeferred
  <2>1. /\ \E next \in {"recheck", "timer", "off"} : at' = [at EXCEPT ![Deferred] = next]
        /\ UNCHANGED <<status, dictionary, op, job, owed, todo, waiting, lost, found, faults>>
    BY <1>3 DEF Timer, EndDeferred, Finally, Go, recheck
  <2>2. again' \in BOOLEAN
    BY <1>3, Zenon DEF Timer, EndDeferred, recheck, TypeInv, TypeOK
  <2>3. QED
    BY <2>1, <2>2, ActorAssumption DEF TypeInv, TypeOK, OpGiven, AttemptsLeft, dictionary, job
<1>4. ASSUME NEW r \in Requests, NEW o \in Ops, Request(r, o) PROVE TypeInv'
  BY <1>4 DEF Request, Ops, Actors, Go, TypeInv, TypeOK, OpGiven, AttemptsLeft, dictionary,
     job, recheck
<1>5. QED
  BY <1>1, <1>2, <1>3, <1>4

(* So do errors and restarts, which may have the job tried once more.      *)
LEMMA FaultsKeepTypes ==
    ASSUME TypeInv,
           \/ \E r \in Requests : Throw(r)
           \/ OperationThrows \/ AttemptThrows \/ DeferredThrows \/ Restart
    PROVE  TypeInv'
<1> USE DEF Actors
<1>1. /\ faults' \in 0..MaxFaults /\ faults' = faults + 1
      /\ attempts \in Nat /\ faults \in Nat
  BY BoundsAssumption DEF Throw, OperationThrows, AttemptThrows, DeferredThrows, Restart,
     Fault, TypeInv, TypeOK
<1>2. attempts' = attempts => AttemptsLeft'
  BY <1>1, BoundsAssumption DEF TypeInv, AttemptsLeft
<1>3. ASSUME NEW r \in Requests, Throw(r) PROVE TypeInv'
  BY <1>1, <1>2, <1>3 DEF Throw, Drop, Go, TypeInv, TypeOK, OpGiven, dictionary, job, recheck
<1>4. CASE OperationThrows
  <2>1. /\ \E i \in Indices : results' = [results EXCEPT ![i] = "failed"]
        /\ at' = [at EXCEPT ![Batch] = "next"]
        /\ UNCHANGED <<progress, attempts, affected>>
        /\ UNCHANGED <<status, dictionary, op, owed, todo, recheck, found>>
    BY <1>4 DEF OperationThrows, Failed, Go, Open, Unrecorded
  <2>2. QED
    BY <1>1, <1>2, <2>1 DEF TypeInv, TypeOK, OpGiven, Outcomes, dictionary, recheck
<1>5. CASE AttemptThrows
  <2>1. /\ \E next \in {"queued", "failed"} : at' = [at EXCEPT ![Batch] = next]
        /\ UNCHANGED <<status, dictionary, op, job, owed, recheck, found>>
    BY <1>5 DEF AttemptThrows, Go
  <2>2. todo' = [todo EXCEPT ![Batch] = NoRow]
    BY <1>5 DEF AttemptThrows, Drop
  <2>3. QED
    BY <1>1, <1>2, <2>1, <2>2 DEF TypeInv, TypeOK, OpGiven, dictionary, job, recheck
<1>6. CASE DeferredThrows
  <2>1. /\ \E next \in {"timer", "off"} : at' = [at EXCEPT ![Deferred] = next]
        /\ todo' = [todo EXCEPT ![Deferred] = NoRow]
        /\ UNCHANGED <<status, dictionary, op, job, owed, waiting, found>>
    BY <1>6 DEF DeferredThrows, Finally, Go, Drop
  <2>2. again' \in BOOLEAN /\ lost' \in BOOLEAN
    BY <1>6, Zenon DEF DeferredThrows
  <2>3. QED
    BY <1>1, <1>2, <2>1, <2>2, ActorAssumption DEF TypeInv, TypeOK, OpGiven, dictionary, job
<1>7. CASE Restart
  <2>1. at' \in [Actors \cup {Deferred} ->
                 {"new", "queued", "next", "write", "save", "resolve", "bump", "recheck",
                  "rechecking", "mark", "off", "timer", "answered", "failed"}]
    BY <1>7 DEF Restart, TypeInv, TypeOK
  <2>2. OpGiven'
    BY <1>7, ActorAssumption DEF Restart, OpGiven
  <2>3. found' = Nothing /\ DOMAIN todo' = Actors \cup {Deferred}
        /\ UNCHANGED <<status, dictionary, op, job, owed, waiting>>
    BY <1>7 DEF Restart
  <2>4. again' \in BOOLEAN /\ lost' \in BOOLEAN
    BY <1>7, Zenon DEF Restart
  <2>5. QED
    BY <1>1, <1>2, <2>1, <2>2, <2>3, <2>4 DEF TypeInv, TypeOK, Nothing, dictionary, job
<1>8. QED
  BY <1>3, <1>4, <1>5, <1>6, <1>7

(* Every variable keeps its type, for any requests, batch, errors and      *)
(* restarts: the code's statuses and stages are all there are, and a job   *)
(* is tried MaxAttempts times and at most once more for every error or     *)
(* restart.                                                                *)
THEOREM ReviewTypeCorrect == Spec => []TypeOK
<1>1. ReviewInv /\ TypeInv /\ [Next]_vars => TypeInv'
  <2> SUFFICES ASSUME ReviewInv, TypeInv, [Next]_vars PROVE TypeInv'
    OBVIOUS
  <2>1. \A a \in Actors \cup {Deferred} : \A c \in DOMAIN todo[a] :
            c \in Candidates /\ todo[a][c] \in Outcome
    BY DEF ReviewInv, Typed
  <2>2. ASSUME NEW a \in Actors, Act(a) \/ Recheck(a) \/ Resolve(a) \/ Rechecked(a)
        PROVE  TypeInv'
    BY <2>1, <2>2, ActKeepsTypes, RecheckKeepsTypes
  <2>3. CASE DeferredRecheck
    BY <2>1, <2>3, RecheckKeepsTypes, OthersKeepTypes DEF DeferredRecheck
  <2>4. CASE Start \/ ReviewTermTypes \/ NextOperation \/ Record \/ AllProcessed
    BY <2>4, BatchKeepsTypes
  <2>5. CASE \/ \E k \in Keys : Find(k)
             \/ Insert \/ Save
             \/ \E r \in Requests, o \in Ops : Request(r, o)
    BY <2>5, OthersKeepTypes
  <2>6. CASE \/ \E r \in Requests : Throw(r)
             \/ OperationThrows \/ AttemptThrows \/ DeferredThrows \/ Restart
    BY <2>6, FaultsKeepTypes
  <2>7. CASE UNCHANGED vars
    BY <2>7 DEF vars, TypeInv, TypeOK, OpGiven, AttemptsLeft, dictionary, job, recheck
  <2>8. QED
    BY <2>2, <2>3, <2>4, <2>5, <2>6, <2>7 DEF Next
<1>2. TypeInv => TypeOK
  BY DEF TypeInv
<1>3. QED
  BY ReviewInit, ReviewStep, TypesInit, <1>1, <1>2, PTL DEF Spec
=============================================================================
