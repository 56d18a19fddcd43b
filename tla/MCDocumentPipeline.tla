-------------------------- MODULE MCDocumentPipeline --------------------------
(***************************************************************************)
(* Bounds of DocumentPipeline for TLC.  It is checked with one document    *)
(* and one worker that requests, a batch and the pending job meet at; with *)
(* the pending job after a batch, with more documents and workers; and     *)
(* with documents that are copies of one another.  A behaviour is of the   *)
(* part it begins with, and every part is one of the pipeline in which     *)
(* some requests, documents or workers are never active: the invariants    *)
(* are those of the pipeline itself.                                       *)
(***************************************************************************)
EXTENDS DocumentPipeline

CONSTANTS
    One,  \* the documents where there is one
    Alone \* the workers where there is one

VARIABLE part

allVars == <<vars, part>>

(* A batch, and the pending job after it.                                  *)
P == INSTANCE DocumentPipeline WITH MaxExtractions <- 1, MaxFaults <- 0

(* The same, with documents that are copies.                               *)
C == INSTANCE DocumentPipeline WITH
        Copies <- Documents, MaxExtractions <- 1, MaxFaults <- 0

MeetingRuns == part = "meeting"
PendingRuns == part = "pending"
CopiesRun   == part = "copies"

(* Nobody takes another document than these, or no one of these anything.  *)
Only(S) ==
    /\ \A a \in Extractors : at[a] # "idle" => work[a].doc \in S
    /\ \A b \in Batches : batch[b].docs \subseteq S
Idle(S) == \A a \in S : at[a] = "idle"

PipelineInit == part \in {"meeting", "pending", "copies"} /\ Init

PipelineNext ==
    /\ \/ MeetingRuns /\ Next /\ Only(One)' /\ Idle(Workers \ Alone)'
       \/ PendingRuns /\ P!Next /\ Idle(Requests)'
       \/ CopiesRun /\ C!Next /\ Idle(Requests \cup (Workers \ Alone))'
    /\ UNCHANGED part

(* The fairness of the pending job, where it is alone.                     *)
PipelineSpec ==
    /\ PipelineInit /\ [][PipelineNext]_allVars
    /\ WF_vars((PendingRuns /\ P!PendingJob) \/ (CopiesRun /\ C!PendingJob))
    /\ \A w \in Alone : WF_vars((PendingRuns /\ P!Worker(w)) \/ (CopiesRun /\ C!Worker(w)))
    /\ \A w \in Workers \ Alone : WF_vars(PendingRuns /\ P!Worker(w))

-----------------------------------------------------------------------------
(* TypeOK and NothingIsForgotten are checked as the module states them. *)

(* The pending LLM job ends, whatever it meets.                            *)
PendingEnds == (~MeetingRuns /\ job # "none") ~> job = "none"
=============================================================================
