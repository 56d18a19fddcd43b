---------------------------- MODULE AgentRuntime ----------------------------
(***************************************************************************)
(* What a request to the agent leaves behind, in features/agentRuntime/    *)
(* service.ts with the executor of features/productConfigAgent/agent: its  *)
(* messages in the session, the row of its run, and a row for each call of *)
(* a tool.  Every row is written by a statement of its own, and any of     *)
(* them can throw, also one in a handler of an earlier error.              *)
(*                                                                         *)
(* Abstractions.  The session of a request exists.  A plan has as many     *)
(* steps as there are, of tools that are known.  A statement that throws   *)
(* has changed nothing.                                                    *)
(***************************************************************************)
EXTENDS Naturals, Sequences

CONSTANTS
    Asks,     \* requests
    Steps,    \* of a plan
    MaxFaults \* bound on statements that throw and processes that die

ASSUME StepAssumption  == Steps \in Nat
ASSUME FaultAssumption == MaxFaults \in Nat

VARIABLES
    said,    \* agent_messages each request has left in its session
    runs,    \* agent_runs.status of each request
    calls,   \* agent_tool_calls.status of each step of it
    ask,     \* what each request does next
    untold,  \* requests that could not record how they failed
    faults

agentVars == <<said, runs, calls, ask, untold, faults>>

Messages == {"user", "answer", "error"}
Ended    == {"answered", "thrown"}
Doing    == {"user", "plan", "step", "tool", "finish", "record", "answer", "fail", "error"}
NoAsk    == [at |-> "idle"]
Ask      == [at : Doing \cup Ended, handled : BOOLEAN, step : 1..(Steps + 1), saved : BOOLEAN]
Results  == {"none", "running", "completed", "failed"}

AgentTypeOK ==
    /\ said \in [Asks -> Seq(Messages)]
    /\ runs \in [Asks -> Results]
    /\ calls \in [Asks -> [1..Steps -> Results]]
    /\ ask \in [Asks -> Ask \cup {NoAsk}]
    /\ untold \subseteq Asks
    /\ faults \in 0..MaxFaults

AgentInit ==
    /\ said = [a \in Asks |-> <<>>]
    /\ runs = [a \in Asks |-> "none"]
    /\ calls = [a \in Asks |-> [i \in 1..Steps |-> "none"]]
    /\ ask = [a \in Asks |-> NoAsk]
    /\ untold = {}
    /\ faults = 0

Fault        == faults < MaxFaults /\ faults' = faults + 1
Go(a, stage) == ask' = [ask EXCEPT ![a].at = stage]
SetRun(a, s) == runs' = [runs EXCEPT ![a] = s]

(* The row of the call of the current step.                                *)
SetCall(a, s) == calls' = [calls EXCEPT ![a][ask[a].step] = s]

-----------------------------------------------------------------------------
(* A message that is unclear, or for an agent there is no handler of, is   *)
(* answered without a run.                                                 *)
Begin(a) ==
    /\ ask[a] = NoAsk
    /\ \E handled \in BOOLEAN :
        ask' = [ask EXCEPT
            ![a] = [at |-> "user", handled |-> handled, step |-> 1, saved |-> FALSE]]
    /\ UNCHANGED <<said, runs, calls, untold, faults>>

(* createMessage: the message is saved, ...                                *)
SaveMessage(a) ==
    /\ ask[a].at \in Messages /\ ~ask[a].saved
    /\ said' = [said EXCEPT ![a] = Append(@, ask[a].at)]
    /\ ask' = [ask EXCEPT ![a].saved = TRUE]
    /\ UNCHANGED <<runs, calls, untold, faults>>

AfterMessage(a) ==
    CASE ask[a].at = "user"   -> IF ask[a].handled THEN "plan" ELSE "answer"
      [] ask[a].at = "answer" -> "answered"
      [] ask[a].at = "error"  -> "thrown"

(* ... and the session touched.                                            *)
TouchSession(a) ==
    /\ ask[a].at \in Messages /\ ask[a].saved
    /\ ask' = [ask EXCEPT ![a].at = AfterMessage(a), ![a].saved = FALSE]
    /\ UNCHANGED <<said, runs, calls, untold, faults>>

(* createPlan, and the row of the run.                                     *)
StartRun(a) ==
    /\ ask[a].at = "plan"
    /\ SetRun(a, "running")
    /\ Go(a, "step")
    /\ UNCHANGED <<said, calls, untold, faults>>

-----------------------------------------------------------------------------
(* executeProductConfigPlan *)

OnToolStart(a) ==
    /\ ask[a].at = "step" /\ ask[a].step <= Steps
    /\ SetCall(a, "running")
    /\ Go(a, "tool")
    /\ UNCHANGED <<said, runs, untold, faults>>

RunTool(a) ==
    /\ ask[a].at = "tool"
    /\ Go(a, "finish") \/ Go(a, "record")
    /\ UNCHANGED <<said, runs, calls, untold, faults>>

OnToolFinish(a) ==
    /\ ask[a].at = "finish"
    /\ SetCall(a, "completed")
    /\ ask' = [ask EXCEPT ![a].at = "step", ![a].step = @ + 1]
    /\ UNCHANGED <<said, runs, untold, faults>>

(* Mutant: an error is passed on without a call of onToolFinish.           *)
OnlyRethrow(a) ==
    /\ ask[a].at = "record"
    /\ Go(a, "fail")
    /\ UNCHANGED <<said, runs, calls, untold, faults>>

RecordError(a) ==
    /\ ask[a].at = "record"
    /\ SetCall(a, "failed")
    /\ Go(a, "fail")
    /\ UNCHANGED <<said, runs, untold, faults>>

-----------------------------------------------------------------------------
CompleteRun(a) ==
    /\ ask[a].at = "step" /\ ask[a].step > Steps
    /\ SetRun(a, "completed")
    /\ Go(a, "answer")
    /\ UNCHANGED <<said, calls, untold, faults>>

(* The catch of run, also for an answer that cannot be stored.             *)
FailRun(a) ==
    /\ ask[a].at = "fail"
    /\ SetRun(a, "failed")
    /\ Go(a, "error")
    /\ UNCHANGED <<said, calls, untold, faults>>

(* Where an error goes: to the catch of the executor, to that of run, or   *)
(* to the caller.                                                          *)
Catches(a) ==
    CASE ask[a].at = "finish"                     -> "record"
      [] ask[a].at \in {"step", "record"}         -> "fail"
      [] ask[a].at = "answer" /\ ask[a].handled   -> "fail"
      [] OTHER                                    -> "thrown"

Throws(a) ==
    /\ ask[a].at \in Doing \ {"tool"} /\ Fault
    /\ ask' = [ask EXCEPT ![a].at = Catches(a), ![a].saved = FALSE]
    /\ untold' = IF ask[a].at \in {"record", "fail"} \/ (ask[a].at = "error" /\ ~ask[a].saved)
                 THEN untold \cup {a} ELSE untold
    /\ UNCHANGED <<said, runs, calls>>

Dies ==
    LET cut == {a \in Asks : ask[a].at \in Doing} IN
    /\ cut # {} /\ Fault
    /\ ask' = [a \in Asks |-> IF a \in cut THEN [ask[a] EXCEPT !.at = "thrown"] ELSE ask[a]]
    /\ untold' = untold \cup cut
    /\ UNCHANGED <<said, runs, calls>>

AgentNext ==
    \/ \E a \in Asks :
          \/ Begin(a) \/ SaveMessage(a) \/ TouchSession(a) \/ StartRun(a)
          \/ OnToolStart(a) \/ RunTool(a) \/ OnToolFinish(a) \/ RecordError(a)
          \/ CompleteRun(a) \/ FailRun(a) \/ Throws(a)
    \/ Dies

AgentSpec == AgentInit /\ [][AgentNext]_agentVars

-----------------------------------------------------------------------------
StillRunning(a) == runs[a] = "running" \/ \E i \in 1..Steps : calls[a][i] = "running"

(* When a request has ended, the session, its run and its calls tell how,  *)
(* whichever of their statements threw, unless recording that threw too:   *)
(* nothing is shown as running; an answered request has one answer, and    *)
(* its run and all calls are completed; one that threw has no completed    *)
(* run, and a failed run has its error as its last message.                *)
EndIsTold ==
    \A a \in Asks \ untold :
        /\ ask[a].at \in Ended => ~StillRunning(a)
        /\ ask[a].at = "answered" =>
              /\ said[a] = <<"user", "answer">>
              /\ ask[a].handled =>
                    runs[a] = "completed" /\ \A i \in 1..Steps : calls[a][i] = "completed"
        /\ ask[a].at = "thrown" =>
              \/ runs[a] = "none"
              \/ runs[a] = "failed" /\ said[a][Len(said[a])] = "error"
=============================================================================
