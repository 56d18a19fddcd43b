---------------------------- MODULE JobLifecycle ----------------------------
(***************************************************************************)
(* What the job queue of features/backgroundJob promises whoever enqueues  *)
(* a job and polls it: one process at a time runs it, only that process    *)
(* ends it, it is retried while attempts are left and given up when none   *)
(* are, and a finished job stays as it is once nobody is at it any more.   *)
(* It may show as completed before: the process that completed it and was  *)
(* not told so is still at it, and may end it once more, otherwise.        *)
(***************************************************************************)
EXTENDS Integers

CONSTANTS Jobs, Workers, Limits

VARIABLES
    phase,    \* "absent", "queued", "running", "completed" or "failed"
    limit,    \* attempts granted when the job was enqueued
    runs,     \* attempts begun
    runners   \* the processes running the job now

vars == <<phase, limit, runs, runners>>

Init ==
    /\ phase = [j \in Jobs |-> "absent"]
    /\ limit = [j \in Jobs |-> 1]
    /\ runs = [j \in Jobs |-> 0]
    /\ runners = [j \in Jobs |-> {}]

Submit(j, n) ==
    /\ phase[j] = "absent"
    /\ phase' = [phase EXCEPT ![j] = "queued"]
    /\ limit' = [limit EXCEPT ![j] = n]
    /\ UNCHANGED <<runs, runners>>

(* A waiting job is begun, or one whose runner is gone is taken over. *)
Begin(j, w) ==
    /\ phase[j] \in {"queued", "running"} /\ runners[j] = {}
    /\ phase' = [phase EXCEPT ![j] = "running"]
    /\ runs' = [runs EXCEPT ![j] = @ + 1]
    /\ runners' = [runners EXCEPT ![j] = {w}]
    /\ UNCHANGED limit

MayEndAs(j, p) ==
    \/ p = "completed"
    \/ p = "queued" /\ runs[j] < limit[j]
    \/ p = "failed" /\ runs[j] >= limit[j]

(* The end is on record, and its process does not know. *)
EndUntold(j, w) ==
    /\ phase[j] = "running" /\ runners[j] = {w}
    /\ phase' = [phase EXCEPT ![j] = "completed"]
    /\ UNCHANGED <<limit, runs, runners>>

(* A job that shows as completed is ended again only as what it is not. *)
End(j, w, p) ==
    /\ phase[j] = "running" \/ (phase[j] = "completed" /\ p # "completed")
    /\ runners[j] = {w}
    /\ MayEndAs(j, p)
    /\ phase' = [phase EXCEPT ![j] = p]
    /\ runners' = [runners EXCEPT ![j] = {}]
    /\ UNCHANGED <<limit, runs>>

Lose(j, w) ==
    /\ runners[j] = {w}
    /\ runners' = [runners EXCEPT ![j] = {}]
    /\ UNCHANGED <<phase, limit, runs>>

Next ==
    \E j \in Jobs :
        \/ \E n \in Limits : Submit(j, n)
        \/ \E w \in Workers :
            \/ Begin(j, w)
            \/ EndUntold(j, w)
            \/ \E p \in {"queued", "completed", "failed"} : End(j, w, p)
            \/ Lose(j, w)

Spec == Init /\ [][Next]_vars
=============================================================================
