--------------------------- MODULE MCDocumentJobs ---------------------------
(***************************************************************************)
(* The dirty refresh, and the maintenance of every night with it.  Each is *)
(* checked with bounds of its own: a behaviour is of the part it begins    *)
(* with.  The refresh is there with two changes of the dictionary for one  *)
(* document, and with one change for more than one job takes; the nights   *)
(* with a review and requests for one document, and with a script, faults  *)
(* and more documents than one night takes.  In every part some actors are *)
(* never active and some documents never reviewed: the invariants are      *)
(* those of the maintenance itself.  All reviews run in one process: it is *)
(* the other that may refresh with an old cache.                           *)
(***************************************************************************)
EXTENDS DailyMaintenance

CONSTANTS
    Few, \* the documents reviewed where there are two changes
    One  \* the documents reviewed and asked for in a night

VARIABLE part

allVars == <<part, maintVars>>

(* More documents than a job takes, and one change of the dictionary.      *)
L == INSTANCE DictionaryRefresh WITH MaxVersion <- 1

(* One document without an archive, a review, a request, and no faults.    *)
N == INSTANCE DailyMaintenance WITH
        Archived <- Documents \ One, Broken <- {}, MaxVersion <- 1,
        Unready <- {}, MaxFaults <- 0

(* Only documents to be archived, of which the first is refused.           *)
A == INSTANCE DailyMaintenance WITH Archived <- {}, Broken <- {}, MaxVersion <- 0

RefreshRuns   == part = "refresh"
BacklogRuns   == part = "backlog"
NightRuns     == part = "night"
ArchivingRuns == part = "archiving"

JobsInit ==
    \/ (RefreshRuns \/ BacklogRuns) /\ MaintenanceInit
    \/ NightRuns /\ N!MaintenanceInit
    \/ ArchivingRuns /\ A!MaintenanceInit

(* Nobody reviews other documents than these, or asks for their archives,  *)
(* and these archive nothing.                                              *)
Only(S) ==
    /\ \A r \in Reviewers : review[r] # Idle => review[r].docs \subseteq S
    /\ \A a \in Callers : day[a] # Resting => day[a].todo \subseteq S
Rests(S) == \A a \in S : day[a] = Resting

(* The process that serves the reviews.                                    *)
Host == CHOOSE p \in Processes : TRUE
HostReviews == \A r \in Reviewers : review[r] # Idle => review[r].in = Host

JobsNext ==
    /\ \/ RefreshRuns /\ Next /\ UNCHANGED days /\ Only(Few)'
       \/ BacklogRuns /\ L!Next /\ UNCHANGED days
       \/ NightRuns /\ N!MaintenanceNext /\ Only(One)' /\ Rests(Scripts)'
       \/ ArchivingRuns /\ A!MaintenanceNext /\ Rests(Callers)'
    /\ HostReviews'
    /\ UNCHANGED part

JobGoes(p) ==
    \/ RefreshRuns /\ JobStep(p) /\ UNCHANGED days
    \/ BacklogRuns /\ L!JobStep(p) /\ UNCHANGED days
    \/ ArchivingRuns /\ A!JobGoesOn(p)

Unlocks(p) ==
    /\ UNCHANGED days
    /\ \/ RefreshRuns /\ Unlock(p)
       \/ BacklogRuns /\ L!Unlock(p)
       \/ ArchivingRuns /\ A!Unlock(p)

(* The fairness of the modules, where their liveness is checked.           *)
JobsFairness ==
    /\ \A p \in Processes :
          /\ WF_maintVars(JobGoes(p)) /\ WF_maintVars(Unlocks(p))
          /\ WF_maintVars(ArchivingRuns /\ A!Maintains(p))
    /\ \A a \in Scripts : WF_maintVars(ArchivingRuns /\ A!Archives(a))

JobsSpec == JobsInit /\ [][JobsNext]_allVars /\ JobsFairness

-----------------------------------------------------------------------------
(* MaintenanceTypeOK, OneRefreshAtATime and MarksReachArchives are checked *)
(* as the modules state them.                                              *)

Waiting(d) == (BacklogRuns \/ (RefreshRuns /\ d \in Few)) /\ Dirty(d)

(* Every mark is worked off: a document or archive that is dirty does not  *)
(* stay so, although other documents fail each time, processes die,        *)
(* several start jobs, and more documents wait than one job takes.         *)
MarksAreWorkedOff ==
    \A d \in Documents \ Broken : Waiting(d) ~> ~Waiting(d)

(* Every document that is ready is archived in the end, although others    *)
(* are refused each night, processes die, nights meet scripts and one      *)
(* another, and more documents wait than one night takes.                  *)
ReadyIsArchived ==
    \A d \in Documents \ Unready :
        ArchivingRuns ~> (ArchivingRuns /\ archive[d] # NoArchive)
=============================================================================
