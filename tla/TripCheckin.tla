----------------------------- MODULE TripCheckin -----------------------------
(***************************************************************************)
(* The check-ins of people on business trips on one day                    *)
(* (features/jdy/service/businessTripCheckinServices.ts).  Two schedules   *)
(* look for travellers without a check-in, store one and have them fill in *)
(* a form of the remote service, which reports every new form.             *)
(*                                                                         *)
(* Abstractions.  A trip has one traveller, who is employed, and no error; *)
(* the trips come in any order, for the query states none.  What a         *)
(* traveller fills in later, messages and the attendance system are left   *)
(* out.                                                                    *)
(***************************************************************************)
EXTENDS Naturals, FiniteSets

CONSTANTS
    Schedules, \* fbtApplySchedule and sendTripCheckin
    Users,     \* travellers of the day
    Early,     \* those whose trip began before the day
    Visitors,  \* those with reason 客户拜访, who get a button and no form
    Strangers, \* those whose User or Department is not in the database
    MaxForms,  \* bound on the forms of a traveller
    MaxFaults  \* bound on errors and restarts

VARIABLES
    rows,   \* per traveller, the number of check-ins and the forms they have
    forms,  \* per traveller, the forms of the remote service
    asked,  \* per traveller, how many of them the schedules made
    events, \* forms the remote service has still to report
    run,    \* where each schedule is in its loop
    raced,  \* travellers both schedules found without a check-in
    faults

vars == <<rows, forms, asked, events, run, raced, faults>>

Forms == [of : Users, number : 1..MaxForms]
Idle  == [at |-> "idle"]

TypeOK ==
    /\ rows \in [Users -> [count : Nat, linked : SUBSET (1..MaxForms)]]
    /\ \A u \in Users : Cardinality(rows[u].linked) <= rows[u].count
    /\ forms \in [Users -> 0..MaxForms] /\ asked \in [Users -> 0..MaxForms]
    /\ \A e \in events : e \in Forms /\ e.number <= forms[e.of]
    /\ \A s \in Schedules :
          \/ run[s] = Idle
          \/ run[s].at \in {"next", "make", "call", "link"} /\ run[s].left \subseteq Users
    /\ raced \subseteq Users
    /\ faults \in 0..MaxFaults

Init ==
    /\ rows = [u \in Users |-> [count |-> 0, linked |-> {}]]
    /\ forms = [u \in Users |-> 0] /\ asked = [u \in Users |-> 0]
    /\ events = {}
    /\ run = [s \in Schedules |-> Idle]
    /\ raced = {}
    /\ faults = 0

Found(u)       == rows[u].count > 0
Add(u, linked) ==
    rows' = [rows EXCEPT ![u] = [count |-> @.count + 1, linked |-> @.linked \cup linked]]

-----------------------------------------------------------------------------
(* scheduleCreate; guardedSchedule lets no run of a schedule meet its last. *)

Loop(left, midnight) == [at |-> "next", left |-> left, midnight |-> midnight]
At(s, stage, u) ==
    [at |-> stage, left |-> run[s].left \ {u}, midnight |-> TRUE, user |-> u]
Go(s, value) == run' = [run EXCEPT ![s] = value]

Start(s) ==
    /\ run[s] = Idle
    /\ Go(s, Loop(Users, FALSE))
    /\ UNCHANGED <<rows, forms, asked, events, raced, faults>>

End(s) ==
    /\ run[s].at = "next" /\ run[s].left = {}
    /\ Go(s, Idle)
    /\ UNCHANGED <<rows, forms, asked, events, raced, faults>>

(* Mutant: the date at midnight is before the beginning of any trip.       *)
LookSkipping(s, u) ==
    LET skipped == run[s].midnight IN
    /\ run[s].at = "next" /\ u \in run[s].left
    /\ Go(s, IF skipped \/ Found(u) THEN Loop(run[s].left \ {u}, TRUE) ELSE At(s, "make", u))
    /\ raced' = IF ~skipped /\ \E t \in Schedules \ {s} : run[t].at = "make" /\ run[t].user = u
                THEN raced \cup {u} ELSE raced
    /\ UNCHANGED <<rows, forms, asked, events, faults>>

(* generateCheckinbyBusinessTrip sets the date that all trips are compared *)
(* with to midnight: after the first, a trip begun in the day is skipped.  *)
Look(s, u) ==
    LET skipped == run[s].midnight /\ u \notin Early IN
    /\ run[s].at = "next" /\ u \in run[s].left
    /\ Go(s, IF skipped \/ Found(u) THEN Loop(run[s].left \ {u}, TRUE) ELSE At(s, "make", u))
    /\ raced' = IF ~skipped /\ \E t \in Schedules \ {s} : run[t].at = "make" /\ run[t].user = u
                THEN raced \cup {u} ELSE raced
    /\ UNCHANGED <<rows, forms, asked, events, faults>>

(* Mutant: the check-in is stored with its form.                           *)
MakeLater(s) ==
    /\ run[s].at = "make" /\ run[s].user \notin Strangers
    /\ Go(s, At(s, "call", run[s].user))
    /\ UNCHANGED <<rows, forms, asked, events, raced, faults>>

(* Who is not known throws, in every run, and ends it: those behind him in *)
(* the loop are not reached.                                               *)
Throws(s) ==
    /\ run[s].at = "make" /\ run[s].user \in Strangers
    /\ Go(s, Idle)
    /\ UNCHANGED <<rows, forms, asked, events, raced, faults>>

(* The check-in is stored with state 未发起, ...                           *)
Make(s) ==
    /\ run[s].at = "make" /\ run[s].user \notin Strangers
    /\ Add(run[s].user, {})
    /\ Go(s, At(s, "call", run[s].user))
    /\ UNCHANGED <<forms, asked, events, raced, faults>>

NewForm(u) ==
    /\ forms[u] < MaxForms
    /\ forms' = [forms EXCEPT ![u] = @ + 1]
    /\ events' = events \cup {[of |-> u, number |-> forms'[u]]}

(* ... then comes startWorkFlow, or sendButtonMsg and no more, ...         *)
CallRemote(s) ==
    LET u == run[s].user IN
    /\ run[s].at = "call"
    /\ IF u \in Visitors
       THEN Go(s, Loop(run[s].left, TRUE)) /\ UNCHANGED <<forms, asked, events>>
       ELSE /\ NewForm(u)
            /\ asked' = [asked EXCEPT ![u] = @ + 1]
            /\ Go(s, [at |-> "link", left |-> run[s].left, midnight |-> TRUE,
                      user |-> u, form |-> forms[u] + 1])
    /\ UNCHANGED <<rows, raced, faults>>

(* ... and the check-in gets state 未打卡 and its form.                    *)
Link(s) ==
    /\ run[s].at = "link"
    /\ rows' = [rows EXCEPT ![run[s].user].linked = @ \cup {run[s].form}]
    /\ Go(s, Loop(run[s].left, TRUE))
    /\ UNCHANGED <<forms, asked, events, raced, faults>>

(* What else is thrown ends the run, and so does a restart; of a call that *)
(* fails the form may have been made.                                      *)
RunFails(s) ==
    /\ run[s] # Idle
    /\ faults < MaxFaults /\ faults' = faults + 1
    /\ Go(s, Idle)
    /\ \/ /\ run[s].at = "call"
          /\ NewForm(run[s].user)
          /\ asked' = [asked EXCEPT ![run[s].user] = @ + 1]
       \/ UNCHANGED <<forms, asked, events>>
    /\ UNCHANGED <<rows, raced>>

-----------------------------------------------------------------------------
(* A traveller makes a form without being asked; who visits a customer     *)
(* follows up in the CRM instead.  The bound leaves room for the forms     *)
(* that the schedules may ask for.                                         *)
UserMakesForm(u) ==
    /\ u \notin Visitors /\ forms[u] + Cardinality(Schedules) < MaxForms
    /\ NewForm(u)
    /\ UNCHANGED <<rows, asked, run, raced, faults>>

(* dataProcess: a form no check-in has yet gets one; it throws for who has *)
(* no User.                                                                *)
DataProcess(e) ==
    /\ e \in events
    /\ events' = events \ {e}
    /\ \/ e.number \notin rows[e.of].linked /\ Add(e.of, {e.number})
       \/ (e.number \in rows[e.of].linked \/ e.of \in Strangers) /\ UNCHANGED rows
    /\ UNCHANGED <<forms, asked, run, raced, faults>>

Proceeds(s) ==
    \/ Start(s) \/ End(s) \/ Throws(s) \/ Make(s) \/ CallRemote(s) \/ Link(s)
    \/ \E u \in Users : Look(s, u)

Next ==
    \/ \E s \in Schedules : Proceeds(s) \/ RunFails(s)
    \/ \E u \in Users : UserMakesForm(u)
    \/ \E e \in events : DataProcess(e)

(* The schedules fire again and again and calls end.                       *)
Fairness == \A s \in Schedules : WF_vars(Proceeds(s))

Spec == Init /\ [][Next]_vars /\ Fairness

-----------------------------------------------------------------------------
(* Correctness properties *)

(* Whatever fails between the check-in, the form and the link of the two,  *)
(* a traveller is asked once, unless both schedules looked for the         *)
(* check-in at the same moment.                                            *)
AskedOnce == \A u \in Users \ raced : asked[u] <= 1

(* A traveller who is not known ends a run before it has come to u.        *)
StoppedBefore(u) ==
    \E s \in Schedules :
        run[s].at = "make" /\ run[s].user \in Strangers /\ u \in run[s].left

(* A traveller who set out before the day gets a check-in, whichever trips *)
(* the date at midnight passes over and whatever errors there are, unless  *)
(* runs end before they come to him for ever, for want of the User or      *)
(* Department of another.                                                  *)
EarlyTravellersAreFound ==
    \A u \in Early \ Strangers : <>Found(u) \/ []<>StoppedBefore(u)
=============================================================================
