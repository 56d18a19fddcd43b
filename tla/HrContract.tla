----------------------------- MODULE HrContract -----------------------------
(***************************************************************************)
(* One employment contract: its form in JDY, its record in the database    *)
(* and the contract at BestSign (features/hr/service/hrContractService.ts, *)
(* features/bestsign).  BestSign notifies the server of every step; users  *)
(* act through the form.  Each handler is a series of awaits on the remote *)
(* services and the database, several can be under way, and one that has   *)
(* loaded the record later saves all of it.                                *)
(*                                                                         *)
(* Abstractions.  The signer list, files and texts of the form are left    *)
(* out; a reject always has the same reason.  bizNo and contractId name    *)
(* the same row, by the unique indices the upserts need.                   *)
(***************************************************************************)
EXTENDS Naturals, Sequences, FiniteSets

CONSTANTS
    Handlers,   \* webhook handlers that can be under way at once
    Original,   \* the form the contract was made from
    Copies,     \* forms a backfill can create
    None,       \* no jdyId
    UserKinds,  \* what the users do with the form
    MaxActs,    \* bound on what they do
    MaxMail,    \* bound on the notifications BestSign sends
    MaxLate,    \* how many newer notifications may come before a repeat
    MaxFaults   \* bound on errors and crashes

ASSUME FormAssumption  == Original \notin Copies /\ None \notin Copies \cup {Original}
ASSUME KindAssumption  ==
    UserKinds \subseteq {"create", "approve", "cancel", "sign", "resign", "revoke"}
ASSUME BoundAssumption ==
    MaxMail \in Nat \ {0} /\ MaxActs \in Nat /\ MaxLate \in Nat /\ MaxFaults \in Nat

VARIABLES
    stage,     \* the contract at BestSign
    signed,    \* who has signed it
    mail,      \* notifications BestSign has sent
    acts,      \* how often users have acted
    row,       \* BestSignContractRecord
    shown,     \* status of each form there is
    uploaded,  \* files uploaded since the flags were last reset
    job,       \* what each handler does, and the record it holds
    newest,    \* last notification that came
    inOrder,   \* so far no handler ran beside one of another event
    crossed,   \* flags were reset while a handler held the record
    faults

bestSign == <<stage, signed, mail, acts>>
history  == <<newest, inOrder, crossed>>
vars == <<bestSign, row, shown, uploaded, job, history, faults>>

Forms  == Copies \cup {Original}
Flags  == {"after", "archive"}
Signs  == {"SIGN", "SIGN_ENT"}
Resets == {"REJECT", "REVOKE"}
Kinds  == Signs \cup Resets \cup {"SEND", "COMPLETE"}

Row == [status : {"none", "CREATED", "APPROVE", "CANCEL"} \cup Kinds,
        jdyId  : Forms \cup {None},
        flags  : SUBSET Flags]
NoRow == [status |-> "none", jdyId |-> None, flags |-> {}]
Idle  == [at |-> "idle"]
Job   == [at   : {"upsert", "load", "append", "overview", "create", "link", "act", "flag",
                  "show", "find", "call", "save", "reset"},
          kind : Kinds \cup UserKinds, no : 0..MaxMail, rec : Row]

TypeOK ==
    /\ stage \in {"none", "draft", "sent", "rejected", "cancelled", "revoked", "complete"}
    /\ signed \subseteq {"person", "company"}
    /\ mail \in Seq(Kinds) /\ Len(mail) <= MaxMail
    /\ row \in Row
    /\ DOMAIN shown \subseteq Forms
    /\ uploaded \subseteq Flags
    /\ job \in [Handlers -> Job \cup {Idle}]
    /\ newest \in 0..MaxMail /\ acts \in 0..MaxActs /\ inOrder \in BOOLEAN /\ crossed \in BOOLEAN
    /\ faults \in 0..MaxFaults

Put(f, x, v) == [y \in DOMAIN f \cup {x} |-> IF y = x THEN v ELSE f[y]]

(* A contract made from the form, or one BestSign has that no form made.   *)
Init ==
    /\ \/ stage = "none" /\ mail = <<>> /\ shown = [f \in {Original} |-> "new"]
       \/ stage = "sent" /\ mail = <<"SEND">> /\ shown = [f \in {} |-> "new"]
    /\ signed = {}
    /\ row = NoRow
    /\ uploaded = {}
    /\ job = [h \in Handlers |-> Idle]
    /\ newest = 0 /\ acts = 0 /\ inOrder = TRUE /\ crossed = FALSE
    /\ faults = 0

At(h, stages)  == job[h].at \in stages
Go(h, at)      == job' = [job EXCEPT ![h].at = at]
Hold(h, r, at) == job' = [job EXCEPT ![h].rec = r, ![h].at = at]
End(h)         == job' = [job EXCEPT ![h] = Idle]
Show(form, s)  == shown' = [shown EXCEPT ![form] = s]
Linked(h)      == job[h].rec.jdyId
ToShow(h)      == Hold(h, [NoRow EXCEPT !.jdyId = Linked(h)], "show")

(* BestSignContractRecord.save of a loaded record writes every column back. *)
SaveHeld(h) == row' = job[h].rec

(* The flags become false, which opens a new round of uploads.             *)
Holds(g) == At(g, {"append", "overview", "create", "link", "act", "flag", "save", "reset"})
OpenRound(h) ==
    /\ uploaded' = {}
    /\ crossed' = (crossed \/ \E g \in Handlers \ {h} : Holds(g))

-----------------------------------------------------------------------------
(* BestSign *)

Send(kinds) == Len(mail) + Len(kinds) <= MaxMail /\ mail' = mail \o kinds

Signs2(who) ==
    /\ stage = "sent" /\ who \notin signed
    /\ signed' = signed \cup {who}
    /\ LET one == IF who = "person" THEN "SIGN" ELSE "SIGN_ENT" IN
       IF Cardinality(signed') = 2
       THEN stage' = "complete" /\ Send(<<one, "COMPLETE">>)
       ELSE stage' = stage /\ Send(<<one>>)

PersonSigns ==
    /\ Signs2("person")
    /\ UNCHANGED <<acts, row, shown, uploaded, job, history, faults>>

PersonRejects ==
    /\ stage = "sent" /\ "person" \notin signed
    /\ stage' = "rejected"
    /\ Send(<<"REJECT">>)
    /\ UNCHANGED <<signed, acts, row, shown, uploaded, job, history, faults>>

-----------------------------------------------------------------------------
(* handleNotification *)

Alone(h, i) == \A g \in Handlers \ {h} : job[g] = Idle \/ job[g].no = i

(* A notification comes, for the first time or again.                      *)
Deliver(h, i) ==
    /\ job[h] = Idle
    /\ i + MaxLate >= newest
    /\ job' = [job EXCEPT ![h] = [at |-> "upsert", kind |-> mail[i], no |-> i, rec |-> NoRow]]
    /\ inOrder' = (inOrder /\ i \in {newest, newest + 1} /\ Alone(h, i))
    /\ newest' = IF i > newest THEN i ELSE newest
    /\ UNCHANGED <<bestSign, row, shown, uploaded, crossed, faults>>

(* upsertContractRecord: only the columns the notification has.            *)
Upsert(h) ==
    /\ At(h, {"upsert"})
    /\ LET resets == job[h].kind \in Resets IN
       /\ row' = [row EXCEPT !.status = job[h].kind,
                             !.flags = IF resets THEN {} ELSE @]
       /\ IF resets THEN OpenRound(h) ELSE UNCHANGED <<uploaded, crossed>>
    /\ Go(h, "load")
    /\ UNCHANGED <<bestSign, shown, newest, inOrder, faults>>

Load(h) ==
    /\ At(h, {"load"})
    /\ CASE job[h].kind \in Signs \cup {"REJECT"} -> Hold(h, row, "append")
         [] job[h].kind = "COMPLETE"              -> Hold(h, row, "overview")
         [] OTHER                                 -> End(h)
    /\ UNCHANGED <<bestSign, row, shown, uploaded, history, faults>>

(* The signer is appended and the record saved.                            *)
Append1(h) ==
    /\ At(h, {"append"})
    /\ SaveHeld(h)
    /\ Go(h, "overview")
    /\ UNCHANGED <<bestSign, shown, uploaded, history, faults>>

(* A record without a form gets one from the overview of the contract.     *)
Overview(h) ==
    /\ At(h, {"overview"})
    /\ IF Linked(h) = None /\ job[h].rec.status # "REVOKE"
       THEN SaveHeld(h) /\ Go(h, "create")
       ELSE Go(h, "act") /\ UNCHANGED row
    /\ UNCHANGED <<bestSign, shown, uploaded, history, faults>>

CreateForm(h, form) ==
    /\ At(h, {"create"})
    /\ form \notin DOMAIN shown
    /\ shown' = Put(shown, form, IF stage = "complete" THEN "complete" ELSE "sent")
    /\ Hold(h, [job[h].rec EXCEPT !.jdyId = form], "link")
    /\ UNCHANGED <<bestSign, row, uploaded, history, faults>>

Link(h) ==
    /\ At(h, {"link"})
    /\ SaveHeld(h)
    /\ Go(h, "act")
    /\ UNCHANGED <<bestSign, shown, uploaded, history, faults>>

Unlinked(h) ==
    /\ At(h, {"act"}) /\ Linked(h) = None
    /\ End(h)
    /\ UNCHANGED <<bestSign, row, shown, uploaded, history, faults>>

Rejected(h) ==
    /\ At(h, {"act"}) /\ Linked(h) # None /\ job[h].kind = "REJECT"
    /\ Show(Linked(h), "rejected")
    /\ End(h)
    /\ UNCHANGED <<bestSign, row, uploaded, history, faults>>

Flag(kind) == IF kind = "COMPLETE" THEN "archive" ELSE "after"

(* The files are uploaded unless the record held says they were, ...       *)
Upload(h) ==
    /\ At(h, {"act"}) /\ Linked(h) # None /\ job[h].kind \in Signs \cup {"COMPLETE"}
    /\ LET flag == Flag(job[h].kind) IN
       IF flag \in job[h].rec.flags
       THEN ToShow(h) /\ UNCHANGED uploaded
       ELSE /\ uploaded' = uploaded \cup {flag}
            /\ Hold(h, [job[h].rec EXCEPT !.flags = @ \cup {flag}], "flag")
    /\ UNCHANGED <<bestSign, row, shown, history, faults>>

(* Mutant: the flag stays in memory.                                       *)
FlagNotSaved(h) ==
    /\ At(h, {"flag"})
    /\ ToShow(h)
    /\ UNCHANGED <<bestSign, row, shown, uploaded, history, faults>>

(* ... then the record says so ...                                         *)
SaveFlag(h) ==
    /\ At(h, {"flag"})
    /\ SaveHeld(h)
    /\ ToShow(h)
    /\ UNCHANGED <<bestSign, shown, uploaded, history, faults>>

(* ... and the form shows it.                                              *)
ShowNotified(h) ==
    /\ At(h, {"show"}) /\ job[h].kind \in Kinds
    /\ CASE job[h].kind = "COMPLETE" -> Show(Linked(h), "complete")
         [] job[h].kind = "SIGN"     -> Show(Linked(h), "signed")
         [] OTHER                    -> UNCHANGED shown
    /\ End(h)
    /\ UNCHANGED <<bestSign, row, uploaded, history, faults>>

-----------------------------------------------------------------------------
(* handleCreate, handleUpdate: the user acts on a form.  All but "create"  *)
(* need the contract's id, which the original form gets from the record.   *)
UserActs(h, kind, form) ==
    /\ job[h] = Idle
    /\ acts < MaxActs /\ acts' = acts + 1
    /\ form \in DOMAIN shown
    /\ IF kind = "create" THEN form = Original /\ stage = "none" /\ row = NoRow
       ELSE form # Original \/ row # NoRow
    /\ job' = [job EXCEPT ![h] =
                 [at |-> IF kind \in {"create", "revoke"} THEN "call" ELSE "find",
                  kind |-> kind, no |-> 0, rec |-> [NoRow EXCEPT !.jdyId = form]]]
    /\ inOrder' = (inOrder /\ \A g \in Handlers : job[g] = Idle)
    /\ UNCHANGED <<stage, signed, mail, row, shown, uploaded, newest, crossed, faults>>

(* Mutant: the parameter of the call is stored for the status.             *)
DesiredText(kind) == IF kind = "approve" THEN "true" ELSE "false"

Desired(kind) == IF kind = "approve" THEN "APPROVE" ELSE "CANCEL"

(* The record is read before the call: an approval that was made, or a     *)
(* reject that was notified, is not repeated.                              *)
Find(h) ==
    /\ At(h, {"find"})
    /\ LET held == [row EXCEPT !.jdyId = Linked(h)] IN
       CASE job[h].kind \in {"approve", "cancel"} ->
                 IF row.status = Desired(job[h].kind) THEN End(h) ELSE Hold(h, held, "call")
         [] job[h].kind = "sign" /\ row = NoRow   -> End(h)
         [] job[h].kind = "resign" /\ row.status = "REJECT" -> Go(h, "show")
         [] job[h].kind = "create" -> Hold(h, [held EXCEPT !.status =
                                         IF row = NoRow THEN "none" ELSE "CREATED"], "save")
         [] OTHER -> Go(h, "call")
    /\ UNCHANGED <<bestSign, row, shown, uploaded, history, faults>>

(* The call to BestSign, as far as the contract's stage allows it.         *)
Accepts(kind) ==
    CASE kind = "create"  -> /\ stage = "none"
                             /\ \/ stage' = "draft" /\ UNCHANGED mail
                                \/ stage' = "sent"  /\ Send(<<"SEND">>)
                             /\ UNCHANGED signed
      [] kind = "approve" -> stage = "draft" /\ stage' = "sent" /\ Send(<<"SEND">>) /\ UNCHANGED signed
      [] kind = "cancel"  -> stage = "draft" /\ stage' = "cancelled" /\ UNCHANGED <<signed, mail>>
      [] kind = "sign"    -> Signs2("company")
      [] kind = "resign"  -> /\ stage = "rejected" \/ (stage = "sent" /\ "person" \in signed)
                             /\ stage' = "sent" /\ signed' = signed \ {"person"}
                             /\ UNCHANGED mail
      [] kind = "revoke"  -> /\ stage \in {"draft", "sent", "rejected"}
                             /\ stage' = "revoked" /\ Send(<<"REVOKE">>) /\ UNCHANGED signed

CallAccepted(h) ==
    /\ At(h, {"call"})
    /\ Accepts(job[h].kind)
    /\ Go(h, CASE job[h].kind = "create"                -> "find"
               [] job[h].kind \in {"approve", "cancel"} -> "save"
               [] OTHER                                 -> "show")
    /\ UNCHANGED <<acts, row, shown, uploaded, history, faults>>

CallRefused(h) ==
    /\ At(h, {"call"})
    /\ End(h)
    /\ UNCHANGED <<bestSign, row, shown, uploaded, history, faults>>

(* Mutant: the record does not get the id of its form.                     *)
SaveUnlinked(h) ==
    /\ At(h, {"save"})
    /\ row' = [job[h].rec EXCEPT !.jdyId = row.jdyId, !.status =
                  IF job[h].kind = "create" THEN "CREATED" ELSE Desired(job[h].kind)]
    /\ IF job[h].kind = "create" THEN End(h) ELSE ToShow(h)
    /\ UNCHANGED <<bestSign, shown, uploaded, history, faults>>

(* A record that was not there is inserted, and refused if it is by now;   *)
(* one that was is saved as it was.                                        *)
SaveCalled(h) ==
    /\ At(h, {"save"})
    /\ LET held == job[h].rec
           next == IF job[h].kind = "create" THEN "CREATED" ELSE Desired(job[h].kind)
       IN  IF held.status = "none" /\ row # NoRow
           THEN End(h) /\ UNCHANGED row
           ELSE /\ row' = [held EXCEPT !.status = next]
                /\ IF job[h].kind = "create" THEN End(h) ELSE ToShow(h)
    /\ UNCHANGED <<bestSign, shown, uploaded, history, faults>>

ShowCalled(h) ==
    /\ At(h, {"show"}) /\ job[h].kind \in UserKinds
    /\ LET s == CASE job[h].kind = "approve" -> "sent"   [] job[h].kind = "cancel" -> "cancelled"
                  [] job[h].kind = "sign" -> "complete"  [] job[h].kind = "resign" -> "resign"
                  [] job[h].kind = "revoke" -> "revoked"
       IN  Show(Linked(h), s)
    /\ IF job[h].kind = "resign" /\ row # NoRow THEN Hold(h, row, "reset") ELSE End(h)
    /\ UNCHANGED <<bestSign, row, uploaded, history, faults>>

(* Mutant: the flags are kept for the next signature.                      *)
FlagsKept(h) ==
    /\ At(h, {"reset"})
    /\ row' = job[h].rec
    /\ OpenRound(h)
    /\ End(h)
    /\ UNCHANGED <<bestSign, shown, newest, inOrder, faults>>

(* handleRejectSignAction: the next signature uploads its files again.     *)
ResetFlags(h) ==
    /\ At(h, {"reset"})
    /\ row' = [job[h].rec EXCEPT !.flags = {}]
    /\ OpenRound(h)
    /\ End(h)
    /\ UNCHANGED <<bestSign, shown, newest, inOrder, faults>>

-----------------------------------------------------------------------------
(* A statement or a call fails, no files come, or the process stops: the   *)
(* handler ends.  What fails while a form is made is caught.               *)
Fails(h) ==
    /\ job[h] # Idle
    /\ faults < MaxFaults /\ faults' = faults + 1
    /\ \/ End(h)
       \/ At(h, {"overview", "create", "link"}) /\ Go(h, "act")
    /\ UNCHANGED <<bestSign, row, shown, uploaded, history>>

Next ==
    \/ PersonSigns \/ PersonRejects
    \/ \E h \in Handlers :
          \/ \E i \in 1..Len(mail) : Deliver(h, i)
          \/ Upsert(h) \/ Load(h) \/ Append1(h) \/ Overview(h)
          \/ \E form \in Copies : CreateForm(h, form)
          \/ Link(h) \/ Unlinked(h) \/ Rejected(h) \/ Upload(h) \/ SaveFlag(h) \/ ShowNotified(h)
          \/ \E kind \in UserKinds, form \in Forms : UserActs(h, kind, form)
          \/ Find(h) \/ CallAccepted(h) \/ CallRefused(h) \/ SaveCalled(h) \/ ShowCalled(h)
          \/ ResetFlags(h)
          \/ Fails(h)

Spec == Init /\ [][Next]_vars

-----------------------------------------------------------------------------
(* Correctness properties *)

(* A flag says that files of this round were uploaded, also when           *)
(* notifications come twice, late, at the same time, or fail halfway,      *)
(* unless the flags were reset while a handler held the record: its save   *)
(* then brings the old flags back.                                         *)
FlagsAreTrue == ~crossed => row.flags \subseteq uploaded

AllIdle == \A h \in Handlers : job[h] = Idle

(* Once BestSign has completed the contract and all its notifications were *)
(* handled in order, doubled or not, and without errors, the form of the   *)
(* record shows it and the archive is there.                               *)
CompleteIsShown ==
    /\ stage = "complete" /\ AllIdle /\ inOrder /\ faults = 0 /\ newest = Len(mail)
    => /\ row.jdyId \in DOMAIN shown
       /\ shown[row.jdyId] = "complete"
       /\ "archive" \in row.flags

(* A contract made from a form gets no second one while its events come    *)
(* in order and without errors.                                            *)
NoSecondForm ==
    Original \in DOMAIN shown /\ inOrder /\ faults = 0 => DOMAIN shown = {Original}
=============================================================================
