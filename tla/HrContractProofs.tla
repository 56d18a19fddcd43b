--------------------------- MODULE HrContractProofs ---------------------------
(***************************************************************************)
(* Proofs about HrContract, for any number of handlers, forms and          *)
(* notifications: what the flags of the record say is uploaded, a contract *)
(* made from a form gets no second one, and a completed contract is shown. *)
(***************************************************************************)
EXTENDS HrContract, SequenceTheorems, TLAPS


Busy(h)     == job[h] # Idle
Notified(h) == Busy(h) /\ job[h].no > 0

(* A handler works through the stages of a notification or of what a user  *)
(* did.                                                                    *)
JobsInv ==
    /\ newest <= Len(mail)
    /\ \A h \in Handlers : Busy(h) =>
          IF job[h].no = 0
          THEN job[h].kind \in UserKinds /\ At(h, {"call", "find", "save", "show", "reset"})
          ELSE /\ job[h].no <= newest /\ job[h].kind = mail[job[h].no]
               /\ At(h, {"upsert", "load", "append", "overview", "create", "link", "act", "flag",
                         "show"})
               /\ At(h, {"append"}) => job[h].kind # "COMPLETE"

(* Every form the records name is there.                                   *)
LinksInv ==
    /\ row.jdyId \in DOMAIN shown \cup {None}
    /\ \A h \in Handlers : Busy(h) => Linked(h) \in DOMAIN shown \cup {None}

(* Before a contract is sent nothing is uploaded.                          *)
EarlyInv ==
    /\ stage \in {"none", "draft"} => mail = <<>>
    /\ mail = <<>> => /\ row.flags = {}
                      /\ \A h \in Handlers : Busy(h) => job[h].rec.flags = {}

(* Unless flags were reset beside them, the handlers that will save the    *)
(* record they hold know of no file that is not there.                     *)
HeldInv ==
    ~crossed => /\ row.flags \subseteq uploaded
                /\ \A h \in Handlers : Holds(h) => job[h].rec.flags \subseteq uploaded

(* While events come in order, the handlers under way are of the newest    *)
(* notification, or there is one, of a user.                               *)
OrderInv ==
    inOrder => \A g, h \in Handlers : Busy(g) /\ Busy(h) =>
                   /\ job[g].no = job[h].no
                   /\ job[g].no \in {0, newest}
                   /\ job[g].no = 0 => g = h

(* A contract made from a form: the record names it as soon as BestSign    *)
(* can send notifications about it, ...                                    *)
Creating(h) == Busy(h) /\ job[h].kind = "create" /\ At(h, {"find", "save"})

OriginalOK ==
    /\ DOMAIN shown = {Original}
    /\ row = NoRow \/ row.jdyId = Original
    /\ stage # "none" => row.jdyId = Original \/ \E h \in Handlers : Creating(h)
    /\ \A h \in Handlers : Busy(h) =>
          /\ ~At(h, {"upsert", "load"}) => Linked(h) = Original
          /\ ~At(h, {"create", "link"})
          /\ job[h].no > 0 => row.jdyId = Original

OriginalInv == Original \in DOMAIN shown /\ inOrder /\ faults = 0 => OriginalOK

(* ... and a complete one, from the first notification of it on: the       *)
(* handlers save what they read after it, and what the record lacks, one   *)
(* of them is about to make good.                                          *)
CompleteSent ==
    stage = "complete" => Len(mail) > 0 /\ mail[Len(mail)] = "COMPLETE"

Told == stage = "complete" /\ inOrder /\ faults = 0 /\ newest = Len(mail)

Complete(form) == form \in DOMAIN shown /\ shown[form] = "complete"

WillArchive(h) ==
    \/ At(h, {"upsert", "load", "flag"})
    \/ At(h, {"overview", "create", "link", "act"}) /\ "archive" \notin job[h].rec.flags

WillShow(h) ==
    \/ At(h, {"upsert", "load", "create", "link"})
    \/ At(h, {"overview", "act", "flag", "show"}) /\ Linked(h) = row.jdyId

Finishes(h) ==
    /\ job[h].kind = "COMPLETE"
    /\ ~At(h, {"upsert"}) => row.status = "COMPLETE"
    /\ ~At(h, {"upsert", "load", "show"}) => job[h].rec.status = "COMPLETE"
    /\ At(h, {"create"}) => Linked(h) = None
    /\ At(h, {"link"}) => Complete(Linked(h))
    /\ At(h, {"act", "flag", "show"}) => Linked(h) # None
    /\ At(h, {"flag"}) => "archive" \in job[h].rec.flags

ToldOK ==
    /\ \A h \in Handlers : Busy(h) =>
          IF job[h].no = 0 THEN job[h].kind # "create" /\ At(h, {"find", "call"})
          ELSE Finishes(h)
    /\ row.status = "COMPLETE" \/ \E h \in Handlers : Notified(h) /\ At(h, {"upsert"})
    /\ "archive" \in row.flags \/ \E h \in Handlers : Notified(h) /\ WillArchive(h)
    /\ Complete(row.jdyId) \/ \E h \in Handlers : Notified(h) /\ WillShow(h)

ToldInv == Told => ToldOK

-----------------------------------------------------------------------------
(* How a handler moves on *)

(* Handler h is at a stage with a record, the others are where they were.  *)
Others(h) == \A g \in Handlers \ {h} : job'[g] = job[g]

Now(h, at, kind, no, rec) ==
    /\ job' \in [Handlers -> Job \cup {Idle}]
    /\ job'[h] \in Job
    /\ job'[h].at = at /\ job'[h].kind = kind /\ job'[h].no = no /\ job'[h].rec = rec
    /\ Others(h)

Ended(h) ==
    /\ job' \in [Handlers -> Job \cup {Idle}]
    /\ job'[h] = Idle
    /\ Others(h)

Stages == {"upsert", "load", "append", "overview", "create", "link", "act", "flag", "show",
           "find", "call", "save", "reset"}

LEMMA JobIsIdleOrBusy ==
    ASSUME NEW j \in Job \cup {Idle}
    PROVE  /\ j # Idle <=> j \in Job
           /\ j # Idle <=> j.at # "idle"
           /\ j # Idle <=> j.at \in Stages
BY DEF Job, Idle, Stages

LEMMA GoIs ==
    ASSUME TypeOK, NEW h \in Handlers, Busy(h), NEW at \in Stages, Go(h, at)
    PROVE  Now(h, at, job[h].kind, job[h].no, job[h].rec)
<1>1. job \in [Handlers -> Job \cup {Idle}] /\ job[h] \in Job
  BY JobIsIdleOrBusy DEF TypeOK, Busy
<1>2. PICK j : j = [job[h] EXCEPT !.at = at]
  OBVIOUS
<1>3. /\ j \in Job
      /\ j.at = at /\ j.kind = job[h].kind /\ j.no = job[h].no /\ j.rec = job[h].rec
  BY <1>1, <1>2 DEF Job, Stages
<1>4. job' = [job EXCEPT ![h] = j]
  BY <1>1, <1>2 DEF Go
<1>5. QED
  BY <1>1, <1>3, <1>4 DEF Now, Others

LEMMA HoldIs ==
    ASSUME TypeOK, NEW h \in Handlers, Busy(h), NEW at \in Stages, NEW r \in Row,
           Hold(h, r, at)
    PROVE  Now(h, at, job[h].kind, job[h].no, r)
<1>1. job \in [Handlers -> Job \cup {Idle}] /\ job[h] \in Job
  BY JobIsIdleOrBusy DEF TypeOK, Busy
<1>2. PICK j : j = [[job[h] EXCEPT !.rec = r] EXCEPT !.at = at]
  OBVIOUS
<1>3. /\ j \in Job
      /\ j.at = at /\ j.kind = job[h].kind /\ j.no = job[h].no /\ j.rec = r
  BY <1>1, <1>2 DEF Job, Stages
<1>4. job' = [job EXCEPT ![h] = j]
  BY <1>1, <1>2 DEF Hold
<1>5. QED
  BY <1>1, <1>3, <1>4 DEF Now, Others

LEMMA EndIs ==
    ASSUME TypeOK, NEW h \in Handlers, End(h)
    PROVE  Ended(h)
BY DEF TypeOK, End, Ended, Others

LEMMA RecIsRow ==
    ASSUME TypeOK, NEW h \in Handlers, Busy(h)
    PROVE  /\ job[h] \in Job /\ job[h].rec \in Row /\ Linked(h) \in Forms \cup {None}
           /\ job[h].kind \in Kinds \cup UserKinds /\ job[h].no \in 0..MaxMail
BY JobIsIdleOrBusy DEF TypeOK, Busy, Job, Row, Linked

LEMMA ToShowIs ==
    ASSUME TypeOK, NEW h \in Handlers, Busy(h), ToShow(h)
    PROVE  \E r \in Row : /\ Now(h, "show", job[h].kind, job[h].no, r)
                          /\ r.jdyId = Linked(h) /\ r.flags = {} /\ r.status = "none"
<1>1. PICK r : r = [NoRow EXCEPT !.jdyId = Linked(h)]
  OBVIOUS
<1>2. r \in Row /\ r.jdyId = Linked(h) /\ r.flags = {} /\ r.status = "none"
  BY <1>1, RecIsRow DEF NoRow, Row
<1>3. Hold(h, r, "show")
  BY <1>1 DEF ToShow
<1>4. QED
  BY <1>2, <1>3, HoldIs DEF Stages

-----------------------------------------------------------------------------
(* What each step of a handler does *)

LEMMA BusyAt ==
    ASSUME TypeOK, NEW h \in Handlers, NEW S, S \subseteq Stages, At(h, S)
    PROVE  Busy(h)
<1>1. job[h] \in Job \cup {Idle} /\ job[h].at \in Stages
  BY DEF TypeOK, At
<1>2. "idle" \notin Stages
  BY DEF Stages
<1>3. QED
  BY <1>1, <1>2, JobIsIdleOrBusy DEF Busy

LEMMA DeliverIs ==
    ASSUME TypeOK, NEW h \in Handlers, NEW i \in 1..Len(mail), Deliver(h, i)
    PROVE  /\ ~Busy(h) /\ i \in 1..MaxMail /\ mail[i] \in Kinds
           /\ Now(h, "upsert", mail[i], i, NoRow)
<1>1. mail \in Seq(Kinds) /\ Len(mail) \in Nat /\ Len(mail) <= MaxMail /\ MaxMail \in Nat
  BY BoundAssumption DEF TypeOK
<1>2. i \in 1..MaxMail /\ i \in 0..MaxMail /\ mail[i] \in Kinds
  BY <1>1
<1>3. PICK j : j = [at |-> "upsert", kind |-> mail[i], no |-> i, rec |-> NoRow]
  OBVIOUS
<1>4. NoRow \in Row
  BY DEF NoRow, Row
<1>5. j \in Job /\ j.at = "upsert" /\ j.kind = mail[i] /\ j.no = i /\ j.rec = NoRow
  BY <1>2, <1>3, <1>4 DEF Job
<1>6. job' = [job EXCEPT ![h] = j] /\ job \in [Handlers -> Job \cup {Idle}]
  BY <1>3 DEF Deliver, TypeOK
<1>7. Now(h, "upsert", mail[i], i, NoRow)
  BY <1>5, <1>6 DEF Now, Others
<1>8. QED
  BY <1>2, <1>7 DEF Deliver, Busy

LEMMA UpsertIs ==
    ASSUME TypeOK, NEW h \in Handlers, Upsert(h)
    PROVE  /\ Busy(h) /\ Now(h, "load", job[h].kind, job[h].no, job[h].rec)
           /\ job[h].kind \in Kinds => row' \in Row
           /\ row'.status = job[h].kind /\ row'.jdyId = row.jdyId
           /\ \/ /\ job[h].kind \in Resets /\ row'.flags = {} /\ OpenRound(h)
              \/ /\ job[h].kind \notin Resets /\ row'.flags = row.flags
                 /\ UNCHANGED <<uploaded, crossed>>
<1>1. Busy(h)
  BY BusyAt DEF Upsert, Stages
<1>2. Now(h, "load", job[h].kind, job[h].no, job[h].rec)
  BY <1>1, GoIs DEF Upsert, Stages
<1>3. row \in Row
  BY DEF TypeOK
<1>4. row' = [row EXCEPT !.status = job[h].kind,
                         !.flags = IF job[h].kind \in Resets THEN {} ELSE @]
  BY DEF Upsert
<1>5. /\ job[h].kind \in Kinds => row' \in Row
      /\ row'.status = job[h].kind /\ row'.jdyId = row.jdyId
      /\ row'.flags = IF job[h].kind \in Resets THEN {} ELSE row.flags
  BY <1>3, <1>4 DEF Row
<1>6. QED
  BY <1>1, <1>2, <1>5 DEF Upsert

LEMMA LoadIs ==
    ASSUME TypeOK, NEW h \in Handlers, Load(h)
    PROVE  /\ Busy(h) /\ row \in Row
           /\ \/ job[h].kind # "COMPLETE" /\ Now(h, "append", job[h].kind, job[h].no, row)
              \/ job[h].kind = "COMPLETE" /\ Now(h, "overview", job[h].kind, job[h].no, row)
              \/ job[h].kind # "COMPLETE" /\ Ended(h)
<1>1. Busy(h)
  BY BusyAt DEF Load, Stages
<1>2. row \in Row
  BY DEF TypeOK
<1>3. CASE job[h].kind \in Signs \cup {"REJECT"} /\ Hold(h, row, "append")
  BY <1>1, <1>2, <1>3, HoldIs DEF Stages, Signs
<1>4. CASE job[h].kind = "COMPLETE" /\ Hold(h, row, "overview")
  BY <1>1, <1>2, <1>4, HoldIs DEF Stages
<1>5. CASE job[h].kind \notin Signs \cup {"REJECT", "COMPLETE"} /\ End(h)
  BY <1>1, <1>2, <1>5, EndIs
<1>6. QED
  BY <1>3, <1>4, <1>5 DEF Load, Signs

LEMMA AppendIs ==
    ASSUME TypeOK, NEW h \in Handlers, Append1(h)
    PROVE  /\ Busy(h) /\ row' = job[h].rec /\ row' \in Row
           /\ Now(h, "overview", job[h].kind, job[h].no, job[h].rec)
<1>1. Busy(h)
  BY BusyAt DEF Append1, Stages
<1>2. QED
  BY <1>1, GoIs, RecIsRow DEF Append1, SaveHeld, Stages

LEMMA OverviewIs ==
    ASSUME TypeOK, NEW h \in Handlers, Overview(h)
    PROVE  /\ Busy(h)
           /\ \/ /\ Linked(h) = None /\ row' = job[h].rec /\ row' \in Row
                 /\ Now(h, "create", job[h].kind, job[h].no, job[h].rec)
              \/ /\ Linked(h) # None \/ job[h].rec.status = "REVOKE"
                 /\ row' = row /\ Now(h, "act", job[h].kind, job[h].no, job[h].rec)
<1>1. Busy(h)
  BY BusyAt DEF Overview, Stages
<1>2. QED
  BY <1>1, GoIs, RecIsRow DEF Overview, SaveHeld, Stages

LEMMA CreateFormIs ==
    ASSUME TypeOK, NEW h \in Handlers, NEW form \in Copies, CreateForm(h, form)
    PROVE  /\ Busy(h) /\ form \notin DOMAIN shown /\ DOMAIN shown' = DOMAIN shown \cup {form}
           /\ \A f \in DOMAIN shown : shown'[f] = shown[f]
           /\ stage = "complete" => shown'[form] = "complete"
           /\ \E r \in Row : /\ Now(h, "link", job[h].kind, job[h].no, r)
                             /\ r.jdyId = form /\ r.flags = job[h].rec.flags
                             /\ r.status = job[h].rec.status
<1>1. Busy(h)
  BY BusyAt DEF CreateForm, Stages
<1>2. PICK r : r = [job[h].rec EXCEPT !.jdyId = form]
  OBVIOUS
<1>3. /\ r \in Row /\ r.jdyId = form /\ r.flags = job[h].rec.flags
      /\ r.status = job[h].rec.status
  <2>1. job[h].rec \in Row
    BY <1>1, RecIsRow
  <2>2. QED
    BY <1>2, <2>1 DEF Row, Forms
<1>4. Now(h, "link", job[h].kind, job[h].no, r)
  <2>1. Hold(h, r, "link")
    BY <1>2 DEF CreateForm
  <2>2. QED
    BY <1>1, <1>3, <2>1, HoldIs DEF Stages
<1>5. /\ form \notin DOMAIN shown /\ DOMAIN shown' = DOMAIN shown \cup {form}
      /\ \A f \in DOMAIN shown : shown'[f] = shown[f]
      /\ stage = "complete" => shown'[form] = "complete"
  BY DEF CreateForm, Put
<1>6. QED
  BY <1>1, <1>3, <1>4, <1>5

LEMMA LinkIs ==
    ASSUME TypeOK, NEW h \in Handlers, Link(h)
    PROVE  /\ Busy(h) /\ row' = job[h].rec /\ row' \in Row
           /\ Now(h, "act", job[h].kind, job[h].no, job[h].rec)
<1>1. Busy(h)
  BY BusyAt DEF Link, Stages
<1>2. QED
  BY <1>1, GoIs, RecIsRow DEF Link, SaveHeld, Stages

LEMMA ShowIs ==
    ASSUME NEW form, NEW s, Show(form, s)
    PROVE  /\ DOMAIN shown' = DOMAIN shown
           /\ \A f \in DOMAIN shown : shown'[f] = IF f = form THEN s ELSE shown[f]
BY DEF Show

LEMMA UploadIs ==
    ASSUME TypeOK, NEW h \in Handlers, Upload(h)
    PROVE  /\ Busy(h) /\ uploaded \subseteq uploaded' /\ uploaded' \subseteq Flags
           /\ \/ /\ Flag(job[h].kind) \in job[h].rec.flags /\ uploaded' = uploaded
                 /\ \E r \in Row : /\ Now(h, "show", job[h].kind, job[h].no, r)
                                   /\ r.jdyId = Linked(h) /\ r.flags = {}
              \/ /\ uploaded' = uploaded \cup {Flag(job[h].kind)}
                 /\ \E r \in Row :
                       /\ Now(h, "flag", job[h].kind, job[h].no, r)
                       /\ r.jdyId = Linked(h) /\ r.status = job[h].rec.status
                       /\ r.flags = job[h].rec.flags \cup {Flag(job[h].kind)}
<1>1. Busy(h)
  BY BusyAt DEF Upload, Stages
<1>2. PICK flag : flag = Flag(job[h].kind)
  OBVIOUS
<1>3. flag \in Flags /\ uploaded \subseteq Flags
  BY <1>2 DEF Flag, Flags, TypeOK
<1>4. CASE flag \in job[h].rec.flags /\ ToShow(h) /\ UNCHANGED uploaded
  BY <1>1, <1>2, <1>3, <1>4, ToShowIs
<1>5. CASE /\ uploaded' = uploaded \cup {flag}
           /\ Hold(h, [job[h].rec EXCEPT !.flags = @ \cup {flag}], "flag")
  <2>1. PICK r : r = [job[h].rec EXCEPT !.flags = @ \cup {flag}]
    OBVIOUS
  <2>2. /\ r \in Row /\ r.jdyId = Linked(h) /\ r.status = job[h].rec.status
        /\ r.flags = job[h].rec.flags \cup {flag}
    <3>1. job[h].rec \in Row
      BY <1>1, RecIsRow
    <3>2. QED
      BY <1>3, <2>1, <3>1 DEF Row, Linked
  <2>3. Now(h, "flag", job[h].kind, job[h].no, r)
    BY <1>1, <1>5, <2>1, <2>2, HoldIs DEF Stages
  <2>4. QED
    BY <1>1, <1>2, <1>3, <1>5, <2>2, <2>3
<1>6. QED
  BY <1>2, <1>4, <1>5 DEF Upload

LEMMA SaveFlagIs ==
    ASSUME TypeOK, NEW h \in Handlers, SaveFlag(h)
    PROVE  /\ Busy(h) /\ row' = job[h].rec /\ row' \in Row
           /\ \E r \in Row : /\ Now(h, "show", job[h].kind, job[h].no, r)
                             /\ r.jdyId = Linked(h) /\ r.flags = {}
<1>1. Busy(h)
  BY BusyAt DEF SaveFlag, Stages
<1>2. QED
  BY <1>1, ToShowIs, RecIsRow DEF SaveFlag, SaveHeld

LEMMA ShowNotifiedIs ==
    ASSUME TypeOK, NEW h \in Handlers, ShowNotified(h)
    PROVE  /\ Busy(h) /\ Ended(h) /\ DOMAIN shown' = DOMAIN shown
           /\ job[h].kind = "COMPLETE" => \A f \in DOMAIN shown :
                  shown'[f] = IF f = Linked(h) THEN "complete" ELSE shown[f]
<1>1. Busy(h)
  BY BusyAt DEF ShowNotified, Stages
<1>2. Ended(h)
  BY EndIs DEF ShowNotified
<1>3. /\ DOMAIN shown' = DOMAIN shown
      /\ job[h].kind = "COMPLETE" => \A f \in DOMAIN shown :
             shown'[f] = IF f = Linked(h) THEN "complete" ELSE shown[f]
  <2>1. CASE job[h].kind = "COMPLETE"
    <3>1. Show(Linked(h), "complete")
      BY <2>1 DEF ShowNotified
    <3>2. QED
      BY <3>1, ShowIs
  <2>2. CASE job[h].kind # "COMPLETE"
    <3>1. Show(Linked(h), "signed") \/ UNCHANGED shown
      BY <2>2 DEF ShowNotified
    <3>2. QED
      BY <2>2, <3>1, ShowIs
  <2>3. QED
    BY <2>1, <2>2
<1>4. QED
  BY <1>1, <1>2, <1>3

LEMMA UserActsIs ==
    ASSUME TypeOK, NEW h \in Handlers, NEW kind \in UserKinds, NEW form \in Forms,
           UserActs(h, kind, form)
    PROVE  /\ ~Busy(h) /\ form \in DOMAIN shown
           /\ IF kind = "create" THEN form = Original /\ stage = "none" ELSE TRUE
           /\ \E at \in {"call", "find"}, r \in Row :
                 Now(h, at, kind, 0, r) /\ r.jdyId = form /\ r.flags = {}
<1>1. PICK r : r = [NoRow EXCEPT !.jdyId = form]
  OBVIOUS
<1>2. r \in Row /\ r.jdyId = form /\ r.flags = {}
  BY <1>1 DEF NoRow, Row
<1>3. PICK at \in {"call", "find"} :
          at = IF kind \in {"create", "revoke"} THEN "call" ELSE "find"
  OBVIOUS
<1>4. PICK j : j = [at |-> at, kind |-> kind, no |-> 0, rec |-> r]
  OBVIOUS
<1>5. j \in Job /\ j.at = at /\ j.kind = kind /\ j.no = 0 /\ j.rec = r
  <2>1. 0 \in 0..MaxMail
    BY BoundAssumption
  <2>2. QED
    BY <1>2, <1>3, <1>4, <2>1 DEF Job
<1>6. job' = [job EXCEPT ![h] = j] /\ job \in [Handlers -> Job \cup {Idle}]
  BY <1>1, <1>3, <1>4 DEF UserActs, TypeOK
<1>7. Now(h, at, kind, 0, r)
  BY <1>5, <1>6 DEF Now, Others
<1>8. QED
  BY <1>2, <1>3, <1>7 DEF UserActs, Busy

LEMMA FindIs ==
    ASSUME TypeOK, NEW h \in Handlers, Find(h)
    PROVE  /\ Busy(h)
           /\ \/ job[h].kind # "create" /\ Ended(h)
              \/ /\ job[h].kind \in {"approve", "cancel"}
                 /\ \E r \in Row : /\ Now(h, "call", job[h].kind, job[h].no, r)
                                   /\ r.jdyId = Linked(h) /\ r.flags = row.flags
              \/ /\ job[h].kind = "resign" /\ row.status = "REJECT"
                 /\ Now(h, "show", job[h].kind, job[h].no, job[h].rec)
              \/ /\ job[h].kind = "create"
                 /\ \E r \in Row : /\ Now(h, "save", job[h].kind, job[h].no, r)
                                   /\ r.jdyId = Linked(h) /\ r.flags = row.flags
              \/ /\ job[h].kind # "create"
                 /\ Now(h, "call", job[h].kind, job[h].no, job[h].rec)
<1>1. Busy(h)
  BY BusyAt DEF Find, Stages
<1>2. row \in Row /\ Linked(h) \in Forms \cup {None}
  BY <1>1, RecIsRow DEF TypeOK
<1>3. PICK held : held = [row EXCEPT !.jdyId = Linked(h)]
  OBVIOUS
<1>4. /\ held \in Row /\ held.jdyId = Linked(h) /\ held.flags = row.flags
      /\ held.status = row.status
  BY <1>2, <1>3 DEF Row
<1>5. CASE job[h].kind # "create" /\ End(h)
  BY <1>1, <1>5, EndIs
<1>6. CASE job[h].kind \in {"approve", "cancel"} /\ Hold(h, held, "call")
  BY <1>1, <1>4, <1>6, HoldIs DEF Stages
<1>7. CASE job[h].kind = "resign" /\ row.status = "REJECT" /\ Go(h, "show")
  BY <1>1, <1>7, GoIs DEF Stages
<1>8. CASE /\ job[h].kind = "create"
           /\ Hold(h, [held EXCEPT !.status = IF row = NoRow THEN "none" ELSE "CREATED"], "save")
  <2>1. PICK r : r = [held EXCEPT !.status = IF row = NoRow THEN "none" ELSE "CREATED"]
    OBVIOUS
  <2>2. r \in Row /\ r.jdyId = Linked(h) /\ r.flags = row.flags
    BY <1>4, <2>1 DEF Row
  <2>3. Now(h, "save", job[h].kind, job[h].no, r)
    BY <1>1, <1>8, <2>1, <2>2, HoldIs DEF Stages
  <2>4. QED
    BY <1>1, <1>8, <2>2, <2>3
<1>9. CASE job[h].kind # "create" /\ Go(h, "call")
  BY <1>1, <1>9, GoIs DEF Stages
<1>10. QED
  <2> DEFINE kind == job[h].kind
  <2>1. CASE kind \in {"approve", "cancel"} /\ row.status = Desired(kind)
    BY <1>5, <2>1 DEF Find
  <2>2. CASE kind \in {"approve", "cancel"} /\ row.status # Desired(kind)
    BY <1>3, <1>6, <2>2 DEF Find
  <2>3. CASE kind = "sign" /\ row = NoRow
    BY <1>5, <2>3 DEF Find
  <2>4. CASE kind = "resign" /\ row.status = "REJECT"
    BY <1>7, <2>4 DEF Find
  <2>5. CASE kind = "create"
    BY <1>3, <1>8, <2>5 DEF Find
  <2>6. CASE /\ kind \notin {"approve", "cancel", "create"}
             /\ ~(kind = "sign" /\ row = NoRow)
             /\ ~(kind = "resign" /\ row.status = "REJECT")
    BY <1>9, <2>6 DEF Find
  <2>7. QED
    BY <2>1, <2>2, <2>3, <2>4, <2>5, <2>6

(* What happens at BestSign: nothing happens to a complete contract, and   *)
(* the notifications come in the order of the events.                      *)
Happens ==
    /\ stage # "complete"
    /\ stage' \in {"none", "draft", "sent", "rejected", "cancelled", "revoked", "complete"}
    /\ signed' \subseteq {"person", "company"}
    /\ mail' \in Seq(Kinds) /\ Len(mail') <= MaxMail /\ Len(mail) <= Len(mail')
    /\ \A i \in 1..Len(mail) : mail'[i] = mail[i]
    /\ mail = <<>> \/ mail' # <<>>
    /\ stage' \in {"none", "draft"} => stage \in {"none", "draft"} /\ mail' = mail
    /\ stage' = "complete" => Len(mail) < Len(mail') /\ mail'[Len(mail')] = "COMPLETE"

LEMMA SendIs ==
    ASSUME TypeOK, NEW kinds \in Seq(Kinds), Send(kinds)
    PROVE  /\ mail' \in Seq(Kinds) /\ Len(mail') = Len(mail) + Len(kinds)
           /\ Len(mail') <= MaxMail
           /\ \A i \in 1..Len(mail) : mail'[i] = mail[i]
           /\ \A i \in 1..Len(kinds) : mail'[Len(mail) + i] = kinds[i]
BY DEF TypeOK, Send

LEMMA KeepsMail ==
    ASSUME TypeOK, UNCHANGED mail
    PROVE  /\ mail' \in Seq(Kinds) /\ Len(mail') <= MaxMail /\ Len(mail) <= Len(mail')
           /\ \A i \in 1..Len(mail) : mail'[i] = mail[i]
           /\ mail = <<>> \/ mail' # <<>>
<1>1. Len(mail) \in Nat /\ mail \in Seq(Kinds) /\ Len(mail) <= MaxMail
  BY DEF TypeOK
<1>2. QED
  BY <1>1

LEMMA SendsOne ==
    ASSUME TypeOK, NEW kind \in Kinds, Send(<<kind>>)
    PROVE  /\ mail' \in Seq(Kinds) /\ Len(mail') <= MaxMail /\ Len(mail) <= Len(mail')
           /\ \A i \in 1..Len(mail) : mail'[i] = mail[i]
           /\ mail' # <<>>
<1>1. <<kind>> \in Seq(Kinds) /\ Len(<<kind>>) = 1 /\ Len(mail) \in Nat
  BY DEF TypeOK
<1>2. /\ mail' \in Seq(Kinds) /\ Len(mail') = Len(mail) + 1 /\ Len(mail') <= MaxMail
      /\ \A i \in 1..Len(mail) : mail'[i] = mail[i]
  BY <1>1, SendIs
<1>3. mail' # <<>>
  <2> SUFFICES ASSUME mail' = <<>> PROVE FALSE
    OBVIOUS
  <2>1. Len(mail') = 0
    OBVIOUS
  <2>2. QED
    BY <1>1, <1>2, <2>1
<1>4. QED
  BY <1>1, <1>2, <1>3

LEMMA SignsHappens ==
    ASSUME TypeOK, NEW who \in {"person", "company"}, Signs2(who)
    PROVE  Happens /\ stage = "sent"
<1>1. stage = "sent" /\ signed' \subseteq {"person", "company"}
  BY DEF Signs2, TypeOK
<1>2. PICK one \in {"SIGN", "SIGN_ENT"} : one = IF who = "person" THEN "SIGN" ELSE "SIGN_ENT"
  OBVIOUS
<1>3. one \in Kinds /\ "COMPLETE" \in Kinds
  BY DEF Kinds, Signs
<1>4. CASE stage' = "complete" /\ Send(<<one, "COMPLETE">>)
  <2>1. <<one, "COMPLETE">> \in Seq(Kinds) /\ Len(<<one, "COMPLETE">>) = 2
        /\ Len(mail) \in Nat /\ <<one, "COMPLETE">>[2] = "COMPLETE" /\ 2 \in 1..2
    BY <1>3 DEF TypeOK
  <2>2. PICK kinds \in Seq(Kinds) : /\ kinds = <<one, "COMPLETE">>
                                    /\ Len(kinds) = 2 /\ kinds[2] = "COMPLETE"
    BY <2>1
  <2>3. /\ mail' \in Seq(Kinds) /\ Len(mail') = Len(mail) + 2 /\ Len(mail') <= MaxMail
        /\ \A i \in 1..Len(mail) : mail'[i] = mail[i]
        /\ mail'[Len(mail) + 2] = "COMPLETE"
    <3>1. /\ mail' \in Seq(Kinds) /\ Len(mail') = Len(mail) + 2 /\ Len(mail') <= MaxMail
          /\ \A i \in 1..Len(mail) : mail'[i] = mail[i]
          /\ \A i \in 1..2 : mail'[Len(mail) + i] = kinds[i]
      BY <1>4, <2>2, SendIs
    <3>2. QED
      BY <2>1, <2>2, <3>1
  <2>4. mail' # <<>>
    <3> SUFFICES ASSUME mail' = <<>> PROVE FALSE
      OBVIOUS
    <3>1. Len(mail') = 0
      OBVIOUS
    <3>2. QED
      BY <2>1, <2>3, <3>1
  <2>5. Len(mail) <= Len(mail') /\ Len(mail) < Len(mail') /\ mail'[Len(mail')] = "COMPLETE"
    BY <2>1, <2>3
  <2>6. QED
    BY <1>1, <1>4, <2>3, <2>4, <2>5 DEF Happens
<1>5. CASE stage' = stage /\ Send(<<one>>)
  BY <1>1, <1>3, <1>5, SendsOne DEF Happens
<1>6. QED
  BY <1>2, <1>4, <1>5 DEF Signs2

LEMMA CallIs ==
    ASSUME TypeOK, NEW h \in Handlers, job[h].kind \in UserKinds, CallAccepted(h)
    PROVE  /\ Busy(h) /\ Happens
           /\ stage = "none" => job[h].kind = "create"
           /\ \/ job[h].kind = "create" /\ Now(h, "find", job[h].kind, job[h].no, job[h].rec)
              \/ /\ job[h].kind \in {"approve", "cancel"} /\ stage = "draft"
                 /\ Now(h, "save", job[h].kind, job[h].no, job[h].rec)
              \/ /\ job[h].kind \notin {"create", "approve", "cancel"}
                 /\ Now(h, "show", job[h].kind, job[h].no, job[h].rec)
<1>1. Busy(h)
  BY BusyAt DEF CallAccepted, Stages
<1>2. \/ job[h].kind = "create" /\ Now(h, "find", job[h].kind, job[h].no, job[h].rec)
      \/ /\ job[h].kind \in {"approve", "cancel"}
         /\ Now(h, "save", job[h].kind, job[h].no, job[h].rec)
      \/ /\ job[h].kind \notin {"create", "approve", "cancel"}
         /\ Now(h, "show", job[h].kind, job[h].no, job[h].rec)
  BY <1>1, GoIs DEF CallAccepted, Stages
<1>3. Accepts(job[h].kind)
  BY DEF CallAccepted
<1>4. /\ "SEND" \in Kinds /\ "REVOKE" \in Kinds /\ signed \subseteq {"person", "company"}
  BY DEF Kinds, Resets, TypeOK
<1>5. job[h].kind \in {"create", "approve", "cancel", "sign", "resign", "revoke"}
  BY KindAssumption
<1>6. CASE job[h].kind = "create"
  <2>1. /\ stage = "none" /\ signed' = signed
        /\ \/ stage' = "draft" /\ mail' = mail
           \/ stage' = "sent" /\ Send(<<"SEND">>)
    BY <1>3, <1>6 DEF Accepts
  <2>2. QED
    BY <1>1, <1>2, <1>4, <1>6, <2>1, SendsOne, KeepsMail DEF Happens
<1>7. CASE job[h].kind = "approve"
  <2>1. stage = "draft" /\ signed' = signed /\ stage' = "sent" /\ Send(<<"SEND">>)
    BY <1>3, <1>7 DEF Accepts
  <2>2. QED
    BY <1>1, <1>2, <1>4, <1>7, <2>1, SendsOne DEF Happens
<1>8. CASE job[h].kind = "cancel"
  <2>1. stage = "draft" /\ signed' = signed /\ stage' = "cancelled" /\ mail' = mail
    BY <1>3, <1>8 DEF Accepts
  <2>2. QED
    BY <1>1, <1>2, <1>4, <1>8, <2>1, KeepsMail DEF Happens
<1>9. CASE job[h].kind = "sign"
  <2>1. Signs2("company")
    BY <1>3, <1>9 DEF Accepts
  <2>2. QED
    BY <1>1, <1>2, <1>9, <2>1, SignsHappens
<1>10. CASE job[h].kind = "resign"
  <2>1. /\ stage \in {"rejected", "sent"} /\ stage' = "sent" /\ mail' = mail
        /\ signed' = signed \ {"person"}
    BY <1>3, <1>10 DEF Accepts
  <2>2. QED
    BY <1>1, <1>2, <1>4, <1>10, <2>1, KeepsMail DEF Happens
<1>11. CASE job[h].kind = "revoke"
  <2>1. /\ stage \in {"draft", "sent", "rejected"} /\ stage' = "revoked"
        /\ Send(<<"REVOKE">>) /\ signed' = signed
    BY <1>3, <1>11 DEF Accepts
  <2>2. QED
    BY <1>1, <1>2, <1>4, <1>11, <2>1, SendsOne DEF Happens
<1>12. QED
  BY <1>5, <1>6, <1>7, <1>8, <1>9, <1>10, <1>11

LEMMA SaveCalledIs ==
    ASSUME TypeOK, NEW h \in Handlers, SaveCalled(h)
    PROVE  /\ Busy(h)
           /\ \/ Ended(h) /\ row # NoRow /\ row' = row
              \/ /\ row' \in Row /\ row'.jdyId = Linked(h) /\ row'.flags = job[h].rec.flags
                 /\ \/ Ended(h)
                    \/ \E r \in Row : /\ Now(h, "show", job[h].kind, job[h].no, r)
                                      /\ r.jdyId = Linked(h) /\ r.flags = {}
<1>1. Busy(h) /\ job[h].rec \in Row
  BY BusyAt, RecIsRow DEF SaveCalled, Stages
<1>2. PICK next \in {"CREATED", "APPROVE", "CANCEL"} :
          next = IF job[h].kind = "create" THEN "CREATED" ELSE Desired(job[h].kind)
  BY DEF Desired
<1>3. PICK r : r = [job[h].rec EXCEPT !.status = next]
  OBVIOUS
<1>4. r \in Row /\ r.jdyId = Linked(h) /\ r.flags = job[h].rec.flags
  BY <1>1, <1>2, <1>3 DEF Row, Linked
<1>5. \/ End(h) /\ row # NoRow /\ row' = row
      \/ row' = r /\ (End(h) \/ ToShow(h))
  BY <1>2, <1>3 DEF SaveCalled
<1>6. QED
  BY <1>1, <1>4, <1>5, EndIs, ToShowIs

LEMMA ShowCalledIs ==
    ASSUME TypeOK, NEW h \in Handlers, ShowCalled(h)
    PROVE  /\ Busy(h) /\ row \in Row /\ DOMAIN shown' = DOMAIN shown
           /\ \/ Ended(h)
              \/ row # NoRow /\ Now(h, "reset", job[h].kind, job[h].no, row)
<1>1. Busy(h) /\ row \in Row
  BY BusyAt DEF ShowCalled, Stages, TypeOK
<1>2. DOMAIN shown' = DOMAIN shown
  BY DEF ShowCalled, Show
<1>3. (row # NoRow /\ Hold(h, row, "reset")) \/ End(h)
  BY DEF ShowCalled
<1>4. QED
  BY <1>1, <1>2, <1>3, EndIs, HoldIs DEF Stages

LEMMA ResetFlagsIs ==
    ASSUME TypeOK, NEW h \in Handlers, ResetFlags(h)
    PROVE  /\ Busy(h) /\ Ended(h)
           /\ row' \in Row /\ row'.jdyId = Linked(h) /\ row'.flags = {}
<1>1. Busy(h) /\ job[h].rec \in Row
  BY BusyAt, RecIsRow DEF ResetFlags, Stages
<1>2. row' \in Row /\ row'.jdyId = Linked(h) /\ row'.flags = {}
  BY <1>1 DEF ResetFlags, Row, Linked
<1>3. QED
  BY <1>1, <1>2, EndIs DEF ResetFlags

LEMMA FailsIs ==
    ASSUME TypeOK, NEW h \in Handlers, Fails(h)
    PROVE  /\ Busy(h) /\ faults' # 0 /\ faults' \in 0..MaxFaults
           /\ \/ Ended(h)
              \/ /\ At(h, {"overview", "create", "link"})
                 /\ Now(h, "act", job[h].kind, job[h].no, job[h].rec)
<1>1. Busy(h)
  BY DEF Fails, Busy
<1>2. faults' # 0 /\ faults' \in 0..MaxFaults
  BY BoundAssumption DEF Fails, TypeOK
<1>3. CASE End(h)
  BY <1>1, <1>2, <1>3, EndIs
<1>4. CASE At(h, {"overview", "create", "link"}) /\ Go(h, "act")
  BY <1>1, <1>2, <1>4, GoIs DEF Stages
<1>5. QED
  BY <1>3, <1>4 DEF Fails

-----------------------------------------------------------------------------
(* Types, and the stages of the handlers *)

(* Beside the handler that moves, the handlers are what they were.         *)
LEMMA NowIsBusy ==
    ASSUME NEW h \in Handlers, NEW at \in Stages, NEW kind, NEW no, NEW rec,
           Now(h, at, kind, no, rec)
    PROVE  /\ job'[h] \in Job /\ job'[h] # Idle
           /\ job'[h].at = at /\ job'[h].kind = kind /\ job'[h].no = no /\ job'[h].rec = rec
           /\ \A g \in Handlers : g # h => job'[g] = job[g]
BY JobIsIdleOrBusy DEF Now, Others

LEMMA EndedIsIdle ==
    ASSUME NEW h \in Handlers, Ended(h)
    PROVE  job'[h] = Idle /\ \A g \in Handlers : g # h => job'[g] = job[g]
BY DEF Ended, Others

BaseInv == TypeOK /\ JobsInv

LEMMA JobsOfUsers ==
    ASSUME BaseInv, NEW h \in Handlers, Busy(h)
    PROVE  /\ At(h, {"call", "find", "save", "reset"}) =>
                  job[h].no = 0 /\ job[h].kind \in UserKinds
           /\ At(h, {"upsert", "load", "append", "overview", "create", "link", "act", "flag"}) =>
                  /\ job[h].no > 0 /\ job[h].no <= newest /\ job[h].kind \in Kinds
                  /\ job[h].kind = mail[job[h].no] /\ job[h].no \in 1..Len(mail)
           /\ job[h].no \in 0..MaxMail
<1>1. job[h].no \in 0..MaxMail /\ mail \in Seq(Kinds) /\ newest \in Nat /\ Len(mail) \in Nat
  BY RecIsRow, BoundAssumption DEF BaseInv, TypeOK
<1>2. job[h].no # 0 => job[h].no > 0 /\ job[h].no \in 1..Len(mail)
  BY <1>1 DEF BaseInv, JobsInv
<1>3. QED
  BY <1>1, <1>2 DEF BaseInv, JobsInv, At

LEMMA TypeByParts ==
    ASSUME TypeOK, stage' = stage, signed' = signed, mail' = mail, acts' = acts,
           newest' = newest, inOrder' = inOrder, crossed' \in BOOLEAN,
           faults' \in 0..MaxFaults, uploaded' \subseteq Flags,
           DOMAIN shown' \subseteq Forms, row' \in Row,
           job' \in [Handlers -> Job \cup {Idle}]
    PROVE  TypeOK'
BY DEF TypeOK

(* The stages a handler of a notification, or of a user, can come to.      *)
Fits(kind, no, at) ==
    IF no = 0 THEN at \in {"call", "find", "save", "show", "reset"}
    ELSE /\ at \in {"upsert", "load", "append", "overview", "create", "link", "act", "flag",
                    "show"}
         /\ at = "append" => kind # "COMPLETE"

LEMMA JobsByParts ==
    ASSUME BaseInv, NEW h \in Handlers, Busy(h), newest' = newest, mail' = mail,
           Ended(h) \/ \E at \in Stages, rec \in Row :
               /\ Now(h, at, job[h].kind, job[h].no, rec)
               /\ Fits(job[h].kind, job[h].no, at)
    PROVE  JobsInv'
<1>1. newest' <= Len(mail')
  BY DEF BaseInv, JobsInv
<1>2. ASSUME NEW g \in Handlers, job'[g] # Idle
      PROVE  IF job'[g].no = 0
             THEN /\ job'[g].kind \in UserKinds
                  /\ job'[g].at \in {"call", "find", "save", "show", "reset"}
             ELSE /\ job'[g].no <= newest' /\ job'[g].kind = mail'[job'[g].no]
                  /\ job'[g].at \in {"upsert", "load", "append", "overview", "create", "link",
                                     "act", "flag", "show"}
                  /\ job'[g].at = "append" => job'[g].kind # "COMPLETE"
  <2>1. CASE g # h
    <3>1. job'[g] = job[g]
      BY <2>1, EndedIsIdle, NowIsBusy
    <3>2. QED
      BY <1>2, <3>1 DEF BaseInv, JobsInv, Busy, At
  <2>2. CASE g = h
    <3>1. PICK at \in Stages, rec \in Row :
              /\ Now(h, at, job[h].kind, job[h].no, rec)
              /\ Fits(job[h].kind, job[h].no, at)
      BY <1>2, <2>2, EndedIsIdle
    <3>2. job'[h].at = at /\ job'[h].kind = job[h].kind /\ job'[h].no = job[h].no
      BY <3>1, NowIsBusy
    <3>3. QED
      BY <2>2, <3>1, <3>2 DEF BaseInv, JobsInv, Busy, Fits
  <2>3. QED
    BY <2>1, <2>2
<1>3. QED
  BY <1>1, <1>2 DEF JobsInv, Busy, At

LEMMA BaseInit == Init => BaseInv
<1> SUFFICES ASSUME Init PROVE BaseInv
  OBVIOUS
<1>1. MaxMail \in Nat \ {0} /\ MaxActs \in Nat /\ MaxFaults \in Nat
  BY BoundAssumption
<1>2. mail \in Seq(Kinds) /\ Len(mail) <= MaxMail /\ 0 <= Len(mail)
  <2>1. CASE mail = <<>>
    BY <1>1, <2>1
  <2>2. CASE mail = <<"SEND">>
    <3>1. "SEND" \in Kinds
      BY DEF Kinds
    <3>2. <<"SEND">> \in Seq(Kinds) /\ Len(<<"SEND">>) = 1
      BY <3>1
    <3>3. QED
      BY <1>1, <2>2, <3>2
  <2>3. QED
    BY <2>1, <2>2 DEF Init
<1>3. DOMAIN shown \subseteq Forms
  BY DEF Init, Forms
<1>4. TypeOK
  <2>1. row \in Row
    BY DEF Init, NoRow, Row
  <2>2. job \in [Handlers -> Job \cup {Idle}]
    BY DEF Init
  <2>3. /\ stage \in {"none", "draft", "sent", "rejected", "cancelled", "revoked", "complete"}
        /\ signed \subseteq {"person", "company"} /\ uploaded \subseteq Flags
        /\ newest \in 0..MaxMail /\ acts \in 0..MaxActs /\ faults \in 0..MaxFaults
    BY <1>1 DEF Init
  <2>4. inOrder \in BOOLEAN /\ crossed \in BOOLEAN
    BY DEF Init
  <2>5. QED
    BY <1>2, <1>3, <2>1, <2>2, <2>3, <2>4 DEF TypeOK
<1>5. JobsInv
  BY <1>2 DEF Init, JobsInv, Busy
<1>6. QED
  BY <1>4, <1>5 DEF BaseInv

LEMMA BaseOfBestSign ==
    ASSUME BaseInv, Happens, UNCHANGED <<row, shown, uploaded, history, faults>>,
           acts' \in 0..MaxActs, job' \in [Handlers -> Job \cup {Idle}]
    PROVE  TypeOK'
BY DEF BaseInv, TypeOK, Happens, history

LEMMA BaseOfHandlers ==
    ASSUME BaseInv, NEW h \in Handlers,
           \/ Upsert(h) \/ Load(h) \/ Append1(h) \/ Overview(h)
           \/ \E form \in Copies : CreateForm(h, form)
           \/ Link(h) \/ Unlinked(h) \/ Rejected(h) \/ Upload(h) \/ SaveFlag(h) \/ ShowNotified(h)
    PROVE  BaseInv'
<1> DEFINE Moves == Ended(h) \/ \E at \in Stages, rec \in Row :
                        /\ Now(h, at, job[h].kind, job[h].no, rec)
                        /\ Fits(job[h].kind, job[h].no, at)
<1>1. TypeOK /\ row \in Row /\ uploaded \subseteq Flags /\ crossed \in BOOLEAN
      /\ faults \in 0..MaxFaults /\ DOMAIN shown \subseteq Forms
  BY DEF BaseInv, TypeOK
<1>2. ASSUME Busy(h), Moves, UNCHANGED <<bestSign, newest, inOrder>>,
             crossed' \in BOOLEAN, faults' \in 0..MaxFaults, uploaded' \subseteq Flags,
             DOMAIN shown' \subseteq Forms, row' \in Row
      PROVE  BaseInv'
  <2>1. job' \in [Handlers -> Job \cup {Idle}]
    BY <1>2 DEF Ended, Now
  <2>2. TypeOK'
    BY <1>1, <1>2, <2>1, TypeByParts DEF bestSign
  <2>3. JobsInv'
    BY <1>2, JobsByParts DEF bestSign
  <2>4. QED
    BY <2>2, <2>3 DEF BaseInv
<1>3. CASE Upsert(h)
  <2>1. /\ Busy(h) /\ Now(h, "load", job[h].kind, job[h].no, job[h].rec)
        /\ At(h, {"upsert"})
    BY <1>1, <1>3, UpsertIs DEF Upsert
  <2>2. /\ job[h].no > 0 /\ job[h].kind \in Kinds /\ job[h].rec \in Row /\ job[h].no # 0
    BY <1>1, <2>1, JobsOfUsers, RecIsRow DEF At
  <2>3. row' \in Row /\ uploaded' \subseteq Flags /\ crossed' \in BOOLEAN
    BY <1>1, <1>3, <2>2, UpsertIs DEF OpenRound
  <2>4. Moves
    BY <2>1, <2>2 DEF Fits, Stages
  <2>5. QED
    BY <1>1, <1>2, <1>3, <2>1, <2>3, <2>4 DEF Upsert
<1>4. CASE Load(h)
  <2>1. Busy(h) /\ job[h].no # 0
    BY <1>1, <1>4, LoadIs, JobsOfUsers DEF Load, At
  <2>2. Moves
    BY <1>1, <1>4, <2>1, LoadIs DEF Fits, Stages
  <2>3. QED
    BY <1>1, <1>2, <1>4, <2>1, <2>2 DEF Load, history
<1>5. CASE Append1(h)
  <2>1. Busy(h) /\ job[h].no # 0
    BY <1>1, <1>5, AppendIs, JobsOfUsers DEF Append1, At
  <2>2. Moves /\ row' \in Row
    BY <1>1, <1>5, <2>1, AppendIs, RecIsRow DEF Fits, Stages
  <2>3. QED
    BY <1>1, <1>2, <1>5, <2>1, <2>2 DEF Append1, history
<1>6. CASE Overview(h)
  <2>1. Busy(h) /\ job[h].no # 0
    BY <1>1, <1>6, OverviewIs, JobsOfUsers DEF Overview, At
  <2>2. Moves /\ row' \in Row
    BY <1>1, <1>6, <2>1, OverviewIs, RecIsRow DEF Fits, Stages
  <2>3. QED
    BY <1>1, <1>2, <1>6, <2>1, <2>2 DEF Overview, history
<1>7. ASSUME NEW form \in Copies, CreateForm(h, form) PROVE BaseInv'
  <2>1. Busy(h) /\ job[h].no # 0
    <3>1. At(h, {"create"})
      BY <1>7 DEF CreateForm
    <3>2. Busy(h)
      BY <1>1, <3>1, BusyAt DEF Stages
    <3>3. QED
      BY <3>1, <3>2, JobsOfUsers DEF At
  <2>2. Moves
    BY <1>1, <1>7, <2>1, CreateFormIs DEF Fits, Stages
  <2>3. DOMAIN shown' \subseteq Forms
    <3>1. DOMAIN shown' = DOMAIN shown \cup {form}
      BY <1>1, <1>7, CreateFormIs
    <3>2. QED
      BY <1>1, <3>1 DEF Forms
  <2>4. QED
    BY <1>1, <1>2, <1>7, <2>1, <2>2, <2>3 DEF CreateForm, history
<1>8. CASE Link(h)
  <2>1. Busy(h) /\ job[h].no # 0
    BY <1>1, <1>8, LinkIs, JobsOfUsers DEF Link, At
  <2>2. Moves /\ row' \in Row
    BY <1>1, <1>8, <2>1, LinkIs, RecIsRow DEF Fits, Stages
  <2>3. QED
    BY <1>1, <1>2, <1>8, <2>1, <2>2 DEF Link, history
<1>9. CASE Unlinked(h)
  <2>1. Busy(h) /\ Ended(h)
    BY <1>1, <1>9, BusyAt, EndIs DEF Unlinked, Stages
  <2>2. QED
    BY <1>1, <1>2, <1>9, <2>1 DEF Unlinked, history
<1>10. CASE Rejected(h)
  <2>1. Busy(h) /\ Ended(h)
    BY <1>1, <1>10, BusyAt, EndIs DEF Rejected, Stages
  <2>2. DOMAIN shown' = DOMAIN shown
    BY <1>10 DEF Rejected, Show
  <2>3. QED
    BY <1>1, <1>2, <1>10, <2>1, <2>2 DEF Rejected, history
<1>11. CASE Upload(h)
  <2>1. Busy(h) /\ job[h].no # 0
    <3>1. At(h, {"act"})
      BY <1>11 DEF Upload
    <3>2. Busy(h)
      BY <1>1, <3>1, BusyAt DEF Stages
    <3>3. QED
      BY <3>1, <3>2, JobsOfUsers DEF At
  <2>2. Moves /\ uploaded' \subseteq Flags
    BY <1>1, <1>11, <2>1, UploadIs DEF Fits, Stages
  <2>3. QED
    BY <1>1, <1>2, <1>11, <2>1, <2>2 DEF Upload, history
<1>12. CASE SaveFlag(h)
  <2>1. Busy(h) /\ job[h].no # 0
    BY <1>1, <1>12, SaveFlagIs, JobsOfUsers DEF SaveFlag, At
  <2>2. Moves /\ row' \in Row
    BY <1>1, <1>12, <2>1, SaveFlagIs DEF Fits, Stages
  <2>3. QED
    BY <1>1, <1>2, <1>12, <2>1, <2>2 DEF SaveFlag, history
<1>13. CASE ShowNotified(h)
  <2>1. Busy(h) /\ Ended(h) /\ DOMAIN shown' = DOMAIN shown
    BY <1>1, <1>13, ShowNotifiedIs
  <2>2. QED
    BY <1>1, <1>2, <1>13, <2>1 DEF ShowNotified, history
<1>14. QED
  BY <1>3, <1>4, <1>5, <1>6, <1>7, <1>8, <1>9, <1>10, <1>11, <1>12, <1>13

LEMMA BaseOfUsers ==
    ASSUME BaseInv, NEW h \in Handlers,
           \/ \E kind \in UserKinds, form \in Forms : UserActs(h, kind, form)
           \/ Find(h) \/ CallAccepted(h) \/ CallRefused(h) \/ SaveCalled(h) \/ ShowCalled(h)
           \/ ResetFlags(h) \/ Fails(h)
    PROVE  BaseInv'
<1> DEFINE Moves == Ended(h) \/ \E at \in Stages, rec \in Row :
                        /\ Now(h, at, job[h].kind, job[h].no, rec)
                        /\ Fits(job[h].kind, job[h].no, at)
<1>1. TypeOK /\ row \in Row /\ uploaded \subseteq Flags /\ crossed \in BOOLEAN
      /\ faults \in 0..MaxFaults /\ DOMAIN shown \subseteq Forms
  BY DEF BaseInv, TypeOK
<1>2. ASSUME Busy(h), Moves, UNCHANGED <<bestSign, newest, inOrder>>,
             crossed' \in BOOLEAN, faults' \in 0..MaxFaults, uploaded' \subseteq Flags,
             DOMAIN shown' \subseteq Forms, row' \in Row
      PROVE  BaseInv'
  <2>1. job' \in [Handlers -> Job \cup {Idle}]
    BY <1>2 DEF Ended, Now
  <2>2. TypeOK'
    BY <1>1, <1>2, <2>1, TypeByParts DEF bestSign
  <2>3. JobsInv'
    BY <1>2, JobsByParts DEF bestSign
  <2>4. QED
    BY <2>2, <2>3 DEF BaseInv
<1>3. ASSUME NEW S, S \subseteq {"call", "find", "save", "reset"}, At(h, S)
      PROVE  Busy(h) /\ job[h].no = 0 /\ job[h].kind \in UserKinds
  <2>1. Busy(h)
    BY <1>1, <1>3, BusyAt DEF Stages
  <2>2. QED
    BY <1>3, <2>1, JobsOfUsers DEF At
<1>4. ASSUME NEW kind \in UserKinds, NEW form \in Forms, UserActs(h, kind, form)
      PROVE  BaseInv'
  <2>1. PICK at \in {"call", "find"}, r \in Row : Now(h, at, kind, 0, r)
    BY <1>1, <1>4, UserActsIs
  <2>2. /\ job' \in [Handlers -> Job \cup {Idle}]
        /\ job'[h].at = at /\ job'[h].kind = kind /\ job'[h].no = 0
        /\ \A g \in Handlers : g # h => job'[g] = job[g]
    BY <2>1 DEF Now, Others
  <2>3. TypeOK'
    <3>1. acts' \in 0..MaxActs
      BY <1>1, <1>4, BoundAssumption DEF UserActs, TypeOK
    <3>2. inOrder' \in BOOLEAN
      BY <1>1, <1>4 DEF UserActs, TypeOK
    <3>3. QED
      BY <1>1, <1>4, <2>2, <3>1, <3>2 DEF UserActs, TypeOK
  <2>4. JobsInv'
    BY <1>4, <2>2 DEF UserActs, BaseInv, JobsInv, Busy, At
  <2>5. QED
    BY <2>3, <2>4 DEF BaseInv
<1>5. CASE Find(h)
  <2>1. Busy(h) /\ job[h].no = 0
    BY <1>3, <1>5 DEF Find
  <2>2. Moves
    <3>1. job[h].rec \in Row
      BY <1>1, <2>1, RecIsRow
    <3>2. QED
      BY <1>1, <1>5, <2>1, <3>1, FindIs DEF Fits, Stages
  <2>3. QED
    BY <1>1, <1>2, <1>5, <2>1, <2>2 DEF Find, history
<1>6. CASE CallAccepted(h)
  <2>1. Busy(h) /\ job[h].no = 0 /\ job[h].kind \in UserKinds
    BY <1>3, <1>6 DEF CallAccepted
  <2>2. PICK at \in {"find", "save", "show"} :
            Now(h, at, job[h].kind, job[h].no, job[h].rec)
    BY <1>1, <1>6, <2>1, CallIs
  <2>3. Happens
    BY <1>1, <1>6, <2>1, CallIs
  <2>4. /\ job' \in [Handlers -> Job \cup {Idle}]
        /\ job'[h].at = at /\ job'[h].kind = job[h].kind /\ job'[h].no = 0
        /\ \A g \in Handlers : g # h => job'[g] = job[g]
    BY <2>1, <2>2 DEF Now, Others
  <2>5. TypeOK'
    BY <1>1, <1>6, <2>3, <2>4, BaseOfBestSign DEF CallAccepted, TypeOK
  <2>6. JobsInv'
    <3>1. newest' <= Len(mail')
      BY <1>1, <1>6, <2>3 DEF CallAccepted, history, Happens, BaseInv, JobsInv, TypeOK
    <3>2. ASSUME NEW g \in Handlers, g # h, Busy(g), job[g].no # 0
          PROVE  job[g].no <= newest /\ mail'[job[g].no] = mail[job[g].no]
      <4>1. job[g].no \in 1..Len(mail) /\ job[g].no <= newest
        <5>1. job[g].no \in 0..MaxMail /\ newest \in 0..MaxMail /\ Len(mail) \in Nat
          BY <1>1, <3>2, RecIsRow DEF TypeOK
        <5>2. QED
          BY <3>2, <5>1, BoundAssumption DEF BaseInv, JobsInv
      <4>2. QED
        BY <2>3, <4>1 DEF Happens
    <3>3. QED
      BY <1>6, <2>1, <2>4, <3>1, <3>2 DEF CallAccepted, history, BaseInv, JobsInv, Busy, At
  <2>7. QED
    BY <2>5, <2>6 DEF BaseInv
<1>7. CASE CallRefused(h)
  <2>1. Busy(h) /\ Ended(h)
    BY <1>1, <1>3, <1>7, EndIs DEF CallRefused
  <2>2. QED
    BY <1>1, <1>2, <1>7, <2>1 DEF CallRefused, history
<1>8. CASE SaveCalled(h)
  <2>1. Busy(h) /\ job[h].no = 0
    BY <1>3, <1>8 DEF SaveCalled
  <2>2. Moves /\ row' \in Row
    BY <1>1, <1>8, <2>1, SaveCalledIs DEF Fits, Stages
  <2>3. QED
    BY <1>1, <1>2, <1>8, <2>1, <2>2 DEF SaveCalled, history
<1>9. CASE ShowCalled(h)
  <2>1. Busy(h) /\ job[h].no = 0
    <3>1. Busy(h) /\ job[h].kind \in UserKinds
      BY <1>1, <1>9, ShowCalledIs DEF ShowCalled
    <3>2. job[h].kind \notin Kinds
      BY <3>1, KindAssumption DEF Kinds, Signs, Resets
    <3>3. job[h].no = 0 \/ job[h].kind \in Kinds
      <4>1. job[h].no \in Nat /\ newest \in Nat /\ mail \in Seq(Kinds) /\ Len(mail) \in Nat
        BY <1>1, <3>1, RecIsRow, BoundAssumption DEF TypeOK
      <4>2. QED
        BY <3>1, <4>1 DEF BaseInv, JobsInv
    <3>4. QED
      BY <3>1, <3>2, <3>3
  <2>2. Moves /\ DOMAIN shown' \subseteq Forms
    BY <1>1, <1>9, <2>1, ShowCalledIs DEF Fits, Stages
  <2>3. QED
    BY <1>1, <1>2, <1>9, <2>1, <2>2 DEF ShowCalled, history
<1>10. CASE ResetFlags(h)
  <2>1. Busy(h) /\ Ended(h) /\ row' \in Row
    BY <1>1, <1>10, ResetFlagsIs
  <2>2. crossed' \in BOOLEAN /\ uploaded' \subseteq Flags
    BY <1>1, <1>10 DEF ResetFlags, OpenRound
  <2>3. QED
    BY <1>1, <1>2, <1>10, <2>1, <2>2 DEF ResetFlags
<1>11. CASE Fails(h)
  <2>1. Busy(h) /\ faults' \in 0..MaxFaults
    BY <1>1, <1>11, FailsIs
  <2>2. Moves
    <3>1. CASE Ended(h)
      BY <3>1
    <3>2. CASE /\ At(h, {"overview", "create", "link"})
               /\ Now(h, "act", job[h].kind, job[h].no, job[h].rec)
      <4>1. job[h].no # 0 /\ job[h].rec \in Row
        BY <1>1, <2>1, <3>2, JobsOfUsers, RecIsRow DEF At
      <4>2. QED
        BY <3>2, <4>1 DEF Fits, Stages
    <3>3. QED
      BY <1>1, <1>11, <3>1, <3>2, FailsIs
  <2>3. QED
    BY <1>1, <1>2, <1>11, <2>1, <2>2 DEF Fails, history
<1>12. QED
  BY <1>4, <1>5, <1>6, <1>7, <1>8, <1>9, <1>10, <1>11

LEMMA BaseStep == BaseInv /\ [Next]_vars => BaseInv'
<1> SUFFICES ASSUME BaseInv, [Next]_vars PROVE BaseInv'
  OBVIOUS
<1>1. TypeOK /\ job \in [Handlers -> Job \cup {Idle}]
  BY DEF BaseInv, TypeOK
<1>2. ASSUME Happens, UNCHANGED <<acts, row, shown, uploaded, job, history, faults>>
      PROVE  BaseInv'
  <2>1. TypeOK'
    BY <1>1, <1>2, BaseOfBestSign DEF TypeOK
  <2>2. newest' <= Len(mail')
    BY <1>1, <1>2 DEF history, Happens, BaseInv, JobsInv, TypeOK
  <2>3. ASSUME NEW g \in Handlers, Busy(g), job[g].no # 0
        PROVE  job[g].no <= newest /\ mail'[job[g].no] = mail[job[g].no]
    <3>1. job[g].no \in 1..Len(mail) /\ job[g].no <= newest
      <4>1. job[g].no \in 0..MaxMail /\ newest \in 0..MaxMail /\ Len(mail) \in Nat
        BY <1>1, <2>3, RecIsRow DEF TypeOK
      <4>2. QED
        BY <2>3, <4>1, BoundAssumption DEF BaseInv, JobsInv
    <3>2. QED
      BY <1>2, <3>1 DEF Happens
  <2>4. JobsInv'
    BY <1>2, <2>2, <2>3 DEF history, BaseInv, JobsInv, Busy, At
  <2>5. QED
    BY <2>1, <2>4 DEF BaseInv
<1>3. CASE PersonSigns
  BY <1>1, <1>2, <1>3, SignsHappens DEF PersonSigns
<1>4. CASE PersonRejects
  <2>1. "REJECT" \in Kinds
    BY DEF Kinds, Resets
  <2>2. Happens
    BY <1>1, <1>4, <2>1, SendsOne DEF PersonRejects, Happens, TypeOK
  <2>3. QED
    BY <1>2, <1>4, <2>2 DEF PersonRejects
<1>5. ASSUME NEW h \in Handlers, NEW i \in 1..Len(mail), Deliver(h, i) PROVE BaseInv'
  <2>1. Now(h, "upsert", mail[i], i, NoRow) /\ i \in 1..MaxMail /\ mail[i] \in Kinds
    BY <1>1, <1>5, DeliverIs
  <2>2. /\ job' \in [Handlers -> Job \cup {Idle}]
        /\ job'[h].at = "upsert" /\ job'[h].kind = mail[i] /\ job'[h].no = i
        /\ \A g \in Handlers : g # h => job'[g] = job[g]
    BY <2>1 DEF Now, Others
  <2>3. newest \in 0..MaxMail /\ newest <= Len(mail) /\ Len(mail) \in Nat /\ MaxMail \in Nat
    BY BoundAssumption DEF BaseInv, JobsInv, TypeOK
  <2>4. /\ newest' = (IF i > newest THEN i ELSE newest)
        /\ newest' \in 0..MaxMail /\ newest' <= Len(mail) /\ newest <= newest' /\ i <= newest'
    BY <1>5, <2>1, <2>3 DEF Deliver
  <2>5. TypeOK'
    <3>1. inOrder' \in BOOLEAN
      BY <1>5 DEF Deliver, BaseInv, TypeOK
    <3>2. QED
      BY <1>1, <1>5, <2>2, <2>4, <3>1 DEF Deliver, TypeOK, bestSign
  <2>6. ASSUME NEW g \in Handlers, g # h, Busy(g), job[g].no # 0
        PROVE  job[g].no <= newest'
    <3>1. job[g].no \in 0..MaxMail
      BY <1>1, <2>6, RecIsRow
    <3>2. job[g].no <= newest
      BY <2>6 DEF BaseInv, JobsInv
    <3>3. QED
      BY <2>3, <2>4, <3>1, <3>2
  <2>7. JobsInv'
    BY <1>5, <2>2, <2>3, <2>4, <2>6 DEF Deliver, bestSign, BaseInv, JobsInv, Busy, At
  <2>8. QED
    BY <2>5, <2>7 DEF BaseInv
<1>6. CASE UNCHANGED vars
  BY <1>1, <1>6 DEF vars, bestSign, history, BaseInv, TypeOK, JobsInv, Busy, At
<1>7. QED
  BY <1>3, <1>4, <1>5, <1>6, BaseOfHandlers, BaseOfUsers DEF Next

-----------------------------------------------------------------------------
(* The record and its flags *)

HoldStages == {"append", "overview", "create", "link", "act", "flag", "save", "reset"}

(* A step of a handler that opens no round: what it stores and what it     *)
(* holds afterwards come from the record and from what it held.            *)
RecordStep(h) ==
    /\ Busy(h)
    /\ UNCHANGED <<stage, mail, crossed>>
    /\ DOMAIN shown \subseteq DOMAIN shown' /\ uploaded \subseteq uploaded'
    /\ row'.jdyId \in {row.jdyId, Linked(h)}
    /\ row'.flags \in {{}, row.flags} \/ (Holds(h) /\ row'.flags = job[h].rec.flags)
    /\ Ended(h) \/ \E at \in Stages, r \in Row :
          /\ Now(h, at, job[h].kind, job[h].no, r)
          /\ r.jdyId \in DOMAIN shown' \cup {Linked(h), row.jdyId}
          /\ \/ r.flags \in {{}, row.flags}
             \/ r.flags = job[h].rec.flags /\ (Holds(h) \/ at \notin HoldStages)
             \/ /\ At(h, {"act"})
                /\ \E f \in uploaded' : r.flags = job[h].rec.flags \cup {f}

RecordInv == BaseInv /\ LinksInv /\ EarlyInv /\ HeldInv

LEMMA RecordStepKeeps ==
    ASSUME RecordInv, NEW h \in Handlers, RecordStep(h)
    PROVE  LinksInv' /\ EarlyInv' /\ HeldInv'
<1>1. /\ row'.jdyId \in DOMAIN shown' \cup {None}
      /\ Linked(h) \in DOMAIN shown \cup {None} /\ row.jdyId \in DOMAIN shown \cup {None}
      /\ DOMAIN shown \subseteq DOMAIN shown'
  BY DEF RecordInv, LinksInv, RecordStep
<1>2. ASSUME NEW g \in Handlers, g # h
      PROVE  job'[g] = job[g]
  BY <1>2, EndedIsIdle, NowIsBusy DEF RecordStep
<1>3. CASE Ended(h)
  <2>1. job'[h] = Idle /\ Idle.at = "idle"
    BY <1>3, EndedIsIdle DEF Idle
  <2>2. LinksInv'
    BY <1>1, <1>2, <2>1 DEF RecordInv, LinksInv, Busy, Linked
  <2>3. EarlyInv'
    BY <1>2, <2>1 DEF RecordInv, EarlyInv, Busy, RecordStep
  <2>4. HeldInv'
    <3> SUFFICES ASSUME ~crossed'
                 PROVE  /\ row'.flags \subseteq uploaded'
                        /\ \A g \in Handlers : job'[g].at \in HoldStages =>
                               job'[g].rec.flags \subseteq uploaded'
      BY DEF HeldInv, Holds, At, HoldStages
    <3>1. /\ row.flags \subseteq uploaded /\ uploaded \subseteq uploaded'
          /\ \A g \in Handlers : job[g].at \in HoldStages => job[g].rec.flags \subseteq uploaded
      BY DEF RecordInv, HeldInv, Holds, At, HoldStages, RecordStep
    <3>2. row'.flags \subseteq uploaded'
      BY <3>1 DEF RecordStep, Holds, At, HoldStages
    <3>3. ASSUME NEW g \in Handlers, job'[g].at \in HoldStages
          PROVE  job'[g].rec.flags \subseteq uploaded'
      <4>1. g # h
        BY <2>1, <3>3 DEF HoldStages
      <4>2. QED
        BY <1>2, <3>1, <3>3, <4>1
    <3>4. QED
      BY <3>2, <3>3
  <2>5. QED
    BY <2>2, <2>3, <2>4
<1>4. ASSUME NEW at \in Stages, NEW r \in Row, Now(h, at, job[h].kind, job[h].no, r),
             r.jdyId \in DOMAIN shown' \cup {Linked(h), row.jdyId},
             \/ r.flags \in {{}, row.flags}
             \/ r.flags = job[h].rec.flags /\ (Holds(h) \/ at \notin HoldStages)
             \/ /\ At(h, {"act"})
                /\ \E f \in uploaded' : r.flags = job[h].rec.flags \cup {f}
      PROVE  LinksInv' /\ EarlyInv' /\ HeldInv'
  <2>1. job'[h] # Idle /\ job'[h].at = at /\ job'[h].rec = r
    BY <1>4, NowIsBusy
  <2>2. LinksInv'
    <3>1. r.jdyId \in DOMAIN shown' \cup {None}
      BY <1>1, <1>4
    <3>2. QED
      BY <1>1, <1>2, <2>1, <3>1 DEF RecordInv, LinksInv, Busy, Linked
  <2>3. EarlyInv'
    <3>1. stage' \in {"none", "draft"} => mail' = <<>>
      BY DEF RecordInv, EarlyInv, RecordStep
    <3>2. ASSUME mail' = <<>>
          PROVE  row'.flags = {} /\ \A g \in Handlers : job'[g] # Idle => job'[g].rec.flags = {}
      <4>1. mail = <<>> /\ Busy(h)
        BY <3>2 DEF RecordStep
      <4>2. row.flags = {} /\ \A g \in Handlers : Busy(g) => job[g].rec.flags = {}
        BY <4>1 DEF RecordInv, EarlyInv
      <4>3. ~At(h, {"act"})
        <5>1. Len(mail) = 0
          BY <4>1
        <5>2. QED
          BY <4>1, <5>1, JobsOfUsers DEF RecordInv, At
      <4>4. r.flags = {} /\ row'.flags = {}
        BY <1>4, <4>1, <4>2, <4>3 DEF RecordStep
      <4>5. QED
        BY <1>2, <2>1, <4>2, <4>4 DEF Busy
    <3>3. QED
      BY <3>1, <3>2 DEF EarlyInv, Busy
  <2>4. HeldInv'
    <3> SUFFICES ASSUME ~crossed'
                 PROVE  /\ row'.flags \subseteq uploaded'
                        /\ \A g \in Handlers : job'[g].at \in HoldStages =>
                               job'[g].rec.flags \subseteq uploaded'
      BY DEF HeldInv, Holds, At, HoldStages
    <3>1. /\ row.flags \subseteq uploaded /\ uploaded \subseteq uploaded'
          /\ \A g \in Handlers : job[g].at \in HoldStages => job[g].rec.flags \subseteq uploaded
      BY DEF RecordInv, HeldInv, Holds, At, HoldStages, RecordStep
    <3>2. row'.flags \subseteq uploaded'
      BY <3>1 DEF RecordStep, Holds, At, HoldStages
    <3>3. at \in HoldStages => r.flags \subseteq uploaded'
      BY <1>4, <3>1 DEF Holds, At, HoldStages
    <3>4. ASSUME NEW g \in Handlers, job'[g].at \in HoldStages
          PROVE  job'[g].rec.flags \subseteq uploaded'
      <4>1. CASE g = h
        BY <2>1, <3>3, <3>4, <4>1
      <4>2. CASE g # h
        BY <1>2, <3>1, <3>4, <4>2
      <4>3. QED
        BY <4>1, <4>2
    <3>5. QED
      BY <3>2, <3>4
  <2>5. QED
    BY <2>2, <2>3, <2>4
<1>5. QED
  BY <1>3, <1>4 DEF RecordStep

(* A step that opens a round: the flags are false everywhere but in what   *)
(* other handlers hold.                                                    *)
LEMMA OpenRoundKeeps ==
    ASSUME RecordInv, NEW h \in Handlers, Busy(h), OpenRound(h),
           UNCHANGED <<stage, mail, shown>>,
           row'.jdyId \in {row.jdyId, Linked(h)}, row'.flags = {},
           Ended(h) \/ Now(h, "load", job[h].kind, job[h].no, job[h].rec)
    PROVE  LinksInv' /\ EarlyInv' /\ HeldInv'
<1>1. ASSUME NEW g \in Handlers, g # h PROVE job'[g] = job[g]
  BY <1>1, EndedIsIdle, NowIsBusy DEF Stages
<1>2. \/ job'[h] = Idle /\ job'[h].at = "idle"
      \/ job'[h] # Idle /\ job'[h].rec = job[h].rec /\ job'[h].at = "load"
  BY EndedIsIdle, NowIsBusy DEF Stages, Idle
<1>3. LinksInv'
  BY <1>1, <1>2 DEF RecordInv, LinksInv, Busy, Linked
<1>4. EarlyInv'
  BY <1>1, <1>2 DEF RecordInv, EarlyInv, Busy
<1>5. HeldInv'
  BY <1>1, <1>2 DEF OpenRound, HeldInv, Holds, At
<1>6. QED
  BY <1>3, <1>4, <1>5

LEMMA RecordInit == Init => RecordInv
<1> SUFFICES ASSUME Init PROVE RecordInv
  OBVIOUS
<1>1. row.jdyId = None /\ row.flags = {}
  BY DEF Init, NoRow
<1>2. \A h \in Handlers : ~Busy(h) /\ ~Holds(h)
  BY DEF Init, Busy, Holds, At, Idle
<1>3. LinksInv /\ EarlyInv /\ HeldInv
  BY <1>1, <1>2 DEF Init, LinksInv, EarlyInv, HeldInv
<1>4. QED
  BY <1>3, BaseInit DEF RecordInv

LEMMA NotificationsStepTheRecord ==
    ASSUME RecordInv, NEW h \in Handlers,
           \/ Load(h) \/ Append1(h) \/ Overview(h) \/ \E form \in Copies : CreateForm(h, form)
           \/ Link(h) \/ Unlinked(h) \/ Rejected(h) \/ Upload(h) \/ SaveFlag(h) \/ ShowNotified(h)
    PROVE  RecordStep(h)
<1>1. TypeOK
  BY DEF RecordInv, BaseInv
<1>2. Busy(h) => job[h].rec \in Row
  BY <1>1, RecIsRow
<1>3. CASE Load(h)
  <2>1. UNCHANGED <<stage, mail, crossed, row, shown, uploaded>>
    BY <1>3 DEF Load, bestSign, history
  <2>2. Busy(h) /\ row \in Row /\ (Ended(h) \/ \E at \in Stages :
            Now(h, at, job[h].kind, job[h].no, row))
    BY <1>1, <1>3, LoadIs DEF Stages
  <2>3. QED
    BY <2>1, <2>2 DEF RecordStep
<1>4. CASE Append1(h)
  <2>1. UNCHANGED <<stage, mail, crossed, shown, uploaded>> /\ Holds(h)
    BY <1>4 DEF Append1, bestSign, history, Holds, At
  <2>2. /\ Busy(h) /\ row' = job[h].rec
        /\ Now(h, "overview", job[h].kind, job[h].no, job[h].rec) /\ "overview" \in Stages
    BY <1>1, <1>4, AppendIs DEF Stages
  <2>3. QED
    BY <1>2, <2>1, <2>2 DEF RecordStep, Linked
<1>5. CASE Overview(h)
  <2>1. UNCHANGED <<stage, mail, crossed, shown, uploaded>> /\ Holds(h)
    BY <1>5 DEF Overview, bestSign, history, Holds, At
  <2>2. /\ Busy(h) /\ row' \in {row, job[h].rec}
        /\ \E at \in Stages : Now(h, at, job[h].kind, job[h].no, job[h].rec)
    BY <1>1, <1>5, OverviewIs DEF Stages
  <2>3. QED
    BY <1>2, <2>1, <2>2 DEF RecordStep, Linked
<1>6. ASSUME NEW form \in Copies, CreateForm(h, form) PROVE RecordStep(h)
  <2>1. UNCHANGED <<stage, mail, crossed, row, uploaded>> /\ Holds(h)
    BY <1>6 DEF CreateForm, bestSign, history, Holds, At
  <2>2. Busy(h) /\ DOMAIN shown' = DOMAIN shown \cup {form}
    BY <1>1, <1>6, CreateFormIs
  <2>3. PICK r \in Row : /\ Now(h, "link", job[h].kind, job[h].no, r)
                         /\ r.jdyId = form /\ r.flags = job[h].rec.flags
    <3>1. \E r \in Row : /\ Now(h, "link", job[h].kind, job[h].no, r)
                         /\ r.jdyId = form /\ r.flags = job[h].rec.flags
                         /\ r.status = job[h].rec.status
      BY <1>1, <1>6, CreateFormIs
    <3>2. QED
      BY <3>1
  <2>4. r.jdyId \in DOMAIN shown' /\ "link" \in Stages /\ DOMAIN shown \subseteq DOMAIN shown'
    BY <2>2, <2>3 DEF Stages
  <2>5. QED
    BY <2>1, <2>2, <2>3, <2>4 DEF RecordStep
<1>7. CASE Link(h)
  <2>1. UNCHANGED <<stage, mail, crossed, shown, uploaded>> /\ Holds(h)
    BY <1>7 DEF Link, bestSign, history, Holds, At
  <2>2. /\ Busy(h) /\ row' = job[h].rec
        /\ Now(h, "act", job[h].kind, job[h].no, job[h].rec) /\ "act" \in Stages
    BY <1>1, <1>7, LinkIs DEF Stages
  <2>3. QED
    BY <1>2, <2>1, <2>2 DEF RecordStep, Linked
<1>8. CASE Unlinked(h)
  <2>1. UNCHANGED <<stage, mail, crossed, row, shown, uploaded>>
    BY <1>8 DEF Unlinked, bestSign, history
  <2>2. Busy(h) /\ Ended(h)
    BY <1>1, <1>8, BusyAt, EndIs DEF Unlinked, Stages
  <2>3. QED
    BY <2>1, <2>2 DEF RecordStep
<1>9. CASE Rejected(h)
  <2>1. UNCHANGED <<stage, mail, crossed, row, uploaded>> /\ DOMAIN shown' = DOMAIN shown
    BY <1>9 DEF Rejected, bestSign, history, Show
  <2>2. Busy(h) /\ Ended(h)
    BY <1>1, <1>9, BusyAt, EndIs DEF Rejected, Stages
  <2>3. QED
    BY <2>1, <2>2 DEF RecordStep
<1>10. CASE Upload(h)
  <2>1. UNCHANGED <<stage, mail, crossed, row, shown>> /\ At(h, {"act"})
    BY <1>10 DEF Upload, bestSign, history
  <2>2. Busy(h) /\ uploaded \subseteq uploaded'
    BY <1>1, <1>10, UploadIs
  <2>3. CASE \E r \in Row : /\ Now(h, "show", job[h].kind, job[h].no, r)
                            /\ r.jdyId = Linked(h) /\ r.flags = {}
    BY <2>1, <2>2, <2>3 DEF RecordStep, Stages
  <2>4. CASE /\ uploaded' = uploaded \cup {Flag(job[h].kind)}
             /\ \E r \in Row : /\ Now(h, "flag", job[h].kind, job[h].no, r)
                               /\ r.jdyId = Linked(h) /\ r.status = job[h].rec.status
                               /\ r.flags = job[h].rec.flags \cup {Flag(job[h].kind)}
    BY <2>1, <2>2, <2>4 DEF RecordStep, Stages
  <2>5. QED
    BY <1>1, <1>10, <2>3, <2>4, UploadIs
<1>11. CASE SaveFlag(h)
  <2>1. UNCHANGED <<stage, mail, crossed, shown, uploaded>> /\ Holds(h)
    BY <1>11 DEF SaveFlag, bestSign, history, Holds, At
  <2>2. /\ Busy(h) /\ row' = job[h].rec
        /\ \E r \in Row : /\ Now(h, "show", job[h].kind, job[h].no, r)
                          /\ r.jdyId = Linked(h) /\ r.flags = {}
    BY <1>1, <1>11, SaveFlagIs
  <2>3. QED
    BY <2>1, <2>2 DEF RecordStep, Linked, Stages
<1>12. CASE ShowNotified(h)
  <2>1. UNCHANGED <<stage, mail, crossed, row, uploaded>>
    BY <1>12 DEF ShowNotified, bestSign, history
  <2>2. Busy(h) /\ Ended(h) /\ DOMAIN shown' = DOMAIN shown
    BY <1>1, <1>12, ShowNotifiedIs
  <2>3. QED
    BY <2>1, <2>2 DEF RecordStep
<1>13. QED
  BY <1>3, <1>4, <1>5, <1>6, <1>7, <1>8, <1>9, <1>10, <1>11, <1>12

LEMMA UsersStepTheRecord ==
    ASSUME RecordInv, NEW h \in Handlers,
           Find(h) \/ CallRefused(h) \/ SaveCalled(h) \/ ShowCalled(h) \/ Fails(h)
    PROVE  RecordStep(h)
<1>1. TypeOK /\ row \in Row
  BY DEF RecordInv, BaseInv, TypeOK
<1>2. Busy(h) => job[h].rec \in Row
  BY <1>1, RecIsRow
<1>3. CASE Find(h)
  <2>1. UNCHANGED <<stage, mail, crossed, row, shown, uploaded>>
    BY <1>3 DEF Find, bestSign, history
  <2>2. Busy(h) /\ {"call", "show"} \subseteq Stages \ HoldStages /\ "save" \in Stages
    BY <1>1, <1>3, FindIs DEF Stages, HoldStages
  <2>3. CASE Ended(h)
    BY <2>1, <2>2, <2>3 DEF RecordStep
  <2>4. CASE \E r \in Row : Now(h, "call", job[h].kind, job[h].no, r) /\ r.jdyId = Linked(h)
                           /\ r.flags = row.flags
    BY <2>1, <2>2, <2>4 DEF RecordStep
  <2>5. CASE Now(h, "show", job[h].kind, job[h].no, job[h].rec)
    BY <1>2, <2>1, <2>2, <2>5 DEF RecordStep, Linked
  <2>6. CASE \E r \in Row : Now(h, "save", job[h].kind, job[h].no, r) /\ r.jdyId = Linked(h)
                           /\ r.flags = row.flags
    BY <2>1, <2>2, <2>6 DEF RecordStep
  <2>7. CASE Now(h, "call", job[h].kind, job[h].no, job[h].rec)
    BY <1>2, <2>1, <2>2, <2>7 DEF RecordStep, Linked
  <2>8. QED
    BY <1>1, <1>3, <2>3, <2>4, <2>5, <2>6, <2>7, FindIs
<1>4. CASE CallRefused(h)
  <2>1. UNCHANGED <<stage, mail, crossed, row, shown, uploaded>>
    BY <1>4 DEF CallRefused, bestSign, history
  <2>2. Busy(h) /\ Ended(h)
    BY <1>1, <1>4, BusyAt, EndIs DEF CallRefused, Stages
  <2>3. QED
    BY <2>1, <2>2 DEF RecordStep
<1>5. CASE SaveCalled(h)
  <2>1. UNCHANGED <<stage, mail, crossed, shown, uploaded>> /\ Holds(h)
    BY <1>5 DEF SaveCalled, bestSign, history, Holds, At
  <2>2. /\ Busy(h)
        /\ row' = row \/ (row'.jdyId = Linked(h) /\ row'.flags = job[h].rec.flags)
        /\ Ended(h) \/ \E r \in Row : /\ Now(h, "show", job[h].kind, job[h].no, r)
                                      /\ r.jdyId = Linked(h) /\ r.flags = {}
    BY <1>1, <1>5, SaveCalledIs
  <2>3. QED
    BY <2>1, <2>2 DEF RecordStep, Stages
<1>6. CASE ShowCalled(h)
  <2>1. UNCHANGED <<stage, mail, crossed, row, uploaded>>
    BY <1>6 DEF ShowCalled, bestSign, history
  <2>2. /\ Busy(h) /\ DOMAIN shown' = DOMAIN shown
        /\ Ended(h) \/ Now(h, "reset", job[h].kind, job[h].no, row)
    BY <1>1, <1>6, ShowCalledIs
  <2>3. QED
    BY <1>1, <2>1, <2>2 DEF RecordStep, Stages
<1>7. CASE Fails(h)
  <2>1. UNCHANGED <<stage, mail, crossed, row, shown, uploaded>>
    BY <1>7 DEF Fails, bestSign, history
  <2>2. /\ Busy(h)
        /\ \/ Ended(h)
           \/ Holds(h) /\ Now(h, "act", job[h].kind, job[h].no, job[h].rec)
    BY <1>1, <1>7, FailsIs DEF Holds, At
  <2>3. QED
    BY <1>2, <2>1, <2>2 DEF RecordStep, Stages, Linked
<1>8. QED
  BY <1>3, <1>4, <1>5, <1>6, <1>7

(* A call changes the contract at BestSign only.  The record an approval   *)
(* was made with is one of a contract nobody was notified of.              *)
LEMMA CallKeepsRecord ==
    ASSUME RecordInv, NEW h \in Handlers, CallAccepted(h)
    PROVE  LinksInv' /\ EarlyInv' /\ HeldInv'
<1>1. TypeOK /\ BaseInv
  BY DEF RecordInv, BaseInv
<1>2. Busy(h) /\ job[h].no = 0 /\ job[h].kind \in UserKinds
  <2>1. At(h, {"call"})
    BY DEF CallAccepted
  <2>2. Busy(h)
    BY <1>1, <2>1, BusyAt DEF Stages
  <2>3. QED
    BY <1>1, <2>1, <2>2, JobsOfUsers DEF At
<1>3. UNCHANGED <<row, shown, uploaded, crossed>>
  BY DEF CallAccepted, history
<1>4. PICK at \in {"find", "save", "show"} :
          /\ Now(h, at, job[h].kind, job[h].no, job[h].rec)
          /\ at = "save" => stage = "draft"
  BY <1>1, <1>2, CallIs
<1>5. Happens
  BY <1>1, <1>2, CallIs
<1>6. /\ job'[h] # Idle /\ job'[h].at = at /\ job'[h].rec = job[h].rec
      /\ \A g \in Handlers : g # h => job'[g] = job[g]
  BY <1>4, NowIsBusy DEF Stages
<1>7. LinksInv'
  BY <1>2, <1>3, <1>6 DEF RecordInv, LinksInv, Busy, Linked
<1>8. EarlyInv'
  <2>1. stage' \in {"none", "draft"} => mail' = <<>>
    BY <1>5 DEF Happens, RecordInv, EarlyInv
  <2>2. mail' = <<>> => mail = <<>>
    BY <1>5 DEF Happens
  <2>3. QED
    BY <1>2, <1>3, <1>6, <2>1, <2>2 DEF RecordInv, EarlyInv, Busy
<1>9. HeldInv'
  <2>1. at = "save" => job[h].rec.flags = {}
    BY <1>2, <1>4 DEF RecordInv, EarlyInv
  <2>2. QED
    BY <1>3, <1>4, <1>6, <2>1 DEF RecordInv, HeldInv, Holds, At
<1>10. QED
  BY <1>7, <1>8, <1>9

LEMMA RecordKept == RecordInv /\ [Next]_vars => RecordInv'
<1> SUFFICES ASSUME RecordInv, [Next]_vars PROVE LinksInv' /\ EarlyInv' /\ HeldInv'
  BY BaseStep DEF RecordInv
<1>1. TypeOK /\ BaseInv
  BY DEF RecordInv, BaseInv
<1>2. ASSUME Happens, UNCHANGED <<row, shown, uploaded, job, crossed>>
      PROVE  LinksInv' /\ EarlyInv' /\ HeldInv'
  <2>1. EarlyInv'
    BY <1>2 DEF Happens, RecordInv, EarlyInv, Busy
  <2>2. LinksInv' /\ HeldInv'
    BY <1>2 DEF RecordInv, LinksInv, HeldInv, Busy, Linked, Holds, At
  <2>3. QED
    BY <2>1, <2>2
<1>3. CASE PersonSigns
  BY <1>1, <1>2, <1>3, SignsHappens DEF PersonSigns, history
<1>4. CASE PersonRejects
  <2>1. "REJECT" \in Kinds
    BY DEF Kinds, Resets
  <2>2. Happens
    BY <1>1, <1>4, <2>1, SendsOne DEF PersonRejects, Happens, TypeOK
  <2>3. QED
    BY <1>2, <1>4, <2>2 DEF PersonRejects, history
<1>5. ASSUME NEW h \in Handlers, ~Busy(h), NEW at \in {"upsert", "call", "find"}, NEW r \in Row,
             NEW kind, NEW no, Now(h, at, kind, no, r), UNCHANGED <<stage, mail, row, shown>>,
             UNCHANGED <<uploaded, crossed>>,
             r.jdyId \in DOMAIN shown \cup {None}, r.flags = {}
      PROVE  LinksInv' /\ EarlyInv' /\ HeldInv'
  <2>1. /\ job'[h] # Idle /\ job'[h].at = at /\ job'[h].rec = r
        /\ \A g \in Handlers : g # h => job'[g] = job[g]
    BY <1>5, NowIsBusy DEF Stages
  <2>2. LinksInv'
    BY <1>5, <2>1 DEF RecordInv, LinksInv, Busy, Linked
  <2>3. EarlyInv'
    BY <1>5, <2>1 DEF RecordInv, EarlyInv, Busy
  <2>4. HeldInv'
    BY <1>5, <2>1 DEF RecordInv, HeldInv, Holds, At
  <2>5. QED
    BY <2>2, <2>3, <2>4
<1>6. ASSUME NEW h \in Handlers, NEW i \in 1..Len(mail), Deliver(h, i)
      PROVE  LinksInv' /\ EarlyInv' /\ HeldInv'
  <2>1. NoRow \in Row /\ NoRow.jdyId = None /\ NoRow.flags = {}
    BY DEF NoRow, Row
  <2>2. ~Busy(h) /\ Now(h, "upsert", mail[i], i, NoRow)
    BY <1>1, <1>6, DeliverIs
  <2>3. UNCHANGED <<stage, mail, row, shown, uploaded, crossed>>
    BY <1>6 DEF Deliver, bestSign
  <2>4. QED
    BY <1>5, <2>1, <2>2, <2>3
<1>7. ASSUME NEW h \in Handlers, NEW kind \in UserKinds, NEW form \in Forms,
             UserActs(h, kind, form)
      PROVE  LinksInv' /\ EarlyInv' /\ HeldInv'
  <2>1. ~Busy(h) /\ form \in DOMAIN shown
    BY <1>1, <1>7, UserActsIs
  <2>2. PICK at \in {"call", "find"}, r \in Row :
            Now(h, at, kind, 0, r) /\ r.jdyId = form /\ r.flags = {}
    BY <1>1, <1>7, UserActsIs
  <2>3. UNCHANGED <<stage, mail, row, shown, uploaded, crossed>>
    BY <1>7 DEF UserActs
  <2>4. QED
    BY <1>5, <2>1, <2>2, <2>3
<1>8. ASSUME NEW h \in Handlers, Upsert(h) PROVE LinksInv' /\ EarlyInv' /\ HeldInv'
  <2>1. /\ Busy(h) /\ Now(h, "load", job[h].kind, job[h].no, job[h].rec)
        /\ row'.jdyId = row.jdyId
    BY <1>1, <1>8, UpsertIs
  <2>2. UNCHANGED <<stage, mail, shown>>
    BY <1>8 DEF Upsert, bestSign
  <2>3. CASE row'.flags = {} /\ OpenRound(h)
    BY <2>1, <2>2, <2>3, OpenRoundKeeps
  <2>4. CASE row'.flags = row.flags /\ UNCHANGED <<uploaded, crossed>>
    <3>1. job[h].rec \in Row
      BY <1>1, <2>1, RecIsRow
    <3>2. RecordStep(h)
      BY <2>1, <2>2, <2>4, <3>1 DEF RecordStep, Stages, HoldStages, Linked
    <3>3. QED
      BY <3>2, RecordStepKeeps
  <2>5. QED
    BY <1>1, <1>8, <2>3, <2>4, UpsertIs
<1>9. ASSUME NEW h \in Handlers, ResetFlags(h) PROVE LinksInv' /\ EarlyInv' /\ HeldInv'
  <2>1. /\ Busy(h) /\ Ended(h) /\ row'.jdyId = Linked(h) /\ row'.flags = {}
    BY <1>1, <1>9, ResetFlagsIs
  <2>2. UNCHANGED <<stage, mail, shown>> /\ OpenRound(h)
    BY <1>9 DEF ResetFlags, bestSign
  <2>3. QED
    BY <2>1, <2>2, OpenRoundKeeps
<1>10. CASE UNCHANGED vars
  BY <1>10 DEF vars, bestSign, history, RecordInv, LinksInv, EarlyInv, HeldInv, Busy, Linked,
               Holds, At
<1>11. QED
  BY <1>3, <1>4, <1>6, <1>7, <1>8, <1>9, <1>10, CallKeepsRecord, NotificationsStepTheRecord,
     UsersStepTheRecord, RecordStepKeeps DEF Next

(* Every variable keeps its type.                                          *)
THEOREM ContractTypeCorrect == Spec => []TypeOK
<1>1. BaseInv => TypeOK
  BY DEF BaseInv
<1>2. QED
  BY BaseInit, BaseStep, <1>1, PTL DEF Spec

(* A flag of the record says that files of this round were uploaded,       *)
(* unless flags were reset while another handler held the record.          *)
THEOREM FlagsStayTrue == Spec => []FlagsAreTrue
<1>1. RecordInv => FlagsAreTrue
  BY DEF RecordInv, HeldInv, FlagsAreTrue
<1>2. QED
  BY RecordInit, RecordKept, <1>1, PTL DEF Spec

-----------------------------------------------------------------------------
(* Events in order *)

(* A step of a handler that is under way.                                  *)
Moves(h) ==
    /\ Busy(h)
    /\ UNCHANGED <<newest, inOrder>>
    /\ Ended(h) \/ \E at \in Stages, r \in Row : Now(h, at, job[h].kind, job[h].no, r)

LEMMA HandlerMoves ==
    ASSUME RecordInv, NEW h \in Handlers,
           \/ Upsert(h) \/ Load(h) \/ Append1(h) \/ Overview(h)
           \/ \E form \in Copies : CreateForm(h, form)
           \/ Link(h) \/ Unlinked(h) \/ Rejected(h) \/ Upload(h) \/ SaveFlag(h) \/ ShowNotified(h)
           \/ Find(h) \/ CallAccepted(h) \/ CallRefused(h) \/ SaveCalled(h) \/ ShowCalled(h)
           \/ ResetFlags(h) \/ Fails(h)
    PROVE  Moves(h)
<1>1. TypeOK /\ BaseInv
  BY DEF RecordInv, BaseInv
<1>2. UNCHANGED <<newest, inOrder>>
  BY DEF history, Upsert, Load, Append1, Overview, CreateForm, Link, Unlinked, Rejected, Upload,
         SaveFlag, ShowNotified, Find, CallAccepted, CallRefused, SaveCalled, ShowCalled,
         ResetFlags, Fails
<1>3. ASSUME RecordStep(h) PROVE Moves(h)
  BY <1>2, <1>3 DEF RecordStep, Moves
<1>4. CASE Upsert(h)
  <2>1. Busy(h) /\ Now(h, "load", job[h].kind, job[h].no, job[h].rec)
    BY <1>1, <1>4, UpsertIs
  <2>2. job[h].rec \in Row
    BY <1>1, <2>1, RecIsRow
  <2>3. QED
    BY <1>2, <2>1, <2>2 DEF Moves, Stages
<1>5. CASE CallAccepted(h)
  <2>1. Busy(h) /\ job[h].kind \in UserKinds
    <3>1. At(h, {"call"})
      BY <1>5 DEF CallAccepted
    <3>2. Busy(h)
      BY <1>1, <3>1, BusyAt DEF Stages
    <3>3. QED
      BY <1>1, <3>1, <3>2, JobsOfUsers DEF At
  <2>2. \E at \in Stages : Now(h, at, job[h].kind, job[h].no, job[h].rec)
    BY <1>1, <1>5, <2>1, CallIs DEF Stages
  <2>3. job[h].rec \in Row
    BY <1>1, <2>1, RecIsRow
  <2>4. QED
    BY <1>2, <2>1, <2>2, <2>3 DEF Moves
<1>6. CASE ResetFlags(h)
  BY <1>1, <1>2, <1>6, ResetFlagsIs DEF Moves
<1>7. CASE \/ Load(h) \/ Append1(h) \/ Overview(h) \/ \E form \in Copies : CreateForm(h, form)
           \/ Link(h) \/ Unlinked(h) \/ Rejected(h) \/ Upload(h) \/ SaveFlag(h) \/ ShowNotified(h)
  BY <1>3, <1>7, NotificationsStepTheRecord
<1>8. CASE Find(h) \/ CallRefused(h) \/ SaveCalled(h) \/ ShowCalled(h) \/ Fails(h)
  BY <1>3, <1>8, UsersStepTheRecord
<1>9. QED
  BY <1>4, <1>5, <1>6, <1>7, <1>8

LEMMA MoveIs ==
    ASSUME NEW h \in Handlers, Moves(h)
    PROVE  /\ \A g \in Handlers : g # h => job'[g] = job[g]
           /\ \/ job'[h] = Idle
              \/ job'[h] # Idle /\ job'[h].no = job[h].no /\ job'[h].kind = job[h].kind
BY EndedIsIdle, NowIsBusy DEF Moves

LEMMA OrderOfMoves ==
    ASSUME OrderInv, NEW h \in Handlers, Moves(h)
    PROVE  OrderInv'
<1>1. \A g \in Handlers : job'[g] # Idle => Busy(g) /\ job'[g].no = job[g].no
  BY MoveIs DEF Moves, Busy
<1>2. newest' = newest /\ inOrder' = inOrder
  BY DEF Moves
<1>3. QED
  BY <1>1, <1>2 DEF OrderInv, Busy

LEMMA NumbersAreOld ==
    ASSUME BaseInv, NEW g \in Handlers, Busy(g)
    PROVE  job[g].no \in Nat /\ newest \in Nat /\ job[g].no <= newest
<1>1. TypeOK
  BY DEF BaseInv
<1>2. job[g].no \in Nat /\ newest \in Nat
  BY <1>1, RecIsRow, BoundAssumption DEF TypeOK
<1>3. QED
  BY <1>2 DEF BaseInv, JobsInv

LEMMA OrderStep == RecordInv /\ OrderInv /\ [Next]_vars => OrderInv'
<1> SUFFICES ASSUME RecordInv, OrderInv, [Next]_vars PROVE OrderInv'
  OBVIOUS
<1>1. TypeOK /\ BaseInv
  BY DEF RecordInv, BaseInv
<1>2. CASE UNCHANGED <<job, newest, inOrder>>
  BY <1>2 DEF OrderInv, Busy
<1>3. ASSUME NEW h \in Handlers, NEW i \in 1..Len(mail), Deliver(h, i) PROVE OrderInv'
  <2> SUFFICES ASSUME inOrder', NEW f \in Handlers, NEW g \in Handlers,
                      job'[f] # Idle, job'[g] # Idle
               PROVE  /\ job'[f].no = job'[g].no /\ job'[f].no \in {0, newest'}
                      /\ job'[f].no = 0 => f = g
    BY DEF OrderInv, Busy
  <2>1. /\ Now(h, "upsert", mail[i], i, NoRow) /\ i \in Nat \ {0}
        /\ newest \in Nat
    BY <1>1, <1>3, DeliverIs, BoundAssumption DEF TypeOK
  <2>2. job'[h].no = i /\ \A x \in Handlers : x # h => job'[x] = job[x]
    BY <2>1, NowIsBusy DEF Stages
  <2>3. inOrder /\ i \in {newest, newest + 1} /\ Alone(h, i)
    BY <1>3 DEF Deliver
  <2>4. newest' = i
    BY <1>3, <2>1, <2>3 DEF Deliver
  <2>5. \A x \in Handlers : job'[x] # Idle => job'[x].no = i
    BY <2>2, <2>3 DEF Alone
  <2>6. QED
    BY <2>1, <2>4, <2>5
<1>4. ASSUME NEW h \in Handlers, NEW kind \in UserKinds, NEW form \in Forms,
             UserActs(h, kind, form)
      PROVE  OrderInv'
  <2> SUFFICES ASSUME inOrder', NEW f \in Handlers, NEW g \in Handlers,
                      job'[f] # Idle, job'[g] # Idle
               PROVE  /\ job'[f].no = job'[g].no /\ job'[f].no \in {0, newest'}
                      /\ job'[f].no = 0 => f = g
    BY DEF OrderInv, Busy
  <2>1. \E at \in {"call", "find"}, r \in Row : Now(h, at, kind, 0, r)
    BY <1>1, <1>4, UserActsIs
  <2>2. job'[h].no = 0 /\ \A x \in Handlers : x # h => job'[x] = job[x]
    BY <2>1, NowIsBusy DEF Stages
  <2>3. \A x \in Handlers : job[x] = Idle
    BY <1>4 DEF UserActs
  <2>4. QED
    BY <2>2, <2>3
<1>5. CASE PersonSigns \/ PersonRejects \/ UNCHANGED vars
  BY <1>2, <1>5 DEF PersonSigns, PersonRejects, vars, history
<1>6. QED
  BY <1>3, <1>4, <1>5, HandlerMoves, OrderOfMoves DEF Next

-----------------------------------------------------------------------------
(* A contract made from the form *)

LEMMA OriginalByParts ==
    ASSUME OriginalOK, NEW h \in Handlers, Moves(h), DOMAIN shown' = DOMAIN shown,
           row' = row \/ row'.jdyId = Original,
           Ended(h) \/ \E at \in Stages \ {"create", "link"}, r \in Row :
               /\ Now(h, at, job[h].kind, job[h].no, r)
               /\ at \in {"upsert", "load"} \/ r.jdyId = Original,
           stage' # "none" => \/ stage # "none" /\ ~Creating(h)
                              \/ row'.jdyId = Original \/ Creating(h)'
    PROVE  OriginalOK'
<1>1. DOMAIN shown' = {Original} /\ (row' = NoRow \/ row'.jdyId = Original)
  BY DEF OriginalOK
<1>2. /\ \A g \in Handlers : g # h => job'[g] = job[g]
      /\ \/ job'[h] = Idle
         \/ job'[h] # Idle /\ job'[h].no = job[h].no /\ job'[h].kind = job[h].kind
  BY MoveIs
<1>3. stage' # "none" => row'.jdyId = Original \/ \E g \in Handlers : Creating(g)'
  <2>1. CASE stage # "none" /\ ~Creating(h)
    <3>1. \A g \in Handlers : Creating(g) => Creating(g)'
      BY <1>2, <2>1 DEF Creating, Busy, At
    <3>2. QED
      BY <2>1, <3>1 DEF OriginalOK
  <2>2. QED
    BY <2>1
<1>4. ASSUME NEW g \in Handlers, job'[g] # Idle
      PROVE  /\ job'[g].at \notin {"upsert", "load"} => job'[g].rec.jdyId = Original
             /\ job'[g].at \notin {"create", "link"}
             /\ job'[g].no > 0 => row'.jdyId = Original
  <2>1. CASE g # h
    BY <1>2, <1>4, <2>1 DEF OriginalOK, Busy, At, Linked
  <2>2. CASE g = h
    <3>1. PICK at \in Stages \ {"create", "link"}, r \in Row :
              /\ Now(h, at, job[h].kind, job[h].no, r)
              /\ at \in {"upsert", "load"} \/ r.jdyId = Original
      BY <1>4, <2>2, EndedIsIdle
    <3>2. job'[h].at = at /\ job'[h].rec = r /\ job'[h].no = job[h].no
      BY <3>1, NowIsBusy
    <3>3. job[h].no > 0 => row'.jdyId = Original
      BY DEF OriginalOK, Moves
    <3>4. QED
      BY <2>2, <3>1, <3>2, <3>3
  <2>3. QED
    BY <2>1, <2>2
<1>5. QED
  BY <1>1, <1>3, <1>4 DEF OriginalOK, Busy, At, Linked

LEMMA OriginalOfNotifications ==
    ASSUME RecordInv, OriginalOK, NEW h \in Handlers,
           \/ Upsert(h) \/ Load(h) \/ Append1(h) \/ Overview(h)
           \/ \E form \in Copies : CreateForm(h, form)
           \/ Link(h) \/ Unlinked(h) \/ Rejected(h) \/ Upload(h) \/ SaveFlag(h) \/ ShowNotified(h)
    PROVE  OriginalOK'
<1>1. TypeOK /\ BaseInv /\ Moves(h) /\ Original # None /\ Busy(h)
  BY HandlerMoves, FormAssumption DEF RecordInv, BaseInv, Moves
<1>2. job[h].rec \in Row
  BY <1>1, RecIsRow
<1>3. ASSUME NEW S, S \subseteq {"upsert", "load", "append", "overview", "create", "link", "act",
                                 "flag"},
             At(h, S)
      PROVE  ~Creating(h) /\ row.jdyId = Original
  BY <1>1, <1>3, JobsOfUsers DEF Creating, At, OriginalOK
<1>4. ~At(h, {"upsert", "load"}) => Linked(h) = Original /\ job[h].rec.jdyId = Original
  BY <1>1 DEF OriginalOK, Linked
<1>5. CASE Upsert(h)
  <2>1. ~Creating(h) /\ row.jdyId = Original
    BY <1>3, <1>5 DEF Upsert
  <2>2. /\ row'.jdyId = row.jdyId
        /\ Now(h, "load", job[h].kind, job[h].no, job[h].rec)
    BY <1>1, <1>5, UpsertIs
  <2>3. shown' = shown /\ stage' = stage
    BY <1>5 DEF Upsert, bestSign
  <2>4. QED
    BY <1>1, <1>2, <2>1, <2>2, <2>3, OriginalByParts DEF Stages
<1>6. CASE Load(h)
  <2>1. ~Creating(h) /\ row.jdyId = Original
    BY <1>3, <1>6 DEF Load
  <2>2. shown' = shown /\ stage' = stage /\ row' = row
    BY <1>6 DEF Load, bestSign
  <2>3. /\ row \in Row
        /\ Ended(h) \/ \E at \in {"append", "overview"} : Now(h, at, job[h].kind, job[h].no, row)
    BY <1>1, <1>6, LoadIs
  <2>4. QED
    BY <1>1, <2>1, <2>2, <2>3, OriginalByParts DEF Stages
<1>7. CASE Append1(h)
  <2>1. ~Creating(h) /\ job[h].rec.jdyId = Original
    BY <1>3, <1>4, <1>7 DEF Append1, At
  <2>2. shown' = shown /\ stage' = stage
    BY <1>7 DEF Append1, bestSign
  <2>3. row' = job[h].rec /\ Now(h, "overview", job[h].kind, job[h].no, job[h].rec)
    BY <1>1, <1>7, AppendIs
  <2>4. QED
    BY <1>1, <1>2, <2>1, <2>2, <2>3, OriginalByParts DEF Stages
<1>8. CASE Overview(h)
  <2>1. ~Creating(h) /\ job[h].rec.jdyId = Original /\ Linked(h) # None
    BY <1>1, <1>3, <1>4, <1>8 DEF Overview, At
  <2>2. shown' = shown /\ stage' = stage
    BY <1>8 DEF Overview, bestSign
  <2>3. row' = row /\ Now(h, "act", job[h].kind, job[h].no, job[h].rec)
    BY <1>1, <1>8, <2>1, OverviewIs
  <2>4. QED
    BY <1>1, <1>2, <2>1, <2>2, <2>3, OriginalByParts DEF Stages
<1>9. ASSUME (\E form \in Copies : CreateForm(h, form)) \/ Link(h) PROVE FALSE
  BY <1>1, <1>9 DEF CreateForm, Link, At, OriginalOK
<1>10. CASE Unlinked(h)
  BY <1>1, <1>4, <1>10 DEF Unlinked, At
<1>11. CASE Rejected(h)
  <2>1. ~Creating(h)
    BY <1>3, <1>11 DEF Rejected
  <2>2. DOMAIN shown' = DOMAIN shown /\ stage' = stage /\ row' = row /\ Ended(h)
    BY <1>1, <1>11, EndIs DEF Rejected, bestSign, Show
  <2>3. QED
    BY <1>1, <2>1, <2>2, OriginalByParts
<1>12. CASE Upload(h)
  <2>1. ~Creating(h) /\ Linked(h) = Original
    BY <1>3, <1>4, <1>12 DEF Upload, At
  <2>2. shown' = shown /\ stage' = stage /\ row' = row
    BY <1>12 DEF Upload, bestSign
  <2>3. CASE \E r \in Row : /\ Now(h, "show", job[h].kind, job[h].no, r)
                            /\ r.jdyId = Linked(h) /\ r.flags = {}
    BY <1>1, <2>1, <2>2, <2>3, OriginalByParts DEF Stages
  <2>4. CASE \E r \in Row : /\ Now(h, "flag", job[h].kind, job[h].no, r)
                            /\ r.jdyId = Linked(h) /\ r.status = job[h].rec.status
                            /\ r.flags = job[h].rec.flags \cup {Flag(job[h].kind)}
    BY <1>1, <2>1, <2>2, <2>4, OriginalByParts DEF Stages
  <2>5. QED
    BY <1>1, <1>12, <2>3, <2>4, UploadIs
<1>13. CASE SaveFlag(h)
  <2>1. ~Creating(h) /\ Linked(h) = Original /\ job[h].rec.jdyId = Original
    BY <1>3, <1>4, <1>13 DEF SaveFlag, At
  <2>2. shown' = shown /\ stage' = stage
    BY <1>13 DEF SaveFlag, bestSign
  <2>3. /\ row' = job[h].rec
        /\ \E r \in Row : /\ Now(h, "show", job[h].kind, job[h].no, r)
                          /\ r.jdyId = Linked(h) /\ r.flags = {}
    BY <1>1, <1>13, SaveFlagIs
  <2>4. QED
    BY <1>1, <2>1, <2>2, <2>3, OriginalByParts DEF Stages
<1>14. CASE ShowNotified(h)
  <2>1. ~Creating(h)
    BY <1>14 DEF ShowNotified, Creating, At
  <2>2. stage' = stage /\ row' = row
    BY <1>14 DEF ShowNotified, bestSign
  <2>3. Ended(h) /\ DOMAIN shown' = DOMAIN shown
    BY <1>1, <1>14, ShowNotifiedIs
  <2>4. QED
    BY <1>1, <2>1, <2>2, <2>3, OriginalByParts
<1>15. QED
  BY <1>5, <1>6, <1>7, <1>8, <1>9, <1>10, <1>11, <1>12, <1>13, <1>14

LEMMA OriginalOfUsers ==
    ASSUME RecordInv, OriginalOK, NEW h \in Handlers,
           \/ Find(h) \/ CallAccepted(h) \/ CallRefused(h) \/ SaveCalled(h) \/ ShowCalled(h)
           \/ ResetFlags(h)
    PROVE  OriginalOK'
<1>1. TypeOK /\ BaseInv /\ Moves(h) /\ Original # None /\ Busy(h)
  BY HandlerMoves, FormAssumption DEF RecordInv, BaseInv, Moves
<1>2. job[h].rec \in Row
  BY <1>1, RecIsRow
<1>3. Linked(h) = Original /\ job[h].rec.jdyId = Original
  <2>1. ~At(h, {"upsert", "load"})
    BY DEF Find, CallAccepted, CallRefused, SaveCalled, ShowCalled, ResetFlags, At
  <2>2. QED
    BY <1>1, <2>1 DEF OriginalOK, Linked
<1>4. row # NoRow => row.jdyId = Original
  BY DEF OriginalOK
<1>5. CASE Find(h)
  <2>1. shown' = shown /\ stage' = stage /\ row' = row
    BY <1>5 DEF Find, bestSign
  <2>2. job[h].kind # "create" => ~Creating(h)
    BY DEF Creating
  <2>3. CASE job[h].kind # "create" /\ Ended(h)
    BY <1>1, <2>1, <2>2, <2>3, OriginalByParts
  <2>4. CASE /\ job[h].kind \in {"approve", "cancel"}
             /\ \E r \in Row : /\ Now(h, "call", job[h].kind, job[h].no, r)
                               /\ r.jdyId = Linked(h) /\ r.flags = row.flags
    BY <1>1, <1>3, <2>1, <2>2, <2>4, OriginalByParts DEF Stages
  <2>5. CASE job[h].kind # "create" /\ \E at \in {"call", "show"} :
                 Now(h, at, job[h].kind, job[h].no, job[h].rec)
    BY <1>1, <1>2, <1>3, <2>1, <2>2, <2>5, OriginalByParts DEF Stages
  <2>6. CASE /\ job[h].kind = "create"
             /\ \E r \in Row : /\ Now(h, "save", job[h].kind, job[h].no, r)
                               /\ r.jdyId = Linked(h) /\ r.flags = row.flags
    <3>1. PICK r \in Row : /\ Now(h, "save", job[h].kind, job[h].no, r)
                           /\ r.jdyId = Linked(h) /\ r.flags = row.flags
      BY <2>6
    <3>2. Creating(h)'
      <4>1. job'[h] # Idle /\ job'[h].kind = "create" /\ job'[h].at = "save"
        BY <2>6, <3>1, NowIsBusy DEF Stages
      <4>2. QED
        BY <4>1 DEF Creating, Busy, At
    <3>3. QED
      BY <1>1, <1>3, <2>1, <3>1, <3>2, OriginalByParts DEF Stages
  <2>7. QED
    BY <1>1, <1>5, <2>3, <2>4, <2>5, <2>6, FindIs
<1>6. CASE CallAccepted(h)
  <2>1. At(h, {"call"}) /\ shown' = shown /\ row' = row
    BY <1>6 DEF CallAccepted
  <2>2. job[h].kind \in UserKinds
    BY <1>1, <2>1, JobsOfUsers DEF At
  <2>3. ~Creating(h) /\ (stage = "none" => job[h].kind = "create")
    BY <1>1, <1>6, <2>1, <2>2, CallIs DEF Creating, At
  <2>4. CASE job[h].kind = "create" /\ Now(h, "find", job[h].kind, job[h].no, job[h].rec)
    <3>1. Creating(h)'
      <4>1. job'[h] # Idle /\ job'[h].kind = "create" /\ job'[h].at = "find"
        BY <2>4, NowIsBusy DEF Stages
      <4>2. QED
        BY <4>1 DEF Creating, Busy, At
    <3>2. QED
      BY <1>1, <1>2, <1>3, <2>1, <2>4, <3>1, OriginalByParts DEF Stages
  <2>5. CASE job[h].kind # "create" /\ \E at \in {"save", "show"} :
                 Now(h, at, job[h].kind, job[h].no, job[h].rec)
    BY <1>1, <1>2, <1>3, <2>1, <2>3, <2>5, OriginalByParts DEF Stages
  <2>6. QED
    BY <1>1, <1>6, <2>2, <2>4, <2>5, CallIs
<1>7. CASE CallRefused(h)
  <2>1. ~Creating(h) /\ shown' = shown /\ stage' = stage /\ row' = row
    BY <1>7 DEF CallRefused, Creating, At, bestSign
  <2>2. Ended(h)
    BY <1>1, <1>7, EndIs DEF CallRefused
  <2>3. QED
    BY <1>1, <2>1, <2>2, OriginalByParts
<1>8. CASE SaveCalled(h)
  <2>1. shown' = shown /\ stage' = stage
    BY <1>8 DEF SaveCalled, bestSign
  <2>2. row'.jdyId = Original
    BY <1>1, <1>3, <1>4, <1>8, SaveCalledIs
  <2>3. Ended(h) \/ \E r \in Row : /\ Now(h, "show", job[h].kind, job[h].no, r)
                                   /\ r.jdyId = Linked(h) /\ r.flags = {}
    BY <1>1, <1>8, SaveCalledIs
  <2>4. QED
    BY <1>1, <1>3, <2>1, <2>2, <2>3, OriginalByParts DEF Stages
<1>9. CASE ShowCalled(h)
  <2>1. ~Creating(h) /\ stage' = stage /\ row' = row
    BY <1>9 DEF ShowCalled, Creating, At, bestSign
  <2>2. /\ DOMAIN shown' = DOMAIN shown /\ row \in Row
        /\ Ended(h) \/ (row # NoRow /\ Now(h, "reset", job[h].kind, job[h].no, row))
    BY <1>1, <1>9, ShowCalledIs
  <2>3. QED
    BY <1>1, <1>4, <2>1, <2>2, OriginalByParts DEF Stages
<1>10. CASE ResetFlags(h)
  <2>1. shown' = shown /\ stage' = stage
    BY <1>10 DEF ResetFlags, bestSign
  <2>2. Ended(h) /\ row'.jdyId = Original
    BY <1>1, <1>3, <1>10, ResetFlagsIs
  <2>3. QED
    BY <1>1, <2>1, <2>2, OriginalByParts
<1>11. QED
  BY <1>5, <1>6, <1>7, <1>8, <1>9, <1>10

(* What begins: nothing is changed but that one handler is under way.      *)
LEMMA OriginalOfArrivals ==
    ASSUME RecordInv, OriginalOK, NEW h \in Handlers, ~Busy(h), NEW at \in {"upsert", "call", "find"},
           NEW kind, NEW no, NEW r \in Row, Now(h, at, kind, no, r),
           UNCHANGED <<stage, row, shown>>, at # "upsert" => r.jdyId = Original,
           no > 0 => row.jdyId = Original
    PROVE  OriginalOK'
<1>1. /\ job'[h] # Idle /\ job'[h].at = at /\ job'[h].no = no /\ job'[h].rec = r
      /\ \A g \in Handlers : g # h => job'[g] = job[g]
  BY NowIsBusy DEF Stages
<1>2. \A g \in Handlers : Creating(g) => Creating(g)'
  BY <1>1 DEF Creating, Busy, At
<1>3. stage' # "none" => row'.jdyId = Original \/ \E g \in Handlers : Creating(g)'
  BY <1>2 DEF OriginalOK
<1>4. ASSUME NEW g \in Handlers, job'[g] # Idle
      PROVE  /\ job'[g].at \notin {"upsert", "load"} => job'[g].rec.jdyId = Original
             /\ job'[g].at \notin {"create", "link"}
             /\ job'[g].no > 0 => row'.jdyId = Original
  <2>1. CASE g # h
    BY <1>1, <1>4, <2>1 DEF OriginalOK, Busy, At, Linked
  <2>2. CASE g = h
    BY <1>1, <2>2
  <2>3. QED
    BY <2>1, <2>2
<1>5. QED
  BY <1>3, <1>4 DEF OriginalOK, Busy, At, Linked

LEMMA OriginalStep == RecordInv /\ OriginalInv /\ [Next]_vars => OriginalInv'
<1> SUFFICES ASSUME RecordInv, OriginalInv, [Next]_vars, Original \in DOMAIN shown',
                    inOrder', faults' = 0
             PROVE  OriginalOK'
  BY DEF OriginalInv
<1>1. TypeOK /\ BaseInv
  BY DEF RecordInv, BaseInv
<1>2. OriginalOK \/ ~(Original \in DOMAIN shown /\ inOrder /\ faults = 0)
  BY DEF OriginalInv
<1>3. ASSUME UNCHANGED <<row, shown, job, inOrder, faults>>,
             stage' # "none" => stage # "none"
      PROVE  OriginalOK'
  BY <1>2, <1>3 DEF OriginalOK, Creating, Busy, At, Linked
<1>4. CASE PersonSigns
  <2>1. stage = "sent"
    BY <1>4 DEF PersonSigns, Signs2
  <2>2. QED
    BY <1>3, <1>4, <2>1 DEF PersonSigns, history
<1>5. CASE PersonRejects
  BY <1>3, <1>5 DEF PersonRejects, history
<1>6. CASE UNCHANGED vars
  BY <1>3, <1>6 DEF vars, bestSign, history
<1>7. ASSUME NEW h \in Handlers, NEW i \in 1..Len(mail), Deliver(h, i) PROVE OriginalOK'
  <2>1. /\ ~Busy(h) /\ Now(h, "upsert", mail[i], i, NoRow) /\ NoRow \in Row /\ i \in Nat
        /\ i # 0
    <3>1. NoRow \in Row
      BY DEF NoRow, Row
    <3>2. i \in 1..MaxMail /\ MaxMail \in Nat
      BY <1>1, <1>7, DeliverIs, BoundAssumption
    <3>3. QED
      BY <1>1, <1>7, <3>1, <3>2, DeliverIs
  <2>2. /\ UNCHANGED <<stage, mail, row, shown, faults>> /\ inOrder /\ Alone(h, i)
    BY <1>7 DEF Deliver, bestSign
  <2>3. OriginalOK
    BY <1>2, <2>2
  <2>4. stage # "none"
    <3>1. mail # <<>>
      BY <1>1 DEF TypeOK
    <3>2. QED
      BY <3>1 DEF RecordInv, EarlyInv
  <2>5. \A g \in Handlers : ~Creating(g)
    <3> SUFFICES ASSUME NEW g \in Handlers, Creating(g) PROVE FALSE
      OBVIOUS
    <3>1. Busy(g) /\ At(g, {"find", "save"})
      BY DEF Creating
    <3>2. job[g].no = 0 /\ g # h
      BY <1>1, <2>1, <3>1, JobsOfUsers DEF At
    <3>3. QED
      BY <2>1, <2>2, <3>1, <3>2 DEF Alone, Busy
  <2>6. row.jdyId = Original
    BY <2>3, <2>4, <2>5 DEF OriginalOK
  <2>7. QED
    BY <2>1, <2>2, <2>3, <2>6, OriginalOfArrivals
<1>8. ASSUME NEW h \in Handlers, NEW kind \in UserKinds, NEW form \in Forms,
             UserActs(h, kind, form)
      PROVE  OriginalOK'
  <2>1. UNCHANGED <<stage, row, shown, faults>> /\ inOrder
    BY <1>8 DEF UserActs
  <2>2. OriginalOK
    BY <1>2, <2>1
  <2>3. ~Busy(h) /\ form = Original
    BY <1>1, <1>8, <2>2, UserActsIs DEF OriginalOK
  <2>4. PICK at \in {"call", "find"}, r \in Row :
            Now(h, at, kind, 0, r) /\ r.jdyId = form /\ r.flags = {}
    BY <1>1, <1>8, UserActsIs
  <2>5. QED
    BY <2>1, <2>2, <2>3, <2>4, OriginalOfArrivals
<1>9. ASSUME NEW h \in Handlers, Fails(h) PROVE FALSE
  BY <1>1, <1>9, FailsIs
<1>10. ASSUME NEW h \in Handlers, NEW form \in Copies, CreateForm(h, form) PROVE OriginalOK'
  <2>1. DOMAIN shown' = DOMAIN shown \cup {form}
    BY <1>1, <1>10, CreateFormIs
  <2>2. Original \in DOMAIN shown
    BY <2>1, FormAssumption
  <2>3. inOrder /\ faults = 0
    BY <1>10 DEF CreateForm, history
  <2>4. QED
    BY <1>2, <1>10, <2>2, <2>3, OriginalOfNotifications
<1>11. ASSUME NEW h \in Handlers,
              \/ Upsert(h) \/ Load(h) \/ Append1(h) \/ Overview(h)
              \/ Link(h) \/ Unlinked(h) \/ Rejected(h) \/ Upload(h) \/ SaveFlag(h)
              \/ ShowNotified(h)
       PROVE  OriginalOK'
  <2>1. inOrder /\ faults = 0
    BY <1>11 DEF history, Upsert, Load, Append1, Overview, Link, Unlinked, Rejected, Upload,
                 SaveFlag, ShowNotified
  <2>2. DOMAIN shown' = DOMAIN shown
    BY <1>1, <1>11, ShowNotifiedIs DEF Upsert, Load, Append1, Overview, Link, Unlinked, Rejected,
                 Upload, SaveFlag, Show
  <2>3. QED
    BY <1>2, <1>11, <2>1, <2>2, OriginalOfNotifications
<1>12. ASSUME NEW h \in Handlers,
              \/ Find(h) \/ CallAccepted(h) \/ CallRefused(h) \/ SaveCalled(h) \/ ShowCalled(h)
              \/ ResetFlags(h)
       PROVE  OriginalOK'
  <2>1. inOrder /\ faults = 0
    BY <1>12 DEF history, Find, CallAccepted, CallRefused, SaveCalled, ShowCalled, ResetFlags
  <2>2. DOMAIN shown' = DOMAIN shown
    BY <1>1, <1>12, ShowCalledIs DEF Find, CallAccepted, CallRefused, SaveCalled, ResetFlags
  <2>3. QED
    BY <1>2, <1>12, <2>1, <2>2, OriginalOfUsers
<1>13. QED
  BY <1>4, <1>5, <1>6, <1>7, <1>8, <1>9, <1>10, <1>11, <1>12 DEF Next

-----------------------------------------------------------------------------
(* A contract that is complete *)

LEMMA NotTold == ASSUME BaseInv, Happens, newest' = newest PROVE ~Told'
<1>1. newest \in Nat /\ newest <= Len(mail) /\ Len(mail) \in Nat /\ Len(mail') \in Nat
  BY BoundAssumption DEF BaseInv, JobsInv, TypeOK, Happens
<1>2. QED
  BY <1>1 DEF Told, Happens

(* What a handler of the last notification leaves: the record is of the    *)
(* complete contract, and if it is not whole yet, this handler or one that *)
(* did not move will see to it.                                            *)
StaysWhole == row'.status = "COMPLETE" /\ \A f : Complete(f) => Complete(f)'

ArchiveKept(h) ==
    \/ "archive" \in row'.flags
    \/ Notified(h)' /\ WillArchive(h)'
    \/ row'.flags = row.flags /\ ~WillArchive(h)

ShowKept(h) ==
    \/ Complete(row.jdyId)'
    \/ Notified(h)' /\ WillShow(h)'
    \/ row'.jdyId = row.jdyId /\ ~WillShow(h)

LEMMA ToldByParts ==
    ASSUME ToldOK, NEW h \in Handlers, Notified(h), Moves(h), StaysWhole,
           Ended(h) \/ Finishes(h)', ArchiveKept(h), ShowKept(h)
    PROVE  ToldOK'
<1>1. /\ \A g \in Handlers : g # h => job'[g] = job[g]
      /\ \/ job'[h] = Idle
         \/ job'[h] # Idle /\ job'[h].no = job[h].no /\ job'[h].kind = job[h].kind
  BY MoveIs
<1>2. \A g \in Handlers : g # h /\ Notified(g) => Notified(g)'
  BY <1>1 DEF Notified, Busy
<1>3. ASSUME NEW g \in Handlers, job'[g] # Idle
      PROVE  IF job'[g].no = 0
             THEN job'[g].kind # "create" /\ job'[g].at \in {"find", "call"}
             ELSE Finishes(g)'
  <2>1. CASE g = h
    <3>1. job'[h].no # 0 /\ Finishes(h)'
      BY <1>1, <1>3, <2>1, EndedIsIdle DEF Notified
    <3>2. QED
      BY <2>1, <3>1
  <2>2. CASE g # h
    <3>1. job'[g] = job[g] /\ Busy(g)
      BY <1>1, <1>3, <2>2 DEF Busy
    <3>2. CASE job[g].no = 0
      BY <3>1, <3>2 DEF ToldOK, At
    <3>3. CASE job[g].no # 0
      <4>1. Finishes(g)
        BY <3>1, <3>3 DEF ToldOK
      <4>2. Finishes(g)'
        BY <3>1, <4>1 DEF Finishes, At, Linked, StaysWhole, Complete
      <4>3. QED
        BY <3>1, <3>3, <4>2
    <3>4. QED
      BY <3>2, <3>3
  <2>3. QED
    BY <2>1, <2>2
<1>4. "archive" \in row'.flags \/ \E g \in Handlers : Notified(g)' /\ WillArchive(g)'
  <2>1. CASE row'.flags = row.flags /\ ~WillArchive(h) /\ "archive" \notin row.flags
    <3>1. PICK g \in Handlers : Notified(g) /\ WillArchive(g)
      BY <2>1 DEF ToldOK
    <3>2. g # h
      BY <2>1, <3>1
    <3>3. WillArchive(g)'
      BY <1>1, <3>1, <3>2 DEF WillArchive, At
    <3>4. QED
      BY <1>2, <3>1, <3>2, <3>3
  <2>2. QED
    BY <2>1 DEF ArchiveKept
<1>5. Complete(row.jdyId)' \/ \E g \in Handlers : Notified(g)' /\ WillShow(g)'
  <2>1. CASE row'.jdyId = row.jdyId /\ ~WillShow(h) /\ ~Complete(row.jdyId)
    <3>1. PICK g \in Handlers : Notified(g) /\ WillShow(g)
      BY <2>1 DEF ToldOK
    <3>2. g # h
      BY <2>1, <3>1
    <3>3. WillShow(g)'
      BY <1>1, <2>1, <3>1, <3>2 DEF WillShow, At, Linked
    <3>4. QED
      BY <1>2, <3>1, <3>2, <3>3
  <2>2. CASE row'.jdyId = row.jdyId /\ Complete(row.jdyId)
    <3>1. PICK f : f = row.jdyId
      OBVIOUS
    <3>2. Complete(f)'
      BY <2>2, <3>1 DEF StaysWhole
    <3>3. QED
      BY <2>2, <3>1, <3>2 DEF Complete
  <2>3. QED
    BY <2>1, <2>2 DEF ShowKept
<1>6. QED
  BY <1>3, <1>4, <1>5 DEF ToldOK, Busy, At, StaysWhole

LEMMA ToldOfNotifications ==
    ASSUME RecordInv, ToldOK, stage = "complete", NEW h \in Handlers, Notified(h),
           \/ Upsert(h) \/ Load(h) \/ Append1(h) \/ Overview(h)
           \/ \E form \in Copies : CreateForm(h, form)
           \/ Link(h) \/ Unlinked(h) \/ Rejected(h) \/ Upload(h) \/ SaveFlag(h) \/ ShowNotified(h)
    PROVE  ToldOK'
<1>1. TypeOK /\ BaseInv /\ Moves(h) /\ Busy(h) /\ Finishes(h) /\ job[h].kind = "COMPLETE"
  <2>1. Moves(h)
    BY HandlerMoves
  <2>2. Busy(h) /\ job[h].no # 0
    <3>1. Busy(h) /\ job[h].no > 0
      BY DEF Notified
    <3>2. QED
      BY <3>1
  <2>3. Finishes(h)
    BY <2>2 DEF ToldOK
  <2>4. QED
    BY <2>1, <2>2, <2>3 DEF RecordInv, BaseInv, Finishes
<1>2. /\ job[h].rec \in Row /\ row \in Row /\ job[h].no > 0
      /\ "COMPLETE" \notin Resets /\ "COMPLETE" # "REVOKE" /\ Flag("COMPLETE") = "archive"
  BY <1>1, RecIsRow DEF TypeOK, Resets, Flag, Notified
<1>3. ASSUME NEW at \in Stages, NEW r \in Row, Now(h, at, job[h].kind, job[h].no, r)
      PROVE  /\ Notified(h)' /\ Linked(h)' = r.jdyId
             /\ job'[h].at = at /\ job'[h].kind = "COMPLETE" /\ job'[h].rec = r
  BY <1>1, <1>2, <1>3, NowIsBusy DEF Notified, Busy, Linked
<1>4. ASSUME DOMAIN shown \subseteq DOMAIN shown',
             \A f \in DOMAIN shown : shown[f] = "complete" => shown'[f] = "complete"
      PROVE  \A f : Complete(f) => Complete(f)'
  BY <1>4 DEF Complete
<1>5. CASE Upsert(h)
  <2>1. row'.status = "COMPLETE" /\ Now(h, "load", job[h].kind, job[h].no, job[h].rec)
    BY <1>1, <1>5, UpsertIs
  <2>2. job'[h].at = "load" /\ job'[h].kind = "COMPLETE" /\ Notified(h)'
    BY <1>2, <1>3, <2>1 DEF Stages
  <2>3. shown' = shown
    BY <1>5 DEF Upsert
  <2>4. Finishes(h)' /\ ArchiveKept(h) /\ ShowKept(h)
    BY <2>1, <2>2 DEF Finishes, ArchiveKept, ShowKept, WillArchive, WillShow, At
  <2>5. StaysWhole
    BY <1>4, <2>1, <2>3 DEF StaysWhole
  <2>6. QED
    BY <1>1, <2>4, <2>5, ToldByParts
<1>6. CASE Load(h)
  <2>1. row' = row /\ shown' = shown /\ row.status = "COMPLETE"
    BY <1>1, <1>6 DEF Load, Finishes, At
  <2>2. Now(h, "overview", job[h].kind, job[h].no, row)
    BY <1>1, <1>6, LoadIs
  <2>3. /\ job'[h].at = "overview" /\ job'[h].kind = "COMPLETE" /\ Notified(h)'
        /\ job'[h].rec = row /\ Linked(h)' = row.jdyId
    BY <1>2, <1>3, <2>2 DEF Stages
  <2>4. Finishes(h)' /\ ArchiveKept(h) /\ ShowKept(h)
    BY <2>1, <2>3 DEF Finishes, ArchiveKept, ShowKept, WillArchive, WillShow, At
  <2>5. StaysWhole
    BY <1>4, <2>1 DEF StaysWhole
  <2>6. QED
    BY <1>1, <2>4, <2>5, ToldByParts
<1>7. ASSUME Append1(h) \/ Unlinked(h) \/ Rejected(h) PROVE FALSE
  <2>1. CASE Append1(h)
    BY <1>1, <1>2, <2>1 DEF Append1, BaseInv, JobsInv, At
  <2>2. CASE Unlinked(h)
    BY <1>1, <2>2 DEF Unlinked, Finishes, At
  <2>3. CASE Rejected(h)
    BY <1>1, <2>3 DEF Rejected
  <2>4. QED
    BY <1>7, <2>1, <2>2, <2>3
<1>8. CASE Overview(h)
  <2>1. /\ At(h, {"overview"}) /\ shown' = shown
        /\ row.status = "COMPLETE" /\ job[h].rec.status = "COMPLETE"
    BY <1>1, <1>8 DEF Overview, Finishes, At
  <2>2. CASE Linked(h) = None /\ row' = job[h].rec
             /\ Now(h, "create", job[h].kind, job[h].no, job[h].rec)
    <3>1. /\ job'[h].at = "create" /\ job'[h].kind = "COMPLETE" /\ Notified(h)'
          /\ job'[h].rec = job[h].rec /\ Linked(h)' = None
      BY <1>2, <1>3, <2>2 DEF Stages, Linked
    <3>2. Finishes(h)' /\ ArchiveKept(h) /\ ShowKept(h)
      BY <2>1, <2>2, <3>1 DEF Finishes, ArchiveKept, ShowKept, WillArchive, WillShow, At
    <3>3. StaysWhole
      BY <1>4, <2>1, <2>2 DEF StaysWhole
    <3>4. QED
      BY <1>1, <3>2, <3>3, ToldByParts
  <2>3. CASE Linked(h) # None /\ row' = row
             /\ Now(h, "act", job[h].kind, job[h].no, job[h].rec)
    <3>1. /\ job'[h].at = "act" /\ job'[h].kind = "COMPLETE" /\ Notified(h)'
          /\ job'[h].rec = job[h].rec /\ Linked(h)' = Linked(h)
      BY <1>2, <1>3, <2>3 DEF Stages, Linked
    <3>2. Finishes(h)' /\ ArchiveKept(h) /\ ShowKept(h)
      BY <2>1, <2>3, <3>1 DEF Finishes, ArchiveKept, ShowKept, WillArchive, WillShow, At
    <3>3. StaysWhole
      BY <1>4, <2>1, <2>3 DEF StaysWhole
    <3>4. QED
      BY <1>1, <3>2, <3>3, ToldByParts
  <2>4. QED
    BY <1>1, <1>2, <1>8, <2>1, <2>2, <2>3, OverviewIs
<1>9. ASSUME NEW form \in Copies, CreateForm(h, form) PROVE ToldOK'
  <2>1. /\ At(h, {"create"}) /\ row' = row
        /\ row.status = "COMPLETE" /\ job[h].rec.status = "COMPLETE"
    BY <1>1, <1>9 DEF CreateForm, Finishes, At
  <2>2. /\ DOMAIN shown' = DOMAIN shown \cup {form}
        /\ \A f \in DOMAIN shown : shown'[f] = shown[f]
        /\ shown'[form] = "complete"
    BY <1>1, <1>9, CreateFormIs
  <2>3. \E r \in Row : /\ Now(h, "link", job[h].kind, job[h].no, r)
                       /\ r.jdyId = form /\ r.flags = job[h].rec.flags
                       /\ r.status = job[h].rec.status
    BY <1>1, <1>9, CreateFormIs
  <2>4. PICK r \in Row : /\ Now(h, "link", job[h].kind, job[h].no, r)
                         /\ r.jdyId = form /\ r.flags = job[h].rec.flags
                         /\ r.status = job[h].rec.status
    BY <2>3
  <2>5. /\ job'[h].at = "link" /\ job'[h].kind = "COMPLETE" /\ Notified(h)'
        /\ job'[h].rec = r /\ Linked(h)' = form
    BY <1>3, <2>4 DEF Stages
  <2>6. Finishes(h)' /\ ArchiveKept(h) /\ ShowKept(h)
    BY <2>1, <2>2, <2>4, <2>5
       DEF Finishes, ArchiveKept, ShowKept, WillArchive, WillShow, At, Complete
  <2>7. StaysWhole
    BY <1>4, <2>1, <2>2 DEF StaysWhole
  <2>8. QED
    BY <1>1, <2>6, <2>7, ToldByParts
<1>10. CASE Link(h)
  <2>1. /\ At(h, {"link"}) /\ shown' = shown /\ Complete(Linked(h))
        /\ row.status = "COMPLETE" /\ job[h].rec.status = "COMPLETE"
    BY <1>1, <1>10 DEF Link, Finishes, At
  <2>2. row' = job[h].rec /\ Now(h, "act", job[h].kind, job[h].no, job[h].rec)
    BY <1>1, <1>10, LinkIs
  <2>3. /\ job'[h].at = "act" /\ job'[h].kind = "COMPLETE" /\ Notified(h)'
        /\ job'[h].rec = job[h].rec /\ Linked(h)' = Linked(h)
    BY <1>2, <1>3, <2>2 DEF Stages, Linked
  <2>4. Linked(h) # None
    BY <1>1, <2>1, FormAssumption DEF Complete, TypeOK, Forms
  <2>5. Finishes(h)' /\ ArchiveKept(h)
    BY <2>1, <2>2, <2>3, <2>4 DEF Finishes, ArchiveKept, WillArchive, At
  <2>6. ShowKept(h)
    BY <2>1, <2>2 DEF ShowKept, Complete, Linked
  <2>7. StaysWhole
    BY <1>4, <2>1, <2>2 DEF StaysWhole
  <2>8. QED
    BY <1>1, <2>5, <2>6, <2>7, ToldByParts
<1>11. CASE Upload(h)
  <2>1. /\ At(h, {"act"}) /\ shown' = shown /\ row' = row /\ Linked(h) # None
        /\ row.status = "COMPLETE" /\ job[h].rec.status = "COMPLETE"
    BY <1>1, <1>11 DEF Upload, Finishes, At
  <2>2. CASE /\ "archive" \in job[h].rec.flags
             /\ \E r \in Row : /\ Now(h, "show", job[h].kind, job[h].no, r)
                               /\ r.jdyId = Linked(h) /\ r.flags = {}
    <3>1. PICK r \in Row : /\ Now(h, "show", job[h].kind, job[h].no, r)
                           /\ r.jdyId = Linked(h) /\ r.flags = {}
      BY <2>2
    <3>2. /\ job'[h].at = "show" /\ job'[h].kind = "COMPLETE" /\ Notified(h)'
          /\ Linked(h)' = Linked(h)
      BY <1>3, <3>1 DEF Stages
    <3>3. Finishes(h)' /\ ArchiveKept(h) /\ ShowKept(h)
      BY <2>1, <2>2, <3>2 DEF Finishes, ArchiveKept, ShowKept, WillArchive, WillShow, At
    <3>4. StaysWhole
      BY <1>4, <2>1 DEF StaysWhole
    <3>5. QED
      BY <1>1, <3>3, <3>4, ToldByParts
  <2>3. CASE \E r \in Row : /\ Now(h, "flag", job[h].kind, job[h].no, r)
                            /\ r.jdyId = Linked(h) /\ r.status = job[h].rec.status
                            /\ r.flags = job[h].rec.flags \cup {"archive"}
    <3>1. PICK r \in Row : /\ Now(h, "flag", job[h].kind, job[h].no, r)
                           /\ r.jdyId = Linked(h) /\ r.status = job[h].rec.status
                           /\ r.flags = job[h].rec.flags \cup {"archive"}
      BY <2>3
    <3>2. /\ job'[h].at = "flag" /\ job'[h].kind = "COMPLETE" /\ Notified(h)'
          /\ Linked(h)' = Linked(h) /\ job'[h].rec = r
      BY <1>3, <3>1 DEF Stages
    <3>3. Finishes(h)' /\ ArchiveKept(h) /\ ShowKept(h)
      BY <2>1, <3>1, <3>2 DEF Finishes, ArchiveKept, ShowKept, WillArchive, WillShow, At
    <3>4. StaysWhole
      BY <1>4, <2>1 DEF StaysWhole
    <3>5. QED
      BY <1>1, <3>3, <3>4, ToldByParts
  <2>4. QED
    BY <1>1, <1>2, <1>11, <2>2, <2>3, UploadIs
<1>12. CASE SaveFlag(h)
  <2>1. /\ At(h, {"flag"}) /\ shown' = shown /\ Linked(h) # None
        /\ row.status = "COMPLETE" /\ job[h].rec.status = "COMPLETE"
        /\ "archive" \in job[h].rec.flags
    BY <1>1, <1>12 DEF SaveFlag, Finishes, At
  <2>2. row' = job[h].rec
    BY <1>1, <1>12, SaveFlagIs
  <2>3. PICK r \in Row : /\ Now(h, "show", job[h].kind, job[h].no, r)
                         /\ r.jdyId = Linked(h) /\ r.flags = {}
    BY <1>1, <1>12, SaveFlagIs
  <2>4. /\ job'[h].at = "show" /\ job'[h].kind = "COMPLETE" /\ Notified(h)'
        /\ Linked(h)' = Linked(h)
    BY <1>3, <2>3 DEF Stages
  <2>5. Finishes(h)' /\ ArchiveKept(h) /\ ShowKept(h)
    BY <2>1, <2>2, <2>4 DEF Finishes, ArchiveKept, ShowKept, WillShow, At, Linked
  <2>6. StaysWhole
    BY <1>4, <2>1, <2>2 DEF StaysWhole
  <2>7. QED
    BY <1>1, <2>5, <2>6, ToldByParts
<1>13. CASE ShowNotified(h)
  <2>1. /\ At(h, {"show"}) /\ row' = row /\ Linked(h) # None /\ row.status = "COMPLETE"
    BY <1>1, <1>13 DEF ShowNotified, Finishes, At
  <2>2. /\ Ended(h) /\ DOMAIN shown' = DOMAIN shown
        /\ \A f \in DOMAIN shown : shown'[f] = IF f = Linked(h) THEN "complete" ELSE shown[f]
    BY <1>1, <1>13, ShowNotifiedIs
  <2>3. ArchiveKept(h)
    BY <2>1 DEF ArchiveKept, WillArchive, At
  <2>4. ShowKept(h)
    <3>1. CASE Linked(h) = row.jdyId
      <4>1. row.jdyId \in DOMAIN shown
        BY <1>1, <2>1, <3>1 DEF RecordInv, LinksInv
      <4>2. QED
        BY <2>1, <2>2, <3>1, <4>1 DEF ShowKept, Complete
    <3>2. CASE Linked(h) # row.jdyId
      BY <2>1, <3>2 DEF ShowKept, WillShow, At
    <3>3. QED
      BY <3>1, <3>2
  <2>5. StaysWhole
    <3>1. \A f \in DOMAIN shown : shown[f] = "complete" => shown'[f] = "complete"
      BY <2>2
    <3>2. QED
      BY <1>4, <2>1, <2>2, <3>1 DEF StaysWhole
  <2>6. QED
    BY <1>1, <2>2, <2>3, <2>4, <2>5, ToldByParts
<1>14. QED
  BY <1>5, <1>6, <1>7, <1>8, <1>9, <1>10, <1>11, <1>12, <1>13

(* A user finds a complete contract alone: nothing is left to be done for  *)
(* its record, and what the user does leaves it as it is.                  *)
LEMMA ToldOfUsers ==
    ASSUME RecordInv, OrderInv, inOrder, ToldOK, NEW h \in Handlers, Busy(h), job[h].no = 0,
           \/ Find(h) \/ CallRefused(h) \/ SaveCalled(h) \/ ShowCalled(h) \/ ResetFlags(h)
    PROVE  ToldOK'
<1>1. TypeOK /\ BaseInv /\ Moves(h)
  BY HandlerMoves DEF RecordInv, BaseInv
<1>2. job[h].kind # "create" /\ At(h, {"find", "call"})
  BY DEF ToldOK
<1>3. \A g \in Handlers : Busy(g) => g = h
  BY DEF OrderInv
<1>4. \A g \in Handlers : ~Notified(g)
  BY <1>3 DEF Notified
<1>5. row.status = "COMPLETE" /\ "archive" \in row.flags /\ Complete(row.jdyId)
  BY <1>4 DEF ToldOK
<1>6. /\ Find(h) \/ CallRefused(h)
      /\ row' = row /\ shown' = shown
  BY <1>2 DEF Find, CallRefused, SaveCalled, ShowCalled, ResetFlags, At
<1>7. Ended(h) \/ \E r \in Row : Now(h, "call", job[h].kind, job[h].no, r)
  <2>1. CASE Find(h)
    <3>1. job[h].rec \in Row
      BY <1>1, RecIsRow
    <3>2. QED
      BY <1>1, <1>2, <1>5, <2>1, <3>1, FindIs
  <2>2. CASE CallRefused(h)
    BY <1>1, <2>2, EndIs DEF CallRefused
  <2>3. QED
    BY <1>6, <2>1, <2>2
<1>8. /\ \A g \in Handlers : g # h => job'[g] = Idle
      /\ \/ job'[h] = Idle
         \/ job'[h].no = 0 /\ job'[h].kind # "create" /\ job'[h].at = "call"
  <2>1. \A g \in Handlers : g # h => job[g] = Idle
    BY <1>3 DEF Busy
  <2>2. CASE Ended(h)
    BY <2>1, <2>2, EndedIsIdle
  <2>3. CASE \E r \in Row : Now(h, "call", job[h].kind, job[h].no, r)
    BY <1>2, <2>1, <2>3, NowIsBusy DEF Stages
  <2>4. QED
    BY <1>7, <2>2, <2>3
<1>9. Complete(row.jdyId)'
  BY <1>5, <1>6 DEF Complete
<1>10. QED
  BY <1>5, <1>6, <1>8, <1>9 DEF ToldOK, Busy, At

LEMMA ToldOfDelivery ==
    ASSUME RecordInv, CompleteSent, ToldInv, NEW h \in Handlers, NEW i \in 1..Len(mail),
           Deliver(h, i), Told'
    PROVE  ToldOK'
<1>1. TypeOK /\ BaseInv
  BY DEF RecordInv, BaseInv
<1>2. newest \in Nat /\ Len(mail) \in Nat /\ newest <= Len(mail)
  BY <1>1, BoundAssumption DEF BaseInv, JobsInv, TypeOK
<1>3. /\ UNCHANGED <<stage, mail, row, shown, faults>>
      /\ inOrder /\ i \in {newest, newest + 1} /\ Alone(h, i)
      /\ newest' = IF i > newest THEN i ELSE newest
  BY DEF Deliver, bestSign, Told
<1>4. stage = "complete" /\ newest' = Len(mail) /\ i \in Nat /\ i > 0
  BY <1>3 DEF Told
<1>5. i = Len(mail)
  BY <1>2, <1>3, <1>4
<1>6. mail[i] = "COMPLETE"
  BY <1>4, <1>5 DEF CompleteSent
<1>7. /\ job'[h] # Idle /\ job'[h].at = "upsert" /\ job'[h].kind = "COMPLETE" /\ job'[h].no = i
      /\ \A g \in Handlers : g # h => job'[g] = job[g]
  BY <1>1, <1>6, DeliverIs, NowIsBusy DEF Stages
<1>8. Notified(h)' /\ Finishes(h)' /\ WillArchive(h)' /\ WillShow(h)'
  BY <1>4, <1>7 DEF Notified, Busy, Finishes, WillArchive, WillShow, At
<1>9. ASSUME NEW g \in Handlers, job'[g] # Idle
      PROVE  IF job'[g].no = 0
             THEN job'[g].kind # "create" /\ job'[g].at \in {"find", "call"}
             ELSE Finishes(g)'
  <2>1. CASE g = h
    BY <1>4, <1>7, <1>8, <2>1
  <2>2. CASE g # h
    <3>1. job'[g] = job[g] /\ Busy(g)
      BY <1>7, <1>9, <2>2 DEF Busy
    <3>2. newest = Len(mail)
      <4>1. job[g].no = i /\ job[g].no <= newest
        BY <1>1, <1>3, <2>2, <3>1, NumbersAreOld DEF Alone, Busy
      <4>2. QED
        BY <1>2, <1>5, <4>1
    <3>3. ToldOK
      BY <1>3, <1>4, <3>2 DEF ToldInv, Told
    <3>4. CASE job[g].no = 0
      BY <3>1, <3>3, <3>4 DEF ToldOK, At
    <3>5. CASE job[g].no # 0
      <4>1. Finishes(g)
        BY <3>1, <3>3, <3>5 DEF ToldOK
      <4>2. Finishes(g)'
        BY <1>3, <3>1, <4>1 DEF Finishes, At, Linked, Complete
      <4>3. QED
        BY <3>1, <3>5, <4>2
    <3>6. QED
      BY <3>4, <3>5
  <2>3. QED
    BY <2>1, <2>2
<1>10. At(h, {"upsert"})'
  BY <1>7 DEF At
<1>11. QED
  BY <1>8, <1>9, <1>10 DEF ToldOK, Busy, At

LEMMA ToldOfActs ==
    ASSUME RecordInv, ToldInv, NEW h \in Handlers, NEW kind \in UserKinds, NEW form \in Forms,
           UserActs(h, kind, form), Told'
    PROVE  ToldOK'
<1>1. TypeOK
  BY DEF RecordInv, BaseInv
<1>2. /\ UNCHANGED <<stage, mail, row, shown, newest, faults>> /\ inOrder
      /\ \A g \in Handlers : job[g] = Idle
  BY DEF UserActs, Told
<1>3. Told /\ stage = "complete"
  BY <1>2 DEF Told
<1>4. ToldOK
  BY <1>3 DEF ToldInv
<1>5. row.status = "COMPLETE" /\ "archive" \in row.flags /\ Complete(row.jdyId)
  BY <1>2, <1>4 DEF ToldOK, Notified, Busy
<1>6. PICK at \in {"call", "find"}, r \in Row : Now(h, at, kind, 0, r)
  BY <1>1, UserActsIs
<1>7. kind # "create"
  BY <1>1, <1>3, UserActsIs
<1>8. /\ job'[h].no = 0 /\ job'[h].kind = kind /\ job'[h].at = at
      /\ \A g \in Handlers : g # h => job'[g] = Idle
  BY <1>2, <1>6, NowIsBusy DEF Stages
<1>9. Complete(row.jdyId)'
  BY <1>2, <1>5 DEF Complete
<1>10. QED
  BY <1>2, <1>5, <1>7, <1>8, <1>9 DEF ToldOK, Busy, At

LEMMA ToldStep ==
    RecordInv /\ OrderInv /\ CompleteSent /\ ToldInv /\ [Next]_vars => CompleteSent' /\ ToldInv'
<1> SUFFICES ASSUME RecordInv, OrderInv, CompleteSent, ToldInv, [Next]_vars
             PROVE  CompleteSent' /\ ToldInv'
  OBVIOUS
<1>1. TypeOK /\ BaseInv
  BY DEF RecordInv, BaseInv
<1>2. ASSUME Happens, newest' = newest PROVE CompleteSent' /\ ToldInv'
  <2>1. ToldInv'
    BY <1>1, <1>2, NotTold DEF ToldInv
  <2>2. CompleteSent'
    <3>1. Len(mail) \in Nat /\ Len(mail') \in Nat
      BY <1>1, <1>2 DEF TypeOK, Happens
    <3>2. QED
      BY <1>2, <3>1 DEF Happens, CompleteSent
  <2>3. QED
    BY <2>1, <2>2
<1>3. ASSUME UNCHANGED <<stage, mail>> PROVE CompleteSent'
  BY <1>3 DEF CompleteSent
<1>4. CASE PersonSigns
  <2>1. Happens
    BY <1>1, <1>4, SignsHappens DEF PersonSigns
  <2>2. QED
    BY <1>2, <1>4, <2>1 DEF PersonSigns, history
<1>5. CASE PersonRejects
  <2>1. /\ stage = "sent" /\ stage' = "rejected" /\ signed' = signed /\ Send(<<"REJECT">>)
        /\ "REJECT" \in Kinds /\ signed \subseteq {"person", "company"}
    BY <1>1, <1>5 DEF PersonRejects, TypeOK, Kinds, Resets
  <2>2. Happens
    BY <1>1, <2>1, SendsOne DEF Happens
  <2>3. QED
    BY <1>2, <1>5, <2>2 DEF PersonRejects, history
<1>6. ASSUME NEW h \in Handlers, NEW i \in 1..Len(mail), Deliver(h, i)
      PROVE  CompleteSent' /\ ToldInv'
  BY <1>3, <1>6, ToldOfDelivery DEF ToldInv, Deliver, bestSign
<1>7. ASSUME NEW h \in Handlers, NEW kind \in UserKinds, NEW form \in Forms,
             UserActs(h, kind, form)
      PROVE  CompleteSent' /\ ToldInv'
  BY <1>3, <1>7, ToldOfActs DEF ToldInv, UserActs
<1>8. ASSUME NEW h \in Handlers, CallAccepted(h) PROVE CompleteSent' /\ ToldInv'
  <2>1. At(h, {"call"})
    BY <1>8 DEF CallAccepted
  <2>2. job[h].kind \in UserKinds
    BY <1>1, <2>1, BusyAt, JobsOfUsers DEF Stages, At
  <2>3. QED
    BY <1>1, <1>2, <1>8, <2>2, CallIs DEF CallAccepted, history
<1>9. ASSUME NEW h \in Handlers, Fails(h) PROVE CompleteSent' /\ ToldInv'
  <2>1. faults' # 0 /\ UNCHANGED <<stage, mail>>
    BY <1>1, <1>9, FailsIs DEF Fails, bestSign
  <2>2. QED
    BY <1>3, <2>1 DEF ToldInv, Told
<1>10. ASSUME UNCHANGED <<stage, mail, newest, inOrder, faults>>, Told' PROVE Told /\ ToldOK
  BY <1>10 DEF Told, ToldInv
<1>11. ASSUME NEW h \in Handlers,
              \/ Upsert(h) \/ Load(h) \/ Append1(h) \/ Overview(h)
              \/ \E form \in Copies : CreateForm(h, form)
              \/ Link(h) \/ Unlinked(h) \/ Rejected(h) \/ Upload(h) \/ SaveFlag(h)
              \/ ShowNotified(h)
       PROVE  CompleteSent' /\ ToldInv'
  <2>1. UNCHANGED <<stage, mail, newest, inOrder, faults>>
    BY <1>11 DEF bestSign, history, Upsert, Load, Append1, Overview, CreateForm, Link, Unlinked,
                 Rejected, Upload, SaveFlag, ShowNotified
  <2>2. Notified(h)
    <3>1. Busy(h)
      BY <1>11, HandlerMoves DEF Moves
    <3>2. CASE ShowNotified(h)
      <4>1. job[h].kind \in Kinds /\ job[h].no \in Nat
        BY <1>1, <3>1, <3>2, NumbersAreOld DEF ShowNotified
      <4>2. job[h].kind \notin UserKinds
        BY <4>1, KindAssumption DEF Kinds, Signs, Resets
      <4>3. job[h].no # 0
        BY <1>1, <3>1, <4>2 DEF BaseInv, JobsInv
      <4>4. QED
        BY <3>1, <4>1, <4>3 DEF Notified
    <3>3. CASE ~ShowNotified(h)
      <4>1. At(h, {"upsert", "load", "append", "overview", "create", "link", "act", "flag"})
        BY <1>11, <3>3 DEF Upsert, Load, Append1, Overview, CreateForm, Link, Unlinked, Rejected,
                           Upload, SaveFlag, At
      <4>2. QED
        BY <1>1, <3>1, <4>1, JobsOfUsers DEF Notified
    <3>4. QED
      BY <3>2, <3>3
  <2>3. ASSUME Told' PROVE ToldOK'
    <3>1. Told /\ ToldOK
      BY <1>10, <2>1, <2>3
    <3>2. stage = "complete"
      BY <3>1 DEF Told
    <3>3. QED
      BY <1>11, <2>2, <3>1, <3>2, ToldOfNotifications
  <2>4. QED
    BY <1>3, <2>1, <2>3 DEF ToldInv
<1>12. ASSUME NEW h \in Handlers,
              \/ Find(h) \/ CallRefused(h) \/ SaveCalled(h) \/ ShowCalled(h) \/ ResetFlags(h)
       PROVE  CompleteSent' /\ ToldInv'
  <2>1. UNCHANGED <<stage, mail, newest, inOrder, faults>>
    BY <1>12 DEF bestSign, history, Find, CallRefused, SaveCalled, ShowCalled, ResetFlags
  <2>2. Busy(h) /\ job[h].no = 0
    <3>1. Busy(h)
      BY <1>12, HandlerMoves DEF Moves
    <3>2. CASE ShowCalled(h)
      <4>1. job[h].kind \in UserKinds /\ mail \in Seq(Kinds) /\ job[h].no \in 0..MaxMail
        BY <1>1, <3>1, <3>2, JobsOfUsers DEF ShowCalled, TypeOK
      <4>2. job[h].kind \notin Kinds
        BY <4>1, KindAssumption DEF Kinds, Signs, Resets
      <4>3. job[h].no # 0 => job[h].kind = mail[job[h].no] /\ job[h].no \in 1..Len(mail)
        <5>1. job[h].no # 0 => job[h].kind = mail[job[h].no] /\ job[h].no <= newest
          BY <1>1, <3>1 DEF BaseInv, JobsInv
        <5>2. newest <= Len(mail) /\ newest \in Nat /\ Len(mail) \in Nat /\ job[h].no \in Nat
          BY <1>1, <4>1, BoundAssumption DEF BaseInv, JobsInv, TypeOK
        <5>3. QED
          BY <5>1, <5>2
      <4>4. QED
        BY <3>1, <4>1, <4>2, <4>3
    <3>3. CASE ~ShowCalled(h)
      <4>1. At(h, {"call", "find", "save", "reset"})
        BY <1>12, <3>3 DEF Find, CallRefused, SaveCalled, ResetFlags, At
      <4>2. QED
        BY <1>1, <3>1, <4>1, JobsOfUsers
    <3>4. QED
      BY <3>2, <3>3
  <2>3. ASSUME Told' PROVE ToldOK'
    <3>1. Told /\ ToldOK
      BY <1>10, <2>1, <2>3
    <3>2. inOrder
      BY <3>1 DEF Told
    <3>3. QED
      BY <1>12, <2>2, <3>1, <3>2, ToldOfUsers
  <2>4. QED
    BY <1>3, <2>1, <2>3 DEF ToldInv
<1>13. CASE UNCHANGED vars
  <2>1. UNCHANGED <<stage, mail, newest, inOrder, faults, row, shown, job>>
    BY <1>13 DEF vars, bestSign, history
  <2>2. ToldInv'
    BY <2>1 DEF ToldInv, Told, ToldOK, Finishes, WillArchive, WillShow, Complete, Notified, Busy,
                At, Linked
  <2>3. QED
    BY <1>3, <2>1, <2>2
<1>14. QED
  BY <1>4, <1>5, <1>6, <1>7, <1>8, <1>9, <1>11, <1>12, <1>13 DEF Next

-----------------------------------------------------------------------------
(* The theorems *)

OrderlyInv == RecordInv /\ OrderInv /\ OriginalInv /\ CompleteSent /\ ToldInv

LEMMA OrderlyInit == Init => OrderlyInv
<1> SUFFICES ASSUME Init PROVE OrderInv /\ OriginalInv /\ CompleteSent /\ ToldInv
  BY RecordInit DEF OrderlyInv
<1>1. stage \in {"none", "sent"} /\ row = NoRow /\ \A h \in Handlers : ~Busy(h)
  BY DEF Init, Busy
<1>2. Original \in DOMAIN shown => stage = "none" /\ DOMAIN shown = {Original}
  BY DEF Init
<1>3. QED
  BY <1>1, <1>2 DEF OrderInv, OriginalInv, OriginalOK, CompleteSent, ToldInv, Told

LEMMA OrderlyKept == OrderlyInv /\ [Next]_vars => OrderlyInv'
BY RecordKept, OrderStep, OriginalStep, ToldStep DEF OrderlyInv

(* When the events of a contract came in order and without errors and all  *)
(* of them were handled, a complete contract is shown as complete by the   *)
(* form of its record, and its archive was uploaded.                       *)
THEOREM CompletedIsShown == Spec => []CompleteIsShown
<1>1. ASSUME OrderlyInv PROVE CompleteIsShown
  <2> SUFFICES ASSUME Told, AllIdle
               PROVE  /\ row.jdyId \in DOMAIN shown /\ shown[row.jdyId] = "complete"
                      /\ "archive" \in row.flags
    BY DEF CompleteIsShown, Told
  <2>1. ToldOK
    BY <1>1 DEF OrderlyInv, ToldInv
  <2>2. \A h \in Handlers : ~Notified(h)
    BY DEF AllIdle, Notified, Busy
  <2>3. QED
    BY <2>1, <2>2 DEF ToldOK, Complete
<1>2. QED
  BY OrderlyInit, OrderlyKept, <1>1, PTL DEF Spec

(* While the events come in order and without errors, the form a contract  *)
(* was made from stays its only one.                                       *)
THEOREM OneForm == Spec => []NoSecondForm
<1>1. OrderlyInv => NoSecondForm
  BY DEF OrderlyInv, OriginalInv, OriginalOK, NoSecondForm
<1>2. QED
  BY OrderlyInit, OrderlyKept, <1>1, PTL DEF Spec
=============================================================================
