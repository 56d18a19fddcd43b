--------------------------- MODULE ConceptResolver ---------------------------
(***************************************************************************)
(* The concept resolver (features/productConfigAgent/dictionary/           *)
(* conceptResolver.service.ts).  A run takes one candidate: it reads the   *)
(* dictionary version, gets a snapshot of the dictionary for that version, *)
(* records its decision under candidate and version, shows it at the       *)
(* candidate and makes sure that the pattern of the decision has a review. *)
(* The runs of a service share its snapshot, the load of a snapshot that   *)
(* is under way and the set of the patterns known to have a review.  Each  *)
(* DictionaryService has a resolver, the routes and the backfill script    *)
(* have another; people review the patterns meanwhile.                     *)
(*                                                                         *)
(* Abstractions.  The content of the dictionary is the number of its last  *)
(* change; the pattern a decision comes to is any.                         *)
(***************************************************************************)
EXTENDS Integers

CONSTANTS
    Services,   \* instances of ConceptResolverService
    Runs,       \* calls of resolveCandidate that can be under way at once
    ServiceOf,  \* the service of a run
    Candidates, Patterns,
    Reviewers,  \* calls of reviewPattern
    MaxContent, \* bound on the changes of the dictionary
    MaxErrors   \* bound on errors and restarts

ASSUME RunsAssumption == ServiceOf \in [Runs -> Services]
ASSUME BoundsAssumption == MaxContent \in Nat /\ MaxErrors \in Nat

VARIABLES
    content,   \* number of the last change of the dictionary
    dictVersion,
    published, \* what the content was when a version was raised
    owed,      \* the content has changed since the version was raised
    stage,     \* how far a run has come
    subject,   \* its candidate
    target,    \* the dictionary version it has read
    got,       \* the content it goes by
    pattern,   \* the pattern of its decision
    waits,     \* the run whose load it waits for
    snapshot,  \* dictionarySnapshot of a service
    flight,    \* the run whose load is dictionarySnapshotPromise
    decisions, \* concept_resolutions
    shown,     \* version of the decision a candidate shows
    keysRead,  \* how knownPatternKeysPromise ended
    known,     \* knownPatternKeys
    reviews,   \* concept_pattern_reviews
    looking,   \* reviews that are being saved
    errors

dictionary   == <<content, dictVersion, published, owed>>
shared       == <<snapshot, flight>>
keyVars      == <<keysRead, known>>
patternVars  == <<keyVars, reviews, looking>>
runData      == <<subject, target, got, pattern, waits>>
runVars      == <<stage, runData>>
resolverVars == <<dictionary, runVars, shared, decisions, shown, patternVars, errors>>

None       == 0
NoRun      == "none"
Decided    == {"reviewed", "applied"}
Statuses   == Decided \cup {"none", "pending"}
NotLooking == [pattern |-> None, found |-> "none", status |-> "none"]

Stages == {"idle", "asked", "versioned", "joins", "load", "loaded",
           "save", "show", "keys", "insert"}

ResolverTypeOK ==
    /\ content \in Nat \ {0} /\ dictVersion \in Nat \ {0}
    /\ published \in [1..dictVersion -> Nat] /\ owed \in BOOLEAN
    /\ stage \in [Runs -> Stages] /\ subject \in [Runs -> Candidates \cup {None}]
    /\ target \in [Runs -> Nat] /\ got \in [Runs -> Nat]
    /\ pattern \in [Runs -> Patterns \cup {None}] /\ waits \in [Runs -> Runs \cup {NoRun}]
    /\ snapshot \in [Services -> [version : Nat, got : Nat]]
    /\ flight \in [Services -> Runs \cup {NoRun}]
    /\ decisions \subseteq [candidate : Candidates, version : Nat, got : Nat, pattern : Patterns]
    /\ shown \in [Candidates -> Nat]
    /\ keysRead \in [Services -> {"unread", "read", "failed"}]
    /\ known \in [Services -> SUBSET Patterns]
    /\ reviews \in [Patterns -> Statuses]
    /\ looking \in [Reviewers -> [pattern : Patterns \cup {None}, found : Statuses,
                                  status : Statuses]]
    /\ errors \in 0..MaxErrors

NoSnapshot == [s \in Services |-> [version |-> None, got |-> None]]
NoFlight   == [s \in Services |-> NoRun]
Unread     == [s \in Services |-> "unread"]
NoKeys     == [s \in Services |-> {}]

ResolverInit ==
    /\ content = 1 /\ dictVersion = 1 /\ published = [v \in 1..1 |-> 1] /\ owed = FALSE
    /\ stage = [r \in Runs |-> "idle"] /\ subject = [r \in Runs |-> None]
    /\ target = [r \in Runs |-> None] /\ got = [r \in Runs |-> None]
    /\ pattern = [r \in Runs |-> None] /\ waits = [r \in Runs |-> NoRun]
    /\ snapshot = NoSnapshot /\ flight = NoFlight
    /\ keysRead = Unread /\ known = NoKeys
    /\ decisions = {} /\ shown = [c \in Candidates |-> None]
    /\ reviews = [p \in Patterns |-> "none"]
    /\ looking = [h \in Reviewers |-> NotLooking]
    /\ errors = 0

-----------------------------------------------------------------------------
(* The dictionary *)

Published == [v \in 1..(dictVersion + 1) |-> IF v > dictVersion THEN content' ELSE published[v]]

(* mutateDictionary: the change and the version are one transaction.       *)
MutateDictionary ==
    /\ content < MaxContent /\ content' = content + 1
    /\ dictVersion' = dictVersion + 1 /\ published' = Published
    /\ owed' = FALSE
    /\ UNCHANGED <<runVars, shared, decisions, shown, patternVars, errors>>

(* Other changes raise the version afterwards, ...                         *)
ChangeContent ==
    /\ content < MaxContent /\ content' = content + 1
    /\ owed' = TRUE
    /\ UNCHANGED <<dictVersion, published, runVars, shared, decisions, shown, patternVars, errors>>

(* ... incrementDictionaryVersion.                                         *)
RaiseVersion ==
    /\ owed /\ owed' = FALSE
    /\ dictVersion' = dictVersion + 1 /\ UNCHANGED content /\ published' = Published
    /\ UNCHANGED <<runVars, shared, decisions, shown, patternVars, errors>>

-----------------------------------------------------------------------------
(* resolveCandidate *)

Goes(r, from, to) == stage[r] = from /\ stage' = [stage EXCEPT ![r] = to]

Ends(S) ==
    /\ stage'   = [x \in Runs |-> IF x \in S THEN "idle" ELSE stage[x]]
    /\ subject' = [x \in Runs |-> IF x \in S THEN None ELSE subject[x]]
    /\ target'  = [x \in Runs |-> IF x \in S THEN None ELSE target[x]]
    /\ got'     = [x \in Runs |-> IF x \in S THEN None ELSE got[x]]
    /\ pattern' = [x \in Runs |-> IF x \in S THEN None ELSE pattern[x]]
    /\ waits'   = [x \in Runs |-> IF x \in S THEN NoRun ELSE waits[x]]

(* enqueueCandidate, or the next candidate of runResolver or the backfill: *)
(* each asks for a decision whether there is one or not.                   *)
Resolve(r, c) ==
    /\ Goes(r, "idle", "asked")
    /\ subject' = [subject EXCEPT ![r] = c]
    /\ UNCHANGED <<dictionary, target, got, pattern, waits, shared, decisions, shown,
                   patternVars, errors>>

ReadVersion(r) ==
    /\ Goes(r, "asked", "versioned")
    /\ target' = [target EXCEPT ![r] = dictVersion]
    /\ UNCHANGED <<dictionary, subject, got, pattern, waits, shared, decisions, shown,
                   patternVars, errors>>

(* loadDictionarySnapshot: the snapshot of the service will do, ...        *)
UseSnapshot(r) ==
    LET had == snapshot[ServiceOf[r]] IN
    /\ Goes(r, "versioned", "save")
    /\ had.version = target[r]
    /\ got' = [got EXCEPT ![r] = had.got]
    /\ UNCHANGED <<dictionary, subject, target, pattern, waits, shared, decisions, shown,
                   patternVars, errors>>

(* ... or a load is under way, whatever its version, and is waited for ... *)
JoinLoad(r) ==
    LET s == ServiceOf[r] IN
    /\ Goes(r, "versioned", "joins")
    /\ snapshot[s].version # target[r] /\ flight[s] # NoRun
    /\ waits' = [waits EXCEPT ![r] = flight[s]]
    /\ UNCHANGED <<dictionary, subject, target, got, pattern, shared, decisions, shown,
                   patternVars, errors>>

(* ... or the run loads a snapshot itself.                                 *)
BeginLoad(r) ==
    LET s == ServiceOf[r] IN
    /\ Goes(r, "versioned", "load")
    /\ snapshot[s].version # target[r] /\ flight[s] = NoRun
    /\ flight' = [flight EXCEPT ![s] = r]
    /\ UNCHANGED <<dictionary, runData, snapshot, decisions, shown, patternVars, errors>>

(* The tables are read, some time before their rows are taken over.        *)
ReadTables(r) ==
    /\ Goes(r, "load", "loaded")
    /\ got' = [got EXCEPT ![r] = content]
    /\ UNCHANGED <<dictionary, subject, target, pattern, waits, shared, decisions, shown,
                   patternVars, errors>>

Joined(r) == {j \in Runs : stage[j] = "joins" /\ waits[j] = r}

(* The load of r ends: some go on with it, others begin one of their own;  *)
(* of several loads that begin, the last is dictionarySnapshotPromise.     *)
LoadEnds(r, served, unserved) ==
    LET s == ServiceOf[r] IN
    /\ stage[r] = "loaded"
    /\ stage' = [x \in Runs |-> IF x = r \/ x \in served THEN "save"
                                ELSE IF x \in unserved THEN "load" ELSE stage[x]]
    /\ got' = [x \in Runs |-> IF x \in served THEN got[r] ELSE got[x]]
    /\ waits' = [x \in Runs |-> IF x \in Joined(r) THEN NoRun ELSE waits[x]]
    /\ snapshot' = [snapshot EXCEPT ![s] = [version |-> target[r], got |-> got[r]]]
    /\ \E f \in IF unserved = {} THEN {NoRun} ELSE unserved : flight' = [flight EXCEPT ![s] = f]
    /\ UNCHANGED <<dictionary, subject, target, pattern, decisions, shown, patternVars, errors>>

(* Mutant: a run takes the load it has waited for, of whatever version.    *)
TakeOverAny(r) == LoadEnds(r, Joined(r), {})

(* The runs that wait go on one after the other, and those the load is of  *)
(* no use to load a snapshot each without another look.                    *)
(* dictionarySnapshotPromise is cleared, also if it is another load by     *)
(* then.                                                                   *)
TakeOver(r) ==
    LET served == {j \in Joined(r) : target[j] = target[r]}
    IN  LoadEnds(r, served, Joined(r) \ served)

(* buildDecision                                                           *)
Decision(r, p) ==
    [candidate |-> subject[r], version |-> target[r], got |-> got[r], pattern |-> p]

(* A decision replaces the one of the same candidate and version.          *)
SaveDecision(r, p) ==
    /\ Goes(r, "save", "show")
    /\ decisions' = {e \in decisions : e.candidate # subject[r] \/ e.version # target[r]}
                    \cup {Decision(r, p)}
    /\ pattern' = [pattern EXCEPT ![r] = p]
    /\ UNCHANGED <<dictionary, subject, target, got, waits, shared, shown, patternVars, errors>>

UpdateCandidateSnapshot(r) ==
    /\ Goes(r, "show", "keys")
    /\ shown' = [shown EXCEPT ![subject[r]] = target[r]]
    /\ UNCHANGED <<dictionary, runData, shared, decisions, patternVars, errors>>

-----------------------------------------------------------------------------
(* upsertPatternReview *)

Unknown(r) == keysRead[ServiceOf[r]] = "read" /\ pattern[r] \notin known[ServiceOf[r]]
Noted(r)   == known' = [known EXCEPT ![ServiceOf[r]] = @ \cup {pattern[r]}]

(* loadKnownPatternKeys, the first time.                                   *)
LoadKeys(r) ==
    LET s == ServiceOf[r] IN
    /\ stage[r] = "keys" /\ keysRead[s] = "unread"
    /\ keysRead' = [keysRead EXCEPT ![s] = "read"]
    /\ known' = [known EXCEPT ![s] = {p \in Patterns : reviews[p] # "none"}]
    /\ UNCHANGED <<dictionary, runVars, shared, decisions, shown, reviews, looking, errors>>

(* The pattern is known, or the keys could not be read, in which case they *)
(* are never asked for again and every run fails here.                     *)
NothingToInsert(r) ==
    /\ stage[r] = "keys" /\ keysRead[ServiceOf[r]] # "unread" /\ ~Unknown(r)
    /\ Ends({r})
    /\ UNCHANGED <<dictionary, shared, decisions, shown, patternVars, errors>>

IsUnknown(r) ==
    /\ Goes(r, "keys", "insert") /\ Unknown(r)
    /\ UNCHANGED <<dictionary, runData, shared, decisions, shown, patternVars, errors>>

(* Mutant: the review is written whether there is one or not.              *)
InsertOver(r) ==
    /\ stage[r] = "insert" /\ Ends({r})
    /\ reviews' = [reviews EXCEPT ![pattern[r]] = "pending"]
    /\ Noted(r)
    /\ UNCHANGED <<dictionary, shared, decisions, shown, keysRead, looking, errors>>

(* INSERT ... ON CONFLICT DO NOTHING                                       *)
Insert(r) ==
    /\ stage[r] = "insert" /\ Ends({r})
    /\ reviews' = [reviews EXCEPT ![pattern[r]] = IF @ = "none" THEN "pending" ELSE @]
    /\ Noted(r)
    /\ UNCHANGED <<dictionary, shared, decisions, shown, keysRead, looking, errors>>

-----------------------------------------------------------------------------
(* Failure *)

Loading(r) == stage[r] \in {"load", "loaded"}

(* A step of a run fails.  With a load fail the runs that wait for it; the *)
(* keys of the patterns are given up for good if reading them fails.       *)
RunFails(r) ==
    LET s == ServiceOf[r] IN
    /\ stage[r] \notin {"idle", "joins"}
    /\ errors < MaxErrors /\ errors' = errors + 1
    /\ Ends({r} \cup IF Loading(r) THEN Joined(r) ELSE {})
    /\ flight' = IF Loading(r) THEN [flight EXCEPT ![s] = NoRun] ELSE flight
    /\ keysRead' = IF stage[r] = "keys" /\ keysRead[s] = "unread"
                   THEN [keysRead EXCEPT ![s] = "failed"] ELSE keysRead
    /\ UNCHANGED <<dictionary, snapshot, decisions, shown, known, reviews, looking>>

(* The process restarts: the runs and what the services held are gone.     *)
RestartServices ==
    /\ errors < MaxErrors /\ errors' = errors + 1
    /\ Ends(Runs)
    /\ snapshot' = NoSnapshot /\ flight' = NoFlight /\ keysRead' = Unread /\ known' = NoKeys
    /\ looking' = [h \in Reviewers |-> NotLooking]
    /\ UNCHANGED <<dictionary, decisions, shown, reviews>>

-----------------------------------------------------------------------------
(* reviewPattern and, with the status "applied", applyPatternCandidates *)

FindReview(h, p, status) ==
    /\ looking[h] = NotLooking
    /\ \E d \in decisions : d.pattern = p
    /\ looking' = [looking EXCEPT ![h] = [pattern |-> p, found |-> reviews[p], status |-> status]]
    /\ UNCHANGED <<dictionary, runVars, shared, decisions, shown, keyVars, reviews, errors>>

(* A review that was found is updated; one that was not is inserted, which *)
(* fails when there is one by now.                                         *)
SaveReview(h) ==
    LET p == looking[h].pattern IN
    /\ looking[h] # NotLooking
    /\ reviews' = IF looking[h].found = "none" /\ reviews[p] # "none" THEN reviews
                  ELSE [reviews EXCEPT ![p] = looking[h].status]
    /\ looking' = [looking EXCEPT ![h] = NotLooking]
    /\ UNCHANGED <<dictionary, runVars, shared, decisions, shown, keyVars, errors>>

-----------------------------------------------------------------------------
Snapshot(r) == \/ UseSnapshot(r) \/ JoinLoad(r) \/ BeginLoad(r) \/ ReadTables(r) \/ TakeOver(r)
Review(r)   == LoadKeys(r) \/ NothingToInsert(r) \/ IsUnknown(r) \/ Insert(r)

RunStep(r) ==
    \/ \E c \in Candidates : Resolve(r, c)
    \/ ReadVersion(r) \/ Snapshot(r)
    \/ \E p \in Patterns : SaveDecision(r, p)
    \/ UpdateCandidateSnapshot(r) \/ Review(r)
    \/ RunFails(r)

ReviewerStep(h) ==
    \/ \E p \in Patterns, status \in Decided : FindReview(h, p, status)
    \/ SaveReview(h)

ResolverNext ==
    \/ MutateDictionary \/ ChangeContent \/ RaiseVersion
    \/ \E r \in Runs : RunStep(r)
    \/ RestartServices
    \/ \E h \in Reviewers : ReviewerStep(h)

ResolverSpec == ResolverInit /\ [][ResolverNext]_resolverVars

-----------------------------------------------------------------------------
(* Correctness properties *)

(* A decision recorded for a version was made with every change that       *)
(* version was raised for, although its run may have used a snapshot of    *)
(* another run, waited for a load of another version or seen an older load *)
(* end after a newer one.                                                  *)
DecisionIsOfItsVersion ==
    \A d \in decisions : d.version \in DOMAIN published /\ published[d.version] <= d.got

(* A pattern a service takes for known has a review that people can find,  *)
(* whichever insertion failed, unless one of its runs is inserting it.     *)
KnownIsInTable ==
    \A s \in Services : \A p \in known[s] :
        \/ reviews[p] # "none"
        \/ \E r \in Runs : ServiceOf[r] = s /\ stage[r] = "insert" /\ pattern[r] = p

(* What a candidate shows is a decision that is recorded, although         *)
(* decisions are replaced and a run may end anywhere.                      *)
ShownIsRecorded ==
    \A c \in Candidates : shown[c] # None =>
        \E d \in decisions : d.candidate = c /\ d.version = shown[c]

(* Both: no reviewer is shown a decision that was not made, or was made of *)
(* an older dictionary than it says.                                       *)
DecisionsHold == DecisionIsOfItsVersion /\ ShownIsRecorded

(* A pattern people have reviewed is never put back to pending by a run,   *)
(* however old the keys are that its service holds.                        *)
ReviewIsKept ==
    [][\A p \in Patterns : reviews[p] \in Decided => reviews'[p] \in Decided]_resolverVars
=============================================================================
