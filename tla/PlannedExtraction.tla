-------------------------- MODULE PlannedExtraction --------------------------
(***************************************************************************)
(* The planned extraction (features/productConfigAgent/workflow/           *)
(* plannedExtraction.service.ts): a plan cuts a document into items, the   *)
(* model extracts them one by one, by product type or in batches, and what *)
(* it returns is merged into the extraction.  The row is read before the   *)
(* calls of the model and written back as a whole after them.              *)
(*                                                                         *)
(* Abstractions.  One extraction.  An item the model returns is known by   *)
(* the planned item it came from and whether it is its first or a further  *)
(* instance; the model gives all the index of the planned item, as it may. *)
(***************************************************************************)
EXTENDS Naturals, FiniteSets

CONSTANTS
    Extractors, \* calls of the service that can be under way at once
    Items,      \* item_index of the planned items
    TypeOf,     \* product_type_hint of each
    Faults      \* bound on errors and on items for which the model fails,
                \* finds nothing or finds text of another

VARIABLES
    json,      \* extractionJson.items, by index
    extracted, \* planned items with extracted_at
    status,    \* status of the extraction
    docStatus, \* status of the document
    at,        \* what each call does and the row it has read
    accepted,  \* what the model returned and the service merged
    answered,  \* planned items the model was asked for and has answered
    faults

row  == <<json, extracted, status>>
vars == <<row, docStatus, at, accepted, answered, faults>>

Types    == {TypeOf[i] : i \in Items}
Indices  == 1..(2 * Cardinality(Items) + Faults)
Returned == [item : Items, further : BOOLEAN]
Idle     == [stage |-> "idle"]

First(i)   == [item |-> i, further |-> FALSE]
Further(i) == [item |-> i, further |-> TRUE]

TypeOK ==
    /\ DOMAIN json \subseteq Indices /\ \A n \in DOMAIN json : json[n] \in Returned
    /\ extracted \subseteq Items
    /\ status \in {"planned", "planned_partial", "planned_needs_reextract", "parsed", "normalized"}
    /\ docStatus \in {"planned", "planned_partial", "planned_needs_reextract", "normalized",
                      "dictionary_dirty"}
    /\ \A p \in Extractors :
          at[p] = Idle \/ at[p].stage \in {"single", "batch", "blocked", "normalize"}
    /\ accepted \subseteq Returned /\ answered \subseteq Items
    /\ faults \in 0..Faults

(* planDocumentBlocksWithLlm has created the row; a document that was      *)
(* normalized, by an earlier plan or without one, keeps its status.        *)
Init ==
    /\ json = [n \in {} |-> First(n)] /\ extracted = {}
    /\ status = "planned"
    /\ docStatus \in {"planned", "normalized", "dictionary_dirty"}
    /\ at = [p \in Extractors |-> Idle]
    /\ accepted = {} /\ answered = {}
    /\ faults = 0

Go(p, value) == at' = [at EXCEPT ![p] = value]

-----------------------------------------------------------------------------
(* The row and its pending items are read; then the model is called.       *)
Read(p, stage, chosen) ==
    /\ at[p] = Idle
    /\ ~(chosen \subseteq extracted)
    /\ Go(p, [stage |-> stage, asked |-> chosen \ extracted, json |-> json, extracted |-> extracted])
    /\ UNCHANGED <<row, docStatus, accepted, answered, faults>>

(* Both services take all items or, when they are told to, those of one    *)
(* product type.                                                           *)
OfType(type) == {i \in Items : TypeOf[i] = type}
Choices      == {Items} \cup {OfType(type) : type \in Types}

(* extractPlannedItemsWithLlm                                              *)
ReadOne(p) == \E chosen \in Choices : Read(p, "single", chosen)

(* Mutant: a row of which some items are extracted is not selected.        *)
ReadNewRows(p) == status = "planned" /\ \E chosen \in Choices : Read(p, "batch", chosen)

(* findPlannedExtractions, collectPendingBatchItems                        *)
ReadBatch(p) ==
    /\ status \in {"planned", "planned_partial"}
    /\ \E chosen \in Choices : Read(p, "batch", chosen)

-----------------------------------------------------------------------------
(* What the model gives for an item it was asked for: the call fails, or   *)
(* it finds nothing, one item, several, or one with text of another.       *)
Outcomes     == {"fails", "nothing", "one", "two", "blocked"}
With(o, set) == {i \in DOMAIN o : o[i] \in set}
Result(o)    == {First(i) : i \in With(o, {"one", "two", "blocked"})}
                    \cup {Further(i) : i \in With(o, {"two"})}
Blocked(o)   == With(o, {"blocked"})

(* reindexDuplicateResultItems: the second and further of the items with   *)
(* one index get the lowest indices that the row that was read and this    *)
(* result leave free.                                                      *)
NthFree(used, k) ==
    CHOOSE n \in Indices \ used : Cardinality((1..n) \ used) = k

IndexOf(result, held, r) ==
    LET used     == DOMAIN held.json \cup {s.item : s \in result}
        furthers == {s \in result : s.further /\ s.item <= r.item}
    IN  IF r.further THEN NthFree(used, Cardinality(furthers)) ELSE r.item

(* mergeExtractionJson: of two items with one index one is kept, the last. *)
Merges(held, new) ==
    LET indices   == {n.index : n \in new}
        Of(index) == {n.is : n \in {m \in new : m.index = index}}
    IN  {m \in [DOMAIN held.json \cup indices -> Returned] :
            \A n \in DOMAIN m : m[n] \in IF n \in indices THEN Of(n) ELSE {held.json[n]}}

(* Mutant: the row is whole when what this call asked for was extracted.   *)
WholeCall(held, marks) == held.asked = marks

Whole(held, marks) == held.extracted \cup marks = Items

(* The row is written, with what was read for all that is not new.         *)
Save(p, o, new, marks) ==
    LET held    == at[p]
        blocked == Blocked(o) # {}
        whole   == ~blocked /\ Whole(held, marks)
        odd     == Cardinality(With(o, {"fails", "nothing", "blocked"}))
    IN  /\ faults + odd <= Faults /\ faults' = faults + odd
        /\ json' \in Merges(held, new)
        /\ extracted' = held.extracted \cup marks
        /\ status' = CASE blocked -> "planned_needs_reextract"
                       [] whole   -> "parsed"
                       [] OTHER   -> "planned_partial"
        /\ accepted' = accepted \cup {n.is : n \in new}
        /\ answered' = answered \cup (held.asked \ With(o, {"fails", "blocked"}))
        /\ Go(p, IF blocked THEN [stage |-> "blocked"]
                            ELSE [stage |-> "normalize", whole |-> whole])
        /\ UNCHANGED docStatus

(* extractPlannedItemsWithLlm: all answers are one result, and the items   *)
(* whose indices are in it count as extracted, be it a further instance of *)
(* another item that got the index of one that was never asked for.        *)
SaveOne(p) ==
    /\ at[p].stage = "single"
    /\ \E o \in [at[p].asked -> Outcomes \ {"fails"}] :
          LET all == {[index |-> IndexOf(Result(o), at[p], r), is |-> r] : r \in Result(o)}
              new == {n \in all : n.index \notin Blocked(o)}
          IN  Save(p, o, new, {n.index : n \in new} \cap Items)

(* updateExtractionsFromBatchResults: every planned item is a result of    *)
(* its own and counts as extracted whatever that holds.  A batch that      *)
(* fails is halved down to the items that fail.                            *)
SaveBatch(p) ==
    /\ at[p].stage = "batch"
    /\ \E o \in [at[p].asked -> Outcomes] :
          LET Own(i) == {r \in Result(o) : r.item = i}
              valid  == {r \in Result(o) : r.item \notin Blocked(o)}
          IN  /\ With(o, {"fails"}) # at[p].asked
              /\ Save(p, o, {[index |-> IndexOf(Own(r.item), at[p], r), is |-> r] : r \in valid},
                      at[p].asked \ With(o, {"fails", "blocked"}))

Saved(p) == SaveOne(p) \/ SaveBatch(p)

MarkBlocked(p) ==
    /\ at[p].stage = "blocked"
    /\ docStatus' = "planned_needs_reextract"
    /\ Go(p, Idle)
    /\ UNCHANGED <<row, accepted, answered, faults>>

(* generateDictionaryForExtraction writes both rows.                       *)
Normalize(p) ==
    /\ at[p].stage = "normalize"
    /\ LET s == IF at[p].whole THEN "normalized" ELSE "planned_partial" IN
       status' = s /\ docStatus' = s
    /\ Go(p, Idle)
    /\ UNCHANGED <<json, extracted, accepted, answered, faults>>

(* The model, a statement or the normalization fails, or the process stops. *)
Fails(p) ==
    /\ at[p] # Idle
    /\ faults < Faults /\ faults' = faults + 1
    /\ Go(p, Idle)
    /\ UNCHANGED <<row, docStatus, accepted, answered>>

Next == \E p \in Extractors :
            \/ ReadOne(p) \/ ReadBatch(p)
            \/ Saved(p) \/ MarkBlocked(p) \/ Normalize(p) \/ Fails(p)

(* The batch is run again and again, as the script does, and calls end.    *)
Fairness == \A p \in Extractors :
    WF_vars(ReadBatch(p)) /\ WF_vars(Saved(p)) /\ WF_vars(MarkBlocked(p) \/ Normalize(p))

Spec == Init /\ [][Next]_vars /\ Fairness

-----------------------------------------------------------------------------
(* Correctness properties *)

(* A planned item is displaced when it has its mark and the row holds      *)
(* under its index what came from another item.                            *)
Displaced(i)   == i \in extracted /\ i \in DOMAIN json /\ json[i].item # i
AnsweredOrLost == \A i \in Items : i \in answered \/ Displaced(i)

(* No step leaves the extraction parsed or normalized, or makes the        *)
(* document so, while a planned item still lacks its mark, or has neither  *)
(* been answered by the model nor lost its index to an instance of another:*)
(* the batch would not select the row again.  (Such a loss the code does   *)
(* not prevent; a document that was normalized before its plan stays so.)  *)
Settles ==
    \/ status' \in {"parsed", "normalized"}
    \/ docStatus' = "normalized" /\ docStatus # "normalized"

NormalizedIsWhole == [][Settles => (extracted = Items /\ AnsweredOrLost)']_vars

(* The model is asked for every planned item in the end and answers,       *)
(* whatever fails, unless the item was displaced or one of them was found  *)
(* to have the text of another.                                            *)
EveryItemIsAnswered == <>(AnsweredOrLost \/ status = "planned_needs_reextract")

(* What was merged is not overwritten by an item that got its index later: *)
(* the warning of a reindexed item says that it got a free one.            *)
NothingIsOverwritten == \A r \in accepted : \E n \in DOMAIN json : json[n] = r
=============================================================================
