------------------------ MODULE ExtractionNormalization ------------------------
(***************************************************************************)
(* The normalization of an extraction (features/productConfigAgent/        *)
(* normalization/extractionNormalization.service.ts): what the model has   *)
(* read off a document becomes items of known product types with fields    *)
(* the dictionary knows.  An item with numbered fields is cut into several *)
(* items; a field is cut into its parts, is a note or belongs to the       *)
(* document, or is moved to the item of another product; the fields of an  *)
(* item that are two halves of one value are merged.                       *)
(*                                                                         *)
(* Abstractions.  A name stands for all names the patterns of the rules do *)
(* not tell apart; its meaning is what they find in it.  The parts of a    *)
(* field are those the model has given or a rule finds in its value, those *)
(* of a note what is read in it again.  Of the fields for the document the *)
(* one with the highest confidence is kept there.  A term type stands for  *)
(* itself and the qualifier.  The fields of an item have no order; which   *)
(* of several halves make a pair is open.  Left out are fields marked as   *)
(* originals of an earlier split, which are passed over, the rewriting and *)
(* grouping of fields (lip gaps, qualifiers, layers of extruders), the     *)
(* further fields the dictionary derives from one, and what it finds.      *)
(***************************************************************************)
EXTENDS Naturals, Sequences, FiniteSets

CONSTANTS
    Extractions,  \* what can be normalized: items and splits made by people
    ProductTypes, \* product types of the dictionary
    Meaning       \* what the patterns find in a name

IsList(s)  == Len(s) \in Nat /\ DOMAIN s = 1..Len(s)
IsField(f) == DOMAIN f = {"name", "value", "parts", "found"} /\ IsList(f.parts)
PartsIn(f) == {f.parts[n] : n \in DOMAIN f.parts}

(* A field the model has given in parts; another's parts a rule finds.     *)
Given(f) == f.parts # <<>> /\ ~f.found

(* Items, fields, parts and the parts of parts are each in a list; a part  *)
(* the model gives has none.                                               *)
IsWithParts(f) ==
    /\ IsField(f)
    /\ \A p \in PartsIn(f) : IsField(p) /\ ~Given(p) /\ \A r \in PartsIn(p) : IsField(r)

ASSUME ExtractionAssumption ==
    \A e \in Extractions :
        /\ IsList(e.items)
        /\ \A i \in DOMAIN e.items :
              /\ IsList(e.items[i].fields)
              /\ \A j \in DOMAIN e.items[i].fields : IsWithParts(e.items[i].fields[j])
        /\ \A s \in e.manual : IsList(s.parts) /\ \A p \in PartsIn(s) : IsField(p)

VARIABLES
    source,   \* the extraction
    doc,      \* preprocessedItems, with the type each goes by
    finished, \* items
    itemsByIndex, \* the place of the last item of a number
    awaited,  \* pendingRedirectedFields
    notes,    \* fields that are notes
    info,     \* fields that went to document_info
    warned    \* fields of notes dropped for a field of the item

normalVars == <<source, doc, finished, itemsByIndex, awaited, notes, info, warned>>

Kind(f) == Meaning[f.name].kind
Base(f) == Meaning[f.name].base

-----------------------------------------------------------------------------
(* splitIndexedInstanceItems *)

Instance(f)       == Meaning[f.name].instance
Indexed(fields)   == {j \in DOMAIN fields : Instance(fields[j]) > 0}
Instances(fields) == {Instance(fields[j]) : j \in Indexed(fields)}

(* Consecutive numbers from 1, and a name that has two of them.            *)
CanSplit(fields) ==
    /\ Cardinality(Instances(fields)) >= 2
    /\ Instances(fields) = 1..Cardinality(Instances(fields))
    /\ \E j, k \in Indexed(fields) : j # k /\ Base(fields[j]) = Base(fields[k])

(* distributeUngroupedFields: fields of one name and different values, as  *)
(* many as there are instances, are given to one each, the others to all.  *)
Alike(s, name)     == {k \in DOMAIN s : s[k].name = name /\ ~Given(s[k])}
Spread(s, name, n) ==
    /\ Cardinality(Alike(s, name)) = n
    /\ Cardinality({s[k].value : k \in Alike(s, name)}) > 1
Turn(s, j)         == Cardinality({k \in Alike(s, s[j].name) : k <= j})
GoesTo(s, j, n, k) == Spread(s, s[j].name, n) => Turn(s, j) = k

Entry(j, q, f) == [id |-> <<j, q>>, field |-> f]

(* So are the parts of a field; what is left of them stays with it.        *)
PartsOfInstance(j, f, n, k) ==
    LET spread == {q \in DOMAIN f.parts : Spread(f.parts, f.parts[q].name, n)}
        rest   == DOMAIN f.parts \ spread
    IN  {Entry(j, q, f.parts[q]) : q \in {r \in spread : Turn(f.parts, r) = k}}
        \cup IF rest = {} THEN {} ELSE {Entry(j, 0, [f EXCEPT !.parts = [q \in rest |-> @[q]]])}

FieldsOfInstance(fields, n, k) ==
    LET ungrouped == DOMAIN fields \ Indexed(fields)
        whole     == {j \in ungrouped : ~Given(fields[j])}
    IN  {Entry(j, 0, [fields[j] EXCEPT !.name = Base(fields[j])]) :
            j \in {l \in Indexed(fields) : Instance(fields[l]) = k}}
        \cup {Entry(j, 0, fields[j]) : j \in {l \in whole : GoesTo(fields, l, n, k)}}
        \cup UNION {PartsOfInstance(j, fields[j], n, k) : j \in ungrouped \ whole}

AllFields(fields) == {Entry(j, 0, fields[j]) : j \in DOMAIN fields}

Count(item) == IF CanSplit(item.fields) THEN Cardinality(Instances(item.fields)) ELSE 1

(* The number of a further instance is the next that nothing has.          *)
Free(used, n) == CHOOSE x \in 1..(Cardinality(used) + n) :
                    x \notin used /\ Cardinality((1..x) \ used) = n

Used(items) ==
    LET used[k \in 0..Len(items)] ==
            IF k = 0 THEN {items[j].index : j \in DOMAIN items}
            ELSE used[k - 1] \cup {Free(used[k - 1], n) : n \in 1..(Count(items[k]) - 1)}
    IN  used

(* The product type of an item is the one the model says or else, if it    *)
(* says nothing, the one the name of the item tells.                       *)
Route(item) ==
    IF item.hint \in ProductTypes THEN item.hint
    ELSE IF item.hint = "unknown" /\ item.named \in ProductTypes THEN item.named
    ELSE "unknown"

InstanceOf(items, i, k) ==
    [index  |-> IF k = 1 THEN items[i].index ELSE Free(Used(items)[i - 1], k - 1),
     type   |-> Route(items[i]),
     fields |-> IF CanSplit(items[i].fields)
                THEN FieldsOfInstance(items[i].fields, Count(items[i]), k)
                ELSE AllFields(items[i].fields)]

Preprocessed(items) ==
    LET upto[i \in 0..Len(items)] ==
            IF i = 0 THEN <<>>
            ELSE upto[i - 1] \o [k \in 1..Count(items[i]) |-> InstanceOf(items, i, k)]
    IN  upto[Len(items)]

-----------------------------------------------------------------------------
(* expandRawField, and what a field is taken for *)

(* A field, part or part of a part, by its place in the item.              *)
Leaf(at, f, as) == [at |-> at, field |-> f, as |-> as]

(* A note is kept as one, and what is read in it again is built.           *)
Taken(id, n, m, f) ==
    CASE Kind(f) = "note" ->
            {Leaf(<<id, n, m, 0>>, f, "note")}
            \cup {Leaf(<<id, n, m, r>>, f.parts[r], "reparsed") : r \in DOMAIN f.parts}
      [] Kind(f) = "info" -> {Leaf(<<id, n, m, 0>>, f, "info")}
      [] OTHER            -> {Leaf(<<id, n, m, 0>>, f, "built")}

(* Parts that are options not chosen are dropped with a warning; a chosen  *)
(* option has the name of the field.                                       *)
Chosen(parts)  == {n \in DOMAIN parts : Kind(parts[n]) # "unselected"}
Part(f, part)  == IF Kind(part) = "selected" THEN [part EXCEPT !.name = f.name] ELSE part

Manual(splits, index, f) == {s \in splits : s.index = index /\ s.name = f.name /\ s.value = f.value}
IsSplit(splits, index, f) == \E s \in Manual(splits, index, f) : s.parts # <<>>
SplitByValue(splits, index, f) == \E s \in splits : s.index = index /\ s.value = f.value
PartsOf(splits, index, f) ==
    IF IsSplit(splits, index, f) THEN (CHOOSE s \in Manual(splits, index, f) : TRUE).parts
    ELSE f.parts

(* A part somebody has split is split once more.                           *)
Piece(splits, index, id, n, part) ==
    IF ~IsSplit(splits, index, part) THEN Taken(id, n, 0, part)
    ELSE LET parts == PartsOf(splits, index, part) IN
         {Leaf(<<id, n, 0, 0>>, part, "original")}
         \cup UNION {Taken(id, n, m, Part(part, parts[m])) : m \in Chosen(parts)}

(* A split field stays as it was, for reference, beside its parts; so does *)
(* one whose value somebody has split under another name.  A voltage in    *)
(* which no part is found is passed over.                                  *)
Leaves(splits, index, id, f) ==
    LET parts == PartsOf(splits, index, f) IN
    IF Kind(f) \in {"note", "info"} THEN Taken(id, 0, 0, f)
    ELSE IF Manual(splits, index, f) = {} /\ SplitByValue(splits, index, f)
         THEN {Leaf(<<id, 0, 0, 0>>, f, "original")}
    ELSE IF parts = <<>>
         THEN IF Kind(f) = "voltage" THEN {} ELSE Piece(splits, index, id, 0, f)
    ELSE {Leaf(<<id, 0, 0, 0>>, f, "original")}
         \cup UNION {Piece(splits, index, id, n, Part(f, parts[n])) : n \in Chosen(parts)}

LeavesIn(splits, item) == UNION {Leaves(splits, item.index, e.id, e.field) : e \in item.fields}
LeavesOf(i)            == LeavesIn(source.manual, doc[i])
Token(i, l) == <<i, l.at>>

-----------------------------------------------------------------------------
(* Which item a field is for, and what becomes of the fields of an item *)

First(type) == CHOOSE j \in DOMAIN doc :
                  doc[j].type = type /\ \A k \in DOMAIN doc : doc[k].type = type => j <= k

(* The products, of those the name tells of, that another item is of.      *)
Wanted(i, l) ==
    {type \in {"flat_die", "hydraulic_station"} :
        /\ type \in Meaning[l.field.name].targets
        /\ l.as = "built" /\ doc[i].type # type
        /\ \E j \in DOMAIN doc : doc[j].type = type
        /\ doc[First(type)].index # doc[i].index}

(* The die comes before the hydraulic station.                             *)
Goal(i, l) == doc[First(IF "flat_die" \in Wanted(i, l) THEN "flat_die"
                        ELSE "hydraulic_station")].index

(* What has stayed as it was is of no term.                                *)
Built(i, l) ==
    [of    |-> {Token(i, l)},
     term  |-> IF l.as = "original" THEN "" ELSE Meaning[l.field.name].term,
     base  |-> Base(l.field),
     role  |-> Meaning[l.field.name].role,
     value |-> <<l.field.value>>,
     note  |-> l.as = "reparsed"]

(* The number comes before its unit, the least before the most.            *)
Halves(f, g) ==
    /\ <<f.role, g.role>> \in {<<"value", "unit">>, <<"min", "max">>}
    /\ f.base = g.base /\ f.term = g.term /\ f.term # ""

(* As many pairs as there can be, each field in one at most.               *)
Pairings(fields) ==
    LET pairs == {p \in fields \X fields : Halves(p[1], p[2])}
        apart(p, q) == p[1] # q[1] /\ p[2] # q[2]
    IN  {P \in SUBSET pairs :
            /\ \A p, q \in P : p # q => apart(p, q)
            /\ \A p \in pairs \ P : \E q \in P : ~apart(p, q)}

Paired(P) == {p[1] : p \in P} \cup {p[2] : p \in P}

Merge(p) ==
    [of |-> p[1].of \cup p[2].of, term |-> p[1].term, base |-> p[1].base, role |-> "none",
     value |-> p[1].value \o p[2].value, note |-> p[1].note]

Merged(fields, P) == (fields \ Paired(P)) \cup {Merge(p) : p \in P}

(* A field read in a note that contradicts one that was not.               *)
Contradicts(m, f) == ~m.note /\ m.term # "" /\ m.term = f.term /\ m.value # f.value
Dropped(fields)   == {f \in fields : f.note /\ \E m \in fields : Contradicts(m, f)}

-----------------------------------------------------------------------------
NormalizationInit ==
    /\ source \in Extractions
    /\ doc = Preprocessed(source.items)
    /\ finished = <<>> /\ itemsByIndex = [k \in {} |-> 0]
    /\ awaited = {} /\ notes = {} /\ info = {} /\ warned = {}

Tokens(i, ls) == {Token(i, l) : l \in ls}

(* Mutant: no item takes a field once it is finished.                      *)
NeverFinished(i, l) == FALSE

(* Whether the item a field goes to is finished.                           *)
IsFinished(i, l) == Goal(i, l) \in DOMAIN itemsByIndex

(* One item: a field for another goes to it, at once if it is finished and *)
(* with its first fields if not.                                           *)
NormalizeItem(i) ==
    LET index  == doc[i].index
        leaves == LeavesOf(i)
        kept   == {l \in leaves : l.as \notin {"note", "info"}}
        away   == {l \in kept : Wanted(i, l) # {}}
        late   == {l \in away : IsFinished(i, l)}
        fields == {a.field : a \in {b \in awaited : b.index = index}}
                  \cup {Built(i, l) : l \in kept \ away}
        added(j) == {Built(i, l) : l \in {m \in late : itemsByIndex[Goal(i, m)] = j}}
    IN  /\ i = Len(finished) + 1
        /\ \E P \in Pairings(fields) :
              LET merged == Merged(fields, P) IN
              /\ finished' = Append([j \in DOMAIN finished |->
                                       [index  |-> finished[j].index,
                                        fields |-> finished[j].fields \cup added(j)]],
                                    [index  |-> index,
                                     fields |-> merged \ Dropped(merged)])
              /\ warned' = warned \cup UNION {f.of : f \in Dropped(merged)}
        /\ itemsByIndex' = [k \in DOMAIN itemsByIndex \cup {index} |->
                              IF k = index THEN i ELSE itemsByIndex[k]]
        /\ awaited' = {a \in awaited : a.index # index}
                      \cup {[index |-> Goal(i, l), field |-> Built(i, l)] : l \in away \ late}
        /\ notes' = notes \cup Tokens(i, {l \in leaves : l.as = "note"})
        /\ info' = info \cup Tokens(i, {l \in leaves : l.as = "info"})
        /\ UNCHANGED <<source, doc>>

NormalizationNext == \E i \in DOMAIN doc : NormalizeItem(i)

NormalizationSpec == NormalizationInit /\ [][NormalizationNext]_normalVars

-----------------------------------------------------------------------------
(* The finished items are the first of doc, in its order; the numbers lead *)
(* to them, and what waits, waits for an item of doc.                      *)
NormalizationTypeOK ==
    /\ source \in Extractions /\ doc = Preprocessed(source.items)
    /\ Len(finished) <= Len(doc)
    /\ \A j \in DOMAIN finished : finished[j].index = doc[j].index
    /\ DOMAIN itemsByIndex = {finished[j].index : j \in DOMAIN finished}
    /\ \A k \in DOMAIN itemsByIndex : finished[itemsByIndex[k]].index = k
    /\ \A a \in awaited : \E j \in DOMAIN doc : doc[j].index = a.index

(* Where the instances of an item begin.                                   *)
From(i) == 1 + Cardinality(UNION {{j} \X (1..Count(source.items[j])) : j \in 1..i - 1})

Distinct(items) == \A j, k \in DOMAIN items : j # k => items[j].index # items[k].index

(* Cutting an item loses no field and no part of one, and gives no number  *)
(* twice.                                                                  *)
CutsLoseNothing ==
    /\ Distinct(source.items) => Distinct(doc)
    /\ \A i \in DOMAIN source.items : \A j \in DOMAIN source.items[i].fields :
          LET f   == source.items[i].fields[j]
              cut == UNION {doc[k].fields : k \in From(i)..From(i + 1) - 1}
              got == {e.field : e \in {d \in cut : d.id[1] = j}}
          IN  IF ~Given(f) THEN got # {}
              ELSE \A q \in DOMAIN f.parts :
                      \E g \in got : g = f.parts[q] \/ \E r \in DOMAIN g.parts : g.parts[r] = f.parts[q]

Holding(t)  == {j \in DOMAIN finished : \E f \in finished[j].fields : t \in f.of}
Awaiting(t) == {a \in awaited : t \in a.field.of}

(* What has been handled is in one place.                                  *)
InOnePlace(t) ==
    Cardinality(Holding(t)) + Cardinality(Awaiting(t))
        + Cardinality({S \in {notes, info, warned} : t \in S}) = 1

(* A field for another product is with it.                                 *)
WithItsProduct(i, l) ==
    Wanted(i, l) # {} /\ Distinct(doc) =>
        \A j \in Holding(Token(i, l)) :
            doc[j].type = IF "flat_die" \in Wanted(i, l) THEN "flat_die" ELSE "hydraulic_station"

(* A field read in a note contradicts none that was there with it.         *)
NotesYield ==
    \A j \in DOMAIN finished : \A m, f \in finished[j].fields :
        f.note /\ Contradicts(m, f) => \E t \in m.of : t[1] > j

(* No field that has been handled is lost.                                 *)
IsKept(t) ==
    \/ t \in notes \cup info \cup warned
    \/ \E a \in awaited : t \in a.field.of
    \/ \E j \in DOMAIN finished : \E f \in finished[j].fields : t \in f.of
NothingIsLost == \A i \in DOMAIN finished : \A l \in LeavesOf(i) : IsKept(Token(i, l))

(* What the items handled so far are made of is each in one place, with    *)
(* the product it is about, and no field waits for an item that does not   *)
(* come.                                                                   *)
HandledIsPlaced ==
    /\ NothingIsLost
    /\ \A i \in DOMAIN finished : \A l \in LeavesOf(i) :
          InOnePlace(Token(i, l)) /\ WithItsProduct(i, l)
    /\ Len(finished) = Len(doc) => awaited = {}
    /\ NotesYield

(* So are the fields of an extraction, through cutting, splitting, moving  *)
(* and merging.                                                            *)
FieldsArePlaced ==
    /\ finished = <<>> => CutsLoseNothing
    /\ HandledIsPlaced
=============================================================================
