--------------------- MODULE ExtractionNormalizationProofs ---------------------
(***************************************************************************)
(* The fields an item is made of are each in one place while the items are *)
(* normalized, whatever the extraction and the meaning of the names: in an *)
(* item, waiting for one, a note, with the document, or dropped with a     *)
(* warning.  What the recursive definitions of the model compute is shown  *)
(* by induction on the numbers a statement is true of.                     *)
(***************************************************************************)
EXTENDS ExtractionNormalization, FiniteSetTheorems, FunctionTheorems, SequenceTheorems,
        WellFoundedInduction, TLAPS

-----------------------------------------------------------------------------
(* Numbers, and lists put together one after the other *)

LEMMA LeastNumber ==
    ASSUME NEW T \in SUBSET Nat, T # {}
    PROVE  \E x \in T : \A y \in T : x <= y
<1> DEFINE R == OpToRel(<, Nat)
<1>1. \A x, y \in Nat : <<y, x>> \in R <=> y < x
  BY DEF OpToRel
<1>2. IsWellFoundedOn(R, Nat)
  BY NatLessThanWellFounded
<1> HIDE DEF R
<1>3. PICK x \in T : \A y \in T : ~ (<<y, x>> \in R)
  BY <1>2, WFMin
<1>4. \A y \in T : ~ (y < x) /\ y \in Nat /\ x \in Nat
  BY <1>1, <1>3
<1>5. QED
  BY <1>4

(* Induction, for a set of numbers.                                        *)
LEMMA AllNumbers ==
    ASSUME NEW T, 0 \in T, \A n \in Nat : n \in T => n + 1 \in T
    PROVE  Nat \subseteq T
<1> SUFFICES ASSUME Nat \ T # {} PROVE FALSE
  OBVIOUS
<1>1. PICK x \in Nat \ T : \A y \in Nat \ T : x <= y
  BY LeastNumber
<1>2. x - 1 \in Nat /\ x - 1 \in T
  BY <1>1
<1>3. QED
  BY <1>1, <1>2

(* The lists c[1], c[2], ... one after the other, up to each.              *)
Joins(f, n, c) == f = [i \in 0..n |-> IF i = 0 THEN <<>> ELSE f[i - 1] \o c[i]]

LEMMA JoinExists ==
    ASSUME NEW n \in Nat, NEW c
    PROVE  \E f : Joins(f, n, c)
<1> DEFINE T == {m \in Nat : \E f : Joins(f, m, c)}
<1>1. 0 \in T
  <2>1. PICK f : f = [i \in 0..0 |-> <<>>]
    OBVIOUS
  <2>2. Joins(f, 0, c)
    BY <2>1 DEF Joins
  <2>3. QED
    BY <2>2
<1>2. ASSUME NEW m \in Nat, m \in T PROVE m + 1 \in T
  <2>1. PICK f : Joins(f, m, c)
    BY <1>2
  <2>2. PICK g : g = [i \in 0..(m + 1) |-> IF i = m + 1 THEN f[m] \o c[m + 1] ELSE f[i]]
    OBVIOUS
  <2>3. /\ \A i \in 0..m : g[i] = f[i] /\ f[i] = IF i = 0 THEN <<>> ELSE f[i - 1] \o c[i]
        /\ g[m + 1] = f[m] \o c[m + 1] /\ m \in 0..m /\ m + 1 \in 0..(m + 1) /\ m + 1 # 0
        /\ (m + 1) - 1 = m
    BY <2>1, <2>2 DEF Joins
  <2>4. ASSUME NEW i \in 0..(m + 1)
        PROVE  g[i] = IF i = 0 THEN <<>> ELSE g[i - 1] \o c[i]
    <3>1. CASE i = m + 1
      <4>1. g[i] = f[m] \o c[i] /\ g[i - 1] = f[m] /\ i # 0
        BY <2>3, <3>1
      <4>2. QED
        BY <4>1
    <3>2. CASE i = 0
      BY <2>3, <3>2
    <3>3. CASE i # m + 1 /\ i # 0
      <4>1. i \in 0..m /\ i - 1 \in 0..m
        BY <3>3
      <4>2. g[i] = f[i - 1] \o c[i] /\ g[i - 1] = f[i - 1]
        BY <2>3, <3>3, <4>1
      <4>3. QED
        BY <3>3, <4>2
    <3>4. QED
      BY <3>1, <3>2, <3>3
  <2>5. Joins(g, m + 1, c)
    BY <2>2, <2>4 DEF Joins
  <2>6. QED
    BY <2>5
<1>3. Nat \subseteq T
  <2> HIDE DEF T
  <2>1. QED
    BY <1>1, <1>2, AllNumbers
<1>4. QED
  BY <1>3

LEMMA JoinIsList ==
    ASSUME NEW n \in Nat, NEW c, NEW f, Joins(f, n, c), NEW S,
           \A i \in 1..n : c[i] \in Seq(S)
    PROVE  \A i \in 0..n : f[i] \in Seq(S)
<1> DEFINE T == {m \in Nat : m <= n => f[m] \in Seq(S)}
<1>1. 0 \in T
  BY DEF Joins
<1>2. ASSUME NEW m \in Nat, m \in T PROVE m + 1 \in T
  <2>1. CASE m + 1 <= n
    <3>1. /\ m + 1 \in 0..n /\ m + 1 # 0 /\ (m + 1) - 1 = m /\ f[m] \in Seq(S)
          /\ m + 1 \in 1..n
      BY <1>2, <2>1
    <3>2. f[m + 1] = f[m] \o c[m + 1]
      BY <3>1 DEF Joins
    <3>3. c[m + 1] \in Seq(S)
      BY <3>1
    <3>4. f[m] \o c[m + 1] \in Seq(S)
      BY <3>1, <3>3, ConcatProperties
    <3>5. f[m + 1] \in Seq(S)
      BY <3>2, <3>4
    <3>6. m + 1 \in Nat
      OBVIOUS
    <3>7. QED
      BY <3>5, <3>6
  <2>2. QED
    BY <2>1
<1>3. Nat \subseteq T
  <2> HIDE DEF T
  <2>1. QED
    BY <1>1, <1>2, AllNumbers
<1>4. QED
  BY <1>3

-----------------------------------------------------------------------------
(* The items after the cutting *)

InstancesOf(items) ==
    UNION {{InstanceOf(items, i, k) : k \in 1..Count(items[i])} : i \in 1..Len(items)}

LEMMA CountIsNumber ==
    ASSUME NEW item, IsList(item.fields)
    PROVE  Count(item) \in Nat
<1>1. IsFiniteSet(DOMAIN item.fields)
  BY FS_Interval DEF IsList
<1>2. IsFiniteSet(Indexed(item.fields))
  BY <1>1, FS_Subset DEF Indexed
<1>3. IsFiniteSet(Instances(item.fields))
  <2>1. PICK S : S = Indexed(item.fields)
    OBVIOUS
  <2>2. PICK g : g = [j \in S |-> Instance(item.fields[j])]
    OBVIOUS
  <2>3. g \in Surjection(S, Instances(item.fields))
    BY <2>1, <2>2 DEF Surjection, Instances
  <2>4. QED
    BY <1>2, <2>1, <2>3, FS_Surjection
<1>4. QED
  BY <1>3, FS_CardinalityType DEF Count

LEMMA PreprocessedJoins ==
    ASSUME NEW items, IsList(items), \A i \in DOMAIN items : IsList(items[i].fields)
    PROVE  \E f, c : /\ Joins(f, Len(items), c) /\ Preprocessed(items) = f[Len(items)]
                     /\ \A i \in 1..Len(items) :
                           c[i] = [k \in 1..Count(items[i]) |-> InstanceOf(items, i, k)]
<1> DEFINE n == Len(items)
           c == [i \in 1..n |-> [k \in 1..Count(items[i]) |-> InstanceOf(items, i, k)]]
           upto[i \in 0..Len(items)] ==
              IF i = 0 THEN <<>>
              ELSE upto[i - 1] \o [k \in 1..Count(items[i]) |-> InstanceOf(items, i, k)]
<1>1. n \in Nat /\ DOMAIN items = 1..n
  BY DEF IsList
<1>2. \A f : Joins(f, n, c) <=> f = [i \in 0..Len(items) |->
              IF i = 0 THEN <<>>
              ELSE f[i - 1] \o [k \in 1..Count(items[i]) |-> InstanceOf(items, i, k)]]
  <2> TAKE f
  <2>1. \A i \in 0..n : (IF i = 0 THEN <<>> ELSE f[i - 1] \o c[i]) =
                         IF i = 0 THEN <<>>
                         ELSE f[i - 1] \o [k \in 1..Count(items[i]) |-> InstanceOf(items, i, k)]
    <3>1. ASSUME NEW i \in 0..n, i # 0
          PROVE  c[i] = [k \in 1..Count(items[i]) |-> InstanceOf(items, i, k)]
      <4>1. i \in 1..n
        BY <1>1, <3>1
      <4>2. QED
        BY <4>1
    <3>2. QED
      BY <3>1
  <2> HIDE DEF n, c
  <2>2. [i \in 0..n |-> IF i = 0 THEN <<>> ELSE f[i - 1] \o c[i]]
        = [i \in 0..n |-> IF i = 0 THEN <<>> ELSE f[i - 1] \o
                            [k \in 1..Count(items[i]) |-> InstanceOf(items, i, k)]]
    BY <2>1
  <2>3. QED
    BY <2>2 DEF Joins, n
<1>3. Joins(upto, n, c)
  <2> HIDE DEF c
  <2>1. \E f : Joins(f, n, c)
    BY <1>1, JoinExists
  <2>2. QED
    BY <1>2, <2>1
<1>4. Preprocessed(items) = upto[n]
  BY DEF Preprocessed
<1>5. \A i \in 1..Len(items) : c[i] = [k \in 1..Count(items[i]) |-> InstanceOf(items, i, k)]
  OBVIOUS
<1>6. QED
  <2> HIDE DEF c, upto
  <2>1. QED
    BY <1>1, <1>3, <1>4, <1>5

LEMMA PreprocessedIs ==
    ASSUME NEW items, IsList(items), \A i \in DOMAIN items : IsList(items[i].fields)
    PROVE  Preprocessed(items) \in Seq(InstancesOf(items))
<1>1. PICK n \in Nat : n = Len(items) /\ DOMAIN items = 1..n
  BY DEF IsList
<1>2. PICK f, c : /\ Joins(f, n, c) /\ Preprocessed(items) = f[n]
                  /\ \A i \in 1..n :
                        c[i] = [k \in 1..Count(items[i]) |-> InstanceOf(items, i, k)]
  BY <1>1, PreprocessedJoins
<1>3. \A i \in 1..n : c[i] \in Seq(InstancesOf(items))
  <2>1. ASSUME NEW i \in 1..n PROVE c[i] \in Seq(InstancesOf(items))
    <3>1. PICK m \in Nat : m = Count(items[i])
      BY <1>1, CountIsNumber
    <3>2. \A k \in 1..m : InstanceOf(items, i, k) \in InstancesOf(items)
      BY <1>1, <3>1 DEF InstancesOf
    <3>3. c[i] = [k \in 1..m |-> InstanceOf(items, i, k)]
      BY <1>2, <3>1
    <3>4. c[i] \in [1..m -> InstancesOf(items)]
      BY <3>2, <3>3
    <3>5. QED
      BY <3>4
  <2>2. QED
    BY <2>1
<1>4. f[n] \in Seq(InstancesOf(items))
  <2>1. n \in 0..n
    BY <1>1
  <2>2. QED
    BY <1>2, <1>3, <2>1, JoinIsList
<1>5. QED
  BY <1>2, <1>4

(* The fields of an item are told apart by their ids, their parts by their *)
(* numbers, which are not 0.                                               *)
Numbered(s) == DOMAIN s \subseteq Nat \ {0}
IsCut(f)    == /\ Numbered(f.parts)
               /\ \A p \in PartsIn(f) : "parts" \in DOMAIN p /\ Numbered(p.parts)
Unique(E)   == \A d, e \in E : d.id = e.id => d = e

LEMMA ListsAreNumbered ==
    ASSUME NEW s, IsList(s) PROVE Numbered(s)
BY DEF IsList, Numbered

LEMMA PartsAreCut ==
    ASSUME NEW f, IsWithParts(f)
    PROVE  /\ IsCut(f) /\ "parts" \in DOMAIN f
           /\ \A p \in PartsIn(f) : IsCut(p)
<1>1. IsCut(f) /\ "parts" \in DOMAIN f
  BY ListsAreNumbered DEF IsWithParts, IsField, IsCut
<1>2. ASSUME NEW p \in PartsIn(f) PROVE IsCut(p)
  BY ListsAreNumbered DEF IsWithParts, IsField, IsCut
<1>3. QED
  BY <1>1, <1>2

(* What is left of a field, and of its name, for an instance.              *)
LeftOf(fields, n, j) ==
    LET f == fields[j] IN
    IF j \in Indexed(fields) THEN [f EXCEPT !.name = Base(f)]
    ELSE IF ~Given(f) THEN f
    ELSE [f EXCEPT !.parts = [q \in DOMAIN f.parts \ {r \in DOMAIN f.parts :
                                  Spread(f.parts, f.parts[r].name, n)} |-> f.parts[q]]]

LEMMA FieldsOfInstanceAre ==
    ASSUME NEW fields, NEW n, NEW k, NEW e \in FieldsOfInstance(fields, n, k)
    PROVE  \E j \in DOMAIN fields :
              \/ e = Entry(j, 0, LeftOf(fields, n, j))
              \/ \E q \in DOMAIN fields[j].parts : e = Entry(j, q, fields[j].parts[q])
<1> DEFINE ungrouped == DOMAIN fields \ Indexed(fields)
           whole     == {j \in ungrouped : ~Given(fields[j])}
<1>1. CASE \E j \in Indexed(fields) : e = Entry(j, 0, [fields[j] EXCEPT !.name = Base(fields[j])])
  BY <1>1 DEF LeftOf, Indexed
<1>2. CASE \E j \in whole : e = Entry(j, 0, fields[j])
  BY <1>2 DEF LeftOf
<1>3. CASE \E j \in ungrouped \ whole : e \in PartsOfInstance(j, fields[j], n, k)
  <2>1. PICK j \in ungrouped \ whole : e \in PartsOfInstance(j, fields[j], n, k)
    BY <1>3
  <2>2. PICK f : f = fields[j]
    OBVIOUS
  <2>3. \/ \E q \in DOMAIN f.parts : e = Entry(j, q, f.parts[q])
        \/ e = Entry(j, 0, [f EXCEPT !.parts = [q \in DOMAIN f.parts \ {r \in DOMAIN f.parts :
                                  Spread(f.parts, f.parts[r].name, n)} |-> f.parts[q]]])
    BY <2>1, <2>2 DEF PartsOfInstance
  <2>4. QED
    BY <2>1, <2>2, <2>3 DEF LeftOf
<1>4. QED
  BY <1>1, <1>2, <1>3 DEF FieldsOfInstance

LEMMA InstanceIs ==
    ASSUME NEW items, NEW i, NEW k,
           \A j \in DOMAIN items[i].fields : IsWithParts(items[i].fields[j])
    PROVE  /\ Unique(InstanceOf(items, i, k).fields)
           /\ \A e \in InstanceOf(items, i, k).fields : IsCut(e.field)
<1> DEFINE fields == items[i].fields
           n      == Count(items[i])
<1>1. \A e \in InstanceOf(items, i, k).fields : \E j \in DOMAIN fields :
          \/ e = Entry(j, 0, IF CanSplit(fields) THEN LeftOf(fields, n, j) ELSE fields[j])
          \/ \E q \in DOMAIN fields[j].parts : e = Entry(j, q, fields[j].parts[q])
  <2>1. CASE CanSplit(fields)
    <3>1. InstanceOf(items, i, k).fields = FieldsOfInstance(fields, n, k)
      BY <2>1 DEF InstanceOf
    <3>2. QED
      BY <2>1, <3>1, FieldsOfInstanceAre
  <2>2. CASE ~CanSplit(fields)
    <3>1. InstanceOf(items, i, k).fields = AllFields(fields)
      BY <2>2 DEF InstanceOf
    <3>2. QED
      BY <2>2, <3>1 DEF AllFields
  <2>3. QED
    BY <2>1, <2>2
<1>2. ASSUME NEW j \in DOMAIN fields
      PROVE  /\ IsCut(fields[j]) /\ IsCut(LeftOf(fields, n, j))
             /\ Numbered(fields[j].parts)
             /\ \A q \in DOMAIN fields[j].parts : IsCut(fields[j].parts[q])
  <2>1. PICK f : f = fields[j]
    OBVIOUS
  <2>2. /\ IsCut(f) /\ "parts" \in DOMAIN f
        /\ \A p \in PartsIn(f) : IsCut(p)
    BY <2>1, PartsAreCut
  <2>3. IsCut([f EXCEPT !.name = Base(f)])
    BY <2>2 DEF IsCut, PartsIn
  <2>4. ASSUME NEW R \in SUBSET DOMAIN f.parts
        PROVE  IsCut([f EXCEPT !.parts = [q \in R |-> f.parts[q]]])
    <3>1. PICK g : g = [f EXCEPT !.parts = [q \in R |-> f.parts[q]]]
      OBVIOUS
    <3>2. g.parts = [q \in R |-> f.parts[q]]
      BY <2>2, <3>1
    <3>3. QED
      BY <2>2, <3>1, <3>2 DEF IsCut, PartsIn, Numbered
  <2>5. IsCut(LeftOf(fields, n, j))
    <3> HIDE DEF fields
    <3>1. QED
      BY <2>1, <2>2, <2>3, <2>4 DEF LeftOf
  <2>6. QED
    BY <2>1, <2>2, <2>5 DEF IsCut, PartsIn
<1> HIDE DEF fields, n
<1>3. \A e \in InstanceOf(items, i, k).fields : IsCut(e.field)
  BY <1>1, <1>2 DEF Entry
<1>4. Unique(InstanceOf(items, i, k).fields)
  <2>1. \A j \in DOMAIN fields : \A q \in DOMAIN fields[j].parts : q # 0
    BY <1>2 DEF Numbered
  <2>2. QED
    BY <1>1, <2>1 DEF Unique, Entry
<1>5. QED
  BY <1>3, <1>4

-----------------------------------------------------------------------------
(* A leaf is told apart by its place                                       *)

Apart(L) == \A l, m \in L : l.at = m.at => l = m

(* The splits people have made are of numbered parts.                      *)
SplitsAreCut(splits) == \A s \in splits : IsCut(s)

LEMMA TakenAre ==
    ASSUME NEW id, NEW n, NEW m, NEW f, Numbered(f.parts)
    PROVE  /\ Apart(Taken(id, n, m, f))
           /\ \A l \in Taken(id, n, m, f) : \E r : l.at = <<id, n, m, r>>
<1>1. 0 \notin DOMAIN f.parts
  BY DEF Numbered
<1>2. CASE Kind(f) = "note"
  <2>1. Taken(id, n, m, f) = {Leaf(<<id, n, m, 0>>, f, "note")}
            \cup {Leaf(<<id, n, m, r>>, f.parts[r], "reparsed") : r \in DOMAIN f.parts}
    BY <1>2 DEF Taken
  <2>2. QED
    BY <1>1, <2>1 DEF Apart, Leaf
<1>3. CASE Kind(f) # "note"
  <2>1. PICK as : Taken(id, n, m, f) = {Leaf(<<id, n, m, 0>>, f, as)}
    BY <1>3 DEF Taken
  <2>2. QED
    BY <2>1 DEF Apart, Leaf
<1>4. QED
  BY <1>2, <1>3

(* Several leaves that differ in a number.                                 *)
LEMMA PartKeepsParts ==
    ASSUME NEW f, NEW p, "parts" \in DOMAIN p
    PROVE  Part(f, p).parts = p.parts
BY DEF Part

LEMMA PiecesAre ==
    ASSUME NEW splits, SplitsAreCut(splits), NEW index, NEW id, NEW n, NEW part,
           Numbered(part.parts)
    PROVE  /\ Apart(Piece(splits, index, id, n, part))
           /\ \A l \in Piece(splits, index, id, n, part) : \E m, r : l.at = <<id, n, m, r>>
<1>1. CASE ~IsSplit(splits, index, part)
  <2>1. Piece(splits, index, id, n, part) = Taken(id, n, 0, part)
    BY <1>1 DEF Piece
  <2>2. QED
    BY <2>1, TakenAre
<1>2. CASE IsSplit(splits, index, part)
  <2>1. PICK parts : parts = PartsOf(splits, index, part)
    OBVIOUS
  <2>2. /\ Numbered(parts)
        /\ \A m \in DOMAIN parts : "parts" \in DOMAIN parts[m] /\ Numbered(parts[m].parts)
    <3>1. PICK s : s = CHOOSE x \in Manual(splits, index, part) : TRUE
      OBVIOUS
    <3>2. s \in splits /\ parts = s.parts
      BY <1>2, <2>1, <3>1 DEF IsSplit, Manual, PartsOf
    <3>3. QED
      BY <3>2 DEF SplitsAreCut, IsCut, PartsIn
  <2>3. \A m \in Chosen(parts) :
          /\ m # 0
          /\ Apart(Taken(id, n, m, Part(part, parts[m])))
          /\ \A l \in Taken(id, n, m, Part(part, parts[m])) : \E r : l.at = <<id, n, m, r>>
    <3> TAKE m \in Chosen(parts)
    <3>1. m \in DOMAIN parts /\ m # 0
      BY <2>2 DEF Chosen, Numbered
    <3>2. Numbered(Part(part, parts[m]).parts)
      BY <2>2, <3>1, PartKeepsParts
    <3>3. QED
      BY <3>1, <3>2, TakenAre
  <2>4. Piece(splits, index, id, n, part) =
            {Leaf(<<id, n, 0, 0>>, part, "original")}
            \cup UNION {Taken(id, n, m, Part(part, parts[m])) : m \in Chosen(parts)}
    BY <1>2, <2>1 DEF Piece
  <2>5. ASSUME NEW l \in Piece(splits, index, id, n, part)
        PROVE  \/ l = Leaf(<<id, n, 0, 0>>, part, "original")
               \/ \E m \in Chosen(parts) : l \in Taken(id, n, m, Part(part, parts[m]))
    BY <2>4
  <2>6. ASSUME NEW l \in Piece(splits, index, id, n, part)
        PROVE  \E m, r : l.at = <<id, n, m, r>>
    BY <2>3, <2>5 DEF Leaf
  <2>7. ASSUME NEW l \in Piece(splits, index, id, n, part),
               NEW x \in Piece(splits, index, id, n, part), l.at = x.at
        PROVE  l = x
    <3>1. CASE l = Leaf(<<id, n, 0, 0>>, part, "original")
      BY <2>3, <2>5, <2>7, <3>1 DEF Leaf
    <3>2. CASE x = Leaf(<<id, n, 0, 0>>, part, "original")
      BY <2>3, <2>5, <2>7, <3>2 DEF Leaf
    <3>3. CASE /\ \E m \in Chosen(parts) : l \in Taken(id, n, m, Part(part, parts[m]))
               /\ \E m \in Chosen(parts) : x \in Taken(id, n, m, Part(part, parts[m]))
      <4>1. PICK m \in Chosen(parts) : l \in Taken(id, n, m, Part(part, parts[m]))
        BY <3>3
      <4>2. PICK o \in Chosen(parts) : x \in Taken(id, n, o, Part(part, parts[o]))
        BY <3>3
      <4>3. m = o
        BY <2>3, <2>7, <4>1, <4>2
      <4>4. QED
        BY <2>3, <2>7, <4>1, <4>2, <4>3 DEF Apart
    <3>4. QED
      BY <2>5, <3>1, <3>2, <3>3
  <2>8. QED
    BY <2>6, <2>7 DEF Apart
<1>3. QED
  BY <1>1, <1>2

LEMMA LeavesAre ==
    ASSUME NEW splits, SplitsAreCut(splits), NEW index, NEW id, NEW f, IsCut(f)
    PROVE  /\ Apart(Leaves(splits, index, id, f))
           /\ \A l \in Leaves(splits, index, id, f) : \E n, m, r : l.at = <<id, n, m, r>>
<1> DEFINE L == Leaves(splits, index, id, f)
<1>1. PICK parts : parts = PartsOf(splits, index, f)
  OBVIOUS
<1>2. /\ Numbered(parts)
      /\ \A n \in DOMAIN parts : "parts" \in DOMAIN parts[n] /\ Numbered(parts[n].parts)
  <2>1. CASE IsSplit(splits, index, f)
    <3>1. PICK s : s = CHOOSE x \in Manual(splits, index, f) : TRUE
      OBVIOUS
    <3>2. s \in splits /\ parts = s.parts
      BY <1>1, <2>1, <3>1 DEF IsSplit, Manual, PartsOf
    <3>3. QED
      BY <3>2 DEF SplitsAreCut, IsCut, PartsIn
  <2>2. CASE ~IsSplit(splits, index, f)
    BY <1>1, <2>2 DEF PartsOf, IsCut, PartsIn
  <2>3. QED
    BY <2>1, <2>2
<1>3. \A n \in Chosen(parts) :
        /\ n # 0
        /\ Apart(Piece(splits, index, id, n, Part(f, parts[n])))
        /\ \A l \in Piece(splits, index, id, n, Part(f, parts[n])) : \E m, r : l.at = <<id, n, m, r>>
  <2> TAKE n \in Chosen(parts)
  <2>1. n \in DOMAIN parts /\ n # 0
    BY <1>2 DEF Chosen, Numbered
  <2>2. Numbered(Part(f, parts[n]).parts)
    BY <1>2, <2>1, PartKeepsParts
  <2>3. QED
    BY <2>1, <2>2, PiecesAre
<1>4. \/ L = Taken(id, 0, 0, f)
      \/ L = {Leaf(<<id, 0, 0, 0>>, f, "original")}
      \/ L = {}
      \/ L = Piece(splits, index, id, 0, f)
      \/ L = {Leaf(<<id, 0, 0, 0>>, f, "original")}
             \cup UNION {Piece(splits, index, id, n, Part(f, parts[n])) : n \in Chosen(parts)}
  BY <1>1 DEF Leaves
<1>5. CASE L = Taken(id, 0, 0, f)
  BY <1>5, TakenAre DEF IsCut
<1>6. CASE L = {Leaf(<<id, 0, 0, 0>>, f, "original")} \/ L = {}
  BY <1>6 DEF Apart, Leaf
<1>7. CASE L = Piece(splits, index, id, 0, f)
  BY <1>7, PiecesAre DEF IsCut
<1>8. CASE L = {Leaf(<<id, 0, 0, 0>>, f, "original")}
               \cup UNION {Piece(splits, index, id, n, Part(f, parts[n])) : n \in Chosen(parts)}
  <2> HIDE DEF L
  <2>1. ASSUME NEW l \in L
        PROVE  \/ l = Leaf(<<id, 0, 0, 0>>, f, "original")
               \/ \E n \in Chosen(parts) : l \in Piece(splits, index, id, n, Part(f, parts[n]))
    BY <1>8
  <2>2. ASSUME NEW l \in L
        PROVE  \E n, m, r : l.at = <<id, n, m, r>>
    BY <1>3, <2>1 DEF Leaf
  <2>3. ASSUME NEW l \in L, NEW x \in L, l.at = x.at
        PROVE  l = x
    <3>1. CASE l = Leaf(<<id, 0, 0, 0>>, f, "original")
      BY <1>3, <2>1, <2>3, <3>1 DEF Leaf
    <3>2. CASE x = Leaf(<<id, 0, 0, 0>>, f, "original")
      BY <1>3, <2>1, <2>3, <3>2 DEF Leaf
    <3>3. CASE /\ \E n \in Chosen(parts) : l \in Piece(splits, index, id, n, Part(f, parts[n]))
               /\ \E n \in Chosen(parts) : x \in Piece(splits, index, id, n, Part(f, parts[n]))
      <4>1. PICK n \in Chosen(parts) : l \in Piece(splits, index, id, n, Part(f, parts[n]))
        BY <3>3
      <4>2. PICK o \in Chosen(parts) : x \in Piece(splits, index, id, o, Part(f, parts[o]))
        BY <3>3
      <4>3. n = o
        BY <1>3, <2>3, <4>1, <4>2
      <4>4. QED
        BY <1>3, <2>3, <4>1, <4>2, <4>3 DEF Apart
    <3>4. QED
      BY <2>1, <3>1, <3>2, <3>3
  <2>4. QED
    BY <2>2, <2>3 DEF Apart, L
<1>9. QED
  BY <1>4, <1>5, <1>6, <1>7, <1>8

(* So it is in the items of an extraction that are cut.                    *)
LEMMA ExtractionIs ==
    ASSUME source \in Extractions, doc = Preprocessed(source.items)
    PROVE  /\ IsList(source.items) /\ SplitsAreCut(source.manual)
           /\ \A j \in DOMAIN source.items :
                 /\ IsList(source.items[j].fields)
                 /\ \A q \in DOMAIN source.items[j].fields : IsWithParts(source.items[j].fields[q])
           /\ doc \in Seq(InstancesOf(source.items))
<1>1. \A s \in source.manual : IsCut(s)
  <2> TAKE s \in source.manual
  <2>1. IsList(s.parts) /\ \A p \in PartsIn(s) : IsField(p)
    BY ExtractionAssumption
  <2>2. QED
    BY <2>1, ListsAreNumbered DEF IsCut, IsField
<1>2. /\ IsList(source.items)
      /\ \A j \in DOMAIN source.items :
            /\ IsList(source.items[j].fields)
            /\ \A q \in DOMAIN source.items[j].fields : IsWithParts(source.items[j].fields[q])
  BY ExtractionAssumption
<1>3. doc \in Seq(InstancesOf(source.items))
  BY <1>2, PreprocessedIs
<1>4. QED
  BY <1>1, <1>2, <1>3 DEF SplitsAreCut

LEMMA LeavesAreApart ==
    ASSUME source \in Extractions, doc = Preprocessed(source.items), NEW i \in DOMAIN doc
    PROVE  Apart(LeavesOf(i))
<1>1. /\ IsList(source.items) /\ SplitsAreCut(source.manual)
      /\ \A j \in DOMAIN source.items :
            /\ IsList(source.items[j].fields)
            /\ \A q \in DOMAIN source.items[j].fields : IsWithParts(source.items[j].fields[q])
  BY ExtractionIs
<1>2. doc \in Seq(InstancesOf(source.items))
  BY ExtractionIs
<1>3. doc[i] \in InstancesOf(source.items)
  BY <1>2
<1>4. PICK j, k : j \in 1..Len(source.items) /\ doc[i] = InstanceOf(source.items, j, k)
  BY <1>3 DEF InstancesOf
<1>5. Unique(doc[i].fields) /\ \A e \in doc[i].fields : IsCut(e.field)
  <2>1. j \in DOMAIN source.items
    BY <1>1, <1>4 DEF IsList
  <2>2. QED
    BY <1>1, <1>4, <2>1, InstanceIs
<1>6. ASSUME NEW l \in LeavesOf(i), NEW m \in LeavesOf(i), l.at = m.at
      PROVE  l = m
  <2>1. PICK d \in doc[i].fields : l \in Leaves(source.manual, doc[i].index, d.id, d.field)
    BY <1>6 DEF LeavesOf, LeavesIn
  <2>2. PICK e \in doc[i].fields : m \in Leaves(source.manual, doc[i].index, e.id, e.field)
    BY <1>6 DEF LeavesOf, LeavesIn
  <2>3. /\ \E n, o, r : l.at = <<d.id, n, o, r>>
        /\ \E n, o, r : m.at = <<e.id, n, o, r>>
    BY <1>1, <1>5, <2>1, <2>2, LeavesAre
  <2>4. d.id = e.id
    <3>1. PICK n, o, r : l.at = <<d.id, n, o, r>>
      BY <2>3
    <3>2. PICK n2, o2, r2 : m.at = <<e.id, n2, o2, r2>>
      BY <2>3
    <3>3. <<d.id, n, o, r>> = <<e.id, n2, o2, r2>>
      BY <1>6, <3>1, <3>2
    <3>4. QED
      BY <3>3
  <2>5. d = e
    BY <1>5, <2>4 DEF Unique
  <2>6. QED
    BY <1>1, <1>5, <1>6, <2>1, <2>2, <2>5, LeavesAre DEF Apart
<1>7. QED
  BY <1>6 DEF Apart

-----------------------------------------------------------------------------
(* Numbers nothing has *)

(* The n-th number that is not in a set.                                   *)
LEMMA FreeIs ==
    ASSUME NEW U, IsFiniteSet(U), NEW n \in Nat \ {0}
    PROVE  /\ Free(U, n) \notin U
           /\ Cardinality((1..Free(U, n)) \ U) = n
<1>1. Cardinality(U) \in Nat
  BY FS_CardinalityType
<1>2. PICK m \in Nat : m = Cardinality(U) + n
  BY <1>1
<1>3. PICK c : c = [x \in Nat |-> Cardinality((1..x) \ U)]
  OBVIOUS
<1>4. ASSUME NEW x \in Nat
      PROVE  IsFiniteSet((1..x) \ U) /\ c[x] \in Nat /\ c[x] = Cardinality((1..x) \ U)
  <2>1. IsFiniteSet(1..x)
    BY FS_Interval
  <2>2. IsFiniteSet((1..x) \ U)
    BY <2>1, FS_Subset
  <2>3. QED
    BY <1>3, <2>2, FS_CardinalityType
<1>5. c[m] >= n
  <2>1. IsFiniteSet(1..m) /\ Cardinality(1..m) = m
    BY <1>2, FS_Interval
  <2>2. PICK V, W : V = U \cap (1..m) /\ W = (1..m) \ U
    OBVIOUS
  <2>3. IsFiniteSet(V) /\ Cardinality(V) <= Cardinality(U) /\ Cardinality(V) \in Nat
    BY <2>2, FS_Subset, FS_CardinalityType
  <2>4. W \cup V = 1..m /\ W \cap V = {}
    BY <2>2
  <2>5. IsFiniteSet(W) /\ Cardinality(W) = c[m] /\ c[m] \in Nat
    BY <1>4, <2>2
  <2>6. Cardinality(W \cup V) = Cardinality(W) + Cardinality(V) - Cardinality(W \cap V)
    BY <2>3, <2>5, FS_Union
  <2>7. Cardinality(W \cap V) = 0 /\ Cardinality(W \cup V) = m
    BY <2>1, <2>4, FS_EmptySet
  <2>8. m = c[m] + Cardinality(V)
    BY <2>3, <2>5, <2>6, <2>7
  <2>9. QED
    BY <1>1, <1>2, <2>3, <2>5, <2>8
<1>6. PICK T : T = {x \in 1..m : c[x] >= n}
  OBVIOUS
<1>7. m \in T /\ T \in SUBSET Nat
  BY <1>1, <1>2, <1>5, <1>6
<1>8. PICK x \in T : \A y \in T : x <= y
  BY <1>7, LeastNumber
<1>9. x \in 1..m /\ x \in Nat /\ c[x] >= n /\ c[x] \in Nat
  <2>1. x \in 1..m /\ c[x] >= n
    BY <1>6, <1>8
  <2>2. x \in Nat
    BY <2>1
  <2>3. QED
    BY <1>4, <2>1, <2>2
<1>10. PICK y \in Nat : x = y + 1
  <2>1. x - 1 \in Nat /\ x = (x - 1) + 1
    BY <1>9
  <2>2. QED
    BY <2>1
<1>11. c[y] \in Nat /\ c[y] < n
  <2>1. c[y] \in Nat /\ c[y] = Cardinality((1..y) \ U)
    BY <1>4
  <2>2. CASE y = 0
    <3>1. (1..y) \ U = {}
      BY <2>2
    <3>2. c[y] = 0
      BY <2>1, <3>1, FS_EmptySet
    <3>3. QED
      BY <3>2
  <2>3. CASE y # 0
    <3>1. y \in 1..m /\ ~(x <= y)
      BY <1>9, <1>10, <2>3
    <3>2. y \notin T
      BY <1>8, <3>1
    <3>3. ~(c[y] >= n)
      BY <1>6, <3>1, <3>2
    <3>4. QED
      BY <2>1, <3>3
  <2>4. QED
    BY <2>2, <2>3
<1>12. 1..x = (1..y) \cup {x} /\ x \notin 1..y
  BY <1>10
<1>13. x \notin U
  <2>1. SUFFICES ASSUME x \in U PROVE FALSE
    OBVIOUS
  <2>2. (1..x) \ U = (1..y) \ U
    BY <1>12, <2>1
  <2>3. c[x] = c[y]
    BY <1>3, <1>9, <1>10, <2>2
  <2>4. QED
    BY <1>9, <1>11, <2>3
<1>14. c[x] = n
  <2>1. PICK W : W = (1..y) \ U
    OBVIOUS
  <2>2. (1..x) \ U = W \cup {x} /\ x \notin W
    BY <1>12, <1>13, <2>1
  <2>3. IsFiniteSet(W) /\ Cardinality(W) = c[y]
    BY <1>4, <2>1
  <2>4. Cardinality(W \cup {x}) = c[y] + 1
    BY <2>2, <2>3, FS_AddElement
  <2>5. c[x] = c[y] + 1
    BY <1>3, <1>10, <2>2, <2>4
  <2>6. QED
    BY <1>9, <1>11, <2>5
<1>15. \E z \in 1..(Cardinality(U) + n) : z \notin U /\ Cardinality((1..z) \ U) = n
  BY <1>2, <1>4, <1>9, <1>13, <1>14
<1>16. QED
  BY <1>15 DEF Free

(* The numbers that are used up to each item.                              *)
Uses(f, n, items) ==
    f = [k \in 0..n |->
            IF k = 0 THEN {items[j].index : j \in DOMAIN items}
            ELSE f[k - 1] \cup {Free(f[k - 1], m) : m \in 1..(Count(items[k]) - 1)}]

LEMMA UsesExist ==
    ASSUME NEW n \in Nat, NEW items
    PROVE  \E f : Uses(f, n, items)
<1> DEFINE T == {m \in Nat : \E f : Uses(f, m, items)}
           More(V, k) == V \cup {Free(V, m) : m \in 1..(Count(items[k]) - 1)}
<1>1. PICK first : first = {items[j].index : j \in DOMAIN items}
  OBVIOUS
<1>2. \A f, m : Uses(f, m, items) <=>
                   f = [k \in 0..m |-> IF k = 0 THEN first ELSE More(f[k - 1], k)]
  BY <1>1 DEF Uses
<1>3. 0 \in T
  <2>1. PICK f : f = [k \in 0..0 |-> first]
    OBVIOUS
  <2>2. f = [k \in 0..0 |-> IF k = 0 THEN first ELSE More(f[k - 1], k)]
    <3> HIDE DEF More
    <3>1. QED
      BY <2>1
  <2>3. QED
    BY <1>2, <2>2
<1>4. ASSUME NEW m \in Nat, m \in T PROVE m + 1 \in T
  <2>1. PICK f : Uses(f, m, items)
    BY <1>4
  <2> HIDE DEF More, T
  <2>2. PICK g : g = [k \in 0..(m + 1) |-> IF k = m + 1 THEN More(f[m], m + 1) ELSE f[k]]
    OBVIOUS
  <2>3. /\ \A k \in 0..m : g[k] = f[k] /\ f[k] = IF k = 0 THEN first ELSE More(f[k - 1], k)
        /\ g[m + 1] = More(f[m], m + 1) /\ m \in 0..m /\ m + 1 \in 0..(m + 1) /\ m + 1 # 0
        /\ (m + 1) - 1 = m
    BY <1>2, <2>1, <2>2
  <2>4. ASSUME NEW k \in 0..(m + 1)
        PROVE  g[k] = IF k = 0 THEN first ELSE More(g[k - 1], k)
    <3>1. CASE k = m + 1
      <4>1. g[k] = More(f[m], k) /\ g[k - 1] = f[m] /\ k # 0
        BY <2>3, <3>1
      <4>2. QED
        BY <4>1
    <3>2. CASE k = 0
      BY <2>3, <3>2
    <3>3. CASE k # m + 1 /\ k # 0
      <4>1. k \in 0..m /\ k - 1 \in 0..m
        BY <3>3
      <4>2. g[k] = More(f[k - 1], k) /\ g[k - 1] = f[k - 1]
        BY <2>3, <3>3, <4>1
      <4>3. QED
        BY <3>3, <4>2
    <3>4. QED
      BY <3>1, <3>2, <3>3
  <2>5. Uses(g, m + 1, items)
    BY <1>2, <2>2, <2>4
  <2>6. QED
    BY <2>5 DEF T
<1>5. Nat \subseteq T
  <2> HIDE DEF T
  <2>1. QED
    BY <1>3, <1>4, AllNumbers
<1>6. QED
  BY <1>5

LEMMA UsedIs ==
    ASSUME NEW items, IsList(items), \A i \in DOMAIN items : IsList(items[i].fields),
           NEW U, U = Used(items)
    PROVE  /\ U[0] = {items[j].index : j \in DOMAIN items}
           /\ \A k \in 1..Len(items) :
                 U[k] = U[k - 1] \cup {Free(U[k - 1], m) : m \in 1..(Count(items[k]) - 1)}
           /\ \A k \in 0..Len(items) : IsFiniteSet(U[k])
           /\ \A k \in 0..Len(items) : \A j \in 0..k : U[j] \subseteq U[k]
<1>1. PICK n \in Nat : n = Len(items) /\ DOMAIN items = 1..n
  BY DEF IsList
<1>2. Uses(U, n, items)
  <2> DEFINE used[k \in 0..Len(items)] ==
                IF k = 0 THEN {items[j].index : j \in DOMAIN items}
                ELSE used[k - 1] \cup {Free(used[k - 1], m) : m \in 1..(Count(items[k]) - 1)}
  <2>1. \A f : Uses(f, n, items) <=>
            f = [k \in 0..Len(items) |->
                    IF k = 0 THEN {items[j].index : j \in DOMAIN items}
                    ELSE f[k - 1] \cup {Free(f[k - 1], m) : m \in 1..(Count(items[k]) - 1)}]
    BY <1>1 DEF Uses
  <2>2. \E f : Uses(f, n, items)
    BY UsesExist
  <2>3. Uses(used, n, items)
    BY <2>1, <2>2
  <2>4. used = Used(items)
    BY DEF Used
  <2>5. QED
    BY <2>3, <2>4
<1>3. U[0] = {items[j].index : j \in DOMAIN items}
  BY <1>1, <1>2 DEF Uses
<1>4. ASSUME NEW k \in 1..n
      PROVE  U[k] = U[k - 1] \cup {Free(U[k - 1], m) : m \in 1..(Count(items[k]) - 1)}
  <2>1. k \in 0..n /\ k # 0
    OBVIOUS
  <2>2. QED
    BY <1>2, <2>1 DEF Uses
<1>5. PICK T : T = {k \in Nat : k <= n => IsFiniteSet(U[k]) /\ \A j \in 0..k : U[j] \subseteq U[k]}
  OBVIOUS
<1>6. 0 \in T
  <2>1. IsFiniteSet(1..n)
    BY FS_Interval
  <2>2. PICK g : g = [j \in 1..n |-> items[j].index]
    OBVIOUS
  <2>3. g \in Surjection(1..n, U[0])
    BY <1>1, <1>3, <2>2 DEF Surjection
  <2>4. IsFiniteSet(U[0])
    BY <2>1, <2>3, FS_Surjection
  <2>5. QED
    BY <1>5, <2>4
<1>7. ASSUME NEW m \in Nat, m \in T PROVE m + 1 \in T
  <2>1. CASE m + 1 <= n
    <3>1. m + 1 \in 1..n /\ (m + 1) - 1 = m
      BY <2>1
    <3>2. PICK V : V = {Free(U[m], o) : o \in 1..(Count(items[m + 1]) - 1)}
      OBVIOUS
    <3>3. U[m + 1] = U[m] \cup V
      BY <1>4, <3>1, <3>2
    <3>4. IsFiniteSet(U[m]) /\ \A j \in 0..m : U[j] \subseteq U[m]
      BY <1>5, <1>7, <2>1
    <3>5. IsFiniteSet(V)
      <4>1. PICK N : N = 1..(Count(items[m + 1]) - 1)
        OBVIOUS
      <4>2. Count(items[m + 1]) \in Nat
        BY <1>1, <3>1, CountIsNumber
      <4>3. IsFiniteSet(N)
        BY <4>1, <4>2, FS_Interval
      <4>4. PICK g : g = [o \in N |-> Free(U[m], o)]
        OBVIOUS
      <4>5. g \in Surjection(N, V)
        BY <3>2, <4>1, <4>4 DEF Surjection
      <4>6. QED
        BY <4>3, <4>5, FS_Surjection
    <3>6. IsFiniteSet(U[m + 1])
      <4>1. PICK W : W = U[m]
        OBVIOUS
      <4>2. IsFiniteSet(W \cup V)
        BY <3>4, <3>5, <4>1, FS_Union
      <4>3. QED
        BY <3>3, <4>1, <4>2
    <3>7. \A j \in 0..(m + 1) : j \in 0..m \/ j = m + 1
      OBVIOUS
    <3>8. \A j \in 0..(m + 1) : U[j] \subseteq U[m + 1]
      BY <3>3, <3>4, <3>7
    <3>9. QED
      BY <1>5, <3>6, <3>8
  <2>2. CASE ~(m + 1 <= n)
    BY <1>5, <2>2
  <2>3. QED
    BY <2>1, <2>2
<1>8. Nat \subseteq T
  BY <1>6, <1>7, AllNumbers
<1>9. ASSUME NEW k \in 0..n PROVE IsFiniteSet(U[k]) /\ \A j \in 0..k : U[j] \subseteq U[k]
  <2>1. k \in T /\ k <= n
    BY <1>8
  <2>2. QED
    BY <1>5, <2>1
<1>10. QED
  BY <1>1, <1>3, <1>4, <1>9

(* No two instances have one number, unless two items have.                *)
LEMMA InstancesAreDistinct ==
    ASSUME NEW items, IsList(items), \A i \in DOMAIN items : IsList(items[i].fields),
           Distinct(items),
           NEW i \in 1..Len(items), NEW k \in 1..Count(items[i]),
           NEW j \in 1..Len(items), NEW o \in 1..Count(items[j]),
           InstanceOf(items, i, k).index = InstanceOf(items, j, o).index
    PROVE  i = j /\ k = o
<1>1. PICK n \in Nat : n = Len(items) /\ DOMAIN items = 1..n
  BY DEF IsList
<1>2. PICK U : U = Used(items)
  OBVIOUS
<1>3. /\ U[0] = {items[q].index : q \in 1..n}
      /\ \A q \in 1..n : U[q] = U[q - 1] \cup {Free(U[q - 1], m) : m \in 1..(Count(items[q]) - 1)}
      /\ \A q \in 0..n : IsFiniteSet(U[q])
      /\ \A q \in 0..n : \A p \in 0..q : U[p] \subseteq U[q]
  <2>1. /\ U[0] = {items[q].index : q \in DOMAIN items}
        /\ \A q \in 1..Len(items) :
              U[q] = U[q - 1] \cup {Free(U[q - 1], m) : m \in 1..(Count(items[q]) - 1)}
        /\ \A q \in 0..Len(items) : IsFiniteSet(U[q])
        /\ \A q \in 0..Len(items) : \A p \in 0..q : U[p] \subseteq U[q]
    BY <1>2, UsedIs
  <2>2. QED
    BY <1>1, <2>1
<1>4. ASSUME NEW q \in 1..n PROVE Count(items[q]) \in Nat
  BY <1>1, CountIsNumber
<1>5. ASSUME NEW q \in 1..n, NEW m \in 1..Count(items[q])
      PROVE  \/ m = 1 /\ InstanceOf(items, q, m).index = items[q].index
             \/ /\ m - 1 \in 1..(Count(items[q]) - 1)
                /\ InstanceOf(items, q, m).index = Free(U[q - 1], m - 1)
  BY <1>2, <1>4 DEF InstanceOf
<1>6. ASSUME NEW q \in 1..n, NEW m \in 1..(Count(items[q]) - 1)
      PROVE  /\ Free(U[q - 1], m) \notin U[q - 1]
             /\ Cardinality((1..Free(U[q - 1], m)) \ U[q - 1]) = m
             /\ \A p \in q..n : Free(U[q - 1], m) \in U[p]
             /\ \A p \in 1..n : Free(U[q - 1], m) # items[p].index
  <2>1. q - 1 \in 0..n /\ m \in Nat \ {0}
    BY <1>4
  <2>2. PICK V : V = U[q - 1]
    OBVIOUS
  <2>3. IsFiniteSet(V)
    BY <1>3, <2>1, <2>2
  <2>4. Free(V, m) \notin V /\ Cardinality((1..Free(V, m)) \ V) = m
    BY <2>1, <2>3, FreeIs
  <2>5. Free(V, m) \in U[q]
    BY <1>3, <2>2
  <2>6. \A p \in q..n : U[q] \subseteq U[p]
    <3>1. \A p \in q..n : p \in 0..n /\ q \in 0..p
      OBVIOUS
    <3>2. QED
      BY <1>3, <3>1
  <2>7. \A p \in 1..n : items[p].index \in V
    <3>1. 0 \in 0..(q - 1)
      BY <2>1
    <3>2. U[0] \subseteq V
      BY <1>3, <2>1, <2>2, <3>1
    <3>3. QED
      BY <1>3, <3>2
  <2>8. QED
    BY <2>2, <2>4, <2>5, <2>6, <2>7
<1>7. i \in 1..n /\ j \in 1..n
  BY <1>1
<1>8. CASE k = 1 /\ o = 1
  <2>1. items[i].index = items[j].index
    BY <1>5, <1>7, <1>8
  <2>2. QED
    BY <1>1, <1>7, <1>8, <2>1 DEF Distinct
<1>9. CASE (k = 1 /\ o # 1) \/ (k # 1 /\ o = 1)
  <2>1. CASE k = 1 /\ o # 1
    <3>1. /\ InstanceOf(items, i, k).index = items[i].index
          /\ o - 1 \in 1..(Count(items[j]) - 1)
          /\ InstanceOf(items, j, o).index = Free(U[j - 1], o - 1)
      BY <1>5, <1>7, <2>1
    <3>2. QED
      BY <1>6, <1>7, <3>1
  <2>2. CASE k # 1 /\ o = 1
    <3>1. /\ InstanceOf(items, j, o).index = items[j].index
          /\ k - 1 \in 1..(Count(items[i]) - 1)
          /\ InstanceOf(items, i, k).index = Free(U[i - 1], k - 1)
      BY <1>5, <1>7, <2>2
    <3>2. QED
      BY <1>6, <1>7, <3>1
  <2>3. QED
    BY <1>9, <2>1, <2>2
<1>10. CASE k # 1 /\ o # 1
  <2>1. /\ k - 1 \in 1..(Count(items[i]) - 1) /\ o - 1 \in 1..(Count(items[j]) - 1)
        /\ Free(U[i - 1], k - 1) = Free(U[j - 1], o - 1)
    BY <1>5, <1>7, <1>10
  <2>2. CASE i = j
    <3>1. k - 1 = o - 1
      <4>1. PICK x : x = Free(U[i - 1], k - 1) /\ x = Free(U[i - 1], o - 1)
        BY <2>1, <2>2
      <4>2. Cardinality((1..x) \ U[i - 1]) = k - 1
        BY <1>6, <1>7, <2>1, <4>1
      <4>3. Cardinality((1..x) \ U[i - 1]) = o - 1
        BY <1>6, <1>7, <2>1, <2>2, <4>1
      <4>4. QED
        BY <4>2, <4>3
    <3>2. k \in Nat /\ o \in Nat
      BY <1>4, <1>7
    <3>3. QED
      BY <2>2, <3>1, <3>2
  <2>3. CASE i < j
    <3>1. j - 1 \in i..n
      BY <1>7, <2>3
    <3>2. Free(U[i - 1], k - 1) \in U[j - 1]
      BY <1>6, <1>7, <2>1, <3>1
    <3>3. QED
      BY <1>6, <1>7, <2>1, <3>2
  <2>4. CASE j < i
    <3>1. i - 1 \in j..n
      BY <1>7, <2>4
    <3>2. Free(U[j - 1], o - 1) \in U[i - 1]
      BY <1>6, <1>7, <2>1, <3>1
    <3>3. QED
      BY <1>6, <1>7, <2>1, <3>2
  <2>5. QED
    BY <1>7, <2>2, <2>3, <2>4
<1>11. QED
  BY <1>8, <1>9, <1>10

-----------------------------------------------------------------------------
(* Where the lists are that are put together: a[j] elements are before the *)
(* j-th.                                                                   *)

Preceding(c, j)   == UNION {{i} \X (1..Len(c[i])) : i \in 1..(j - 1)}
Reached(f, a, x)  == \A p \in 1..Len(f[x]) : \E j \in 1..x : p - a[j] \in 1..(a[j + 1] - a[j])
Placed(f, a, c, x, j) ==
    /\ a[j] \in Nat /\ a[j + 1] \in Nat /\ a[j + 1] = a[j] + Len(c[j]) /\ a[j + 1] <= Len(f[x])
    /\ \A k \in 1..Len(c[j]) : f[x][a[j] + k] = c[j][k]
Laid(f, a, c, x) ==
    /\ a[x + 1] = Len(f[x]) /\ Reached(f, a, x)
    /\ \A j \in 1..x : Placed(f, a, c, x, j)

LEMMA JoinLays ==
    ASSUME NEW n \in Nat, NEW c, NEW S, \A i \in 1..n : c[i] \in Seq(S),
           NEW f, Joins(f, n, c), \A x \in 0..n : f[x] \in Seq(S),
           NEW a, a[1] = 0, \A j \in 1..n : a[j + 1] = a[j] + Len(c[j]), NEW m \in 0..n
    PROVE  Laid(f, a, c, m)
<1>1. PICK T : T = {x \in Nat : x <= n => Laid(f, a, c, x)}
  OBVIOUS
<1>2. 0 \in T
  <2>1. f[0] = <<>>
    <3>1. 0 \in 0..n
      OBVIOUS
    <3>2. QED
      BY <3>1 DEF Joins
  <2>2. Len(f[0]) = 0 /\ 1..0 = {} /\ 0 + 1 = 1
    BY <2>1
  <2>3. Laid(f, a, c, 0)
    BY <2>2 DEF Laid, Reached
  <2>4. QED
    BY <1>1, <2>3
<1>3. ASSUME NEW x \in Nat, x \in T PROVE x + 1 \in T
  <2>1. SUFFICES ASSUME x + 1 <= n PROVE Laid(f, a, c, x + 1)
    BY <1>1
  <2>2. Laid(f, a, c, x)
    BY <1>1, <1>3, <2>1
  <2>3. PICK y \in Nat : y = x + 1
    OBVIOUS
  <2>4. y \in 1..n /\ y \in 0..n /\ x \in 0..n /\ y - 1 = x /\ y # 0
    BY <2>1, <2>3
  <2>5. PICK s, t : s = f[x] /\ t = c[y]
    OBVIOUS
  <2>6. s \in Seq(S) /\ t \in Seq(S) /\ f[y] = s \o t
    BY <2>4, <2>5 DEF Joins
  <2>7. PICK u \in Nat, v \in Nat : u = Len(s) /\ v = Len(t)
    BY <2>6
  <2>8. /\ Len(f[y]) = u + v
        /\ \A p \in 1..(u + v) : f[y][p] = IF p <= u THEN s[p] ELSE t[p - u]
    BY <2>6, <2>7, ConcatProperties
  <2>9. a[y] = u /\ a[y + 1] = u + v
    BY <2>2, <2>3, <2>4, <2>5, <2>7 DEF Laid
  <2>10. ASSUME NEW j \in 1..y PROVE Placed(f, a, c, y, j)
    <3>1. CASE j = y
      <4>1. ASSUME NEW k \in 1..v PROVE f[y][u + k] = t[k]
        <5>1. PICK p \in Nat : p = u + k
          BY <2>7
        <5>2. p \in 1..(u + v) /\ ~(p <= u) /\ p - u = k
          BY <2>7, <5>1
        <5>3. QED
          BY <2>8, <5>1, <5>2
      <4>2. /\ a[y] \in Nat /\ a[y + 1] \in Nat /\ a[y + 1] = a[y] + Len(c[y])
            /\ a[y + 1] <= Len(f[y])
        <5>1. Len(f[y]) = u + v /\ Len(c[y]) = v
          BY <2>5, <2>7, <2>8
        <5>2. u + v \in Nat /\ u + v <= u + v
          BY <2>7
        <5>3. QED
          BY <2>7, <2>9, <5>1, <5>2
      <4>3. \A k \in 1..Len(c[y]) : f[y][a[y] + k] = c[y][k]
        BY <2>5, <2>7, <2>9, <4>1
      <4>4. QED
        BY <3>1, <4>2, <4>3 DEF Placed
    <3>2. CASE j # y
      <4>1. j \in 1..x /\ j \in 1..n
        BY <2>3, <2>4, <3>2
      <4>2. Placed(f, a, c, x, j)
        BY <2>2, <4>1 DEF Laid
      <4>3. PICK w \in Nat : w = Len(c[j])
        BY <4>1
      <4>4. ASSUME NEW k \in 1..w PROVE f[y][a[j] + k] = c[j][k]
        <5>1. /\ a[j] \in Nat /\ a[j + 1] \in Nat /\ a[j + 1] = a[j] + w /\ a[j + 1] <= u
              /\ f[x][a[j] + k] = c[j][k]
          BY <2>5, <2>7, <4>2, <4>3 DEF Placed
        <5>2. PICK p \in Nat : p = a[j] + k
          BY <5>1
        <5>3. p \in 1..(u + v) /\ p <= u
          BY <2>7, <5>1, <5>2
        <5>4. QED
          BY <2>5, <2>8, <5>1, <5>2, <5>3
      <4>5. a[j + 1] <= Len(f[y])
        <5>1. a[j + 1] \in Nat /\ a[j + 1] <= u
          BY <2>5, <2>7, <4>2 DEF Placed
        <5>2. QED
          BY <2>7, <2>8, <5>1
      <4>6. QED
        BY <4>2, <4>3, <4>4, <4>5 DEF Placed
    <3>3. QED
      BY <3>1, <3>2
  <2>11. Reached(f, a, y)
    <3>1. SUFFICES ASSUME NEW p \in 1..(u + v)
                   PROVE  \E j \in 1..y : p - a[j] \in 1..(a[j + 1] - a[j])
      BY <2>8 DEF Reached
    <3>2. CASE p <= u
      <4>1. PICK j \in 1..x : p - a[j] \in 1..(a[j + 1] - a[j])
        BY <2>2, <2>5, <2>7, <3>2 DEF Laid, Reached
      <4>2. QED
        BY <2>3, <4>1
    <3>3. CASE ~(p <= u)
      <4>1. p - u \in 1..v /\ (u + v) - u = v
        BY <2>7, <3>3
      <4>2. y \in 1..y
        BY <2>4
      <4>3. QED
        BY <2>9, <4>1, <4>2
    <3>4. QED
      BY <3>2, <3>3
  <2>12. Laid(f, a, c, y)
    BY <2>8, <2>9, <2>10, <2>11 DEF Laid
  <2>13. QED
    BY <2>3, <2>12
<1>4. Nat \subseteq T
  BY <1>2, <1>3, AllNumbers
<1>5. m \in T /\ m <= n
  BY <1>4
<1>6. QED
  BY <1>1, <1>5

(* So many elements there are before it.                                   *)
LEMMA BeforeIs ==
    ASSUME NEW n \in Nat, NEW c, \A i \in 1..n : Len(c[i]) \in Nat, NEW j \in 1..n
    PROVE  /\ Cardinality(Preceding(c, j)) \in Nat
           /\ Cardinality(Preceding(c, j + 1)) = Cardinality(Preceding(c, j)) + Len(c[j])
<1>1. PICK T : T = {x \in Nat : x <= n => IsFiniteSet(Preceding(c, x + 1))}
  OBVIOUS
<1>2. ASSUME NEW x \in 1..n
      PROVE  /\ Preceding(c, x + 1) = Preceding(c, x) \cup ({x} \X (1..Len(c[x])))
             /\ Preceding(c, x) \cap ({x} \X (1..Len(c[x]))) = {}
             /\ IsFiniteSet({x} \X (1..Len(c[x])))
             /\ Cardinality({x} \X (1..Len(c[x]))) = Len(c[x])
  <2>1. 1..((x + 1) - 1) = (1..(x - 1)) \cup {x}
    OBVIOUS
  <2>2. Preceding(c, x + 1) = Preceding(c, x) \cup ({x} \X (1..Len(c[x])))
    BY <2>1 DEF Preceding
  <2>3. Preceding(c, x) \cap ({x} \X (1..Len(c[x]))) = {}
    <3>1. \A w \in Preceding(c, x) : w[1] \in 1..(x - 1)
      BY DEF Preceding
    <3>2. \A w \in {x} \X (1..Len(c[x])) : w[1] = x
      OBVIOUS
    <3>3. x \notin 1..(x - 1)
      OBVIOUS
    <3>4. QED
      BY <3>1, <3>2, <3>3
  <2>4. PICK k0 \in Nat : k0 = Len(c[x])
    OBVIOUS
  <2>5. IsFiniteSet(1..k0) /\ Cardinality(1..k0) = k0
    <3>1. 1 \in Int /\ k0 \in Int
      OBVIOUS
    <3>2. IsFiniteSet(1..k0) /\ Cardinality(1..k0) = IF 1 > k0 THEN 0 ELSE k0 - 1 + 1
      BY <3>1, FS_Interval
    <3>3. QED
      BY <3>2
  <2>6. PICK W : W = {x} \X (1..k0)
    OBVIOUS
  <2>7. PICK g : g = [k \in 1..k0 |-> <<x, k>>]
    OBVIOUS
  <2>8. g \in Bijection(1..k0, W)
    <3>1. g \in [1..k0 -> W]
      BY <2>6, <2>7
    <3>2. \A k, o \in 1..k0 : g[k] = g[o] => k = o
      BY <2>7
    <3>3. \A w \in W : \E k \in 1..k0 : g[k] = w
      BY <2>6, <2>7
    <3>4. g \in Injection(1..k0, W)
      BY <3>1, <3>2, Fun_IsInj
    <3>5. g \in Surjection(1..k0, W)
      BY <3>1, <3>3, Fun_IsSurj
    <3>6. QED
      BY <3>4, <3>5, Fun_IsBij
  <2>9. IsFiniteSet(W) /\ Cardinality(W) = k0
    <3>1. ExistsBijection(1..k0, W)
      BY <2>8 DEF ExistsBijection
    <3>2. QED
      BY <2>5, <3>1, FS_Bijection
  <2>10. QED
    BY <2>2, <2>3, <2>4, <2>6, <2>9
<1>3. 0 \in T
  <2>1. Preceding(c, 0 + 1) = {}
    BY DEF Preceding
  <2>2. IsFiniteSet(Preceding(c, 0 + 1))
    BY <2>1, FS_EmptySet
  <2>3. QED
    BY <1>1, <2>2
<1>4. ASSUME NEW x \in Nat, x \in T PROVE x + 1 \in T
  <2>1. CASE x + 1 <= n
    <3>1. PICK y \in 1..n : y = x + 1
      BY <2>1
    <3>2. PICK V, W : V = Preceding(c, y) /\ W = {y} \X (1..Len(c[y]))
      OBVIOUS
    <3>3. IsFiniteSet(V) /\ IsFiniteSet(W) /\ Preceding(c, y + 1) = V \cup W
      BY <1>1, <1>2, <1>4, <2>1, <3>1, <3>2
    <3>4. IsFiniteSet(Preceding(c, y + 1))
      BY <3>3, FS_Union
    <3>5. QED
      BY <1>1, <3>1, <3>4
  <2>2. CASE ~(x + 1 <= n)
    BY <1>1, <2>2
  <2>3. QED
    BY <2>1, <2>2
<1>5. IsFiniteSet(Preceding(c, j))
  <2>1. Nat \subseteq T
    BY <1>3, <1>4, AllNumbers
  <2>2. PICK x \in Nat : j = x + 1
    <3>1. j - 1 \in Nat /\ j = (j - 1) + 1
      OBVIOUS
    <3>2. QED
      BY <3>1
  <2>3. x \in T /\ x <= n
    BY <2>1, <2>2
  <2>4. QED
    BY <1>1, <2>2, <2>3
<1>6. PICK V, W : V = Preceding(c, j) /\ W = {j} \X (1..Len(c[j]))
  OBVIOUS
<1>7. /\ IsFiniteSet(V) /\ IsFiniteSet(W) /\ Preceding(c, j + 1) = V \cup W /\ V \cap W = {}
      /\ Cardinality(W) = Len(c[j])
  BY <1>2, <1>5, <1>6
<1>8. Cardinality(V \cup W) = Cardinality(V) + Cardinality(W) - Cardinality(V \cap W)
  BY <1>7, FS_Union
<1>9. Cardinality(V) \in Nat /\ Cardinality(V \cap W) = 0 /\ Len(c[j]) \in Nat
  BY <1>7, FS_EmptySet, FS_CardinalityType
<1>10. PICK v \in Nat : v = Cardinality(V)
  BY <1>9
<1>11. PICK w \in Nat : w = Len(c[j])
  BY <1>9
<1>12. Cardinality(V \cup W) = v + w
  <2>1. Cardinality(V \cup W) = v + w - 0
    BY <1>7, <1>8, <1>9, <1>10, <1>11
  <2>2. QED
    BY <2>1
<1>13. QED
  BY <1>6, <1>7, <1>10, <1>11, <1>12

-----------------------------------------------------------------------------
(* Cutting an item loses nothing                                           *)

LEMMA TurnIs ==
    ASSUME NEW s, IsList(s), NEW j \in DOMAIN s, ~Given(s[j]),
           NEW n \in Nat, Spread(s, s[j].name, n)
    PROVE  Turn(s, j) \in 1..n
<1>1. PICK A : A = Alike(s, s[j].name)
  OBVIOUS
<1>2. IsFiniteSet(A) /\ j \in A /\ j \in Nat
  <2>1. IsFiniteSet(DOMAIN s)
    BY FS_Interval DEF IsList
  <2>2. A \in SUBSET DOMAIN s
    BY <1>1 DEF Alike
  <2>3. QED
    BY <1>1, <2>1, <2>2, FS_Subset DEF Alike, IsList
<1>3. Cardinality(A) = n
  BY <1>1 DEF Spread
<1>4. PICK B : B = {k \in A : k <= j}
  OBVIOUS
<1>5. IsFiniteSet(B) /\ Cardinality(B) <= n /\ j \in B
  <2>1. B \in SUBSET A /\ j \in B
    BY <1>2, <1>4
  <2>2. QED
    BY <1>2, <1>3, <2>1, FS_Subset
<1>6. Cardinality(B) \in Nat /\ Cardinality(B) # 0
  BY <1>5, FS_CardinalityType, FS_EmptySet
<1>7. Turn(s, j) = Cardinality(B)
  BY <1>1, <1>4 DEF Turn
<1>8. QED
  BY <1>5, <1>6, <1>7

(* What there is of the j-th field of an item in its instances.            *)
Kept(items, i, j) ==
    LET f == items[i].fields[j]
        got(e) == \E k \in 1..Count(items[i]) : e \in InstanceOf(items, i, k).fields /\ e.id[1] = j
    IN  IF ~Given(f) THEN \E e : got(e)
        ELSE \A q \in DOMAIN f.parts :
                \E e : /\ got(e)
                       /\ e.field = f.parts[q] \/ \E r \in DOMAIN e.field.parts : e.field.parts[r] = f.parts[q]

LEMMA FieldsAreKept ==
    ASSUME NEW items, NEW i, NEW j \in DOMAIN items[i].fields,
           IsList(items[i].fields), IsWithParts(items[i].fields[j])
    PROVE  Kept(items, i, j)
<1>1. PICK fields, f : fields = items[i].fields /\ f = fields[j]
  OBVIOUS
<1>2. PICK n \in Nat : n = Count(items[i])
  BY CountIsNumber
<1>3. ASSUME NEW k \in 1..n, NEW q, NEW g, Entry(j, q, g) \in InstanceOf(items, i, k).fields,
             \/ ~Given(f)
             \/ Given(f) /\ g.parts = f.parts
      PROVE  Kept(items, i, j)
  <2>1. PICK e : e = Entry(j, q, g)
    OBVIOUS
  <2>2. e \in InstanceOf(items, i, k).fields /\ e.id[1] = j /\ e.field = g
    BY <1>3, <2>1 DEF Entry
  <2>3. QED
    BY <1>1, <1>2, <1>3, <2>2 DEF Kept
<1>4. CASE ~CanSplit(fields)
  <2>1. n = 1 /\ InstanceOf(items, i, 1).fields = AllFields(fields)
    BY <1>1, <1>2, <1>4 DEF Count, InstanceOf
  <2>2. Entry(j, 0, f) \in AllFields(fields)
    BY <1>1 DEF AllFields
  <2>3. QED
    BY <1>3, <2>1, <2>2
<1>5. CASE CanSplit(fields)
  <2>1. /\ n = Cardinality(Instances(fields)) /\ n >= 2 /\ Instances(fields) = 1..n
        /\ \A k : InstanceOf(items, i, k).fields = FieldsOfInstance(fields, n, k)
    BY <1>1, <1>2, <1>5 DEF Count, CanSplit, InstanceOf
  <2>2. CASE j \in Indexed(fields)
    <3>1. PICK k : k = Instance(fields[j])
      OBVIOUS
    <3>2. k \in 1..n
      BY <2>1, <2>2, <3>1 DEF Instances
    <3>3. PICK g : g = [fields[j] EXCEPT !.name = Base(fields[j])]
      OBVIOUS
    <3>4. Entry(j, 0, g) \in FieldsOfInstance(fields, n, k)
      BY <2>2, <3>1, <3>3 DEF FieldsOfInstance
    <3>5. g.parts = f.parts
      BY <1>1, <3>3 DEF IsWithParts, IsField
    <3>6. QED
      BY <1>3, <2>1, <3>2, <3>4, <3>5
  <2>3. CASE j \notin Indexed(fields) /\ ~Given(f)
    <3>1. PICK k \in 1..n : GoesTo(fields, j, n, k)
      <4>1. CASE Spread(fields, fields[j].name, n)
        BY <1>1, <2>3, <4>1, TurnIs DEF GoesTo
      <4>2. CASE ~Spread(fields, fields[j].name, n)
        BY <2>1, <4>2 DEF GoesTo
      <4>3. QED
        BY <4>1, <4>2
    <3>2. Entry(j, 0, f) \in FieldsOfInstance(fields, n, k)
      BY <1>1, <2>3, <3>1 DEF FieldsOfInstance
    <3>3. QED
      BY <1>3, <2>1, <2>3, <3>1, <3>2
  <2>4. CASE j \notin Indexed(fields) /\ Given(f)
    <3>1. \A k : PartsOfInstance(j, f, n, k) \subseteq FieldsOfInstance(fields, n, k)
      BY <1>1, <2>4 DEF FieldsOfInstance
    <3>2. ASSUME NEW q \in DOMAIN f.parts
          PROVE  \E e, k : /\ k \in 1..n /\ e \in InstanceOf(items, i, k).fields /\ e.id[1] = j
                           /\ \/ e.field = f.parts[q]
                              \/ \E r \in DOMAIN e.field.parts : e.field.parts[r] = f.parts[q]
      <4>1. CASE Spread(f.parts, f.parts[q].name, n)
        <5>1. IsList(f.parts) /\ ~Given(f.parts[q])
          BY <1>1 DEF IsWithParts, IsField, PartsIn
        <5>2. PICK k \in 1..n : Turn(f.parts, q) = k
          BY <4>1, <5>1, TurnIs
        <5>3. PICK e : e = Entry(j, q, f.parts[q])
          OBVIOUS
        <5>4. e \in PartsOfInstance(j, f, n, k)
          BY <4>1, <5>2, <5>3 DEF PartsOfInstance
        <5>5. e \in InstanceOf(items, i, k).fields
          BY <2>1, <3>1, <5>4
        <5>6. e.id[1] = j /\ e.field = f.parts[q]
          BY <5>3 DEF Entry
        <5>7. QED
          BY <5>2, <5>5, <5>6
      <4>2. CASE ~Spread(f.parts, f.parts[q].name, n)
        <5>1. PICK rest : rest = DOMAIN f.parts \ {r \in DOMAIN f.parts : Spread(f.parts, f.parts[r].name, n)}
          OBVIOUS
        <5>2. q \in rest
          BY <4>2, <5>1
        <5>3. PICK g : g = [f EXCEPT !.parts = [r \in rest |-> f.parts[r]]]
          OBVIOUS
        <5>4. g.parts = [r \in rest |-> f.parts[r]]
          BY <1>1, <5>3 DEF IsWithParts, IsField
        <5>5. PICK e : e = Entry(j, 0, g)
          OBVIOUS
        <5>6. e \in PartsOfInstance(j, f, n, 1)
          BY <5>1, <5>2, <5>3, <5>5 DEF PartsOfInstance
        <5>7. 1 \in 1..n /\ e \in InstanceOf(items, i, 1).fields
          BY <2>1, <3>1, <5>6
        <5>8. e.id[1] = j /\ e.field = g
          BY <5>5 DEF Entry
        <5>9. q \in DOMAIN e.field.parts /\ e.field.parts[q] = f.parts[q]
          BY <5>2, <5>4, <5>8
        <5>10. QED
          BY <5>7, <5>8, <5>9
      <4>3. QED
        BY <4>1, <4>2
    <3>3. QED
      BY <1>1, <1>2, <2>4, <3>2 DEF Kept
  <2>5. QED
    BY <2>2, <2>3, <2>4
<1>6. QED
  BY <1>4, <1>5

(* Where the instances of an item are among the items that are cut.        *)
PositionsAre(items, pos) ==
    \A p \in DOMAIN doc : \E i \in 1..Len(items) : \E k \in 1..Count(items[i]) :
        doc[p] = InstanceOf(items, i, k) /\ p = pos[i] + k

LEMMA InstancesAre ==
    ASSUME source \in Extractions, doc = Preprocessed(source.items),
           NEW items, items = source.items, NEW n \in Nat, n = Len(items)
    PROVE  /\ \A i \in 1..n : \A k \in 1..Count(items[i]) :
                 \E p \in From(i)..(From(i + 1) - 1) : p \in DOMAIN doc /\ doc[p] = InstanceOf(items, i, k)
           /\ \E pos : PositionsAre(items, pos)
<1>1. /\ IsList(items) /\ DOMAIN items = 1..n
      /\ \A i \in DOMAIN items : IsList(items[i].fields)
  <2>1. /\ IsList(source.items)
        /\ \A i \in DOMAIN source.items : IsList(source.items[i].fields)
    BY ExtractionIs
  <2>2. QED
    BY <2>1 DEF IsList
<1>2. PICK f, c : /\ Joins(f, n, c) /\ doc = f[n]
                  /\ \A i \in 1..n :
                        c[i] = [k \in 1..Count(items[i]) |-> InstanceOf(items, i, k)]
  <2>1. \E f, c : /\ Joins(f, Len(items), c) /\ Preprocessed(items) = f[Len(items)]
                  /\ \A i \in 1..Len(items) :
                        c[i] = [k \in 1..Count(items[i]) |-> InstanceOf(items, i, k)]
    BY <1>1, PreprocessedJoins
  <2>2. QED
    BY <2>1
<1>3. PICK S : S = InstancesOf(items)
  OBVIOUS
<1>4. ASSUME NEW i \in 1..n
      PROVE  /\ Count(items[i]) \in Nat /\ Len(c[i]) = Count(items[i]) /\ c[i] \in Seq(S)
             /\ \A k \in 1..Count(items[i]) : c[i][k] = InstanceOf(items, i, k)
  <2>1. PICK m \in Nat : m = Count(items[i])
    BY <1>1, CountIsNumber
  <2>2. \A k \in 1..m : InstanceOf(items, i, k) \in S
    BY <1>3, <2>1 DEF InstancesOf
  <2>3. c[i] = [k \in 1..m |-> InstanceOf(items, i, k)]
    BY <1>2, <2>1
  <2>4. c[i] \in [1..m -> S]
    BY <2>2, <2>3
  <2>5. c[i] \in Seq(S) /\ Len(c[i]) = m
    BY <2>3, <2>4
  <2>6. QED
    BY <2>1, <2>3, <2>5
<1>5. PICK a : a = [j \in 1..(n + 1) |-> Cardinality(Preceding(c, j))]
  OBVIOUS
<1>6. a[1] = 0 /\ \A j \in 1..n : a[j + 1] = a[j] + Len(c[j])
  <2>1. Preceding(c, 1) = {}
    BY DEF Preceding
  <2>2. 1 \in 1..(n + 1) /\ Cardinality({}) = 0
    BY FS_EmptySet
  <2>3. a[1] = 0
    BY <1>5, <2>1, <2>2
  <2>4. ASSUME NEW j \in 1..n PROVE a[j + 1] = a[j] + Len(c[j])
    <3>1. \A i \in 1..n : Len(c[i]) \in Nat
      BY <1>4
    <3>2. Cardinality(Preceding(c, j + 1)) = Cardinality(Preceding(c, j)) + Len(c[j])
      BY <3>1, BeforeIs
    <3>3. j \in 1..(n + 1) /\ j + 1 \in 1..(n + 1)
      OBVIOUS
    <3>4. a[j] = Cardinality(Preceding(c, j)) /\ a[j + 1] = Cardinality(Preceding(c, j + 1))
      BY <1>5, <3>3
    <3>5. QED
      BY <3>2, <3>4
  <2>5. QED
    BY <2>3, <2>4
<1>7. Laid(f, a, c, n)
  <2>1. \A i \in 1..n : c[i] \in Seq(S)
    BY <1>4
  <2>2. \A x \in 0..n : f[x] \in Seq(S)
    BY <1>2, <2>1, JoinIsList
  <2>3. n \in 0..n
    OBVIOUS
  <2>4. QED
    BY <1>2, <1>6, <2>1, <2>2, <2>3, JoinLays
<1>8. ASSUME NEW i \in 1..(n + 1) PROVE From(i) = 1 + a[i]
  <2>1. \A j \in 1..(i - 1) : j \in 1..n
    OBVIOUS
  <2>2. UNION {{j} \X (1..Count(items[j])) : j \in 1..(i - 1)} = Preceding(c, i)
    BY <1>4, <2>1 DEF Preceding
  <2>3. QED
    BY <1>5, <2>2 DEF From
<1>9. doc \in Seq(S) /\ DOMAIN doc = 1..Len(doc) /\ Len(doc) \in Nat
  BY <1>1, <1>3, PreprocessedIs
<1>10. ASSUME NEW i \in 1..n, NEW k \in 1..Count(items[i])
       PROVE  \E p \in From(i)..(From(i + 1) - 1) : p \in DOMAIN doc /\ doc[p] = InstanceOf(items, i, k)
  <2>1. PICK m \in Nat : m = Count(items[i])
    BY <1>4
  <2>2. /\ a[i] \in Nat /\ a[i + 1] = a[i] + m /\ a[i + 1] <= Len(doc)
        /\ doc[a[i] + k] = c[i][k]
    <3>1. Placed(f, a, c, n, i)
      BY <1>7 DEF Laid
    <3>2. Len(c[i]) = m /\ doc = f[n]
      BY <1>2, <1>4, <2>1
    <3>3. QED
      BY <2>1, <3>1, <3>2 DEF Placed
  <2>3. From(i) = 1 + a[i] /\ From(i + 1) = 1 + a[i + 1]
    <3>1. i \in 1..(n + 1) /\ i + 1 \in 1..(n + 1)
      OBVIOUS
    <3>2. QED
      BY <1>8, <3>1
  <2>4. PICK p \in Nat : p = a[i] + k
    BY <2>1, <2>2
  <2>5. p \in From(i)..(From(i + 1) - 1) /\ p \in 1..Len(doc)
    BY <1>9, <2>1, <2>2, <2>3, <2>4
  <2>6. QED
    BY <1>4, <1>9, <2>2, <2>4, <2>5
<1>11. \A p \in DOMAIN doc : \E i \in 1..n : \E k \in 1..Count(items[i]) :
          doc[p] = InstanceOf(items, i, k) /\ p = a[i] + k
  <2>1. TAKE p \in DOMAIN doc
  <2>2. p \in 1..Len(f[n])
    BY <1>2, <1>9
  <2>3. PICK i \in 1..n : p - a[i] \in 1..(a[i + 1] - a[i])
    BY <1>7, <2>2 DEF Laid, Reached
  <2>4. PICK m \in Nat : m = Count(items[i])
    BY <1>4
  <2>5. /\ a[i] \in Nat /\ a[i + 1] = a[i] + m
        /\ \A k \in 1..m : doc[a[i] + k] = c[i][k]
    <3>1. Placed(f, a, c, n, i)
      BY <1>7 DEF Laid
    <3>2. Len(c[i]) = m
      BY <1>4, <2>4
    <3>3. QED
      BY <1>2, <3>1, <3>2 DEF Placed
  <2>6. PICK k \in 1..m : k = p - a[i]
    BY <2>3, <2>4, <2>5
  <2>7. p = a[i] + k
    BY <1>9, <2>5, <2>6
  <2>8. doc[p] = InstanceOf(items, i, k)
    BY <1>4, <2>4, <2>5, <2>7
  <2>9. QED
    BY <2>4, <2>7, <2>8
<1>12. PositionsAre(items, a)
  BY <1>11 DEF PositionsAre
<1>13. QED
  BY <1>10, <1>12

LEMMA CutsKeepAll ==
    ASSUME source \in Extractions, doc = Preprocessed(source.items)
    PROVE  CutsLoseNothing
<1>1. PICK items : items = source.items
  OBVIOUS
<1>2. PICK n \in Nat : n = Len(items) /\ DOMAIN items = 1..n
  BY <1>1, ExtractionIs DEF IsList
<1>3. /\ IsList(items)
      /\ \A i \in DOMAIN items : /\ IsList(items[i].fields)
                                 /\ \A j \in DOMAIN items[i].fields : IsWithParts(items[i].fields[j])
  BY <1>1, ExtractionIs
<1>4. \A i \in 1..n : \A k \in 1..Count(items[i]) :
          \E p \in From(i)..(From(i + 1) - 1) : p \in DOMAIN doc /\ doc[p] = InstanceOf(items, i, k)
  BY <1>1, <1>2, InstancesAre
<1>5. Distinct(items) => Distinct(doc)
  <2>1. SUFFICES ASSUME Distinct(items), NEW p \in DOMAIN doc, NEW q \in DOMAIN doc,
                        doc[p].index = doc[q].index
                 PROVE  p = q
    BY DEF Distinct
  <2>2. PICK pos : PositionsAre(items, pos)
    BY <1>1, <1>2, InstancesAre
  <2>3. PICK i \in 1..n : \E k \in 1..Count(items[i]) :
            doc[p] = InstanceOf(items, i, k) /\ p = pos[i] + k
    BY <1>2, <2>2 DEF PositionsAre
  <2>4. PICK k \in 1..Count(items[i]) : doc[p] = InstanceOf(items, i, k) /\ p = pos[i] + k
    BY <2>3
  <2>5. PICK j \in 1..n : \E o \in 1..Count(items[j]) :
            doc[q] = InstanceOf(items, j, o) /\ q = pos[j] + o
    BY <1>2, <2>2 DEF PositionsAre
  <2>6. PICK o \in 1..Count(items[j]) : doc[q] = InstanceOf(items, j, o) /\ q = pos[j] + o
    BY <2>5
  <2>7. InstanceOf(items, i, k).index = InstanceOf(items, j, o).index
    BY <2>1, <2>4, <2>6
  <2>8. i = j /\ k = o
    BY <1>2, <1>3, <2>1, <2>7, InstancesAreDistinct
  <2>9. QED
    BY <2>4, <2>6, <2>8
<1>6. Distinct(source.items) => Distinct(doc)
  BY <1>1, <1>5
<1>7. ASSUME NEW i \in DOMAIN source.items, NEW j \in DOMAIN source.items[i].fields
      PROVE  LET f   == source.items[i].fields[j]
                 cut == UNION {doc[k].fields : k \in From(i)..From(i + 1) - 1}
                 got == {e.field : e \in {d \in cut : d.id[1] = j}}
             IN  IF ~Given(f) THEN got # {}
                 ELSE \A q \in DOMAIN f.parts :
                         \E g \in got : g = f.parts[q] \/ \E r \in DOMAIN g.parts : g.parts[r] = f.parts[q]
  <2>1. PICK f : f = items[i].fields[j]
    OBVIOUS
  <2>2. PICK got : got = {e.field : e \in {d \in UNION {doc[k].fields : k \in From(i)..(From(i + 1) - 1)} :
                                                  d.id[1] = j}}
    OBVIOUS
  <2>3. /\ i \in DOMAIN items /\ i \in 1..n /\ j \in DOMAIN items[i].fields
        /\ Kept(items, i, j)
    <3>1. i \in DOMAIN items /\ j \in DOMAIN items[i].fields
      BY <1>1
    <3>2. QED
      BY <1>2, <1>3, <3>1, FieldsAreKept
  <2>4. ASSUME NEW e, NEW k \in 1..Count(items[i]), e \in InstanceOf(items, i, k).fields, e.id[1] = j
        PROVE  e.field \in got
    <3>1. PICK p \in From(i)..(From(i + 1) - 1) : doc[p] = InstanceOf(items, i, k)
      BY <1>4, <2>3
    <3>2. e \in UNION {doc[x].fields : x \in From(i)..(From(i + 1) - 1)}
      BY <2>4, <3>1
    <3>3. QED
      BY <2>2, <2>4, <3>2
  <2>5. ~Given(f) => got # {}
    BY <2>1, <2>3, <2>4 DEF Kept
  <2>6. ASSUME Given(f), NEW q \in DOMAIN f.parts
        PROVE  \E g \in got : g = f.parts[q] \/ \E r \in DOMAIN g.parts : g.parts[r] = f.parts[q]
    <3>1. PICK e : /\ \E k \in 1..Count(items[i]) : e \in InstanceOf(items, i, k).fields /\ e.id[1] = j
                   /\ \/ e.field = f.parts[q]
                      \/ \E r \in DOMAIN e.field.parts : e.field.parts[r] = f.parts[q]
      BY <2>1, <2>3, <2>6 DEF Kept
    <3>2. QED
      BY <2>4, <3>1
  <2>7. QED
    BY <1>1, <2>1, <2>2, <2>5, <2>6
<1>8. QED
  BY <1>6, <1>7 DEF CutsLoseNothing

-----------------------------------------------------------------------------
(* The invariant *)

(* The finished items are a list, and the numbers lead to them.            *)
Shape ==
    /\ source \in Extractions /\ doc = Preprocessed(source.items)
    /\ \E S : finished \in Seq(S)
    /\ Len(finished) <= Len(doc)
    /\ \A j \in DOMAIN finished : finished[j].index = doc[j].index
    /\ DOMAIN itemsByIndex = {finished[j].index : j \in DOMAIN finished}
    /\ \A k \in DOMAIN itemsByIndex : /\ itemsByIndex[k] \in DOMAIN finished
                                      /\ finished[itemsByIndex[k]].index = k

(* A field waits for an item to come.                                      *)
AwaitInv ==
    \A a \in awaited : /\ a.index \notin DOMAIN itemsByIndex
                       /\ \E j \in DOMAIN doc : doc[j].index = a.index

(* Only what has been handled is anywhere, ...                             *)
OnlyHandled == \A t : IsKept(t) => t[1] \in DOMAIN finished

(* ... and it is in one place at most.                                     *)
Once(t) ==
    /\ \A j, k \in Holding(t) : j = k
    /\ \A a, b \in Awaiting(t) : a = b
    /\ \A j \in Holding(t) : Awaiting(t) = {} /\ t \notin notes \cup info \cup warned
    /\ \A a \in Awaiting(t) : t \notin notes \cup info \cup warned
    /\ ~(t \in notes /\ t \in info) /\ ~(t \in notes /\ t \in warned) /\ ~(t \in info /\ t \in warned)

AtMostOnce == \A t : Once(t)

(* A field for another product is with the item it is for, or waits for it.*)
OnItsWay(i, l) ==
    Wanted(i, l) # {} =>
        /\ \A j \in Holding(Token(i, l)) : doc[j].index = Goal(i, l)
        /\ \A a \in Awaiting(Token(i, l)) : a.index = Goal(i, l)

GoalInv == \A i \in DOMAIN finished : \A l \in LeavesOf(i) : OnItsWay(i, l)

PlacesInv ==
    /\ Shape /\ AwaitInv /\ OnlyHandled /\ AtMostOnce /\ GoalInv
    /\ NothingIsLost /\ NotesYield

-----------------------------------------------------------------------------
(* One item: its leaves L, of which S stay, A go away, and F of these to   *)
(* items that are finished; G are its fields, M those that are merged.     *)
Splits(i, L, S, A, F, G) ==
    /\ i \in DOMAIN doc /\ i = Len(finished) + 1 /\ L = LeavesOf(i)
    /\ A = {l \in L : l.as \notin {"note", "info"} /\ Wanted(i, l) # {}}
    /\ S = {l \in L : l.as \notin {"note", "info"} /\ Wanted(i, l) = {}}
    /\ F = {l \in A : IsFinished(i, l)}
    /\ G = {a.field : a \in {b \in awaited : b.index = doc[i].index}} \cup {Built(i, l) : l \in S}

Added(i, F, j) == {Built(i, l) : l \in {m \in F : itemsByIndex[Goal(i, m)] = j}}

Handles(i, L, S, A, F, G, M) ==
    /\ Splits(i, L, S, A, F, G)
    /\ \E P \in Pairings(G) : M = Merged(G, P)
    /\ \E T : finished' \in Seq(T)
    /\ DOMAIN finished' = DOMAIN finished \cup {i}
    /\ \A j \in DOMAIN finished : /\ finished'[j].index = finished[j].index
                                  /\ finished'[j].fields = finished[j].fields \cup Added(i, F, j)
    /\ finished'[i].index = doc[i].index /\ finished'[i].fields = M \ Dropped(M)
    /\ warned' = warned \cup UNION {f.of : f \in Dropped(M)}
    /\ itemsByIndex' = [k \in DOMAIN itemsByIndex \cup {doc[i].index} |->
                           IF k = doc[i].index THEN i ELSE itemsByIndex[k]]
    /\ awaited' = {a \in awaited : a.index # doc[i].index}
                  \cup {[index |-> Goal(i, l), field |-> Built(i, l)] : l \in A \ F}
    /\ notes' = notes \cup Tokens(i, {l \in L : l.as = "note"})
    /\ info' = info \cup Tokens(i, {l \in L : l.as = "info"})
    /\ UNCHANGED <<source, doc>>

LEMMA StepHandles ==
    ASSUME Shape, NEW i \in DOMAIN doc, NormalizeItem(i)
    PROVE  \E L, S, A, F, G, M : Handles(i, L, S, A, F, G, M)
<1> DEFINE index  == doc[i].index
           leaves == LeavesOf(i)
           kept   == {l \in leaves : l.as \notin {"note", "info"}}
           away   == {l \in kept : Wanted(i, l) # {}}
           late   == {l \in away : IsFinished(i, l)}
           fields == {a.field : a \in {b \in awaited : b.index = index}}
                     \cup {Built(i, l) : l \in kept \ away}
           added(j) == {Built(i, l) : l \in {m \in late : itemsByIndex[Goal(i, m)] = j}}
<1>1. PICK L, S, A, F, G : L = leaves /\ S = kept \ away /\ A = away /\ F = late /\ G = fields
  OBVIOUS
<1>2. Splits(i, L, S, A, F, G) /\ i = Len(finished) + 1
  <2>1. i = Len(finished) + 1
    BY DEF NormalizeItem
  <2>2. S = {l \in L : l.as \notin {"note", "info"} /\ Wanted(i, l) = {}}
    BY <1>1
  <2>3. A = {l \in L : l.as \notin {"note", "info"} /\ Wanted(i, l) # {}}
    BY <1>1
  <2>4. QED
    BY <1>1, <2>1, <2>2, <2>3 DEF Splits
<1>3. PICK P \in Pairings(G) :
        /\ finished' = Append([j \in DOMAIN finished |->
                                 [index  |-> finished[j].index,
                                  fields |-> finished[j].fields \cup Added(i, F, j)]],
                              [index  |-> doc[i].index,
                               fields |-> Merged(G, P) \ Dropped(Merged(G, P))])
        /\ warned' = warned \cup UNION {f.of : f \in Dropped(Merged(G, P))}
  <2>1. PICK P \in Pairings(fields) :
          /\ finished' = Append([j \in DOMAIN finished |->
                                   [index  |-> finished[j].index,
                                    fields |-> finished[j].fields \cup added(j)]],
                                [index  |-> index,
                                 fields |-> Merged(fields, P) \ Dropped(Merged(fields, P))])
          /\ warned' = warned \cup UNION {f.of : f \in Dropped(Merged(fields, P))}
    BY DEF NormalizeItem
  <2>2. \A j : added(j) = Added(i, F, j)
    BY <1>1 DEF Added
  <2>3. [j \in DOMAIN finished |-> [index  |-> finished[j].index,
                                    fields |-> finished[j].fields \cup added(j)]]
        = [j \in DOMAIN finished |-> [index  |-> finished[j].index,
                                      fields |-> finished[j].fields \cup Added(i, F, j)]]
    <3> HIDE DEF added
    <3>1. QED
      BY <2>2
  <2> HIDE DEF fields, added
  <2>4. QED
    BY <1>1, <2>1, <2>3
<1>4. /\ itemsByIndex' = [k \in DOMAIN itemsByIndex \cup {doc[i].index} |->
                            IF k = doc[i].index THEN i ELSE itemsByIndex[k]]
      /\ awaited' = {a \in awaited : a.index # doc[i].index}
                    \cup {[index |-> Goal(i, l), field |-> Built(i, l)] : l \in A \ F}
      /\ notes' = notes \cup Tokens(i, {l \in L : l.as = "note"})
      /\ info' = info \cup Tokens(i, {l \in L : l.as = "info"})
      /\ UNCHANGED <<source, doc>>
  <2>1. /\ itemsByIndex' = [k \in DOMAIN itemsByIndex \cup {index} |->
                              IF k = index THEN i ELSE itemsByIndex[k]]
        /\ awaited' = {a \in awaited : a.index # index}
                      \cup {[index |-> Goal(i, l), field |-> Built(i, l)] : l \in away \ late}
        /\ notes' = notes \cup Tokens(i, {l \in leaves : l.as = "note"})
        /\ info' = info \cup Tokens(i, {l \in leaves : l.as = "info"})
        /\ UNCHANGED <<source, doc>>
    BY DEF NormalizeItem
  <2> HIDE DEF away, late, leaves
  <2>2. QED
    BY <1>1, <2>1
<1> HIDE DEF index, leaves, kept, away, late, fields, added
<1>5. PICK M : M = Merged(G, P)
  OBVIOUS
<1>6. PICK grown : grown = [j \in DOMAIN finished |->
                                 [index  |-> finished[j].index,
                                  fields |-> finished[j].fields \cup Added(i, F, j)]]
  OBVIOUS
<1>7. PICK last : last = [index |-> doc[i].index, fields |-> M \ Dropped(M)]
  OBVIOUS
<1>8. /\ DOMAIN finished = 1..Len(finished) /\ Len(finished) \in Nat
  BY DEF Shape
<1>9. PICK T : T = {grown[j] : j \in 1..Len(finished)} \cup {last}
  OBVIOUS
<1>10. grown \in Seq(T) /\ last \in T /\ Len(grown) = Len(finished)
  <2>1. grown \in [1..Len(finished) -> T]
    BY <1>6, <1>8, <1>9
  <2>2. QED
    BY <1>8, <1>9, <2>1
<1>11. finished' = Append(grown, last)
  BY <1>3, <1>5, <1>6, <1>7
<1>12. /\ DOMAIN finished' = DOMAIN finished \cup {i} /\ finished' \in Seq(T)
       /\ \A j \in DOMAIN finished : finished'[j] = grown[j]
       /\ finished'[i] = last
  BY <1>2, <1>8, <1>10, <1>11
<1>13. \A j \in DOMAIN finished : /\ finished'[j].index = finished[j].index
                                  /\ finished'[j].fields = finished[j].fields \cup Added(i, F, j)
  BY <1>6, <1>12
<1>14. finished'[i].index = doc[i].index /\ finished'[i].fields = M \ Dropped(M)
  BY <1>7, <1>12
<1>15. Handles(i, L, S, A, F, G, M)
  BY <1>2, <1>3, <1>4, <1>5, <1>12, <1>13, <1>14 DEF Handles
<1>16. QED
  BY <1>15

-----------------------------------------------------------------------------
(* What a field consists of is found in no other one of the item, before   *)
(* the halves are merged and after.                                        *)

Alone(G)       == \A f, g \in G : \A t : t \in f.of /\ t \in g.of => f = g
Stays(M, t)    == \E m \in M \ Dropped(M) : t \in m.of
GoesOut(M, t)  == \E m \in Dropped(M) : t \in m.of
Comes(i, S, t) == \/ \E a \in Awaiting(t) : a.index = doc[i].index
                  \/ \E l \in S : t = Token(i, l)

LEMMA FieldsAreAlone ==
    ASSUME PlacesInv, NEW i, NEW L, NEW S, NEW A, NEW F, NEW G, Splits(i, L, S, A, F, G)
    PROVE  /\ Alone(G)
           /\ \A t : (\E g \in G : t \in g.of) <=> Comes(i, S, t)
<1>1. \A g \in G : \/ \E a \in awaited : a.index = doc[i].index /\ g = a.field
                   \/ \E l \in S : g = Built(i, l)
  BY DEF Splits
<1>2. \A l : Built(i, l).of = {Token(i, l)}
  BY DEF Built
<1>3. \A l \in S, m \in S : Token(i, l) = Token(i, m) => l = m
  <2>1. Apart(LeavesOf(i))
    BY LeavesAreApart DEF Splits, PlacesInv, Shape
  <2>2. \A l \in S : l \in LeavesOf(i)
    BY DEF Splits
  <2>3. \A l, m : Token(i, l) = Token(i, m) => l.at = m.at
    BY DEF Token
  <2>4. QED
    BY <2>1, <2>2, <2>3 DEF Apart
<1>4. \A l : Awaiting(Token(i, l)) = {}
  <2>1. \A a, l : a \in Awaiting(Token(i, l)) => IsKept(Token(i, l))
    BY DEF Awaiting, IsKept
  <2>2. \A l : Token(i, l)[1] = i
    BY DEF Token
  <2>3. i \notin DOMAIN finished
    BY DEF Splits, PlacesInv, Shape
  <2>4. QED
    BY <2>1, <2>2, <2>3 DEF PlacesInv, OnlyHandled
<1>5. ASSUME NEW f \in G, NEW g \in G, NEW t, t \in f.of, t \in g.of
      PROVE  f = g
  <2>1. CASE /\ \E a \in awaited : a.index = doc[i].index /\ f = a.field
             /\ \E a \in awaited : a.index = doc[i].index /\ g = a.field
    <3>1. PICK a \in Awaiting(t) : f = a.field
      BY <1>5, <2>1 DEF Awaiting
    <3>2. PICK b \in Awaiting(t) : g = b.field
      BY <1>5, <2>1 DEF Awaiting
    <3>3. a = b
      BY DEF PlacesInv, AtMostOnce, Once
    <3>4. QED
      BY <3>1, <3>2, <3>3
  <2>2. CASE \E l \in S : f = Built(i, l)
    <3>1. PICK l \in S : f = Built(i, l)
      BY <2>2
    <3>2. t = Token(i, l)
      BY <1>2, <1>5, <3>1
    <3>3. \A a \in awaited : t \notin a.field.of
      BY <1>4, <3>2 DEF Awaiting
    <3>4. PICK m \in S : g = Built(i, m)
      BY <1>1, <1>5, <3>3
    <3>5. t = Token(i, m)
      BY <1>2, <1>5, <3>4
    <3>6. QED
      BY <1>3, <3>1, <3>2, <3>4, <3>5
  <2>3. CASE \E l \in S : g = Built(i, l)
    <3>1. PICK l \in S : g = Built(i, l)
      BY <2>3
    <3>2. t = Token(i, l)
      BY <1>2, <1>5, <3>1
    <3>3. \A a \in awaited : t \notin a.field.of
      BY <1>4, <3>2 DEF Awaiting
    <3>4. PICK m \in S : f = Built(i, m)
      BY <1>1, <1>5, <3>3
    <3>5. t = Token(i, m)
      BY <1>2, <1>5, <3>4
    <3>6. QED
      BY <1>3, <3>1, <3>2, <3>4, <3>5
  <2>4. QED
    BY <1>1, <2>1, <2>2, <2>3
<1>6. ASSUME NEW t PROVE (\E g \in G : t \in g.of) <=> Comes(i, S, t)
  <2>1. ASSUME NEW g \in G, t \in g.of PROVE Comes(i, S, t)
    BY <1>1, <1>2, <2>1 DEF Comes, Awaiting
  <2>2. ASSUME Comes(i, S, t) PROVE \E g \in G : t \in g.of
    <3>1. CASE \E a \in Awaiting(t) : a.index = doc[i].index
      BY <3>1 DEF Splits, Awaiting
    <3>2. CASE \E l \in S : t = Token(i, l)
      <4>1. PICK l \in S : t = Token(i, l)
        BY <3>2
      <4>2. Built(i, l) \in G
        BY DEF Splits
      <4>3. QED
        BY <1>2, <4>1, <4>2
    <3>3. QED
      BY <2>2, <3>1, <3>2 DEF Comes
  <2>3. QED
    BY <2>1, <2>2
<1>7. QED
  BY <1>5, <1>6 DEF Alone

(* Merging halves loses neither.                                           *)
LEMMA MergedKeeps ==
    ASSUME NEW G, NEW P \in Pairings(G), NEW g \in G, NEW t \in g.of
    PROVE  \E m \in Merged(G, P) : t \in m.of
<1>1. CASE g \notin Paired(P)
  BY <1>1 DEF Merged
<1>2. CASE g \in Paired(P)
  <2>1. PICK p \in P : g = p[1] \/ g = p[2]
    BY <1>2 DEF Paired
  <2>2. t \in Merge(p).of
    BY <2>1 DEF Merge
  <2>3. Merge(p) \in Merged(G, P)
    BY <2>1 DEF Merged
  <2>4. QED
    BY <2>2, <2>3
<1>3. QED
  BY <1>1, <1>2

LEMMA MergedAlone ==
    ASSUME NEW G, Alone(G), NEW P \in Pairings(G)
    PROVE  /\ Alone(Merged(G, P))
           /\ \A m \in Merged(G, P) : \A t \in m.of : \E g \in G : t \in g.of
<1>1. \A p \in P : /\ p[1] \in G /\ p[2] \in G
                   /\ p[1].role \in {"value", "min"} /\ p[2].role \in {"unit", "max"}
                   /\ p = <<p[1], p[2]>>
  <2>1. \A p \in P : p \in G \X G /\ Halves(p[1], p[2])
    BY DEF Pairings
  <2>2. \A p \in P : <<p[1].role, p[2].role>> \in {<<"value", "unit">>, <<"min", "max">>}
    BY <2>1 DEF Halves
  <2>3. QED
    BY <2>1, <2>2
<1>2. \A p, q \in P : p # q => p[1] # q[1] /\ p[2] # q[2]
  BY DEF Pairings
<1>3. \A p, q \in P : p[1] # q[2]
  BY <1>1
<1>4. \A m \in Merged(G, P) : \/ m \in G /\ m \notin Paired(P)
                              \/ \E p \in P : m = Merge(p)
  BY DEF Merged
<1>5. \A p : Merge(p).of = p[1].of \cup p[2].of
  BY DEF Merge
<1>6. \A m \in Merged(G, P) : \A t \in m.of : \E g \in G : t \in g.of
  BY <1>1, <1>4, <1>5
<1>7. ASSUME NEW m \in Merged(G, P), NEW o \in Merged(G, P), NEW t, t \in m.of, t \in o.of
      PROVE  m = o
  <2>1. CASE \E p, q \in P : m = Merge(p) /\ o = Merge(q)
    <3>1. PICK p \in P, q \in P : m = Merge(p) /\ o = Merge(q)
      BY <2>1
    <3>2. PICK x \in {p[1], p[2]} : t \in x.of
      BY <1>5, <1>7, <3>1
    <3>3. PICK y \in {q[1], q[2]} : t \in y.of
      BY <1>5, <1>7, <3>1
    <3>4. x = y
      BY <1>1, <3>2, <3>3 DEF Alone
    <3>5. p = q
      BY <1>2, <1>3, <3>4
    <3>6. QED
      BY <3>1, <3>5
  <2>2. CASE m \in G \ Paired(P) /\ o \in G
    BY <1>7, <2>2 DEF Alone
  <2>3. CASE m \in G \ Paired(P) /\ \E p \in P : o = Merge(p)
    <3>1. PICK p \in P : o = Merge(p)
      BY <2>3
    <3>2. PICK x \in {p[1], p[2]} : t \in x.of
      BY <1>5, <1>7, <3>1
    <3>3. x \in G /\ x \in Paired(P)
      BY <1>1 DEF Paired
    <3>4. QED
      BY <1>7, <2>3, <3>2, <3>3 DEF Alone
  <2>4. CASE o \in G \ Paired(P) /\ \E p \in P : m = Merge(p)
    <3>1. PICK p \in P : m = Merge(p)
      BY <2>4
    <3>2. PICK x \in {p[1], p[2]} : t \in x.of
      BY <1>5, <1>7, <3>1
    <3>3. x \in G /\ x \in Paired(P)
      BY <1>1 DEF Paired
    <3>4. QED
      BY <1>7, <2>4, <3>2, <3>3 DEF Alone
  <2>5. QED
    BY <1>4, <2>1, <2>2, <2>3, <2>4
<1>8. QED
  BY <1>6, <1>7 DEF Alone

(* So each thing that comes to the item stays in it or is dropped.         *)
LEMMA ComesAndStays ==
    ASSUME PlacesInv, NEW i, NEW L, NEW S, NEW A, NEW F, NEW G, NEW M,
           Handles(i, L, S, A, F, G, M), NEW t
    PROVE  /\ Stays(M, t) \/ GoesOut(M, t) <=> Comes(i, S, t)
           /\ ~(Stays(M, t) /\ GoesOut(M, t))
<1>1. Splits(i, L, S, A, F, G)
  BY DEF Handles
<1>2. PICK P \in Pairings(G) : M = Merged(G, P)
  BY DEF Handles
<1>3. Alone(G) /\ ((\E g \in G : t \in g.of) <=> Comes(i, S, t))
  BY <1>1, FieldsAreAlone
<1>4. Alone(M) /\ \A m \in M : t \in m.of => \E g \in G : t \in g.of
  BY <1>2, <1>3, MergedAlone
<1>5. (\E g \in G : t \in g.of) => \E m \in M : t \in m.of
  BY <1>2, MergedKeeps
<1>6. Dropped(M) \subseteq M
  BY DEF Dropped
<1>7. QED
  BY <1>3, <1>4, <1>5, <1>6 DEF Stays, GoesOut, Alone

-----------------------------------------------------------------------------
(* Where a thing is after a step *)

(* What a leaf is, for the item that is normalized.                        *)
LEMMA LeafIs ==
    ASSUME NEW i, NEW L, NEW S, NEW A, NEW F, NEW G, Splits(i, L, S, A, F, G), NEW l \in L
    PROVE  /\ l \in S <=> l.as \notin {"note", "info"} /\ Wanted(i, l) = {}
           /\ l \in A <=> l.as \notin {"note", "info"} /\ Wanted(i, l) # {}
           /\ l \in F <=> l \in A /\ IsFinished(i, l)
BY DEF Splits

LEMMA Moves ==
    ASSUME PlacesInv, NEW i, NEW L, NEW S, NEW A, NEW F, NEW G, NEW M,
           Handles(i, L, S, A, F, G, M), NEW t
    PROVE  /\ \A j : j \in Holding(t)' <=>
                        \/ j \in Holding(t)
                        \/ j = i /\ Stays(M, t)
                        \/ \E l \in F : t = Token(i, l) /\ itemsByIndex[Goal(i, l)] = j
           /\ \A a : a \in Awaiting(t)' <=>
                        \/ a \in Awaiting(t) /\ a.index # doc[i].index
                        \/ \E l \in A \ F : /\ t = Token(i, l)
                                            /\ a = [index |-> Goal(i, l), field |-> Built(i, l)]
           /\ t \in notes' <=> t \in notes \/ \E l \in L : l.as = "note" /\ t = Token(i, l)
           /\ t \in info' <=> t \in info \/ \E l \in L : l.as = "info" /\ t = Token(i, l)
           /\ t \in warned' <=> t \in warned \/ GoesOut(M, t)
<1>1. \A l : Built(i, l).of = {Token(i, l)}
  BY DEF Built
<1>2. /\ DOMAIN finished' = DOMAIN finished \cup {i} /\ i \notin DOMAIN finished
      /\ \A j \in DOMAIN finished : finished'[j].fields = finished[j].fields \cup Added(i, F, j)
      /\ finished'[i].fields = M \ Dropped(M)
  <2>1. i \notin DOMAIN finished
    BY DEF Handles, Splits, PlacesInv, Shape
  <2>2. QED
    BY <2>1 DEF Handles
<1>3. \A l \in F : itemsByIndex[Goal(i, l)] \in DOMAIN finished
  BY DEF Handles, Splits, IsFinished, PlacesInv, Shape
<1>4. \A j : j \in Holding(t)' <=> j \in DOMAIN finished' /\ \E f \in finished'[j].fields : t \in f.of
  BY DEF Holding
<1>5. \A j : j \in Holding(t) <=> j \in DOMAIN finished /\ \E f \in finished[j].fields : t \in f.of
  BY DEF Holding
<1>6. ASSUME NEW j
      PROVE  (\E f \in Added(i, F, j) : t \in f.of)
                 <=> \E l \in F : t = Token(i, l) /\ itemsByIndex[Goal(i, l)] = j
  <2>1. \A f : f \in Added(i, F, j) <=> \E l \in F : f = Built(i, l) /\ itemsByIndex[Goal(i, l)] = j
    BY DEF Added
  <2>2. QED
    BY <1>1, <2>1
<1>7. ASSUME NEW j
      PROVE  j \in Holding(t)' <=>
                \/ j \in Holding(t)
                \/ j = i /\ Stays(M, t)
                \/ \E l \in F : t = Token(i, l) /\ itemsByIndex[Goal(i, l)] = j
  <2>1. CASE j = i
    BY <1>2, <1>3, <1>4, <1>5, <2>1 DEF Stays
  <2>2. CASE j \in DOMAIN finished
    <3>1. (\E f \in finished'[j].fields : t \in f.of) <=>
              \/ \E f \in finished[j].fields : t \in f.of
              \/ \E f \in Added(i, F, j) : t \in f.of
      BY <1>2, <2>2
    <3>2. QED
      BY <1>2, <1>4, <1>5, <1>6, <2>2, <3>1
  <2>3. CASE j \notin DOMAIN finished'
    BY <1>2, <1>3, <1>4, <1>5, <2>3
  <2>4. QED
    BY <1>2, <2>1, <2>2, <2>3
<1>8. ASSUME NEW a
      PROVE  a \in Awaiting(t)' <=>
                \/ a \in Awaiting(t) /\ a.index # doc[i].index
                \/ \E l \in A \ F : /\ t = Token(i, l)
                                    /\ a = [index |-> Goal(i, l), field |-> Built(i, l)]
  <2>1. a \in Awaiting(t)' <=> a \in awaited' /\ t \in a.field.of
    BY DEF Awaiting
  <2>2. a \in awaited' <=>
          \/ a \in awaited /\ a.index # doc[i].index
          \/ \E l \in A \ F : a = [index |-> Goal(i, l), field |-> Built(i, l)]
    BY DEF Handles
  <2>3. \A l : a = [index |-> Goal(i, l), field |-> Built(i, l)]
                  => a.field.of = {Token(i, l)}
    BY <1>1
  <2>4. QED
    BY <2>1, <2>2, <2>3 DEF Awaiting
<1>9. t \in notes' <=> t \in notes \/ \E l \in L : l.as = "note" /\ t = Token(i, l)
  BY DEF Handles, Tokens
<1>10. t \in info' <=> t \in info \/ \E l \in L : l.as = "info" /\ t = Token(i, l)
  BY DEF Handles, Tokens
<1>11. t \in warned' <=> t \in warned \/ GoesOut(M, t)
  BY DEF Handles, GoesOut
<1>12. QED
  BY <1>7, <1>8, <1>9, <1>10, <1>11

(* What the item to be normalized consists of is nowhere yet.              *)
LEMMA NewIsNowhere ==
    ASSUME PlacesInv, NEW i, NEW L, NEW S, NEW A, NEW F, NEW G, Splits(i, L, S, A, F, G), NEW l
    PROVE  /\ Holding(Token(i, l)) = {} /\ Awaiting(Token(i, l)) = {}
           /\ Token(i, l) \notin notes \cup info \cup warned
<1>1. Token(i, l)[1] = i /\ i \notin DOMAIN finished
  BY DEF Token, Splits, PlacesInv, Shape
<1>2. ~IsKept(Token(i, l))
  BY <1>1 DEF PlacesInv, OnlyHandled
<1>3. QED
  BY <1>2 DEF IsKept, Holding, Awaiting

LEMMA KeptIs ==
    ASSUME NEW t
    PROVE  /\ IsKept(t) <=> \/ t \in notes \/ t \in info \/ t \in warned
                            \/ \E a : a \in Awaiting(t)
                            \/ \E j : j \in Holding(t)
           /\ IsKept(t)' <=> \/ t \in notes' \/ t \in info' \/ t \in warned'
                             \/ \E a : a \in Awaiting(t)'
                             \/ \E j : j \in Holding(t)'
BY DEF IsKept, Holding, Awaiting

LEMMA StepOnlyHandled ==
    ASSUME PlacesInv, NEW i, NEW L, NEW S, NEW A, NEW F, NEW G, NEW M,
           Handles(i, L, S, A, F, G, M)
    PROVE  OnlyHandled'
<1>1. SUFFICES ASSUME NEW t, IsKept(t)' PROVE t[1] \in DOMAIN finished'
  BY DEF OnlyHandled
<1>2. DOMAIN finished' = DOMAIN finished \cup {i} /\ Splits(i, L, S, A, F, G)
  BY DEF Handles
<1>3. IsKept(t) \/ \E l : t = Token(i, l)
  BY <1>1, KeptIs, Moves, ComesAndStays DEF Comes
<1>4. \A l : Token(i, l)[1] = i
  BY DEF Token
<1>5. QED
  BY <1>2, <1>3, <1>4 DEF PlacesInv, OnlyHandled

LEMMA StepOnce ==
    ASSUME PlacesInv, NEW i, NEW L, NEW S, NEW A, NEW F, NEW G, NEW M,
           Handles(i, L, S, A, F, G, M)
    PROVE  AtMostOnce'
<1>1. SUFFICES ASSUME NEW t PROVE Once(t)'
  BY DEF AtMostOnce
<1>2. Splits(i, L, S, A, F, G)
  BY DEF Handles
<1>3. CASE \E l \in L : t = Token(i, l)
  <2>1. PICK l \in L : t = Token(i, l)
    BY <1>3
  <2>2. \A m \in L : t = Token(i, m) <=> m = l
    <3>1. Apart(L)
      BY <1>2, LeavesAreApart DEF Splits, PlacesInv, Shape
    <3>2. QED
      BY <2>1, <3>1 DEF Apart, Token
  <2>3. F \subseteq A /\ A \subseteq L /\ S \subseteq L
    BY <1>2 DEF Splits
  <2>4. /\ Holding(t) = {} /\ Awaiting(t) = {} /\ t \notin notes \cup info \cup warned
    BY <1>2, <2>1, NewIsNowhere
  <2>5. Comes(i, S, t) <=> l \in S
    BY <2>2, <2>3, <2>4 DEF Comes
  <2>6. /\ \A j : j \in Holding(t)' <=>
                       (j = i /\ Stays(M, t)) \/ (l \in F /\ j = itemsByIndex[Goal(i, l)])
        /\ \A a : a \in Awaiting(t)' <=>
                        l \in A \ F /\ a = [index |-> Goal(i, l), field |-> Built(i, l)]
        /\ t \in notes' <=> l.as = "note"
        /\ t \in info' <=> l.as = "info"
        /\ t \in warned' <=> GoesOut(M, t)
    <3>1. \A j : j \in Holding(t)' <=>
                      (j = i /\ Stays(M, t)) \/ (l \in F /\ j = itemsByIndex[Goal(i, l)])
      <4>1. \A j : j \in Holding(t)' <=>
                \/ j \in Holding(t)
                \/ j = i /\ Stays(M, t)
                \/ \E m \in F : t = Token(i, m) /\ itemsByIndex[Goal(i, m)] = j
        BY Moves
      <4>2. \A j : (\E m \in F : t = Token(i, m) /\ itemsByIndex[Goal(i, m)] = j)
                      <=> l \in F /\ j = itemsByIndex[Goal(i, l)]
        BY <2>2, <2>3
      <4>3. QED
        BY <2>4, <4>1, <4>2
    <3>2. \A a : a \in Awaiting(t)' <=>
                l \in A \ F /\ a = [index |-> Goal(i, l), field |-> Built(i, l)]
      <4>1. \A a : a \in Awaiting(t)' <=>
                \/ a \in Awaiting(t) /\ a.index # doc[i].index
                \/ \E m \in A \ F : /\ t = Token(i, m)
                                    /\ a = [index |-> Goal(i, m), field |-> Built(i, m)]
        BY Moves
      <4>2. \A a : (\E m \in A \ F : /\ t = Token(i, m)
                                      /\ a = [index |-> Goal(i, m), field |-> Built(i, m)])
                      <=> l \in A \ F /\ a = [index |-> Goal(i, l), field |-> Built(i, l)]
        BY <2>2, <2>3
      <4>3. QED
        BY <2>4, <4>1, <4>2
    <3>3. t \in notes' <=> l.as = "note"
      BY <2>2, <2>4, Moves
    <3>4. t \in info' <=> l.as = "info"
      BY <2>2, <2>4, Moves
    <3>5. t \in warned' <=> GoesOut(M, t)
      BY <2>4, Moves
    <3>6. QED
      BY <3>1, <3>2, <3>3, <3>4, <3>5
  <2>7. (Stays(M, t) \/ GoesOut(M, t) <=> l \in S) /\ ~(Stays(M, t) /\ GoesOut(M, t))
    BY <2>5, ComesAndStays
  <2>8. /\ ~(l \in S /\ l \in A) /\ ~(l \in S /\ l.as \in {"note", "info"})
        /\ ~(l \in A /\ l.as \in {"note", "info"}) /\ F \subseteq A
    BY <1>2, <2>3, LeafIs
  <2>9. QED
    BY <2>6, <2>7, <2>8 DEF Once
<1>4. CASE ~\E l \in L : t = Token(i, l)
  <2>1. F \subseteq L /\ A \subseteq L /\ S \subseteq L
    BY <1>2 DEF Splits
  <2>2. /\ \A j : j \in Holding(t)' <=> j \in Holding(t) \/ (j = i /\ Stays(M, t))
        /\ \A a : a \in Awaiting(t)' <=> a \in Awaiting(t) /\ a.index # doc[i].index
        /\ t \in notes' <=> t \in notes
        /\ t \in info' <=> t \in info
        /\ t \in warned' <=> t \in warned \/ GoesOut(M, t)
    <3>1. \A l \in L : t # Token(i, l)
      BY <1>4
    <3>2. \A j : j \in Holding(t)' <=>
              \/ j \in Holding(t)
              \/ j = i /\ Stays(M, t)
              \/ \E l \in F : t = Token(i, l) /\ itemsByIndex[Goal(i, l)] = j
      BY Moves
    <3>3. \A a : a \in Awaiting(t)' <=>
              \/ a \in Awaiting(t) /\ a.index # doc[i].index
              \/ \E l \in A \ F : /\ t = Token(i, l)
                                  /\ a = [index |-> Goal(i, l), field |-> Built(i, l)]
      BY Moves
    <3>4. t \in notes' <=> t \in notes
      BY <3>1, Moves
    <3>5. t \in info' <=> t \in info
      BY <3>1, Moves
    <3>6. t \in warned' <=> t \in warned \/ GoesOut(M, t)
      BY Moves
    <3>7. \A j : j \in Holding(t)' <=> j \in Holding(t) \/ (j = i /\ Stays(M, t))
      BY <2>1, <3>1, <3>2
    <3>8. \A a : a \in Awaiting(t)' <=> a \in Awaiting(t) /\ a.index # doc[i].index
      BY <2>1, <3>1, <3>3
    <3>9. QED
      BY <3>4, <3>5, <3>6, <3>7, <3>8
  <2>3. Comes(i, S, t) <=> \E a \in Awaiting(t) : a.index = doc[i].index
    BY <1>4, <2>1 DEF Comes
  <2>4. /\ Stays(M, t) \/ GoesOut(M, t) <=> \E a \in Awaiting(t) : a.index = doc[i].index
        /\ ~(Stays(M, t) /\ GoesOut(M, t))
    BY <2>3, ComesAndStays
  <2>5. Once(t)
    BY DEF PlacesInv, AtMostOnce
  <2>6. CASE \E a \in Awaiting(t) : a.index = doc[i].index
    <3>1. PICK b \in Awaiting(t) : b.index = doc[i].index
      BY <2>6
    <3>2. /\ \A a \in Awaiting(t) : a = b
          /\ Holding(t) = {} /\ t \notin notes \cup info \cup warned
      BY <2>5, <3>1 DEF Once
    <3>3. QED
      BY <2>2, <2>4, <3>1, <3>2 DEF Once
  <2>7. CASE ~\E a \in Awaiting(t) : a.index = doc[i].index
    BY <2>2, <2>4, <2>5, <2>7 DEF Once
  <2>8. QED
    BY <2>6, <2>7
<1>5. QED
  BY <1>3, <1>4

LEMMA StepNothingIsLost ==
    ASSUME PlacesInv, NEW i, NEW L, NEW S, NEW A, NEW F, NEW G, NEW M,
           Handles(i, L, S, A, F, G, M)
    PROVE  NothingIsLost'
<1>1. /\ DOMAIN finished' = DOMAIN finished \cup {i} /\ Splits(i, L, S, A, F, G)
      /\ UNCHANGED <<source, doc>>
  BY DEF Handles
<1>2. \A j : LeavesOf(j)' = LeavesOf(j)
  BY <1>1 DEF LeavesOf
<1>3. ASSUME NEW t, IsKept(t) \/ \E l \in L : t = Token(i, l)
      PROVE  IsKept(t)'
  <2>1. CASE t \in notes \cup info \cup warned
    BY <2>1, KeptIs, Moves
  <2>2. CASE \E j : j \in Holding(t)
    BY <2>2, KeptIs, Moves
  <2>3. CASE Comes(i, S, t)
    <3>1. Stays(M, t) \/ GoesOut(M, t)
      BY <2>3, ComesAndStays
    <3>2. CASE Stays(M, t)
      <4>1. i \in Holding(t)'
        BY <3>2, Moves
      <4>2. QED
        BY <4>1, KeptIs
    <3>3. CASE GoesOut(M, t)
      BY <3>3, KeptIs, Moves
    <3>4. QED
      BY <3>1, <3>2, <3>3
  <2>4. CASE \E a \in Awaiting(t) : a.index # doc[i].index
    <3>1. PICK a \in Awaiting(t) : a.index # doc[i].index
      BY <2>4
    <3>2. a \in Awaiting(t)'
      BY <3>1, Moves
    <3>3. QED
      BY <3>2, KeptIs
  <2>5. ASSUME NEW l \in L, t = Token(i, l)
        PROVE  IsKept(t)'
    <3>1. CASE l.as = "note"
      BY <2>5, <3>1, KeptIs, Moves
    <3>2. CASE l.as = "info"
      BY <2>5, <3>2, KeptIs, Moves
    <3>3. CASE l \in S
      BY <2>3, <2>5, <3>3 DEF Comes
    <3>4. CASE l \in F
      <4>1. itemsByIndex[Goal(i, l)] \in Holding(t)'
        BY <2>5, <3>4, Moves
      <4>2. QED
        BY <4>1, KeptIs
    <3>5. CASE l \in A \ F
      <4>1. PICK a : a = [index |-> Goal(i, l), field |-> Built(i, l)]
        OBVIOUS
      <4>2. a \in Awaiting(t)'
        BY <2>5, <3>5, <4>1, Moves
      <4>3. QED
        BY <4>2, KeptIs
    <3>6. QED
      BY <1>1, <3>1, <3>2, <3>3, <3>4, <3>5, LeafIs
  <2>6. QED
    BY <1>3, <2>1, <2>2, <2>3, <2>4, <2>5, KeptIs DEF Comes
<1>4. ASSUME NEW j \in DOMAIN finished', NEW l \in LeavesOf(j)
      PROVE  IsKept(Token(j, l))'
  <2>1. PICK t : t = Token(j, l)
    OBVIOUS
  <2>2. IsKept(t) \/ \E m \in L : t = Token(i, m)
    <3>1. CASE j \in DOMAIN finished
      BY <2>1, <3>1 DEF PlacesInv, NothingIsLost
    <3>2. CASE j = i
      BY <1>1, <2>1, <3>2 DEF Splits
    <3>3. QED
      BY <1>1, <3>1, <3>2
  <2>3. IsKept(t)'
    BY <1>3, <2>2
  <2>4. QED
    BY <2>1, <2>3 DEF Token, IsKept
<1>5. QED
  BY <1>2, <1>4 DEF NothingIsLost

(* Where a field is to go is settled by the extraction.                    *)
LEMMA GoalStays ==
    ASSUME UNCHANGED <<source, doc>>, NEW i, NEW l
    PROVE  /\ LeavesOf(i)' = LeavesOf(i) /\ Wanted(i, l)' = Wanted(i, l)
           /\ Goal(i, l)' = Goal(i, l) /\ Token(i, l)' = Token(i, l)
BY DEF LeavesOf, Wanted, Goal, First, Token

LEMMA StepGoal ==
    ASSUME PlacesInv, NEW i, NEW L, NEW S, NEW A, NEW F, NEW G, NEW M,
           Handles(i, L, S, A, F, G, M)
    PROVE  GoalInv'
<1>1. /\ DOMAIN finished' = DOMAIN finished \cup {i} /\ Splits(i, L, S, A, F, G)
      /\ UNCHANGED <<source, doc>>
  BY DEF Handles
<1>2. ASSUME NEW j \in DOMAIN finished', NEW l \in LeavesOf(j), NEW t, t = Token(j, l),
             Wanted(j, l) # {}
      PROVE  /\ \A k \in Holding(t)' : doc[k].index = Goal(j, l)
             /\ \A a \in Awaiting(t)' : a.index = Goal(j, l)
  <2>1. CASE j \in DOMAIN finished
    <3>1. /\ \A k \in Holding(t) : doc[k].index = Goal(j, l)
          /\ \A a \in Awaiting(t) : a.index = Goal(j, l)
      BY <1>2, <2>1 DEF PlacesInv, GoalInv, OnItsWay
    <3>2. \A m : t # Token(i, m)
      <4>1. j # i
        BY <1>1, <2>1 DEF Splits, PlacesInv, Shape
      <4>2. QED
        BY <1>2, <4>1 DEF Token
    <3>3. \A a \in Awaiting(t)' : a \in Awaiting(t)
      BY <3>2, Moves
    <3>4. \A k \in Holding(t)' : k \in Holding(t) \/ (k = i /\ Stays(M, t))
      <4>1. \A k : k \in Holding(t)' <=>
                \/ k \in Holding(t)
                \/ k = i /\ Stays(M, t)
                \/ \E m \in F : t = Token(i, m) /\ itemsByIndex[Goal(i, m)] = k
        BY Moves
      <4>2. QED
        BY <3>2, <4>1
    <3>5. Stays(M, t) => \E a \in Awaiting(t) : a.index = doc[i].index
      BY <3>2, ComesAndStays DEF Comes
    <3>6. QED
      BY <3>1, <3>3, <3>4, <3>5
  <2>2. CASE j = i
    <3>1. \A m \in L : t = Token(i, m) => m = l
      <4>1. Apart(L) /\ l \in L
        BY <1>1, <2>2, LeavesAreApart DEF Splits, PlacesInv, Shape
      <4>2. QED
        BY <1>2, <2>2, <4>1 DEF Apart, Token
    <3>2. Holding(t) = {} /\ Awaiting(t) = {}
      BY <1>1, <1>2, <2>2, NewIsNowhere
    <3>3. F \subseteq L /\ A \subseteq L /\ S \subseteq L /\ l \notin S
      BY <1>1, <1>2, <2>2 DEF Splits
    <3>4. ~Stays(M, t)
      BY <3>1, <3>2, <3>3, ComesAndStays DEF Comes
    <3>5. \A k \in Holding(t)' : l \in F /\ itemsByIndex[Goal(i, l)] = k
      <4>1. \A k \in Holding(t)' : \E m \in F : t = Token(i, m) /\ itemsByIndex[Goal(i, m)] = k
        BY <3>2, <3>4, Moves
      <4>2. QED
        BY <3>1, <3>3, <4>1
    <3>6. \A a \in Awaiting(t)' : a.index = Goal(i, l)
      <4>1. \A a \in Awaiting(t)' : \E m \in A \ F :
                t = Token(i, m) /\ a = [index |-> Goal(i, m), field |-> Built(i, m)]
        BY <3>2, Moves
      <4>2. QED
        BY <3>1, <3>3, <4>1
    <3>7. l \in F => doc[itemsByIndex[Goal(i, l)]].index = Goal(i, l)
      <4>1. l \in F => Goal(i, l) \in DOMAIN itemsByIndex
        BY <1>1 DEF Splits, IsFinished
      <4>2. QED
        BY <4>1 DEF PlacesInv, Shape
    <3>8. QED
      BY <2>2, <3>5, <3>6, <3>7
  <2>3. QED
    BY <1>1, <2>1, <2>2
<1>3. ASSUME NEW j \in DOMAIN finished', NEW l \in LeavesOf(j)
      PROVE  OnItsWay(j, l)'
  <2>1. PICK t : t = Token(j, l)
    OBVIOUS
  <2>2. PICK w : w = Wanted(j, l)
    OBVIOUS
  <2>3. PICK g : g = Goal(j, l)
    OBVIOUS
  <2>4. w # {} => /\ \A k \in Holding(t)' : doc[k].index = g
                  /\ \A a \in Awaiting(t)' : a.index = g
    BY <1>2, <2>1, <2>2, <2>3
  <2>5. Wanted(j, l)' = w /\ Goal(j, l)' = g /\ Token(j, l)' = t /\ doc' = doc
    BY <1>1, <2>1, <2>2, <2>3, GoalStays
  <2>6. Holding(Token(j, l))' = Holding(t)' /\ Awaiting(Token(j, l))' = Awaiting(t)'
    BY <2>5 DEF Holding, Awaiting
  <2>7. QED
    BY <2>4, <2>5, <2>6 DEF OnItsWay
<1>4. QED
  BY <1>1, <1>3, GoalStays DEF GoalInv

(* The item a field is for is another one, the first of a product the name *)
(* tells of.                                                               *)
LEMMA GoalIs ==
    ASSUME Shape, NEW i, NEW l, Wanted(i, l) # {}
    PROVE  \E type, j : /\ type = IF "flat_die" \in Wanted(i, l) THEN "flat_die"
                                  ELSE "hydraulic_station"
                        /\ j \in DOMAIN doc /\ doc[j].type = type /\ doc[j].index # doc[i].index
                        /\ Goal(i, l) = doc[j].index
<1>1. PICK type : type = IF "flat_die" \in Wanted(i, l) THEN "flat_die" ELSE "hydraulic_station"
  OBVIOUS
<1>2. type \in Wanted(i, l)
  BY <1>1 DEF Wanted
<1>3. /\ \E j \in DOMAIN doc : doc[j].type = type
      /\ doc[First(type)].index # doc[i].index
  BY <1>2 DEF Wanted
<1>4. DOMAIN doc \in SUBSET Nat
  <2>1. doc \in Seq(InstancesOf(source.items))
    BY ExtractionIs DEF Shape
  <2>2. QED
    BY <2>1
<1>5. \E j \in DOMAIN doc : doc[j].type = type /\ \A k \in DOMAIN doc : doc[k].type = type => j <= k
  <2>1. PICK T : T = {j \in DOMAIN doc : doc[j].type = type}
    OBVIOUS
  <2>2. T \in SUBSET Nat /\ T # {}
    BY <1>3, <1>4, <2>1
  <2>3. QED
    BY <2>1, <2>2, LeastNumber
<1>6. PICK j : j = First(type)
  OBVIOUS
<1>7. j \in DOMAIN doc /\ doc[j].type = type
  BY <1>5, <1>6 DEF First
<1>8. Goal(i, l) = doc[j].index
  BY <1>1, <1>6 DEF Goal
<1>9. QED
  BY <1>1, <1>3, <1>6, <1>7, <1>8

LEMMA StepNotesYield ==
    ASSUME PlacesInv, NEW i, NEW L, NEW S, NEW A, NEW F, NEW G, NEW M,
           Handles(i, L, S, A, F, G, M)
    PROVE  NotesYield'
<1>1. SUFFICES ASSUME NEW j \in DOMAIN finished',
                      NEW m \in finished'[j].fields, NEW f \in finished'[j].fields,
                      f.note, Contradicts(m, f)
               PROVE  \E t \in m.of : t[1] > j
  BY DEF NotesYield, Contradicts
<1>2. /\ DOMAIN finished' = DOMAIN finished \cup {i} /\ Splits(i, L, S, A, F, G)
      /\ \A k \in DOMAIN finished : finished'[k].fields = finished[k].fields \cup Added(i, F, k)
      /\ finished'[i].fields = M \ Dropped(M)
  BY DEF Handles
<1>3. CASE j = i
  BY <1>1, <1>2, <1>3 DEF Dropped
<1>4. CASE j \in DOMAIN finished
  <2>1. \A l \in F : ~Built(i, l).note /\ Built(i, l).of = {Token(i, l)}
    <3>1. \A l \in F : l.as = "built"
      BY <1>2 DEF Splits, Wanted
    <3>2. QED
      BY <3>1 DEF Built
  <2>2. f \in finished[j].fields
    BY <1>1, <1>2, <1>4, <2>1 DEF Added
  <2>3. CASE m \in finished[j].fields
    BY <1>1, <1>4, <2>2, <2>3 DEF PlacesInv, NotesYield
  <2>4. CASE m \in Added(i, F, j)
    <3>1. m.of # {} /\ \A t \in m.of : t[1] = i
      <4>1. PICK l \in F : m = Built(i, l)
        BY <2>4 DEF Added
      <4>2. Token(i, l)[1] = i
        BY DEF Token
      <4>3. QED
        BY <2>1, <4>1, <4>2
    <3>2. i > j
      BY <1>2, <1>4 DEF Splits, PlacesInv, Shape
    <3>3. QED
      BY <3>1, <3>2
  <2>5. QED
    BY <1>2, <1>4, <2>3, <2>4
<1>5. QED
  BY <1>2, <1>3, <1>4

LEMMA StepShape ==
    ASSUME PlacesInv, NEW i, NEW L, NEW S, NEW A, NEW F, NEW G, NEW M,
           Handles(i, L, S, A, F, G, M)
    PROVE  Shape' /\ AwaitInv'
<1>1. /\ DOMAIN finished' = DOMAIN finished \cup {i} /\ Splits(i, L, S, A, F, G)
      /\ UNCHANGED <<source, doc>>
      /\ \A j \in DOMAIN finished : finished'[j].index = finished[j].index
      /\ finished'[i].index = doc[i].index
      /\ \E T : finished' \in Seq(T)
  BY DEF Handles
<1>2. /\ itemsByIndex' = [k \in DOMAIN itemsByIndex \cup {doc[i].index} |->
                            IF k = doc[i].index THEN i ELSE itemsByIndex[k]]
      /\ awaited' = {a \in awaited : a.index # doc[i].index}
                    \cup {[index |-> Goal(i, l), field |-> Built(i, l)] : l \in A \ F}
  BY DEF Handles
<1>3. /\ i = Len(finished) + 1 /\ i \in DOMAIN doc
      /\ DOMAIN finished = 1..Len(finished) /\ Len(finished) \in Nat
  BY <1>1 DEF Splits, PlacesInv, Shape
<1>4. Len(finished') = i
  <2>1. DOMAIN finished' = 1..i
    BY <1>1, <1>3
  <2>2. QED
    BY <1>1, <1>3, <2>1
<1>5. Len(finished') <= Len(doc)
  <2>1. doc \in Seq(InstancesOf(source.items))
    BY ExtractionIs DEF PlacesInv, Shape
  <2>2. QED
    BY <1>3, <1>4, <2>1
<1>6. \A j \in DOMAIN finished' : finished'[j].index = doc'[j].index
  BY <1>1 DEF PlacesInv, Shape
<1>7. DOMAIN itemsByIndex' = {finished'[j].index : j \in DOMAIN finished'}
  <2>1. DOMAIN itemsByIndex' = DOMAIN itemsByIndex \cup {doc[i].index}
    BY <1>2
  <2>2. DOMAIN itemsByIndex = {finished[j].index : j \in DOMAIN finished}
    BY DEF PlacesInv, Shape
  <2>3. QED
    BY <1>1, <1>3, <2>1, <2>2
<1>8. ASSUME NEW k \in DOMAIN itemsByIndex'
      PROVE  /\ itemsByIndex'[k] \in DOMAIN finished'
             /\ finished'[itemsByIndex'[k]].index = k
  <2>1. CASE k = doc[i].index
    BY <1>1, <1>2, <1>8, <2>1
  <2>2. CASE k # doc[i].index
    <3>1. k \in DOMAIN itemsByIndex /\ itemsByIndex'[k] = itemsByIndex[k]
      BY <1>2, <1>8, <2>2
    <3>2. itemsByIndex[k] \in DOMAIN finished /\ finished[itemsByIndex[k]].index = k
      BY <3>1 DEF PlacesInv, Shape
    <3>3. QED
      BY <1>1, <3>1, <3>2
  <2>3. QED
    BY <2>1, <2>2
<1>9. Shape'
  <2>1. source' \in Extractions /\ doc' = Preprocessed(source'.items) /\ Len(finished') <= Len(doc')
    BY <1>1, <1>5 DEF PlacesInv, Shape
  <2>2. QED
    BY <1>1, <1>6, <1>7, <1>8, <2>1 DEF Shape
<1>10. ASSUME NEW a \in awaited'
       PROVE  /\ a.index \notin DOMAIN itemsByIndex'
              /\ \E j \in DOMAIN doc : doc[j].index = a.index
  <2>1. DOMAIN itemsByIndex' = DOMAIN itemsByIndex \cup {doc[i].index}
    BY <1>2
  <2>2. CASE a \in awaited /\ a.index # doc[i].index
    BY <2>1, <2>2 DEF PlacesInv, AwaitInv
  <2>3. CASE \E l \in A \ F : a = [index |-> Goal(i, l), field |-> Built(i, l)]
    <3>1. PICK l \in A \ F : a = [index |-> Goal(i, l), field |-> Built(i, l)]
      BY <2>3
    <3>2. a.index = Goal(i, l) /\ Wanted(i, l) # {}
      BY <1>1, <3>1 DEF Splits
    <3>3. Goal(i, l) \notin DOMAIN itemsByIndex
      BY <1>1, <3>1 DEF Splits, IsFinished
    <3>4. /\ Goal(i, l) # doc[i].index
          /\ \E j \in DOMAIN doc : doc[j].index = Goal(i, l)
      BY <3>2, GoalIs DEF PlacesInv
    <3>5. QED
      BY <2>1, <3>2, <3>3, <3>4
  <2>4. QED
    BY <1>2, <2>2, <2>3
<1>11. QED
  BY <1>1, <1>9, <1>10 DEF AwaitInv

-----------------------------------------------------------------------------
LEMMA InitPlaces == NormalizationInit => PlacesInv
<1> SUFFICES ASSUME NormalizationInit PROVE PlacesInv
  OBVIOUS
<1>1. /\ finished = <<>> /\ finished \in Seq({}) /\ DOMAIN finished = {} /\ Len(finished) = 0
      /\ DOMAIN itemsByIndex = {} /\ awaited = {} /\ notes = {} /\ info = {} /\ warned = {}
      /\ source \in Extractions /\ doc = Preprocessed(source.items)
  BY DEF NormalizationInit
<1>2. Len(doc) \in Nat
  <2>1. doc \in Seq(InstancesOf(source.items))
    BY <1>1, ExtractionIs
  <2>2. QED
    BY <2>1
<1>3. Shape
  BY <1>1, <1>2 DEF Shape
<1>4. AwaitInv /\ OnlyHandled /\ GoalInv /\ NothingIsLost /\ NotesYield
  BY <1>1 DEF AwaitInv, OnlyHandled, IsKept, GoalInv, NothingIsLost, NotesYield
<1>5. AtMostOnce
  BY <1>1 DEF AtMostOnce, Once, Holding, Awaiting
<1>6. QED
  BY <1>3, <1>4, <1>5 DEF PlacesInv

LEMMA NextPlaces == PlacesInv /\ [NormalizationNext]_normalVars => PlacesInv'
<1> SUFFICES ASSUME PlacesInv, [NormalizationNext]_normalVars PROVE PlacesInv'
  OBVIOUS
<1>1. CASE UNCHANGED normalVars
  <2>1. UNCHANGED <<source, doc, finished, itemsByIndex, awaited, notes, info, warned>>
    BY <1>1 DEF normalVars
  <2>2. Shape' /\ AwaitInv'
    BY <2>1 DEF PlacesInv, Shape, AwaitInv
  <2>3. NotesYield'
    BY <2>1 DEF PlacesInv, NotesYield, Contradicts
  <2>4. \A t : IsKept(t)' = IsKept(t) /\ Once(t)' = Once(t)
    BY <2>1 DEF IsKept, Once, Holding, Awaiting
  <2>5. OnlyHandled' /\ AtMostOnce'
    BY <2>1, <2>4 DEF PlacesInv, OnlyHandled, AtMostOnce
  <2>6. \A i, l : OnItsWay(i, l)' = OnItsWay(i, l)
    BY <2>1, GoalStays DEF OnItsWay, Holding, Awaiting
  <2>7. \A i : LeavesOf(i)' = LeavesOf(i)
    BY <2>1 DEF LeavesOf
  <2>8. GoalInv'
    BY <2>1, <2>6, <2>7 DEF PlacesInv, GoalInv
  <2>9. \A i, l : IsKept(Token(i, l))' = IsKept(Token(i, l))
    BY <2>1 DEF IsKept, Token
  <2>10. NothingIsLost'
    BY <2>1, <2>7, <2>9 DEF PlacesInv, NothingIsLost
  <2>11. QED
    BY <2>2, <2>3, <2>5, <2>8, <2>10 DEF PlacesInv
<1>2. ASSUME NEW i \in DOMAIN doc, NormalizeItem(i)
      PROVE  PlacesInv'
  <2>1. PICK L, S, A, F, G, M : Handles(i, L, S, A, F, G, M)
    BY <1>2, StepHandles DEF PlacesInv
  <2>2. Shape' /\ AwaitInv'
    BY <2>1, StepShape
  <2>3. OnlyHandled' /\ AtMostOnce'
    BY <2>1, StepOnlyHandled, StepOnce
  <2>4. GoalInv' /\ NothingIsLost' /\ NotesYield'
    BY <2>1, StepGoal, StepNothingIsLost, StepNotesYield
  <2>5. QED
    BY <2>2, <2>3, <2>4 DEF PlacesInv
<1>3. QED
  BY <1>1, <1>2 DEF NormalizationNext

(* What has been handled is in one place, and not only in one at most.     *)
LEMMA HandledIsInOnePlace ==
    ASSUME PlacesInv, NEW t, IsKept(t)
    PROVE  InOnePlace(t)
<1>1. Once(t)
  BY DEF PlacesInv, AtMostOnce
<1>2. Cardinality({}) = 0 /\ \A x : Cardinality({x}) = 1
  BY FS_EmptySet, FS_Singleton
<1> DEFINE marks == {S \in {notes, info, warned} : t \in S}
<1>3. InOnePlace(t) <=> Cardinality(Holding(t)) + Cardinality(Awaiting(t)) + Cardinality(marks) = 1
  BY DEF InOnePlace
<1> HIDE DEF marks
<1>4. CASE \E j : j \in Holding(t)
  <2>1. PICK j : j \in Holding(t)
    BY <1>4
  <2>2. Holding(t) = {j} /\ Awaiting(t) = {} /\ marks = {}
    BY <1>1, <2>1 DEF Once, marks
  <2>3. /\ Cardinality(Holding(t)) = 1 /\ Cardinality(Awaiting(t)) = 0
        /\ Cardinality(marks) = 0
    BY <1>2, <2>2
  <2>4. QED
    BY <1>3, <2>3
<1>5. CASE \E a : a \in Awaiting(t)
  <2>1. PICK a : a \in Awaiting(t)
    BY <1>5
  <2>2. Holding(t) = {} /\ Awaiting(t) = {a} /\ marks = {}
    BY <1>1, <2>1 DEF Once, marks
  <2>3. /\ Cardinality(Holding(t)) = 0 /\ Cardinality(Awaiting(t)) = 1
        /\ Cardinality(marks) = 0
    BY <1>2, <2>2
  <2>4. QED
    BY <1>3, <2>3
<1>6. CASE t \in notes \cup info \cup warned
  <2>1. Holding(t) = {} /\ Awaiting(t) = {}
    BY <1>1, <1>6 DEF Once
  <2>2. \E x : marks = {x}
    BY <1>1, <1>6 DEF Once, marks
  <2>3. /\ Cardinality(Holding(t)) = 0 /\ Cardinality(Awaiting(t)) = 0
        /\ Cardinality(marks) = 1
    BY <1>2, <2>1, <2>2
  <2>4. QED
    BY <1>3, <2>3
<1>7. QED
  BY <1>4, <1>5, <1>6, KeptIs

LEMMA PlacesAreRight == PlacesInv => HandledIsPlaced
<1> SUFFICES ASSUME PlacesInv PROVE HandledIsPlaced
  OBVIOUS
<1>1. DOMAIN finished = 1..Len(finished) /\ DOMAIN doc = 1..Len(doc) /\ DOMAIN finished \subseteq DOMAIN doc
  <2>1. doc \in Seq(InstancesOf(source.items))
    BY ExtractionIs DEF PlacesInv, Shape
  <2>2. Len(finished) <= Len(doc) /\ \E S : finished \in Seq(S)
    BY DEF PlacesInv, Shape
  <2>3. QED
    BY <2>1, <2>2
<1>2. ASSUME NEW i \in DOMAIN finished, NEW l \in LeavesOf(i)
      PROVE  InOnePlace(Token(i, l))
  BY HandledIsInOnePlace DEF PlacesInv, NothingIsLost
<1>3. ASSUME NEW i \in DOMAIN finished, NEW l \in LeavesOf(i)
      PROVE  WithItsProduct(i, l)
  <2>1. SUFFICES ASSUME Wanted(i, l) # {}, Distinct(doc), NEW k \in Holding(Token(i, l))
                 PROVE  doc[k].type = IF "flat_die" \in Wanted(i, l) THEN "flat_die"
                                      ELSE "hydraulic_station"
    BY DEF WithItsProduct
  <2>2. doc[k].index = Goal(i, l) /\ k \in DOMAIN doc
    BY <1>1, <2>1 DEF PlacesInv, GoalInv, OnItsWay, Holding
  <2>3. PICK type, j :
          /\ type = IF "flat_die" \in Wanted(i, l) THEN "flat_die" ELSE "hydraulic_station"
          /\ j \in DOMAIN doc /\ doc[j].type = type /\ doc[j].index # doc[i].index
          /\ Goal(i, l) = doc[j].index
    BY <2>1, GoalIs DEF PlacesInv
  <2>4. k = j
    BY <2>1, <2>2, <2>3 DEF Distinct
  <2>5. QED
    BY <2>3, <2>4
<1>4. Len(finished) = Len(doc) => awaited = {}
  <2>1. SUFFICES ASSUME Len(finished) = Len(doc), NEW a \in awaited PROVE FALSE
    OBVIOUS
  <2>2. PICK j \in DOMAIN doc : doc[j].index = a.index
    BY <2>1 DEF PlacesInv, AwaitInv
  <2>3. j \in DOMAIN finished /\ finished[j].index = a.index
    BY <1>1, <2>1, <2>2 DEF PlacesInv, Shape
  <2>4. a.index \in DOMAIN itemsByIndex
    BY <2>3 DEF PlacesInv, Shape
  <2>5. QED
    BY <2>1, <2>4 DEF PlacesInv, AwaitInv
<1>5. QED
  BY <1>2, <1>3, <1>4 DEF HandledIsPlaced, PlacesInv

(* The finished items are the first of the extraction, and what waits,     *)
(* waits for one of them: the state of the loop of normalizeExtraction.    *)
THEOREM NormalizationTypeCorrect == NormalizationSpec => []NormalizationTypeOK
<1>1. PlacesInv => NormalizationTypeOK
  BY DEF PlacesInv, Shape, AwaitInv, NormalizationTypeOK
<1>2. QED
  BY <1>1, InitPlaces, NextPlaces, PTL DEF NormalizationSpec

(* What the items are made of is each in one place while the loop of       *)
(* normalizeExtraction handles them, with the product it is for, and       *)
(* nothing waits in the end; cutting the items has lost none of it and     *)
(* given no number twice.                                                  *)
THEOREM EveryFieldIsPlaced == NormalizationSpec => []FieldsArePlaced
<1>1. PlacesInv => FieldsArePlaced
  BY CutsKeepAll, PlacesAreRight DEF PlacesInv, Shape, FieldsArePlaced
<1>2. QED
  BY <1>1, InitPlaces, NextPlaces, PTL DEF NormalizationSpec

(* No field handled is lost: the loop of normalizeExtraction over the      *)
(* items puts each somewhere it is found again, the fields moved to other  *)
(* items among them.                                                       *)
THEOREM NoFieldIsLost == NormalizationSpec => []NothingIsLost
<1>1. FieldsArePlaced => NothingIsLost
  BY DEF FieldsArePlaced, HandledIsPlaced
<1>2. QED
  BY <1>1, EveryFieldIsPlaced, PTL
=============================================================================
