---------------------------- MODULE Telemetry_proofs ----------------------------
(***************************************************************************)
(* Proofs about the aggregator of Telemetry, for any producers, instruments,  *)
(* labels, values, bucket bounds and order of scrapes, deaths and failures.    *)
(* Everything is said of what the files hold and how far they are decoded.      *)
(***************************************************************************)
EXTENDS Telemetry, SequenceTheorems, FiniteSetTheorems, NaturalsInduction,
        WellFoundedInduction, TLAPS

-----------------------------------------------------------------------------
(* The records of one file: definitions and ids.                           *)

Tagged(s, tag) == {i \in DOMAIN s : s[i].tag = tag}

\* The ids that the file s gives to x, and the one a measurement of x is given.
IdsIn(s, tag, x) == {s[i].id : i \in {j \in Tagged(s, tag) : s[j].of = x}}
IdIn(s, tag, x) == IF IdsIn(s, tag, x) = {} THEN Cardinality(Tagged(s, tag)) + 1
                                            ELSE Max(IdsIn(s, tag, x))
DefIn(s, tag, x) == IF IdsIn(s, tag, x) = {}
                    THEN <<[tag |-> tag, id |-> IdIn(s, tag, x), of |-> x]>> ELSE <<>>

Defined(s, tag, id, x, n) ==
    \E j \in DOMAIN s : j < n /\ s[j].tag = tag /\ s[j].id = id /\ s[j].of = x

\* In one file an id means one thing, a thing has one id, and a row follows both
\* its definitions.
Coded(s) ==
    /\ \A i \in DOMAIN s : s[i].tag # "row"
          => s[i].id \in Nat /\ s[i].id <= Cardinality(Tagged(s, s[i].tag))
    /\ \A i, j \in DOMAIN s :
          (s[i].tag # "row" /\ s[j].tag = s[i].tag /\ (s[i].id = s[j].id \/ s[i].of = s[j].of))
             => i = j
    /\ \A i \in DOMAIN s : s[i].tag = "row"
          => /\ Defined(s, "name", s[i].name, s[i].of[1], i)
             /\ Defined(s, "attrs", s[i].attrs, s[i].of[2], i)

\* What a producer has written and what it is about to write.
Whole(p) == stream[p] \o outbox[p]

\* As many rows as measurements.
AllRows == UNION {{<<p, i>> : i \in Tagged(Whole(p), "row")} : p \in Producers}
Counted == IsFiniteSet(AllRows) /\ Cardinality(AllRows) = taken

FilesInv == (\A p \in Producers : Coded(Whole(p))) /\ Counted

\* How far the files have been read, and what a scrape has still to do.
PlaceInv ==
    /\ \A p \in Producers : offset[p] <= Len(stream[p])
    /\ pc = "decode" => cur \in Producers /\ pos < offset[cur]

\* What has been decoded is in the tables.
TablesInv ==
    \A p \in Producers : \A i \in 1..Decoded(p) :
       LET r == stream[p][i]
       IN  /\ r.tag = "name" => r.id \in DOMAIN names[p] /\ names[p][r.id] = r.of
           /\ r.tag = "attrs" => r.id \in DOMAIN attrs[p] /\ attrs[p][r.id] = r.of

-----------------------------------------------------------------------------
(* Records and sequences of them.                                          *)

LEMMA RecordFields ==
    ASSUME NEW r \in Records
    PROVE  /\ r.tag \in {"name", "attrs", "row"}
           /\ r.tag = "name" => r.id \in Nat /\ r.of \in Names
           /\ r.tag = "attrs" => r.id \in Nat /\ r.of \in Labels
           /\ r.tag = "row" => /\ r.name \in Nat /\ r.attrs \in Nat /\ r.value \in Values
                               /\ r.ts \in Times /\ r.of \in Names \X Labels
<1>1. CASE r \in [tag : {"name"}, id : Nat, of : Names]
  BY <1>1
<1>2. CASE r \in [tag : {"attrs"}, id : Nat, of : Labels]
  BY <1>2
<1>3. CASE r \in [tag : {"row"}, name : Nat, attrs : Nat, value : Values, ts : Times,
                  of : Names \X Labels]
  BY <1>3
<1> QED
  BY <1>1, <1>2, <1>3 DEF Records

\* A record more.
LEMMA OneMore ==
    ASSUME NEW s \in Seq(Records), NEW r \in Records
    PROVE  /\ s \o <<r>> \in Seq(Records)
           /\ Len(s) \in Nat /\ DOMAIN s = 1..Len(s) /\ Len(s \o <<r>>) = Len(s) + 1
           /\ DOMAIN (s \o <<r>>) = 1..Len(s) + 1
           /\ \A i \in DOMAIN s : (s \o <<r>>)[i] = s[i]
           /\ (s \o <<r>>)[Len(s) + 1] = r
<1>1. /\ Len(s) \in Nat /\ DOMAIN s = 1..Len(s) /\ <<r>> \in Seq(Records) /\ Len(<<r>>) = 1
      /\ <<r>>[1] = r
  BY LenProperties
<1>2. /\ s \o <<r>> \in Seq(Records) /\ Len(s \o <<r>>) = Len(s) + 1
      /\ \A i \in 1..Len(s) + 1 : (s \o <<r>>)[i] = IF i <= Len(s) THEN s[i] ELSE <<r>>[i - Len(s)]
  BY <1>1, ConcatProperties
<1> QED
  BY <1>1, <1>2, LenProperties

LEMMA TaggedFinite ==
    ASSUME NEW s \in Seq(Records), NEW tag
    PROVE  IsFiniteSet(Tagged(s, tag)) /\ Cardinality(Tagged(s, tag)) \in Nat
<1>1. Len(s) \in Nat /\ DOMAIN s = 1..Len(s)
  BY LenProperties
<1>2. IsFiniteSet(1..Len(s)) /\ Tagged(s, tag) \in SUBSET (1..Len(s))
  BY <1>1, FS_Interval DEF Tagged
<1>3. IsFiniteSet(Tagged(s, tag))
  BY <1>2, FS_Subset
<1> QED
  BY <1>3, FS_CardinalityType

\* A record more is one more of its tag.
LEMMA OneMoreTagged ==
    ASSUME NEW s \in Seq(Records), NEW r \in Records, NEW tag
    PROVE  /\ Tagged(s \o <<r>>, tag)
                = IF r.tag = tag THEN Tagged(s, tag) \cup {Len(s) + 1} ELSE Tagged(s, tag)
           /\ Cardinality(Tagged(s \o <<r>>, tag))
                = Cardinality(Tagged(s, tag)) + IF r.tag = tag THEN 1 ELSE 0
<1>1. Tagged(s \o <<r>>, tag) = IF r.tag = tag THEN Tagged(s, tag) \cup {Len(s) + 1} ELSE Tagged(s, tag)
  BY OneMore DEF Tagged
<1>2. Len(s) + 1 \notin Tagged(s, tag)
  BY OneMore DEF Tagged
<1>3. Cardinality(Tagged(s, tag) \cup {Len(s) + 1}) = Cardinality(Tagged(s, tag)) + 1
  BY <1>2, TaggedFinite, FS_AddElement
<1> QED
  BY <1>1, <1>3, TaggedFinite

LEMMA MaxIs ==
    ASSUME NEW S \in SUBSET Int, NEW m \in S, \A x \in S : m >= x
    PROVE  Max(S) = m
<1>1. m \in S /\ \A y \in S : m >= y
  OBVIOUS
<1>2. Max(S) \in S /\ \A y \in S : Max(S) >= y
  BY <1>1 DEF Max
<1>3. m \in Int /\ Max(S) \in Int /\ Max(S) >= m /\ m >= Max(S)
  BY <1>1, <1>2
<1> QED
  BY <1>3

\* A thing that has an id in the file has one id.
LEMMA TheId ==
    ASSUME NEW s \in Seq(Records), Coded(s), NEW tag \in {"name", "attrs"}, NEW x,
           NEW j \in DOMAIN s, s[j].tag = tag, s[j].of = x
    PROVE  IdsIn(s, tag, x) = {s[j].id} /\ IdIn(s, tag, x) = s[j].id /\ DefIn(s, tag, x) = <<>>
<1>1. s[j].id \in Nat
  BY DEF Coded
<1>2. IdsIn(s, tag, x) = {s[j].id}
  BY DEF IdsIn, Tagged, Coded
<1>3. \A m \in Nat : Max({m}) = m
  BY MaxIs
<1> QED
  BY <1>1, <1>2, <1>3 DEF IdIn, DefIn

LEMMA DefinedKept ==
    ASSUME NEW s, NEW w, DOMAIN s \subseteq DOMAIN w, \A i \in DOMAIN s : w[i] = s[i],
           NEW tag, NEW id, NEW x, NEW n, Defined(s, tag, id, x, n)
    PROVE  Defined(w, tag, id, x, n)
BY DEF Defined

\* The definition that a first use writes keeps the file well coded; afterwards, and
\* when there was one, the id is defined.
Added(s, tag, x, w) ==
    /\ w \in Seq(Records) /\ DefIn(s, tag, x) \in Seq(Records)
    /\ Coded(w) /\ IdIn(s, tag, x) \in Nat
    /\ Tagged(w, "row") = Tagged(s, "row")
    /\ DOMAIN s \subseteq DOMAIN w /\ \A i \in DOMAIN s : w[i] = s[i]
    /\ \E j \in DOMAIN w : w[j].tag = tag /\ w[j].id = IdIn(s, tag, x) /\ w[j].of = x
    /\ \A i \in DOMAIN w : w[i].tag = tag \/ i \in DOMAIN s

LEMMA AddDefinition ==
    ASSUME NEW s \in Seq(Records), Coded(s), NEW tag \in {"name", "attrs"}, NEW x,
           tag = "name" => x \in Names, tag = "attrs" => x \in Labels
    PROVE  Added(s, tag, x, s \o DefIn(s, tag, x))
<1> DEFINE w == s \o DefIn(s, tag, x)
<1>1. CASE \E j \in DOMAIN s : s[j].tag = tag /\ s[j].of = x
  <2>1. PICK j \in DOMAIN s : s[j].tag = tag /\ s[j].of = x
    BY <1>1
  <2>2. DefIn(s, tag, x) = <<>> /\ IdIn(s, tag, x) = s[j].id
    BY <2>1, TheId
  <2>3. w = s
    BY <2>2
  <2>4. s[j].id \in Nat
    BY <2>1 DEF Coded
  <2> QED
    BY <2>1, <2>2, <2>3, <2>4 DEF Added
<1>2. CASE \A j \in DOMAIN s : s[j].tag = tag => s[j].of # x
  <2> DEFINE id == Cardinality(Tagged(s, tag)) + 1
             r == [tag |-> tag, id |-> id, of |-> x]
             n == Len(s) + 1
  <2>1. id \in Nat
    BY TaggedFinite
  <2>2. r \in Records
    BY <2>1 DEF Records
  <2>3. IdsIn(s, tag, x) = {}
    BY <1>2 DEF IdsIn, Tagged
  <2>4. IdIn(s, tag, x) = id /\ DefIn(s, tag, x) = <<r>> /\ w = s \o <<r>>
    BY <2>3 DEF IdIn, DefIn
  <2>5. <<r>> \in Seq(Records) /\ r.tag = tag /\ r.id = id /\ r.of = x
    BY <2>2
  <2> HIDE DEF r, w
  <2>6. /\ w \in Seq(Records) /\ Len(s) \in Nat /\ DOMAIN s = 1..Len(s) /\ DOMAIN w = 1..n
        /\ \A i \in DOMAIN s : w[i] = s[i]
        /\ w[n] = r
    BY <2>2, <2>4, OneMore
  <2>7. n \notin DOMAIN s /\ \A i \in DOMAIN w : i \in DOMAIN s \/ i = n
    BY <2>6
  <2>8. Tagged(w, "row") = Tagged(s, "row")
    BY <2>5, <2>6, <2>7 DEF Tagged
  <2>9. \A t : /\ Cardinality(Tagged(s, t)) \in Nat
               /\ Cardinality(Tagged(w, t)) \in Nat
               /\ Cardinality(Tagged(s, t)) <= Cardinality(Tagged(w, t))
               /\ t = tag => Cardinality(Tagged(w, t)) = id
    <3> TAKE t
    <3>1. Cardinality(Tagged(s \o <<r>>, t)) = Cardinality(Tagged(s, t)) + IF r.tag = t THEN 1 ELSE 0
      BY <2>2, OneMoreTagged
    <3> QED
      BY <3>1, <2>4, <2>5, TaggedFinite
  <2> HIDE DEF id, n
  <2>10. ASSUME NEW i \in DOMAIN w, w[i].tag # "row"
         PROVE  w[i].id \in Nat /\ w[i].id <= Cardinality(Tagged(w, w[i].tag))
    <3>1. CASE i \in DOMAIN s
      <4>1. s[i].id \in Nat /\ s[i].id <= Cardinality(Tagged(s, s[i].tag))
        BY <3>1, <2>6, <2>10 DEF Coded
      <4> QED
        BY <3>1, <4>1, <2>6, <2>9
    <3>2. CASE i = n
      BY <3>2, <2>1, <2>5, <2>6, <2>9
    <3> QED
      BY <3>1, <3>2, <2>7
  <2>11. ASSUME NEW i \in DOMAIN s, s[i].tag = tag
         PROVE  s[i].id # id /\ s[i].of # x
    <3>1. s[i].id \in Nat /\ s[i].id <= Cardinality(Tagged(s, tag))
      BY <2>11 DEF Coded
    <3> QED
      BY <3>1, <1>2, <2>11, TaggedFinite DEF id
  <2>12. ASSUME NEW i \in DOMAIN w, NEW j \in DOMAIN w, w[i].tag # "row", w[j].tag = w[i].tag,
                w[i].id = w[j].id \/ w[i].of = w[j].of
         PROVE  i = j
    <3>1. CASE i \in DOMAIN s /\ j \in DOMAIN s
      BY <3>1, <2>6, <2>12 DEF Coded
    <3>2. CASE i = n /\ j \in DOMAIN s
      BY <3>2, <2>5, <2>6, <2>11, <2>12
    <3>3. CASE j = n /\ i \in DOMAIN s
      BY <3>3, <2>5, <2>6, <2>11, <2>12
    <3> QED
      BY <3>1, <3>2, <3>3, <2>7
  <2>13. ASSUME NEW i \in DOMAIN w, w[i].tag = "row"
         PROVE  /\ Defined(w, "name", w[i].name, w[i].of[1], i)
                /\ Defined(w, "attrs", w[i].attrs, w[i].of[2], i)
    <3>1. i \in DOMAIN s /\ w[i] = s[i]
      BY <2>5, <2>6, <2>7, <2>13
    <3>2. /\ Defined(s, "name", w[i].name, w[i].of[1], i)
          /\ Defined(s, "attrs", w[i].attrs, w[i].of[2], i)
      BY <3>1, <2>13 DEF Coded
    <3>3. DOMAIN s \subseteq DOMAIN w /\ \A k \in DOMAIN s : w[k] = s[k]
      BY <2>6 DEF n
    <3> QED
      BY ONLY <3>2, <3>3, DefinedKept
  <2>14. Coded(w)
    BY <2>10, <2>12, <2>13 DEF Coded
  <2>15. n \in DOMAIN w
    BY <2>6 DEF n
  <2> QED
    BY <2>1, <2>4, <2>5, <2>6, <2>7, <2>8, <2>14, <2>15 DEF n, w, Added
<1> QED
  BY <1>1, <1>2

\* A definition of one kind takes nothing from the other.
LEMMA OtherKind ==
    ASSUME NEW s \in Seq(Records), NEW w \in Seq(Records), NEW tag, NEW x,
           DOMAIN s \subseteq DOMAIN w, \A i \in DOMAIN s : w[i] = s[i],
           \A i \in DOMAIN w : w[i].tag # tag \/ i \in DOMAIN s
    PROVE  IdsIn(w, tag, x) = IdsIn(s, tag, x) /\ IdIn(w, tag, x) = IdIn(s, tag, x)
           /\ DefIn(w, tag, x) = DefIn(s, tag, x)
<1>1. Tagged(w, tag) = Tagged(s, tag)
  BY DEF Tagged
<1>2. \A i \in Tagged(s, tag) : w[i] = s[i]
  BY DEF Tagged
<1>3. IdsIn(w, tag, x) = IdsIn(s, tag, x)
  BY <1>1, <1>2 DEF IdsIn
<1> QED
  BY <1>1, <1>3 DEF IdIn, DefIn

\* A row after its definitions.
LEMMA AddRow ==
    ASSUME NEW s \in Seq(Records), Coded(s), NEW r \in Records, r.tag = "row",
           \E j \in DOMAIN s : s[j].tag = "name" /\ s[j].id = r.name /\ s[j].of = r.of[1],
           \E j \in DOMAIN s : s[j].tag = "attrs" /\ s[j].id = r.attrs /\ s[j].of = r.of[2]
    PROVE  Coded(s \o <<r>>)
<1> DEFINE w == s \o <<r>>
           n == Len(s) + 1
<1>1. /\ w \in Seq(Records) /\ Len(s) \in Nat /\ DOMAIN s = 1..Len(s) /\ DOMAIN w = 1..n
      /\ \A i \in DOMAIN s : w[i] = s[i]
      /\ w[n] = r
  BY OneMore
<1>2. n \notin DOMAIN s /\ \A i \in DOMAIN w : i \in DOMAIN s \/ i = n
  BY <1>1
<1>3. \A t : t # "row" => Cardinality(Tagged(w, t)) = Cardinality(Tagged(s, t))
  <2> TAKE t
  <2>1. Cardinality(Tagged(w, t)) = Cardinality(Tagged(s, t)) + IF r.tag = t THEN 1 ELSE 0
    BY OneMoreTagged
  <2> QED
    BY <2>1, TaggedFinite
<1> HIDE DEF w
<1>4. ASSUME NEW i \in DOMAIN w, w[i].tag # "row"
      PROVE  w[i].id \in Nat /\ w[i].id <= Cardinality(Tagged(w, w[i].tag))
  BY <1>1, <1>2, <1>3, <1>4 DEF Coded
<1>5. ASSUME NEW i \in DOMAIN w, NEW j \in DOMAIN w, w[i].tag # "row", w[j].tag = w[i].tag,
             w[i].id = w[j].id \/ w[i].of = w[j].of
      PROVE  i = j
  <2>1. i \in DOMAIN s /\ j \in DOMAIN s /\ w[i] = s[i] /\ w[j] = s[j]
    BY <1>1, <1>2, <1>5
  <2> QED
    BY <2>1, <1>5 DEF Coded
<1>6. ASSUME NEW i \in DOMAIN w, w[i].tag = "row"
      PROVE  /\ Defined(w, "name", w[i].name, w[i].of[1], i)
             /\ Defined(w, "attrs", w[i].attrs, w[i].of[2], i)
  <2>1. CASE i = n
    BY <2>1, <1>1 DEF Defined
  <2>2. CASE i \in DOMAIN s
    <3>1. /\ Defined(s, "name", w[i].name, w[i].of[1], i)
          /\ Defined(s, "attrs", w[i].attrs, w[i].of[2], i)
      BY <2>2, <1>1, <1>6 DEF Coded
    <3>2. DOMAIN s \subseteq DOMAIN w /\ \A k \in DOMAIN s : w[k] = s[k]
      BY <1>1
    <3> QED
      BY ONLY <3>1, <3>2, DefinedKept
  <2> QED
    BY <2>1, <2>2, <1>2
<1>7. Coded(w)
  BY <1>4, <1>5, <1>6 DEF Coded
<1> QED
  BY <1>7 DEF w

LEMMA Associative ==
    ASSUME NEW s \in Seq(Records), NEW t \in Seq(Records), NEW u \in Seq(Records)
    PROVE  (s \o t) \o u = s \o (t \o u)
OBVIOUS

\* The records of one measurement, after those of its file s.
RowIn(s, n, l, v, t) ==
    [tag |-> "row", name |-> IdIn(s, "name", n), attrs |-> IdIn(s, "attrs", l),
     value |-> v, ts |-> t, of |-> <<n, l>>]
MeasureIn(s, n, l, v, t) ==
    DefIn(s, "name", n) \o DefIn(s, "attrs", l) \o <<RowIn(s, n, l, v, t)>>

\* The file w is s with the records m of a measurement that ends in the row r.
Measured(s, m, w, r) ==
    /\ m \in Seq(Records) /\ w \in Seq(Records)
    /\ Coded(w)
    /\ Tagged(w, "row") = Tagged(s, "row") \cup {Len(w)}
    /\ DOMAIN s \subseteq DOMAIN w /\ \A i \in DOMAIN s : w[i] = s[i] /\ i < Len(w)
    /\ w[Len(w)] = r

LEMMA MeasureCoded ==
    ASSUME NEW s \in Seq(Records), Coded(s), NEW n \in Names, NEW l \in Labels, NEW v \in Values,
           NEW t \in Times
    PROVE  Measured(s, MeasureIn(s, n, l, v, t), s \o MeasureIn(s, n, l, v, t), RowIn(s, n, l, v, t))
<1> DEFINE row == RowIn(s, n, l, v, t)
           m == MeasureIn(s, n, l, v, t)
           w == s \o m
<1> DEFINE A == DefIn(s, "name", n)
           B == DefIn(s, "attrs", l)
           a == s \o A
           b == a \o B
<1>1. Added(s, "name", n, a)
  BY AddDefinition
<1>2. B = DefIn(a, "attrs", l) /\ IdIn(a, "attrs", l) = IdIn(s, "attrs", l)
  <2>1. \A i \in DOMAIN a : a[i].tag # "attrs" \/ i \in DOMAIN s
    BY <1>1 DEF Added
  <2>2. DOMAIN s \subseteq DOMAIN a /\ (\A i \in DOMAIN s : a[i] = s[i]) /\ a \in Seq(Records)
    BY <1>1 DEF Added
  <2>3. B = DefIn(s, "attrs", l)
    OBVIOUS
  <2> HIDE DEF a, B
  <2> QED
    BY ONLY <2>1, <2>2, <2>3, OtherKind, s \in Seq(Records)
<1>3. Added(a, "attrs", l, b) /\ b = a \o B
  <2>1. a \in Seq(Records) /\ Coded(a)
    BY <1>1 DEF Added
  <2>2. b = a \o DefIn(a, "attrs", l)
    BY <1>2
  <2> HIDE DEF a, b, B
  <2>3. Added(a, "attrs", l, a \o DefIn(a, "attrs", l))
    BY <2>1, AddDefinition
  <2> QED
    BY <1>2, <2>2, <2>3
<1>4. /\ IdIn(s, "name", n) \in Nat /\ IdIn(s, "attrs", l) \in Nat
      /\ A \in Seq(Records) /\ B \in Seq(Records) /\ b \in Seq(Records) /\ Coded(b)
  <2> HIDE DEF a, b
  <2> QED
    BY <1>1, <1>2, <1>3 DEF Added
<1>5. /\ row \in Records
      /\ row.tag = "row" /\ row.name = IdIn(s, "name", n) /\ row.attrs = IdIn(s, "attrs", l)
      /\ row.of[1] = n /\ row.of[2] = l
  BY <1>4 DEF Records, RowIn
<1> HIDE DEF row
<1>6. m \in Seq(Records) /\ w = b \o <<row>>
  <2>1. <<row>> \in Seq(Records) /\ A \o B \in Seq(Records)
    BY <1>4, <1>5
  <2>2. (s \o (A \o B)) \o <<row>> = s \o ((A \o B) \o <<row>>)
    BY <2>1, Associative
  <2>3. (s \o A) \o B = s \o (A \o B)
    BY <1>4, Associative
  <2>4. m = (A \o B) \o <<row>>
    BY DEF MeasureIn, row
  <2>5. m \in Seq(Records)
    BY <2>1, <2>4
  <2> QED
    BY <2>2, <2>3, <2>4, <2>5
<1> HIDE DEF A, B, a, b, m, w
<1>7. \E j \in DOMAIN b : b[j].tag = "name" /\ b[j].id = row.name /\ b[j].of = row.of[1]
  BY <1>1, <1>3, <1>5 DEF Added
<1>8. \E j \in DOMAIN b : b[j].tag = "attrs" /\ b[j].id = row.attrs /\ b[j].of = row.of[2]
  BY <1>2, <1>3, <1>5 DEF Added
<1>9. Coded(w)
  BY <1>4, <1>5, <1>6, <1>7, <1>8, AddRow
<1>10. /\ w \in Seq(Records) /\ Len(b) \in Nat /\ DOMAIN b = 1..Len(b)
       /\ Len(w) = Len(b) + 1 /\ DOMAIN w = 1..Len(b) + 1
       /\ \A i \in DOMAIN b : w[i] = b[i]
       /\ w[Len(b) + 1] = row
  BY ONLY <1>4, <1>5, <1>6, OneMore
<1>11. Tagged(w, "row") = Tagged(b, "row") \cup {Len(b) + 1}
  <2>1. DOMAIN w = DOMAIN b \cup {Len(b) + 1} /\ Len(b) + 1 \notin DOMAIN b
    BY ONLY <1>10
  <2> QED
    BY ONLY <2>1, <1>5, <1>10 DEF Tagged
<1>12. Tagged(w, "row") = Tagged(s, "row") \cup {Len(w)}
  BY <1>1, <1>3, <1>10, <1>11 DEF Added
<1>13. DOMAIN s \subseteq DOMAIN w /\ \A i \in DOMAIN s : w[i] = s[i] /\ i < Len(w)
  <2>1. DOMAIN s \subseteq DOMAIN b /\ \A i \in DOMAIN s : b[i] = s[i]
    BY ONLY <1>1, <1>3 DEF Added
  <2> QED
    BY ONLY <2>1, <1>10
<1>14. w[Len(w)] = row
  BY <1>10
<1> QED
  BY <1>6, <1>9, <1>10, <1>12, <1>13, <1>14 DEF Measured, row, m, w

\* What a producer does to its file as a whole: nothing, or one more measurement.
LEMMA MoveHead ==
    ASSUME NEW s \in Seq(Records), NEW o \in Seq(Records), o # <<>>
    PROVE  /\ Append(s, Head(o)) \o Tail(o) = s \o o
           /\ Append(s, Head(o)) \in Seq(Records) /\ Tail(o) \in Seq(Records)
           /\ Len(Append(s, Head(o))) = Len(s) + 1
           /\ \A i \in DOMAIN s : Append(s, Head(o))[i] = s[i]
<1>1. Head(o) \in Records /\ Tail(o) \in Seq(Records) /\ o = <<Head(o)>> \o Tail(o)
  BY HeadTailProperties
<1>2. Append(s, Head(o)) = s \o <<Head(o)>>
  BY <1>1
<1>3. (s \o <<Head(o)>>) \o Tail(o) = s \o (<<Head(o)>> \o Tail(o))
  BY <1>1, Associative
<1> QED
  BY <1>1, <1>2, <1>3, OneMore

-----------------------------------------------------------------------------
(* The producers' steps.                                                   *)

\* The measurement p takes, in the words of this module.
LEMMA MeasureIs ==
    ASSUME NEW p \in Producers, NEW n \in Names, NEW l \in Labels, NEW v \in Values,
           NEW t \in Times, Measure(p, n, l, v, t)
    PROVE  outbox' = [outbox EXCEPT ![p] = MeasureIn(stream[p], n, l, v, t)]
BY DEF Measure, Defs, IdsOf, IdIn, IdsIn, DefIn, RowIn, MeasureIn, Tagged

LEMMA MeasureStep ==
    ASSUME TypeOK, FilesInv, NEW p \in Producers, NEW n \in Names, NEW l \in Labels, NEW v \in Values,
           NEW t \in Times, Measure(p, n, l, v, t)
    PROVE  /\ outbox' \in [Producers -> Seq(Records)]
           /\ FilesInv'
<1> DEFINE s == stream[p]
           row == RowIn(s, n, l, v, t)
           m == MeasureIn(s, n, l, v, t)
           w == s \o m
<1>1. /\ s \in Seq(Records) /\ Whole(p) = s /\ Coded(s)
      /\ taken \in Nat /\ taken' = taken + 1 /\ stream' = stream
  <2>1. s \in Seq(Records) /\ outbox[p] = <<>> /\ Whole(p) = s \o <<>>
    BY DEF TypeOK, Measure, Whole
  <2>2. Whole(p) = s
    BY <2>1
  <2> QED
    BY <2>1, <2>2 DEF TypeOK, FilesInv, Measure
<1>2. outbox' = [outbox EXCEPT ![p] = m]
  BY MeasureIs
<1>3. /\ m \in Seq(Records) /\ w \in Seq(Records)
      /\ Coded(w)
      /\ Tagged(w, "row") = Tagged(s, "row") \cup {Len(w)}
      /\ DOMAIN s \subseteq DOMAIN w /\ \A i \in DOMAIN s : w[i] = s[i] /\ i < Len(w)
      /\ w[Len(w)] = row
  <2> HIDE DEF s
  <2>1. Measured(s, m, w, row)
    BY <1>1, MeasureCoded
  <2> QED
    BY <2>1 DEF Measured
<1> HIDE DEF w, m, row, s
<1>5. Whole(p)' = w /\ \A q \in Producers : q # p => Whole(q)' = Whole(q)
  BY <1>1, <1>2 DEF TypeOK, Whole, s, w
<1>6. \A q \in Producers : Coded(Whole(q)')
  BY <1>3, <1>5 DEF FilesInv
<1>7. Tagged(Whole(p), "row")' = Tagged(Whole(p), "row") \cup {Len(w)}
      /\ Len(w) \notin Tagged(Whole(p), "row") /\ Len(w) \in Nat
  <2>1. Tagged(Whole(p), "row")' = Tagged(w, "row")
    BY <1>5 DEF Tagged
  <2>2. Len(w) \in Nat /\ ~(Len(w) < Len(w))
    BY <1>3, LenProperties
  <2> QED
    BY <2>1, <2>2, <1>1, <1>3 DEF Tagged
<1>8. \A q \in Producers : q # p => Tagged(Whole(q), "row")' = Tagged(Whole(q), "row")
  BY <1>5 DEF Tagged
<1>9. AllRows' = AllRows \cup {<<p, Len(w)>>} /\ <<p, Len(w)>> \notin AllRows
  BY <1>7, <1>8 DEF AllRows
<1>10. Counted'
  <2>1. IsFiniteSet(AllRows) /\ Cardinality(AllRows) = taken
    BY DEF FilesInv, Counted
  <2>2. IsFiniteSet(AllRows') /\ Cardinality(AllRows') = taken + 1
    BY <1>9, <2>1, FS_AddElement
  <2> QED
    BY <1>1, <2>2 DEF Counted
<1> QED
  BY <1>2, <1>3, <1>6, <1>10 DEF TypeOK, FilesInv

LEMMA SameRows ==
    ASSUME \A q \in Producers : Whole(q)' = Whole(q), taken' = taken, Counted
    PROVE  Counted'
<1>1. \A q \in Producers : Tagged(Whole(q), "row")' = Tagged(Whole(q), "row")
  BY DEF Tagged
<1>2. AllRows' = AllRows
  BY <1>1 DEF AllRows
<1> QED
  BY <1>2 DEF Counted

\* Every step extends the files, with what was to be written, or leaves them.
LEMMA FilesStep ==
    ASSUME TypeOK, FilesInv, [Next]_vars
    PROVE  /\ FilesInv'
           /\ stream' \in [Producers -> Seq(Records)] /\ outbox' \in [Producers -> Seq(Records)]
           /\ \A p \in Producers : /\ Len(stream[p]) \in Nat /\ Len(stream'[p]) \in Nat
                                   /\ Len(stream[p]) <= Len(stream'[p])
                                   /\ \A i \in 1..Len(stream[p]) : stream'[p][i] = stream[p][i]
<1>1. CASE UNCHANGED <<stream, outbox, taken>>
  <2>1. \A p \in Producers : Whole(p)' = Whole(p)
    BY <1>1 DEF Whole
  <2>2. FilesInv'
    BY <1>1, <2>1, SameRows DEF FilesInv
  <2> QED
    BY <1>1, <2>2, LenProperties DEF TypeOK
<1>2. ASSUME NEW p \in Producers, Publish(p)
      PROVE  /\ FilesInv'
             /\ stream' \in [Producers -> Seq(Records)] /\ outbox' \in [Producers -> Seq(Records)]
             /\ \A q \in Producers : /\ Len(stream[q]) \in Nat /\ Len(stream'[q]) \in Nat
                                     /\ Len(stream[q]) <= Len(stream'[q])
                                     /\ \A i \in 1..Len(stream[q]) : stream'[q][i] = stream[q][i]
  <2>1. /\ stream[p] \in Seq(Records) /\ outbox[p] \in Seq(Records) /\ outbox[p] # <<>>
        /\ stream' = [stream EXCEPT ![p] = Append(stream[p], Head(outbox[p]))]
        /\ outbox' = [outbox EXCEPT ![p] = Tail(outbox[p])]
        /\ taken' = taken
    BY <1>2 DEF Publish, TypeOK
  <2>2. /\ Append(stream[p], Head(outbox[p])) \o Tail(outbox[p]) = stream[p] \o outbox[p]
        /\ Append(stream[p], Head(outbox[p])) \in Seq(Records) /\ Tail(outbox[p]) \in Seq(Records)
        /\ Len(Append(stream[p], Head(outbox[p]))) = Len(stream[p]) + 1
        /\ \A i \in DOMAIN stream[p] : Append(stream[p], Head(outbox[p]))[i] = stream[p][i]
    BY <2>1, MoveHead
  <2>3. \A q \in Producers : Whole(q)' = Whole(q)
    BY <2>1, <2>2 DEF Whole, TypeOK
  <2>4. FilesInv'
    BY <2>1, <2>3, SameRows DEF FilesInv
  <2>5. \A q \in Producers : q # p => stream'[q] = stream[q]
    BY <2>1 DEF TypeOK
  <2>6. stream'[p] = Append(stream[p], Head(outbox[p]))
    BY <2>1 DEF TypeOK
  <2>7. \A q \in Producers : Len(stream[q]) \in Nat /\ DOMAIN stream[q] = 1..Len(stream[q])
    BY LenProperties DEF TypeOK
  <2>8. stream' \in [Producers -> Seq(Records)] /\ outbox' \in [Producers -> Seq(Records)]
    BY <2>1, <2>2 DEF TypeOK
  <2>9. \A q \in Producers : Len(stream'[q]) \in Nat
    BY <2>8, LenProperties
  <2>10. ASSUME NEW q \in Producers
         PROVE  /\ Len(stream[q]) <= Len(stream'[q])
                /\ \A i \in 1..Len(stream[q]) : stream'[q][i] = stream[q][i]
    <3>1. CASE q = p
      BY <3>1, <2>2, <2>6, <2>7
    <3>2. CASE q # p
      BY <3>2, <2>5, <2>7
    <3> QED
      BY <3>1, <3>2
  <2> QED
    BY <2>4, <2>7, <2>8, <2>9, <2>10
<1>3. CASE \E p \in Producers, n \in Names, l \in Labels, v \in Values, t \in Times : Measure(p, n, l, v, t)
  <2>1. PICK p \in Producers, n \in Names, l \in Labels, v \in Values, t \in Times :
           Measure(p, n, l, v, t)
    BY <1>3
  <2>2. FilesInv' /\ outbox' \in [Producers -> Seq(Records)]
    BY <2>1, MeasureStep
  <2>3. stream' = stream
    BY <2>1 DEF Measure
  <2> QED
    BY <2>2, <2>3, LenProperties DEF TypeOK
<1> QED
  BY <1>1, <1>2, <1>3 DEF Next, Producer, Scrape, Create, OpenLen, Die, BeginScrape, EndScrape,
     DecodeRecord, SampleRaises, Skip, ReadNew, vars, producers

-----------------------------------------------------------------------------
(* The aggregator's steps: types, and where the reading stands.            *)

LEMMA PutProps ==
    ASSUME NEW f, NEW S, f \in [DOMAIN f -> S], NEW x, NEW y \in S
    PROVE  /\ Put(f, x, y) \in [DOMAIN Put(f, x, y) -> S]
           /\ DOMAIN Put(f, x, y) = DOMAIN f \cup {x} /\ Put(f, x, y)[x] = y
           /\ \A z \in DOMAIN f : z # x => Put(f, x, y)[z] = f[z]
BY DEF Put

LEMMA ObservedType ==
    ASSUME NEW s \in Series, NEW n, NEW v \in Int, NEW ts \in Nat
    PROVE  Observed(s, n, v, ts) \in Series
<1>1. /\ s.value \in Int /\ s.count \in Nat /\ s.buckets \in [Bounds -> Nat]
      /\ s.start \in Nat /\ s.last \in Nat
  BY DEF Series
<1>2. [b \in Bounds |-> IF n \in Histograms /\ Below(v, b) THEN s.buckets[b] + 1
                                                           ELSE s.buckets[b]] \in [Bounds -> Nat]
  BY <1>1
<1> QED
  BY <1>1, <1>2 DEF Observed, Series

\* The record that a turn of the loop decodes.
LEMMA DecodedRecord ==
    ASSUME TypeOK, PlaceInv, DecodeRecord
    PROVE  /\ cur \in Producers /\ pos \in Nat /\ pos + 1 \in 1..Len(stream[cur])
           /\ pos + 1 <= offset[cur] /\ offset[cur] \in Nat
           /\ stream[cur][pos + 1] \in Records
<1>1. pc = "decode"
  BY DEF DecodeRecord
<1>2. cur \in Producers /\ pos < offset[cur] /\ offset[cur] <= Len(stream[cur])
  BY <1>1 DEF PlaceInv
<1>3. stream[cur] \in Seq(Records) /\ offset[cur] \in Nat /\ pos \in Nat
  BY <1>2 DEF TypeOK
<1>4. Len(stream[cur]) \in Nat
  BY <1>3, LenProperties
<1>5. pos + 1 \in 1..Len(stream[cur])
  BY <1>2, <1>3, <1>4
<1>6. stream[cur][pos + 1] \in Records
  BY <1>3, <1>5, ElementOfSeq
<1> QED
  BY <1>2, <1>3, <1>5, <1>6

LEMMA DecodeType ==
    ASSUME TypeOK, PlaceInv, DecodeRecord
    PROVE  TypeOK' /\ PlaceInv'
<1> DEFINE r == stream[cur][pos + 1]
<1>1. /\ cur \in Producers /\ pos \in Nat /\ pos + 1 <= offset[cur] /\ offset[cur] \in Nat
      /\ r \in Records
  BY DecodedRecord
<1>2. UNCHANGED <<producers, todo, offset, due>>
  BY DEF DecodeRecord
<1>3. \/ pos + 1 < offset[cur] /\ pos' = pos + 1 /\ pc' = pc /\ cur' = cur
      \/ pos' = 0 /\ pc' = "list" /\ cur' = "nobody"
  BY DEF DecodeRecord
<1>4. PlaceInv'
  BY <1>1, <1>2, <1>3 DEF PlaceInv, producers
<1>5. CASE r.tag = "row" /\ Row(cur, r) /\ UNCHANGED <<names, attrs>>
  <2>1. names[cur] \in [DOMAIN names[cur] -> Names] /\ attrs[cur] \in [DOMAIN attrs[cur] -> Labels]
    BY <1>1 DEF TypeOK
  <2> DEFINE l == IF r.attrs \in DOMAIN attrs[cur] THEN attrs[cur][r.attrs] ELSE NoLabels
             key == <<names[cur][r.name], l>>
  <2>2. l \in Labels
    BY <2>1, TelemetryConstants
  <2>3. r.value \in Int /\ r.ts \in Nat
    BY <1>1, <1>5, RecordFields, TelemetryConstants
  <2>4. series' \in [Keys -> Series]
    <3>1. CASE names[cur][r.name] \in Known
      <4>1. key \in Keys
        BY <3>1, <2>2 DEF Keys
      <4>2. series[key] \in Series
        BY <4>1 DEF TypeOK
      <4>3. Observed(series[key], names[cur][r.name], r.value, r.ts) \in Series
        BY <4>2, <2>3, ObservedType
      <4> QED
        BY <4>1, <4>3, <1>5 DEF TypeOK, Row
    <3>2. CASE names[cur][r.name] \notin Known
      BY <3>2, <1>5 DEF TypeOK, Row
    <3> QED
      BY <3>1, <3>2
  <2> QED
    BY <1>1, <1>2, <1>3, <1>4, <1>5, <2>4 DEF TypeOK, producers
<1>6. CASE r.tag = "name" /\ Named(cur, r) /\ UNCHANGED <<attrs, series>>
  <2>1. r.of \in Names /\ names[cur] \in [DOMAIN names[cur] -> Names]
    BY <1>1, <1>6, RecordFields DEF TypeOK
  <2>2. Put(names[cur], r.id, r.of) \in [DOMAIN Put(names[cur], r.id, r.of) -> Names]
    BY <2>1, PutProps
  <2>3. names' = [names EXCEPT ![cur] = Put(names[cur], r.id, r.of)]
    BY <1>6 DEF Named
  <2>4. DOMAIN names' = Producers
        /\ \A p \in Producers : names'[p] \in [DOMAIN names'[p] -> Names]
    BY <2>2, <2>3 DEF TypeOK
  <2> QED
    BY <1>1, <1>2, <1>3, <1>4, <1>6, <2>4 DEF TypeOK, producers
<1>7. CASE /\ r.tag = "attrs" /\ attrs' = [attrs EXCEPT ![cur] = Put(@, r.id, r.of)]
           /\ UNCHANGED <<names, series>>
  <2>1. r.of \in Labels /\ attrs[cur] \in [DOMAIN attrs[cur] -> Labels]
    BY <1>1, <1>7, RecordFields DEF TypeOK
  <2>2. Put(attrs[cur], r.id, r.of) \in [DOMAIN Put(attrs[cur], r.id, r.of) -> Labels]
    BY <2>1, PutProps
  <2>3. attrs' = [attrs EXCEPT ![cur] = Put(attrs[cur], r.id, r.of)]
    BY <1>7
  <2>4. DOMAIN attrs' = Producers
        /\ \A p \in Producers : attrs'[p] \in [DOMAIN attrs'[p] -> Labels]
    BY <2>2, <2>3 DEF TypeOK
  <2> QED
    BY <1>1, <1>2, <1>3, <1>4, <1>7, <2>4 DEF TypeOK, producers
<1> QED
  BY <1>5, <1>6, <1>7 DEF DecodeRecord

LEMMA TypeStep ==
    ASSUME TypeOK, FilesInv, PlaceInv, [Next]_vars
    PROVE  TypeOK' /\ PlaceInv'
<1>1. /\ stream' \in [Producers -> Seq(Records)] /\ outbox' \in [Producers -> Seq(Records)]
      /\ \A p \in Producers : /\ Len(stream[p]) \in Nat /\ Len(stream'[p]) \in Nat
                              /\ Len(stream[p]) <= Len(stream'[p])
  BY FilesStep
<1>2. ASSUME NEW p \in Producers, Producer(p)
      PROVE  TypeOK' /\ PlaceInv'
  <2>1. /\ UNCHANGED <<scrape, state, due>>
        /\ phase' \in [Producers -> {"absent", "created", "open", "dead", "stillborn"}]
    BY <1>2 DEF Producer, Create, OpenLen, Publish, Die, Measure, TypeOK
  <2>2. taken' \in 0..MaxRows
    <3>1. taken' = taken \/ (taken < MaxRows /\ taken' = taken + 1)
      BY <1>2 DEF Producer, Create, OpenLen, Publish, Die, Measure
    <3> QED
      BY <3>1, TelemetryConstants DEF TypeOK
  <2>3. PlaceInv'
    BY <1>1, <2>1 DEF PlaceInv, TypeOK, scrape, state
  <2> QED
    BY <1>1, <2>1, <2>2, <2>3 DEF TypeOK, scrape, state
<1>3. CASE BeginScrape \/ EndScrape \/ \E p \in Producers : SampleRaises(p) \/ Skip(p)
  BY <1>1, <1>3 DEF BeginScrape, EndScrape, SampleRaises, Skip, TypeOK, PlaceInv, producers, state
<1>4. ASSUME NEW p \in Producers, ReadNew(p)
      PROVE  TypeOK' /\ PlaceInv'
  BY <1>1, <1>4 DEF ReadNew, TypeOK, PlaceInv, producers
<1>5. CASE UNCHANGED vars
  BY <1>1, <1>5 DEF TypeOK, PlaceInv, vars, producers, scrape, state
<1> QED
  BY <1>2, <1>3, <1>4, <1>5, DecodeType DEF Next, Scrape

LEMMA Start ==
    ASSUME Init
    PROVE  TypeOK /\ FilesInv /\ PlaceInv
<1>1. <<>> \in Seq(Records) /\ Len(<<>>) = 0 /\ DOMAIN <<>> = {}
  OBVIOUS
<1>2. \A S : <<>> \in [DOMAIN <<>> -> S]
  OBVIOUS
<1>3. [b \in Bounds |-> 0] \in [Bounds -> Nat]
  OBVIOUS
<1>4. NoSeries \in Series
  BY <1>3 DEF NoSeries, Series
<1>5. TypeOK
  BY <1>1, <1>2, <1>4, TelemetryConstants DEF Init, TypeOK
<1>6. \A p \in Producers : Whole(p) = <<>>
  BY DEF Init, Whole
<1>7. FilesInv
  <2>1. (\A p \in Producers : Coded(Whole(p))) /\ AllRows = {}
    BY <1>1, <1>6 DEF Coded, Tagged, AllRows
  <2> QED
    BY <2>1, FS_EmptySet DEF FilesInv, Counted, Init
<1>8. PlaceInv
  BY <1>1 DEF Init, PlaceInv
<1> QED
  BY <1>5, <1>7, <1>8

LEMMA Reading == Spec => [](TypeOK /\ FilesInv /\ PlaceInv)
<1>1. Init => TypeOK /\ FilesInv /\ PlaceInv
  BY Start
<1>2. TypeOK /\ FilesInv /\ PlaceInv /\ [Next]_vars => (TypeOK /\ FilesInv /\ PlaceInv)'
  BY FilesStep, TypeStep
<1> QED
  BY <1>1, <1>2, PTL DEF Spec

\* Every state of the telemetry process and of the files it reads is well typed.
THEOREM TypeCorrect == Spec => []TypeOK
BY Reading, PTL

-----------------------------------------------------------------------------
(* A scrape that answers has read what was there when it began.            *)

DueInv ==
    /\ \A p \in Producers : phase[p] \in {"absent", "created", "stillborn"} => stream[p] = <<>>
    /\ \A p \in Producers : due[p] <= Len(stream[p])
    /\ pc # "idle" => \A p \in Producers \ todo : due[p] <= offset[p]

LEMMA DueStep ==
    ASSUME TypeOK, FilesInv, PlaceInv, DueInv, [Next]_vars
    PROVE  DueInv'
<1>1. \A p \in Producers : /\ Len(stream[p]) \in Nat /\ Len(stream'[p]) \in Nat
                           /\ Len(stream[p]) <= Len(stream'[p])
                           /\ due[p] \in Nat /\ offset[p] \in Nat
  BY FilesStep DEF TypeOK
<1>2. Len(<<>>) = 0
  OBVIOUS
<1>3. ASSUME NEW p \in Producers, Producer(p)
      PROVE  DueInv'
  <2>1. UNCHANGED <<scrape, state, due>>
    BY <1>3 DEF Producer, Create, OpenLen, Publish, Die, Measure
  <2>2. \A q \in Producers : due'[q] <= Len(stream'[q])
    BY <1>1, <2>1 DEF DueInv
  <2>3. \A q \in Producers :
           phase'[q] \in {"absent", "created", "stillborn"} => stream'[q] = <<>>
    BY <1>3 DEF Producer, Create, OpenLen, Publish, Die, Measure, TypeOK, DueInv
  <2> QED
    BY <2>1, <2>2, <2>3 DEF DueInv, scrape, state
<1>4. CASE BeginScrape
  BY <1>1, <1>2, <1>4 DEF BeginScrape, DueInv, producers, state
<1>5. CASE EndScrape \/ \E p \in Producers : SampleRaises(p)
  BY <1>1, <1>5 DEF EndScrape, SampleRaises, DueInv, producers, state
<1>6. ASSUME NEW p \in Producers, Skip(p)
      PROVE  DueInv'
  <2>1. due[p] <= offset[p]
    BY <1>1, <1>6 DEF Skip, DueInv
  <2> QED
    BY <2>1, <1>6 DEF Skip, DueInv, producers, state
<1>7. ASSUME NEW p \in Producers, ReadNew(p)
      PROVE  DueInv'
  <2>1. /\ pc = "list" /\ UNCHANGED <<producers, due>> /\ todo' = todo \ {p}
        /\ offset'[p] = Len(stream[p])
        /\ \A q \in Producers : q # p => offset'[q] = offset[q]
    BY <1>7 DEF ReadNew, TypeOK
  <2> QED
    BY <2>1, <1>1 DEF DueInv, producers
<1>8. CASE DecodeRecord \/ UNCHANGED vars
  BY <1>8 DEF DecodeRecord, DueInv, vars, producers, scrape, state
<1> QED
  BY <1>3, <1>4, <1>5, <1>6, <1>7, <1>8 DEF Next, Scrape

\* A scrape that returns has ingested every record published before it began,
\* whatever files came and went, and whichever scrapes failed before it.
THEOREM ScrapeIsCompleteAlways == Spec => ScrapeIsComplete
<1>1. Init => DueInv
  BY DEF Init, DueInv
<1>2. TypeOK /\ FilesInv /\ PlaceInv /\ DueInv /\ [Next]_vars => DueInv'
  BY DueStep
<1>3. DueInv /\ [Next]_vars
        => [pc = "list" /\ pc' = "idle" /\ todo = {}
              => \A p \in Producers : due[p] <= offset[p]]_vars
  BY DEF DueInv
<1> QED
  BY <1>1, <1>2, <1>3, Reading, PTL DEF Spec, ScrapeIsComplete

-----------------------------------------------------------------------------
(* What is decoded, and the tables.                                        *)

LEMMA DecodedBound ==
    ASSUME TypeOK, PlaceInv, NEW p \in Producers
    PROVE  /\ Decoded(p) \in Nat /\ Decoded(p) <= Len(stream[p]) /\ Len(stream[p]) \in Nat
           /\ \A i \in 1..Decoded(p) : i \in 1..Len(stream[p]) /\ stream[p][i] \in Records
<1>1. stream[p] \in Seq(Records) /\ offset[p] \in Nat /\ pos \in Nat /\ offset[p] <= Len(stream[p])
  BY DEF TypeOK, PlaceInv
<1>2. Len(stream[p]) \in Nat /\ \A i \in 1..Len(stream[p]) : stream[p][i] \in Records
  BY <1>1, LenProperties, ElementOfSeq
<1>3. pc = "decode" /\ cur = p => pos < offset[p]
  BY DEF PlaceInv
<1> QED
  BY <1>1, <1>2, <1>3 DEF Decoded

\* What holds of a whole file holds of what is published of it.
LEMMA InWhole ==
    ASSUME TypeOK, NEW p \in Producers
    PROVE  /\ \A i \in 1..Len(stream[p]) : i \in DOMAIN Whole(p) /\ Whole(p)[i] = stream[p][i]
           /\ DOMAIN Whole(p) \subseteq Nat \ {0} /\ Len(stream[p]) \in Nat
<1>1. stream[p] \in Seq(Records) /\ outbox[p] \in Seq(Records)
  BY DEF TypeOK
<1>2. Len(stream[p]) \in Nat /\ Len(outbox[p]) \in Nat
  BY <1>1, LenProperties
<1>3. /\ Whole(p) \in Seq(Records) /\ Len(Whole(p)) = Len(stream[p]) + Len(outbox[p])
      /\ \A i \in 1..Len(stream[p]) + Len(outbox[p]) :
            Whole(p)[i] = IF i <= Len(stream[p]) THEN stream[p][i] ELSE outbox[p][i - Len(stream[p])]
  BY <1>1, ConcatProperties DEF Whole
<1>4. DOMAIN Whole(p) = 1..Len(stream[p]) + Len(outbox[p])
  BY <1>3, LenProperties
<1> DEFINE a == Len(stream[p])
           b == Len(outbox[p])
<1>5. DOMAIN Whole(p) \subseteq Nat \ {0}
  <2>1. a \in Nat /\ b \in Nat /\ DOMAIN Whole(p) = 1..a + b
    BY <1>2, <1>4
  <2> HIDE DEF a, b
  <2> QED
    BY <2>1
<1>6. \A i \in 1..Len(stream[p]) : i \in DOMAIN Whole(p) /\ i <= Len(stream[p])
  <2>1. a \in Nat /\ b \in Nat /\ DOMAIN Whole(p) = 1..a + b
    BY <1>2, <1>4
  <2> HIDE DEF a, b
  <2>2. \A i \in 1..a : i \in DOMAIN Whole(p) /\ i <= a
    BY <2>1
  <2> QED
    BY <2>2 DEF a
<1>7. \A i \in 1..Len(stream[p]) : Whole(p)[i] = stream[p][i]
  BY ONLY <1>3, <1>4, <1>6
<1> QED
  BY <1>2, <1>5, <1>6, <1>7

LEMMA DefinedOnce ==
    ASSUME TypeOK, FilesInv, NEW p \in Producers,
           NEW i \in 1..Len(stream[p]), NEW j \in 1..Len(stream[p]),
           stream[p][i].tag # "row", stream[p][j].tag = stream[p][i].tag,
           stream[p][i].id = stream[p][j].id
    PROVE  i = j
BY InWhole DEF FilesInv, Coded

LEMMA DefinedEarlier ==
    ASSUME TypeOK, FilesInv, NEW p \in Producers, NEW i \in 1..Len(stream[p]),
           NEW r, r = stream[p][i], r.tag = "row"
    PROVE  /\ \E j \in 1..Len(stream[p]) :
                 j < i /\ stream[p][j].tag = "name" /\ stream[p][j].id = r.name /\ stream[p][j].of = r.of[1]
           /\ \E j \in 1..Len(stream[p]) :
                 j < i /\ stream[p][j].tag = "attrs" /\ stream[p][j].id = r.attrs /\ stream[p][j].of = r.of[2]
<1>1. i \in DOMAIN Whole(p) /\ Whole(p)[i] = r
  BY InWhole
<1>2. /\ Defined(Whole(p), "name", r.name, r.of[1], i)
      /\ Defined(Whole(p), "attrs", r.attrs, r.of[2], i)
  BY <1>1 DEF FilesInv, Coded
<1>3. \A j \in DOMAIN Whole(p) : j < i => j \in 1..Len(stream[p]) /\ Whole(p)[j] = stream[p][j]
  BY InWhole
<1> QED
  BY <1>2, <1>3 DEF Defined

\* A turn of the loop decodes the next record of its file.
LEMMA DecodeAdvances ==
    ASSUME TypeOK, PlaceInv, DecodeRecord
    PROVE  /\ UNCHANGED stream
           /\ Decoded(cur) = pos
           /\ \A p \in Producers : Decoded(p)' = IF p = cur THEN pos + 1 ELSE Decoded(p)
<1>1. /\ cur \in Producers /\ pos \in Nat /\ pos + 1 <= offset[cur] /\ offset[cur] \in Nat
      /\ cur # "nobody"
  BY DecodedRecord, TelemetryConstants
<1>2. pc = "decode" /\ offset' = offset /\ UNCHANGED stream
  BY DEF DecodeRecord, producers
<1>3. \/ pos + 1 < offset[cur] /\ pos' = pos + 1 /\ pc' = pc /\ cur' = cur
      \/ pos + 1 = offset[cur] /\ pos' = 0 /\ pc' = "list" /\ cur' = "nobody"
  BY <1>1 DEF DecodeRecord
<1>4. ASSUME NEW p \in Producers
      PROVE  Decoded(p)' = IF p = cur THEN pos + 1 ELSE Decoded(p)
  <2>1. p # "nobody"
    BY TelemetryConstants
  <2> QED
    BY <1>1, <1>2, <1>3, <2>1 DEF Decoded
<1> QED
  BY <1>2, <1>4 DEF Decoded

\* No other step changes what is decoded or known.
LEMMA OtherSteps ==
    ASSUME TypeOK, FilesInv, PlaceInv, [Next]_vars, ~DecodeRecord
    PROVE  /\ UNCHANGED <<names, attrs, series>>
           /\ \A p \in Producers : /\ Decoded(p)' = Decoded(p)
                                   /\ \A i \in 1..Decoded(p) : stream'[p][i] = stream[p][i]
<1>1. ASSUME NEW p \in Producers
      PROVE  \A i \in 1..Decoded(p) : stream'[p][i] = stream[p][i]
  BY FilesStep, DecodedBound
<1>2. ASSUME UNCHANGED <<pc, cur, pos, offset>>
      PROVE  \A p \in Producers : Decoded(p)' = Decoded(p)
  BY <1>2 DEF Decoded
<1>3. ASSUME BeginScrape \/ EndScrape \/ \E p \in Producers : SampleRaises(p)
      PROVE  \A p \in Producers : Decoded(p)' = Decoded(p)
  BY <1>3 DEF Decoded, BeginScrape, EndScrape, SampleRaises, state
<1>4. ASSUME NEW q \in Producers, ReadNew(q)
      PROVE  \A p \in Producers : Decoded(p)' = Decoded(p)
  BY <1>4 DEF Decoded, ReadNew, TypeOK
<1>5. \A p \in Producers : Decoded(p)' = Decoded(p)
  BY <1>2, <1>3, <1>4 DEF Next, Scrape, Producer, Create, OpenLen, Publish, Die, Measure, Skip,
     vars, scrape, state
<1>6. UNCHANGED <<names, attrs, series>>
  BY DEF Next, Scrape, Producer, Create, OpenLen, Publish, Die, Measure, Skip, BeginScrape,
     EndScrape, SampleRaises, ReadNew, vars, state
<1> QED
  BY <1>1, <1>5, <1>6

LEMMA TablesStep ==
    ASSUME TypeOK, FilesInv, PlaceInv, TablesInv, [Next]_vars
    PROVE  TablesInv'
<1>1. CASE ~DecodeRecord
  <2>1. /\ UNCHANGED <<names, attrs, series>>
        /\ \A p \in Producers : /\ Decoded(p)' = Decoded(p)
                                /\ \A i \in 1..Decoded(p) : stream'[p][i] = stream[p][i]
    BY <1>1, OtherSteps
  <2> SUFFICES ASSUME NEW p \in Producers, NEW i \in 1..Decoded(p)'
               PROVE  /\ stream'[p][i].tag = "name"
                            => /\ stream'[p][i].id \in DOMAIN names'[p]
                               /\ names'[p][stream'[p][i].id] = stream'[p][i].of
                      /\ stream'[p][i].tag = "attrs"
                            => /\ stream'[p][i].id \in DOMAIN attrs'[p]
                               /\ attrs'[p][stream'[p][i].id] = stream'[p][i].of
    BY DEF TablesInv
  <2> QED
    BY <2>1 DEF TablesInv
<1>2. CASE DecodeRecord
  <2>0. PICK c \in Producers : c = cur
    BY <1>2, DecodedRecord
  <2> DEFINE r == stream[c][pos + 1]
  <2>1. /\ UNCHANGED stream /\ pos \in Nat
        /\ Decoded(c) = pos /\ Decoded(c)' = pos + 1
        /\ \A p \in Producers : p # c => Decoded(p)' = Decoded(p)
        /\ pos + 1 \in 1..Len(stream[c])
    BY <1>2, <2>0, DecodeAdvances, DecodedRecord
  <2>2. /\ DOMAIN names = Producers /\ names[c] \in [DOMAIN names[c] -> Names]
        /\ DOMAIN attrs = Producers /\ attrs[c] \in [DOMAIN attrs[c] -> Labels]
        /\ r \in Records
    BY <1>2, <2>0, <2>1, DecodedRecord DEF TypeOK
  <2>3. /\ \/ names' = names /\ r.tag # "name"
           \/ names' = [names EXCEPT ![c] = Put(names[c], r.id, r.of)] /\ r.tag = "name"
        /\ \/ attrs' = attrs /\ r.tag # "attrs"
           \/ attrs' = [attrs EXCEPT ![c] = Put(attrs[c], r.id, r.of)] /\ r.tag = "attrs"
    BY <1>2, <2>0 DEF DecodeRecord, Named
  <2>4. \A p \in Producers : p # c => names'[p] = names[p] /\ attrs'[p] = attrs[p]
    BY <2>2, <2>3
  <2>5. ASSUME NEW i \in 1..Decoded(c)', stream[c][i].tag = "name"
        PROVE  /\ stream[c][i].id \in DOMAIN names'[c]
               /\ names'[c][stream[c][i].id] = stream[c][i].of
    <3>1. CASE i = pos + 1
      <4>1. names'[c] = Put(names[c], r.id, r.of) /\ r.of \in Names
        BY <3>1, <2>1, <2>2, <2>3, <2>5, RecordFields
      <4> QED
        BY <3>1, <4>1 DEF Put
    <3>2. CASE i \in 1..pos
      <4>1. /\ stream[c][i].id \in DOMAIN names[c]
            /\ names[c][stream[c][i].id] = stream[c][i].of
        BY <3>2, <2>1, <2>5 DEF TablesInv
      <4>2. r.tag = "name" => r.id # stream[c][i].id
        <5>1. i \in 1..Len(stream[c]) /\ pos + 1 \in 1..Len(stream[c]) /\ i # pos + 1
          BY <3>2, <2>1, DecodedBound
        <5> QED
          BY <5>1, <2>5, DefinedOnce
      <4>3. r.tag = "name" => /\ names'[c] = Put(names[c], r.id, r.of) /\ r.of \in Names
        BY <2>1, <2>2, <2>3, RecordFields
      <4>4. r.tag = "name" => /\ DOMAIN names'[c] = DOMAIN names[c] \cup {r.id}
                              /\ \A z \in DOMAIN names[c] : z # r.id => names'[c][z] = names[c][z]
        BY <4>3 DEF Put
      <4> QED
        BY <4>1, <4>2, <4>4, <2>3
    <3> QED
      BY <3>1, <3>2, <2>1
  <2>6. ASSUME NEW i \in 1..Decoded(c)', stream[c][i].tag = "attrs"
        PROVE  /\ stream[c][i].id \in DOMAIN attrs'[c]
               /\ attrs'[c][stream[c][i].id] = stream[c][i].of
    <3>1. CASE i = pos + 1
      <4>1. attrs'[c] = Put(attrs[c], r.id, r.of) /\ r.of \in Labels
        BY <3>1, <2>1, <2>2, <2>3, <2>6, RecordFields
      <4> QED
        BY <3>1, <4>1 DEF Put
    <3>2. CASE i \in 1..pos
      <4>1. /\ stream[c][i].id \in DOMAIN attrs[c]
            /\ attrs[c][stream[c][i].id] = stream[c][i].of
        BY <3>2, <2>1, <2>6 DEF TablesInv
      <4>2. r.tag = "attrs" => r.id # stream[c][i].id
        <5>1. i \in 1..Len(stream[c]) /\ pos + 1 \in 1..Len(stream[c]) /\ i # pos + 1
          BY <3>2, <2>1, DecodedBound
        <5> QED
          BY <5>1, <2>6, DefinedOnce
      <4>3. r.tag = "attrs" => /\ attrs'[c] = Put(attrs[c], r.id, r.of) /\ r.of \in Labels
        BY <2>1, <2>2, <2>3, RecordFields
      <4>4. r.tag = "attrs" => /\ DOMAIN attrs'[c] = DOMAIN attrs[c] \cup {r.id}
                               /\ \A z \in DOMAIN attrs[c] : z # r.id => attrs'[c][z] = attrs[c][z]
        BY <4>3 DEF Put
      <4> QED
        BY <4>1, <4>2, <4>4, <2>3
    <3> QED
      BY <3>1, <3>2, <2>1
  <2> SUFFICES ASSUME NEW p \in Producers, NEW i \in 1..Decoded(p)'
               PROVE  /\ stream[p][i].tag = "name"
                            => /\ stream[p][i].id \in DOMAIN names'[p]
                               /\ names'[p][stream[p][i].id] = stream[p][i].of
                      /\ stream[p][i].tag = "attrs"
                            => /\ stream[p][i].id \in DOMAIN attrs'[p]
                               /\ attrs'[p][stream[p][i].id] = stream[p][i].of
    BY <2>1 DEF TablesInv
  <2>7. CASE p = c
    BY <2>5, <2>6, <2>7
  <2>8. CASE p # c
    BY <2>1, <2>4, <2>8 DEF TablesInv
  <2> QED
    BY <2>7, <2>8
<1> QED
  BY <1>1, <1>2

-----------------------------------------------------------------------------
(* The rows of a series.                                                   *)

LEMMA InRowsOf ==
    ASSUME NEW key, NEW x
    PROVE  x \in RowsOf(key) <=>
              \E p \in Producers : \E i \in 1..Decoded(p) :
                 x = <<p, i>> /\ stream[p][i].tag = "row" /\ stream[p][i].of = key
BY DEF RowsOf, Rows

LEMMA RowNumbers ==
    ASSUME TypeOK, PlaceInv, NEW key, NEW x \in RowsOf(key)
    PROVE  Value(x) \in Int /\ Time(x) \in Nat \ {0}
<1>1. PICK p \in Producers : \E i \in 1..Decoded(p) : x = <<p, i>> /\ stream[p][i].tag = "row"
  BY InRowsOf
<1>2. PICK i \in 1..Decoded(p) : x = <<p, i>> /\ stream[p][i].tag = "row"
  BY <1>1
<1>3. stream[p][i] \in Records
  BY DecodedBound
<1> QED
  BY <1>2, <1>3, RecordFields, TelemetryConstants DEF Value, Time

\* There are not more of them than measurements.
LEMMA RowsFinite ==
    ASSUME TypeOK, FilesInv, PlaceInv, NEW key
    PROVE  /\ IsFiniteSet(RowsOf(key)) /\ Cardinality(RowsOf(key)) \in Nat
           /\ Cardinality(RowsOf(key)) <= MaxRows
<1>1. ASSUME NEW x \in RowsOf(key)
      PROVE  x \in AllRows
  <2>1. PICK p \in Producers : \E i \in 1..Decoded(p) : x = <<p, i>> /\ stream[p][i].tag = "row"
    BY InRowsOf
  <2>2. PICK i \in 1..Decoded(p) : x = <<p, i>> /\ stream[p][i].tag = "row"
    BY <2>1
  <2>3. i \in Tagged(Whole(p), "row")
    BY <2>2, DecodedBound, InWhole DEF Tagged
  <2> QED
    BY <2>2, <2>3 DEF AllRows
<1>2. RowsOf(key) \in SUBSET AllRows
  BY <1>1
<1>3. taken \in Nat /\ taken <= MaxRows /\ MaxRows \in Nat
  BY TelemetryConstants DEF TypeOK
<1>4. IsFiniteSet(AllRows) /\ Cardinality(AllRows) = taken
  BY DEF FilesInv, Counted
<1>5. IsFiniteSet(RowsOf(key)) /\ Cardinality(RowsOf(key)) <= taken
  BY <1>2, <1>4, FS_Subset
<1> QED
  BY <1>3, <1>5, FS_CardinalityType

\* What a step does to the series and their rows: nothing, or one row of one series.
KeepsRows ==
    /\ series' = series
    /\ \A key \in Keys : /\ RowsOf(key)' = RowsOf(key)
                         /\ \A x \in RowsOf(key) : Value(x)' = Value(x) /\ Time(x)' = Time(x)

TakesRow(k, x) ==
    /\ x \notin RowsOf(k) /\ RowsOf(k)' = RowsOf(k) \cup {x}
    /\ \A key \in Keys \ {k} : RowsOf(key)' = RowsOf(key)
    /\ \A y : Value(y)' = Value(y) /\ Time(y)' = Time(y)
    /\ Value(x) \in Int /\ Time(x) \in Nat \ {0}
    /\ x[2] \in Nat /\ \A y \in RowsOf(k) : y[2] \in Nat /\ (y[1] = x[1] => y[2] < x[2])
    /\ series' = [series EXCEPT ![k] = Observed(series[k], k[1], Value(x), Time(x))]

LEMMA RowsKept ==
    ASSUME TypeOK, FilesInv, PlaceInv, [Next]_vars, ~DecodeRecord
    PROVE  KeepsRows
<1>1. /\ series' = series
      /\ \A p \in Producers : /\ Decoded(p)' = Decoded(p)
                              /\ \A i \in 1..Decoded(p) : stream'[p][i] = stream[p][i]
  BY OtherSteps
<1>2. ASSUME NEW p \in Producers, NEW key
      PROVE  Rows(p, key)' = Rows(p, key)
  BY <1>1 DEF Rows
<1>3. ASSUME NEW key \in Keys
      PROVE  RowsOf(key)' = RowsOf(key)
  BY <1>2 DEF RowsOf
<1>4. ASSUME NEW key \in Keys, NEW x \in RowsOf(key)
      PROVE  Value(x)' = Value(x) /\ Time(x)' = Time(x)
  <2>1. PICK p \in Producers : \E i \in 1..Decoded(p) : x = <<p, i>>
    BY InRowsOf
  <2>2. PICK i \in 1..Decoded(p) : x = <<p, i>>
    BY <2>1
  <2> QED
    BY <2>2, <1>1 DEF Value, Time
<1> QED
  BY <1>1, <1>3, <1>4 DEF KeepsRows

\* A row that is decoded is counted for what it was measured for.
LEMMA RowTaken ==
    ASSUME TypeOK, FilesInv, PlaceInv, TablesInv, DecodeRecord
    PROVE  KeepsRows \/ \E k \in Keys, x \in Producers \X Nat : TakesRow(k, x)
<1>1. PICK c \in Producers : c = cur
  BY DecodedRecord
<1> DEFINE r == stream[c][pos + 1]
<1>2. /\ stream' = stream /\ pos \in Nat
      /\ Decoded(c) = pos /\ Decoded(c)' = pos + 1
      /\ \A p \in Producers : p # c => Decoded(p)' = Decoded(p)
      /\ pos + 1 \in 1..Len(stream[c]) /\ r \in Records
  BY <1>1, DecodeAdvances, DecodedRecord
<1>3. \A key : \A p \in Producers : p # c => Rows(p, key)' = Rows(p, key)
  BY <1>2 DEF Rows
<1>4. \A y : Value(y)' = Value(y) /\ Time(y)' = Time(y)
  BY <1>2 DEF Value, Time
<1>5. CASE r.tag = "row"
  <2> DEFINE x == <<c, pos + 1>>
  <2>1. /\ r.of \in Names \X Labels /\ r.value \in Int /\ r.ts \in Nat
        /\ r.value = Value(x) /\ r.ts = Time(x)
    BY <1>2, <1>5, RecordFields, TelemetryConstants DEF Value, Time
  <2>2. /\ r.name \in DOMAIN names[c] /\ names[c][r.name] = r.of[1]
        /\ r.attrs \in DOMAIN attrs[c] /\ attrs[c][r.attrs] = r.of[2]
    <3>1. PICK j \in 1..Len(stream[c]) :
             j < pos + 1 /\ stream[c][j].tag = "name" /\ stream[c][j].id = r.name /\ stream[c][j].of = r.of[1]
      BY <1>2, <1>5, DefinedEarlier
    <3>2. PICK k \in 1..Len(stream[c]) :
             k < pos + 1 /\ stream[c][k].tag = "attrs" /\ stream[c][k].id = r.attrs /\ stream[c][k].of = r.of[2]
      BY <1>2, <1>5, DefinedEarlier
    <3>3. j \in 1..Decoded(c) /\ k \in 1..Decoded(c)
      BY <1>2, <3>1, <3>2, DecodedBound
    <3> QED
      BY <3>1, <3>2, <3>3 DEF TablesInv
  <2>3. r.of = <<names[c][r.name], attrs[c][r.attrs]>>
    BY <2>1, <2>2
  <2>4. series' = IF r.of[1] \in Known
                  THEN [series EXCEPT ![r.of] = Observed(series[r.of], r.of[1], r.value, r.ts)]
                  ELSE series
    BY <1>1, <1>5, <2>2, <2>3 DEF DecodeRecord, Row
  <2>5. r.of[1] \in Known <=> r.of \in Keys
    BY <2>1 DEF Keys
  <2>6. \A key : Rows(c, key)' = IF r.of = key THEN Rows(c, key) \cup {pos + 1} ELSE Rows(c, key)
    BY <1>2, <1>5 DEF Rows
  <2>7. \A key : RowsOf(key)' = IF r.of = key THEN RowsOf(key) \cup {x} ELSE RowsOf(key)
    BY <1>3, <2>6 DEF RowsOf
  <2>8. CASE r.of \in Keys
    <3>0. PICK k \in Keys : k = r.of
      BY <2>8
    <3>1. PICK y \in Producers \X Nat : y = x
      <4>1. <<c, pos + 1>> \in Producers \X Nat
        BY <1>2
      <4> QED
        BY <4>1
    <3>2. y \notin RowsOf(k)
      BY <1>2, <3>1, InRowsOf
    <3>3. Value(y) \in Int /\ Time(y) \in Nat \ {0}
      BY <1>2, <1>5, <2>1, <3>1, RecordFields, TelemetryConstants
    <3>4. y[2] \in Nat /\ \A z \in RowsOf(k) : z[2] \in Nat /\ (z[1] = y[1] => z[2] < y[2])
      <4> SUFFICES ASSUME NEW z \in RowsOf(k)
                   PROVE  z[2] \in Nat /\ (z[1] = y[1] => z[2] < y[2])
        BY <1>2, <3>1
      <4>1. PICK p \in Producers : \E i \in 1..Decoded(p) : z = <<p, i>> /\ stream[p][i].tag = "row"
        BY InRowsOf
      <4>2. PICK i \in 1..Decoded(p) : z = <<p, i>> /\ stream[p][i].tag = "row"
        BY <4>1
      <4> QED
        BY <1>2, <3>1, <4>2, DecodedBound
    <3>5. series' = [series EXCEPT ![k] = Observed(series[k], k[1], Value(y), Time(y))]
      BY <2>1, <2>4, <2>5, <2>8, <3>0, <3>1
    <3>6. RowsOf(k)' = RowsOf(k) \cup {y} /\ \A key \in Keys \ {k} : RowsOf(key)' = RowsOf(key)
      BY <2>7, <3>0, <3>1
    <3>7. TakesRow(k, y)
      BY ONLY <1>4, <3>2, <3>3, <3>4, <3>5, <3>6 DEF TakesRow
    <3> QED
      BY <3>7
  <2>9. CASE r.of \notin Keys
    BY <1>4, <2>4, <2>5, <2>7, <2>9 DEF KeepsRows
  <2> QED
    BY <2>8, <2>9
<1>6. CASE r.tag # "row"
  <2>1. series' = series
    BY <1>1, <1>6 DEF DecodeRecord, Named
  <2>2. \A key : Rows(c, key)' = Rows(c, key)
    BY <1>2, <1>6 DEF Rows
  <2>3. \A key : RowsOf(key)' = RowsOf(key)
    BY <1>3, <2>2 DEF RowsOf
  <2> QED
    BY <1>4, <2>1, <2>3 DEF KeepsRows
<1> QED
  BY <1>5, <1>6

LEMMA RowsStep ==
    ASSUME TypeOK, FilesInv, PlaceInv, TablesInv, [Next]_vars
    PROVE  KeepsRows \/ \E k \in Keys, x \in Producers \X Nat : TakesRow(k, x)
BY RowsKept, RowTaken

LEMMA NoRowsYet ==
    ASSUME Init, NEW key
    PROVE  RowsOf(key) = {}
<1>1. \A p \in Producers : Decoded(p) = 0
  BY DEF Init, Decoded
<1> QED
  BY <1>1, InRowsOf

LEMMA Decoding == Spec => [](TypeOK /\ FilesInv /\ PlaceInv /\ TablesInv)
<1>1. Init => TablesInv
  <2> SUFFICES ASSUME Init PROVE TablesInv
    OBVIOUS
  <2>1. \A p \in Producers : Decoded(p) = 0
    BY DEF Init, Decoded
  <2> QED
    BY <2>1 DEF TablesInv
<1>2. TypeOK /\ FilesInv /\ PlaceInv /\ TablesInv /\ [Next]_vars => TablesInv'
  BY TablesStep
<1> QED
  BY <1>1, <1>2, Reading, PTL DEF Spec

-----------------------------------------------------------------------------
(* Counts and buckets.                                                     *)

LEMMA CountsStep ==
    ASSUME TypeOK, FilesInv, PlaceInv, CountsExact,
           KeepsRows \/ \E k \in Keys, x \in Producers \X Nat : TakesRow(k, x)
    PROVE  CountsExact'
<1>1. CASE KeepsRows
  <2> SUFFICES ASSUME NEW key \in Keys
               PROVE  /\ series'[key].count = Cardinality(RowsOf(key)')
                      /\ key[1] \in Histograms =>
                            \A b \in Bounds : series'[key].buckets[b]
                               = Cardinality({x \in RowsOf(key)' : Value(x)' <= b})
    BY DEF CountsExact
  <2>1. \A b \in Bounds : {x \in RowsOf(key)' : Value(x)' <= b} = {x \in RowsOf(key) : Value(x) <= b}
    BY <1>1 DEF KeepsRows
  <2> QED
    BY <1>1, <2>1 DEF CountsExact, KeepsRows
<1>2. ASSUME NEW k \in Keys, NEW x \in Producers \X Nat, TakesRow(k, x)
      PROVE  CountsExact'
  <2>1. /\ series[k] \in Series
        /\ series' = [series EXCEPT ![k] = Observed(series[k], k[1], Value(x), Time(x))]
        /\ \A y : Value(y)' = Value(y)
        /\ x \notin RowsOf(k) /\ RowsOf(k)' = RowsOf(k) \cup {x}
        /\ \A key \in Keys \ {k} : RowsOf(key)' = RowsOf(key)
        /\ Value(x) \in Int
    BY <1>2 DEF TakesRow, TypeOK
  <2>2. /\ series'[k] = Observed(series[k], k[1], Value(x), Time(x))
        /\ \A key \in Keys \ {k} : series'[key] = series[key]
    BY <2>1 DEF TypeOK
  <2>3. IsFiniteSet(RowsOf(k))
    BY RowsFinite
  <2>4. series'[k].count = Cardinality(RowsOf(k)')
    <3>1. series'[k].count = series[k].count + 1
      BY <2>2 DEF Observed
    <3>2. Cardinality(RowsOf(k) \cup {x}) = Cardinality(RowsOf(k)) + 1
      BY <2>1, <2>3, FS_AddElement
    <3> QED
      BY <2>1, <3>1, <3>2 DEF CountsExact
  <2>5. ASSUME k[1] \in Histograms, NEW b \in Bounds
        PROVE  series'[k].buckets[b] = Cardinality({y \in RowsOf(k)' : Value(y)' <= b})
    <3> DEFINE S == {y \in RowsOf(k) : Value(y) <= b}
    <3>1. IsFiniteSet(S) /\ x \notin S
      BY <2>1, <2>3, FS_Subset
    <3>2. Cardinality(S) \in Nat /\ Cardinality(S \cup {x}) = Cardinality(S) + 1
      BY <3>1, FS_AddElement, FS_CardinalityType
    <3>3. series[k].buckets[b] = Cardinality(S)
      BY <2>5 DEF CountsExact
    <3>4. series'[k].buckets[b] = IF Value(x) <= b THEN series[k].buckets[b] + 1 ELSE series[k].buckets[b]
      BY <2>2, <2>5 DEF Observed, Below
    <3>5. {y \in RowsOf(k)' : Value(y)' <= b} = IF Value(x) <= b THEN S \cup {x} ELSE S
      BY <2>1
    <3> QED
      BY <3>2, <3>3, <3>4, <3>5
  <2>6. ASSUME NEW key \in Keys \ {k}
        PROVE  /\ series'[key].count = Cardinality(RowsOf(key)')
               /\ key[1] \in Histograms =>
                     \A b \in Bounds : series'[key].buckets[b]
                        = Cardinality({y \in RowsOf(key)' : Value(y)' <= b})
    <3>1. \A b \in Bounds : {y \in RowsOf(key)' : Value(y)' <= b} = {y \in RowsOf(key) : Value(y) <= b}
      BY <2>1
    <3> QED
      BY <2>1, <2>2, <3>1 DEF CountsExact
  <2> SUFFICES ASSUME NEW key \in Keys
               PROVE  /\ series'[key].count = Cardinality(RowsOf(key)')
                      /\ key[1] \in Histograms =>
                            \A b \in Bounds : series'[key].buckets[b]
                               = Cardinality({y \in RowsOf(key)' : Value(y)' <= b})
    BY DEF CountsExact
  <2> QED
    BY <2>4, <2>5, <2>6
<1> QED
  BY <1>1, <1>2

\* Each series counts the rows that were measured for it among those decoded, and
\* so do its buckets, in whatever order files, scrapes and failures came.
THEOREM CountsExactAlways == Spec => []CountsExact
<1>1. Init => CountsExact
  <2> SUFFICES ASSUME Init PROVE CountsExact
    OBVIOUS
  <2>1. \A key : RowsOf(key) = {}
    BY NoRowsYet
  <2>2. \A key, b : {x \in RowsOf(key) : Value(x) <= b} = {}
    BY <2>1
  <2>3. \A key \in Keys : series[key].count = 0 /\ \A b \in Bounds : series[key].buckets[b] = 0
    BY DEF Init, NoSeries
  <2> QED
    BY <2>1, <2>2, <2>3, FS_EmptySet DEF CountsExact
<1>2. TypeOK /\ FilesInv /\ PlaceInv /\ TablesInv /\ CountsExact /\ [Next]_vars => CountsExact'
  BY RowsStep, CountsStep
<1> QED
  BY <1>1, <1>2, Decoding, PTL DEF Spec

-----------------------------------------------------------------------------
(* Sums.                                                                   *)

\* A set of natural numbers that is not empty has a least one.
LEMMA LeastOf ==
    ASSUME NEW T \in SUBSET Nat, T # {}
    PROVE  \E x \in T : \A y \in T : x <= y
<1>1. PICK x \in T : \A y \in T : <<y, x>> \notin OpToRel(<, Nat)
  BY NatLessThanWellFounded, WFMin
<1>2. \A y \in T : ~(y < x)
  BY <1>1 DEF OpToRel
<1> QED
  BY <1>2

\* Of the subsets of a finite set in a family, one is the smallest.
LEMMA Smallest ==
    ASSUME NEW S, IsFiniteSet(S), NEW F \in SUBSET (SUBSET S), F # {}
    PROVE  \E T \in F : /\ IsFiniteSet(T)
                        /\ \A x \in T : T \ {x} \notin F
<1>1. \A T \in F : IsFiniteSet(T) /\ Cardinality(T) \in Nat
  BY FS_Subset, FS_CardinalityType
<1> DEFINE N == {Cardinality(T) : T \in F}
<1>2. N \in SUBSET Nat /\ N # {} /\ \A T \in F : Cardinality(T) \in N
  BY <1>1
<1>3. PICK T \in F : \A U \in F : Cardinality(T) <= Cardinality(U)
  <2>1. \A n \in N : \E T \in F : n = Cardinality(T)
    OBVIOUS
  <2> HIDE DEF N
  <2>2. PICK n \in N : \A m \in N : n <= m
    BY <1>2, LeastOf
  <2>3. PICK T \in F : n = Cardinality(T)
    BY <2>1
  <2> QED
    BY <1>2, <2>2, <2>3
<1>4. ASSUME NEW x \in T
      PROVE  T \ {x} \notin F
  <2>1. Cardinality(T \ {x}) = Cardinality(T) - 1
    BY <1>1, FS_RemoveElement
  <2>2. ~(Cardinality(T) <= Cardinality(T) - 1)
    BY <1>1
  <2> QED
    BY <1>3, <2>1, <2>2
<1> QED
  BY <1>1, <1>4

\* h gives for each set of rows the sum of their values.
Additive(h, v) ==
    /\ h \in [SUBSET (DOMAIN v) -> Int] /\ h[{}] = 0
    /\ \A s \in SUBSET (DOMAIN v) : \A x \in DOMAIN v \ s : h[s \cup {x}] = h[s] + v[x]

Without(v, x) == [y \in DOMAIN v \ {x} |-> v[y]]

\* A finite set of numbers has a sum, and what is added to it adds to the sum.
LEMMA AddOne ==
    ASSUME NEW v, \A y \in DOMAIN v : v[y] \in Int, NEW x \in DOMAIN v,
           NEW h, Additive(h, Without(v, x))
    PROVE  \E g : Additive(g, v) /\ g[DOMAIN v] = h[DOMAIN v \ {x}] + v[x]
<1> DEFINE S == DOMAIN v
           g == [s \in SUBSET S |-> IF x \in s THEN h[s \ {x}] + v[x] ELSE h[s]]
<1>1. /\ h \in [SUBSET (S \ {x}) -> Int] /\ h[{}] = 0
      /\ \A s \in SUBSET (S \ {x}) : \A y \in (S \ {x}) \ s : h[s \cup {y}] = h[s] + v[y]
  BY DEF Additive, Without
<1>2. g \in [SUBSET S -> Int] /\ g[{}] = 0
  BY <1>1
<1>3. ASSUME NEW s \in SUBSET S, NEW y \in S \ s
      PROVE  g[s \cup {y}] = g[s] + v[y]
  <2>1. s \cup {y} \in SUBSET S
    OBVIOUS
  <2>2. CASE y = x
    <3>1. (s \cup {y}) \ {x} = s
      BY <2>2
    <3> QED
      BY <2>1, <2>2, <3>1
  <2>3. CASE y # x /\ x \in s
    <3>1. (s \cup {y}) \ {x} = (s \ {x}) \cup {y}
      BY <2>3
    <3>2. h[(s \ {x}) \cup {y}] = h[s \ {x}] + v[y]
      BY <1>1, <2>3
    <3>3. h[s \ {x}] \in Int /\ v[x] \in Int /\ v[y] \in Int
      BY <1>1
    <3>4. g[s \cup {y}] = h[(s \ {x}) \cup {y}] + v[x] /\ g[s] = h[s \ {x}] + v[x]
      BY <2>1, <2>3, <3>1
    <3> HIDE DEF g
    <3> QED
      BY <3>2, <3>3, <3>4
  <2>4. CASE y # x /\ x \notin s
    BY <1>1, <2>1, <2>4
  <2> QED
    BY <2>2, <2>3, <2>4
<1>4. g[S] = h[S \ {x}] + v[x]
  OBVIOUS
<1> QED
  BY <1>2, <1>3, <1>4 DEF Additive

\* What the sum over a set is, whatever the order it is taken in.
LEMMA SumIs ==
    ASSUME NEW S, IsFiniteSet(S), \A x \in S : Value(x) \in Int,
           NEW h, Additive(h, [x \in S |-> Value(x)])
    PROVE  MapThenSumSet(Value, S) = h[S]
<1> DEFINE One(s) == CHOOSE x \in s : TRUE
           Is(g) == g = [s \in SUBSET S |-> IF s = {} THEN 0 ELSE Value(One(s)) + g[s \ {One(s)}]]
           c == CHOOSE g : Is(g)
<1>1. MapThenSumSet(Value, S) = c[S]
  BY DEF MapThenSumSet, MapThenFoldSet
<1>2. \A s \in SUBSET S : s # {} => One(s) \in s
  OBVIOUS
<1>3. /\ h \in [SUBSET S -> Int] /\ h[{}] = 0
      /\ \A s \in SUBSET S : \A x \in S \ s : h[s \cup {x}] = h[s] + Value(x)
  BY DEF Additive
<1> HIDE DEF One
<1>4. Is(h)
  <2>1. ASSUME NEW s \in SUBSET S, s # {}
        PROVE  h[s] = Value(One(s)) + h[s \ {One(s)}]
    <3>1. One(s) \in s
      BY <1>2, <2>1
    <3>2. s \ {One(s)} \in SUBSET S /\ One(s) \in S \ (s \ {One(s)}) /\ (s \ {One(s)}) \cup {One(s)} = s
      BY <3>1
    <3>3. h[(s \ {One(s)}) \cup {One(s)}] = h[s \ {One(s)}] + Value(One(s))
      BY <1>3, <3>2
    <3>4. h[s \ {One(s)}] \in Int /\ Value(One(s)) \in Int
      BY <1>3, <3>1, <3>2
    <3>5. h[s] = h[s \ {One(s)}] + Value(One(s))
      BY <3>2, <3>3
    <3> QED
      BY ONLY <3>4, <3>5
  <2> QED
    BY <1>3, <2>1
<1> HIDE DEF Is
<1>5. Is(c)
  BY <1>4
<1> HIDE DEF c
<1> DEFINE F == {s \in SUBSET S : c[s] # h[s]}
<1>6. CASE F # {}
  <2>1. PICK s \in F : \A x \in s : s \ {x} \notin F
    <3> HIDE DEF F
    <3>1. F \in SUBSET (SUBSET S)
      BY DEF F
    <3> QED
      BY <1>6, <3>1, Smallest
  <2>2. s # {}
    BY <1>4, <1>5, <2>1 DEF Is
  <2>3. c[s \ {One(s)}] = h[s \ {One(s)}]
    BY <1>2, <2>1, <2>2
  <2>4. c[s] = Value(One(s)) + c[s \ {One(s)}] /\ h[s] = Value(One(s)) + h[s \ {One(s)}]
    BY <1>4, <1>5, <2>2 DEF Is
  <2> QED
    BY <2>1, <2>3, <2>4
<1> QED
  BY <1>1, <1>6

RowValues(key) == [x \in RowsOf(key) |-> Value(x)]

\* The value of a series that is no gauge is the sum of its rows.
SumsInv ==
    \A key \in Keys : key[1] \notin Gauges =>
        \E h : Additive(h, RowValues(key)) /\ series[key].value = h[RowsOf(key)]

LEMMA SumsGive ==
    ASSUME TypeOK, FilesInv, PlaceInv, SumsInv
    PROVE  SumsExact
<1> SUFFICES ASSUME NEW key \in Keys, key[1] \notin Gauges
             PROVE  series[key].value = MapThenSumSet(Value, RowsOf(key))
  BY DEF SumsExact
<1>1. PICK h : Additive(h, RowValues(key)) /\ series[key].value = h[RowsOf(key)]
  BY DEF SumsInv
<1>2. IsFiniteSet(RowsOf(key)) /\ \A x \in RowsOf(key) : Value(x) \in Int
  BY RowsFinite, RowNumbers
<1>3. Additive(h, [x \in RowsOf(key) |-> Value(x)])
  BY <1>1 DEF RowValues
<1>4. PICK S : S = RowsOf(key)
  OBVIOUS
<1>5. MapThenSumSet(Value, S) = h[S]
  BY <1>2, <1>3, <1>4, SumIs
<1> QED
  BY <1>1, <1>4, <1>5

LEMMA SumsStep ==
    ASSUME TypeOK, FilesInv, PlaceInv, SumsInv,
           KeepsRows \/ \E k \in Keys, x \in Producers \X Nat : TakesRow(k, x)
    PROVE  SumsInv'
<1>1. CASE KeepsRows
  <2>1. \A key \in Keys : RowValues(key)' = RowValues(key)
    BY <1>1 DEF KeepsRows, RowValues
  <2> QED
    BY <1>1, <2>1 DEF KeepsRows, SumsInv
<1>2. ASSUME NEW k \in Keys, NEW x \in Producers \X Nat, TakesRow(k, x)
      PROVE  SumsInv'
  <2>1. /\ series' = [series EXCEPT ![k] = Observed(series[k], k[1], Value(x), Time(x))]
        /\ \A y : Value(y)' = Value(y)
        /\ x \notin RowsOf(k) /\ RowsOf(k)' = RowsOf(k) \cup {x}
        /\ \A key \in Keys \ {k} : RowsOf(key)' = RowsOf(key)
        /\ Value(x) \in Int
    BY <1>2 DEF TakesRow
  <2>2. /\ series'[k] = Observed(series[k], k[1], Value(x), Time(x))
        /\ \A key \in Keys \ {k} : series'[key] = series[key]
    BY <2>1 DEF TypeOK
  <2>3. ASSUME k[1] \notin Gauges
        PROVE  \E h : Additive(h, RowValues(k)') /\ series'[k].value = h[RowsOf(k)']
    <3>1. PICK h : Additive(h, RowValues(k)) /\ series[k].value = h[RowsOf(k)]
      BY <2>3 DEF SumsInv
    <3>2. PICK v : v = RowValues(k)'
      OBVIOUS
    <3>3. DOMAIN v = RowsOf(k) \cup {x} /\ \A y \in DOMAIN v : v[y] = Value(y)
      BY <2>1, <3>2 DEF RowValues
    <3>4. x \in DOMAIN v /\ v[x] = Value(x) /\ DOMAIN v \ {x} = RowsOf(k)
      BY <2>1, <3>3
    <3>5. Without(v, x) = RowValues(k)
      BY <3>3, <3>4 DEF Without, RowValues
    <3>6. \A y \in DOMAIN v : v[y] \in Int
      BY <2>1, <3>3, RowNumbers
    <3>7. PICK g : Additive(g, v) /\ g[DOMAIN v] = h[DOMAIN v \ {x}] + v[x]
      <4>1. Additive(h, Without(v, x))
        BY <3>1, <3>5
      <4> QED
        BY ONLY <3>4, <3>6, <4>1, AddOne
    <3>8. series'[k].value = series[k].value + Value(x)
      BY <2>2, <2>3 DEF Observed
    <3>9. g[RowsOf(k)'] = series'[k].value
      BY <2>1, <3>1, <3>3, <3>4, <3>7, <3>8
    <3> QED
      BY <3>2, <3>7, <3>9
  <2>4. \A key \in Keys \ {k} : RowValues(key)' = RowValues(key)
    BY <2>1 DEF RowValues
  <2> SUFFICES ASSUME NEW key \in Keys, key[1] \notin Gauges
               PROVE  \E h : Additive(h, RowValues(key)') /\ series'[key].value = h[RowsOf(key)']
    BY DEF SumsInv
  <2>5. CASE key = k
    BY <2>3, <2>5
  <2>6. CASE key # k
    BY <2>1, <2>2, <2>4, <2>6 DEF SumsInv
  <2> QED
    BY <2>5, <2>6
<1> QED
  BY <1>1, <1>2

\* The registry holds what a single pass over the records decoded so far would give:
\* each series the number of its rows, its buckets and, unless it is a gauge, their sum.
THEOREM TotalsExactAlways == Spec => []TotalsExact
<1>1. Init => SumsInv
  <2> SUFFICES ASSUME Init, NEW key \in Keys
               PROVE  \E h : Additive(h, RowValues(key)) /\ series[key].value = h[RowsOf(key)]
    BY DEF SumsInv
  <2>1. RowsOf(key) = {}
    BY NoRowsYet
  <2>2. Additive([s \in {{}} |-> 0], RowValues(key))
    BY <2>1 DEF Additive, RowValues
  <2>3. series[key].value = 0
    BY DEF Init, NoSeries
  <2> QED
    BY <2>1, <2>2, <2>3
<1>2. TypeOK /\ FilesInv /\ PlaceInv /\ TablesInv /\ SumsInv /\ [Next]_vars => SumsInv'
  BY RowsStep, SumsStep
<1>3. TypeOK /\ FilesInv /\ PlaceInv /\ SumsInv /\ CountsExact => TotalsExact
  BY SumsGive DEF TotalsExact
<1> QED
  BY <1>1, <1>2, <1>3, Decoding, CountsExactAlways, PTL DEF Spec

-----------------------------------------------------------------------------
(* The OTLP bucket counts: differences of the cumulative ones.             *)

LEMMA GreatestBound ==
    ASSUME NEW S \in SUBSET Bounds, S # {}
    PROVE  Max(S) \in S /\ \A b \in S : b <= Max(S)
<1>1. PICK m \in S : \A b \in S : b <= m
  BY TelemetryConstants
<1>2. \A b \in S : m >= b
  BY <1>1, TelemetryConstants
<1>3. Max(S) \in S /\ \A b \in S : Max(S) >= b
  BY <1>2 DEF Max
<1> QED
  BY <1>3, TelemetryConstants

LEMMA MinusExact ==
    ASSUME NEW x \in Nat, NEW y \in Nat, y <= x, x <= MaxRows
    PROVE  Minus(x, y) = x - y
<1> DEFINE m == 2^Width
<1>1. m \in Nat /\ MaxRows < m /\ MaxRows \in Nat
  BY TelemetryConstants
<1>2. x - y \in Nat /\ x - y < m
  BY <1>1
<1>3. Minus(x, y) = (x - y) % m
  BY DEF Minus
<1> HIDE DEF m
<1>4. \A d \in Nat : d < m => d % m = d
  BY <1>1
<1> QED
  BY <1>2, <1>3, <1>4

\* A difference of nested sets of rows.
LEMMA RowsBetween ==
    ASSUME TypeOK, FilesInv, PlaceInv, NEW key, NEW S \in SUBSET RowsOf(key), NEW T \in SUBSET S
    PROVE  /\ Cardinality(S) \in Nat /\ Cardinality(T) \in Nat
           /\ Minus(Cardinality(S), Cardinality(T)) = Cardinality(S \ T)
<1>1. /\ IsFiniteSet(RowsOf(key)) /\ Cardinality(RowsOf(key)) <= MaxRows
      /\ Cardinality(RowsOf(key)) \in Nat
  BY RowsFinite
<1>2. IsFiniteSet(S) /\ Cardinality(S) <= Cardinality(RowsOf(key))
  BY <1>1, FS_Subset
<1>3. IsFiniteSet(T) /\ Cardinality(T) <= Cardinality(S)
  BY <1>2, FS_Subset
<1>4. Cardinality(S) \in Nat /\ Cardinality(T) \in Nat
  BY <1>2, <1>3, FS_CardinalityType
<1>5. S \cap T = T
  OBVIOUS
<1>6. Cardinality(S \ T) = Cardinality(S) - Cardinality(T)
  BY <1>2, <1>5, FS_Difference
<1>7. Cardinality(S) <= MaxRows
  BY <1>1, <1>2, <1>4, TelemetryConstants
<1> QED
  BY <1>3, <1>4, <1>6, <1>7, MinusExact

LEMMA BucketsExact ==
    ASSUME TypeOK, FilesInv, PlaceInv, CountsExact
    PROVE  OtlpBucketsExact
<1> SUFFICES ASSUME NEW key \in Histograms \X Labels
             PROVE  /\ \A b \in Bounds : InBucket(series[key], b)
                          = Cardinality({x \in RowsOf(key) : Value(x) <= b
                                            /\ \A c \in Previous(b) : Value(x) > c})
                    /\ InInf(series[key]) = Cardinality({x \in RowsOf(key) : \A b \in Bounds : Value(x) > b})
  BY DEF OtlpBucketsExact
<1> DEFINE R == RowsOf(key)
           upTo(b) == {x \in R : Value(x) <= b}
<1>1. key \in Keys /\ key[1] \in Histograms
  BY DEF Keys, Known
<1>2. series[key].count = Cardinality(R) /\ \A b \in Bounds : series[key].buckets[b] = Cardinality(upTo(b))
  BY <1>1 DEF CountsExact
<1>3. Bounds \subseteq Int /\ \A x \in R : Value(x) \in Int
  BY RowNumbers, TelemetryConstants
<1>4. ASSUME NEW b \in Bounds
      PROVE  InBucket(series[key], b)
               = Cardinality({x \in R : Value(x) <= b /\ \A c \in Previous(b) : Value(x) > c})
  <2> DEFINE B == {x \in R : Value(x) <= b /\ \A c \in Previous(b) : Value(x) > c}
  <2>1. CASE Previous(b) = {}
    <3>1. B = upTo(b) \ {}
      BY <2>1
    <3>2. InBucket(series[key], b) = Minus(Cardinality(upTo(b)), 0)
      BY <1>2, <2>1 DEF InBucket
    <3>3. Minus(Cardinality(upTo(b)), Cardinality({})) = Cardinality(upTo(b) \ {})
      <4>1. upTo(b) \in SUBSET RowsOf(key) /\ {} \in SUBSET upTo(b)
        OBVIOUS
      <4> HIDE DEF upTo
      <4> QED
        BY <4>1, RowsBetween
    <3> QED
      BY <3>1, <3>2, <3>3, FS_EmptySet
  <2>2. CASE Previous(b) # {}
    <3> DEFINE m == Max(Previous(b))
    <3>1. m \in Bounds /\ m < b /\ \A c \in Previous(b) : c <= m
      BY <2>2, GreatestBound DEF Previous
    <3>2. m \in Previous(b)
      BY <3>1 DEF Previous
    <3>3. InBucket(series[key], b) = Minus(Cardinality(upTo(b)), Cardinality(upTo(m)))
      BY <1>2, <2>2, <3>1 DEF InBucket
    <3> HIDE DEF m
    <3>4. B = upTo(b) \ upTo(m)
      <4>1. \A c \in Previous(b) : c \in Int
        BY <1>3 DEF Previous
      <4> QED
        BY <1>3, <3>1, <3>2, <4>1
    <3>5. upTo(b) \in SUBSET RowsOf(key) /\ upTo(m) \in SUBSET upTo(b)
      BY <1>3, <3>1
    <3>6. Minus(Cardinality(upTo(b)), Cardinality(upTo(m))) = Cardinality(upTo(b) \ upTo(m))
      <4> HIDE DEF upTo
      <4> QED
        BY <3>5, RowsBetween
    <3> QED
      BY <3>3, <3>4, <3>6
  <2> QED
    BY <2>1, <2>2
<1>5. InInf(series[key]) = Cardinality({x \in R : \A b \in Bounds : Value(x) > b})
  <2> DEFINE B == {x \in R : \A b \in Bounds : Value(x) > b}
  <2>1. CASE Bounds = {}
    <3>1. B = R
      BY <2>1
    <3> QED
      BY <1>2, <2>1, <3>1 DEF InInf
  <2>2. CASE Bounds # {}
    <3> DEFINE m == Max(Bounds)
    <3>1. m \in Bounds /\ \A c \in Bounds : c <= m
      BY <2>2, GreatestBound
    <3>2. InInf(series[key]) = Minus(Cardinality(R), Cardinality(upTo(m)))
      BY <1>2, <2>2, <3>1 DEF InInf
    <3> HIDE DEF m
    <3>3. B = R \ upTo(m)
      BY <1>3, <3>1
    <3>4. R \in SUBSET RowsOf(key) /\ upTo(m) \in SUBSET R
      OBVIOUS
    <3>5. Minus(Cardinality(R), Cardinality(upTo(m))) = Cardinality(R \ upTo(m))
      <4> HIDE DEF upTo, R
      <4> QED
        BY <3>4, RowsBetween
    <3> QED
      BY <3>2, <3>3, <3>5
  <2> QED
    BY <2>1, <2>2
<1> QED
  BY <1>4, <1>5

\* No bucket of an OTLP point is the result of a subtraction that wrapped around:
\* each holds the number of rows between its bounds, whatever the bounds.
THEOREM OtlpBucketsExactAlways == Spec => []OtlpBucketsExact
BY Reading, CountsExactAlways, BucketsExact, PTL

-----------------------------------------------------------------------------
(* The times of a series and the value of a gauge.                         *)

\* The rows xs of a series: x is the first, or the last, of its file among them.
FirstOfFile(x, xs) == \A y \in xs : y[1] = x[1] => x[2] <= y[2]
LastOfFile(x, xs)  == \A y \in xs : y[1] = x[1] => y[2] <= x[2]

StartsAt(s, xs) == \E x \in xs : s.start = Time(x) /\ FirstOfFile(x, xs)
EndsAt(s, n, xs) ==
    \E x \in xs : s.last = Time(x) /\ (n \in Gauges => s.value = Value(x)) /\ LastOfFile(x, xs)

LatestInv ==
    \A key \in Keys :
       /\ series[key].start = 0 <=> RowsOf(key) = {}
       /\ RowsOf(key) # {} => /\ StartsAt(series[key], RowsOf(key))
                              /\ EndsAt(series[key], key[1], RowsOf(key))

\* A series that the step leaves alone.
LEMMA SeriesKept ==
    ASSUME LatestInv, NEW key \in Keys, series'[key] = series[key], RowsOf(key)' = RowsOf(key),
           \A x \in RowsOf(key) : Value(x)' = Value(x) /\ Time(x)' = Time(x)
    PROVE  /\ series'[key].start = 0 <=> RowsOf(key)' = {}
           /\ RowsOf(key)' # {} => /\ StartsAt(series[key], RowsOf(key))'
                                   /\ EndsAt(series[key], key[1], RowsOf(key))'
<1>1. StartsAt(series[key], RowsOf(key)) => StartsAt(series[key], RowsOf(key))'
  BY DEF StartsAt, FirstOfFile
<1>2. EndsAt(series[key], key[1], RowsOf(key)) => EndsAt(series[key], key[1], RowsOf(key))'
  BY DEF EndsAt, LastOfFile
<1> QED
  BY <1>1, <1>2 DEF LatestInv

LEMMA LatestStep ==
    ASSUME TypeOK, FilesInv, PlaceInv, LatestInv,
           KeepsRows \/ \E k \in Keys, x \in Producers \X Nat : TakesRow(k, x)
    PROVE  LatestInv'
<1>1. CASE KeepsRows
  BY <1>1, SeriesKept DEF KeepsRows, LatestInv
<1>2. ASSUME NEW k \in Keys, NEW x \in Producers \X Nat, TakesRow(k, x)
      PROVE  LatestInv'
  <2>1. /\ series[k] \in Series
        /\ series' = [series EXCEPT ![k] = Observed(series[k], k[1], Value(x), Time(x))]
        /\ \A y : Value(y)' = Value(y) /\ Time(y)' = Time(y)
        /\ RowsOf(k)' = RowsOf(k) \cup {x}
        /\ \A key \in Keys \ {k} : RowsOf(key)' = RowsOf(key)
        /\ Value(x) \in Int /\ Time(x) \in Nat \ {0}
        /\ x[2] \in Nat /\ \A y \in RowsOf(k) : y[2] \in Nat /\ (y[1] = x[1] => y[2] < x[2])
    BY <1>2 DEF TakesRow, TypeOK
  <2>2. /\ series'[k] = Observed(series[k], k[1], Value(x), Time(x))
        /\ \A key \in Keys \ {k} : series'[key] = series[key]
    BY <2>1 DEF TypeOK
  <2>3. /\ series'[k].start = (IF series[k].start = 0 THEN Time(x) ELSE series[k].start)
        /\ series'[k].last = Time(x)
        /\ k[1] \in Gauges => series'[k].value = Value(x)
    BY <2>2 DEF Observed
  <2>4. series'[k].start # 0 /\ RowsOf(k)' # {}
    BY <2>1, <2>3
  <2>5. StartsAt(series[k], RowsOf(k))'
    <3>1. CASE series[k].start = 0
      <4>1. RowsOf(k)' = {x} /\ series'[k].start = Time(x)'
        BY <2>1, <2>3, <3>1 DEF LatestInv
      <4> QED
        BY <2>1, <4>1 DEF StartsAt, FirstOfFile
    <3>2. CASE series[k].start # 0
      <4>1. StartsAt(series[k], RowsOf(k))
        BY <3>2 DEF LatestInv
      <4>2. PICK y \in RowsOf(k) : series[k].start = Time(y) /\ FirstOfFile(y, RowsOf(k))
        BY <4>1 DEF StartsAt
      <4>3. y \in RowsOf(k)' /\ series'[k].start = Time(y)'
        BY <2>1, <2>3, <3>2, <4>2
      <4>4. ASSUME NEW z \in RowsOf(k)', z[1] = y[1]
            PROVE  y[2] <= z[2]
        <5>1. CASE z \in RowsOf(k)
          BY <5>1, <4>2, <4>4 DEF FirstOfFile
        <5>2. CASE z = x
          <6>1. y[2] < x[2] /\ y[2] \in Nat /\ x[2] \in Nat
            BY <2>1, <4>4, <5>2
          <6> QED
            BY <5>2, <6>1
        <5> QED
          BY <2>1, <5>1, <5>2
      <4> QED
        BY <4>3, <4>4 DEF StartsAt, FirstOfFile
    <3> QED
      BY <3>1, <3>2
  <2>6. EndsAt(series[k], k[1], RowsOf(k))'
    <3>1. x \in RowsOf(k)' /\ series'[k].last = Time(x)'
          /\ (k[1] \in Gauges => series'[k].value = Value(x)')
      BY <2>1, <2>3
    <3>2. ASSUME NEW z \in RowsOf(k)', z[1] = x[1]
          PROVE  z[2] <= x[2]
      <4>1. CASE z \in RowsOf(k)
        <5>1. z[2] < x[2] /\ z[2] \in Nat /\ x[2] \in Nat
          BY <2>1, <3>2, <4>1
        <5> QED
          BY <5>1
      <4> QED
        BY <2>1, <4>1
    <3> QED
      BY <3>1, <3>2 DEF EndsAt, LastOfFile
  <2> SUFFICES ASSUME NEW key \in Keys
               PROVE  /\ series'[key].start = 0 <=> RowsOf(key)' = {}
                      /\ RowsOf(key)' # {} => /\ StartsAt(series[key], RowsOf(key))'
                                              /\ EndsAt(series[key], key[1], RowsOf(key))'
    BY DEF LatestInv
  <2>7. CASE key = k
    BY <2>4, <2>5, <2>6, <2>7
  <2>8. CASE key # k
    BY <2>1, <2>2, <2>8, SeriesKept
  <2> QED
    BY <2>7, <2>8
<1> QED
  BY <1>1, <1>2

\* Whatever the times of the rows, a series starts at the first row of one of its files,
\* and the latest row of one file gives both its last time and, for a gauge, its value:
\* scrapes never go back over a file.
THEOREM LatestRowReportedAlways == Spec => []LatestRowReported
<1>1. Init => LatestInv
  <2> SUFFICES ASSUME Init PROVE LatestInv
    OBVIOUS
  <2>1. \A key : RowsOf(key) = {}
    BY NoRowsYet
  <2>2. \A key \in Keys : series[key].start = 0
    BY DEF Init, NoSeries
  <2> QED
    BY <2>1, <2>2 DEF LatestInv
<1>2. TypeOK /\ FilesInv /\ PlaceInv /\ TablesInv /\ LatestInv /\ [Next]_vars => LatestInv'
  BY RowsStep, LatestStep
<1>3. LatestInv => LatestRowReported
  BY DEF LatestInv, LatestRowReported, StartsAt, EndsAt, FirstOfFile, LastOfFile
<1> QED
  BY <1>1, <1>2, <1>3, Decoding, PTL DEF Spec

=============================================================================
