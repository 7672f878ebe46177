----------------------------- MODULE Edits_proofs -----------------------------
(***************************************************************************)
(* Lemmas about edits, for all texts: wherever one lands, what it makes of a  *)
(* text is a text; which of MAX's own lines it leaves, where the lines come     *)
(* to stand that it does not replace, and where its own do; and what stays of    *)
(* all that under the edits that come after it.                                   *)
(*                                                                         *)
(* The library states induction for an operator, which the provers cannot     *)
(* instantiate; a set of numbers and its least element serve as well.          *)
(***************************************************************************)
EXTENDS Patcher, SequenceTheorems, FiniteSetTheorems, NaturalsInduction,
        WellFoundedInduction, TLAPS

-----------------------------------------------------------------------------
(* Least and greatest numbers.                                             *)

LEMMA HasLeast ==
    ASSUME NEW T \in SUBSET Nat, T # {}
    PROVE  \E x \in T : \A y \in T : x <= y
<1>1. PICK x \in T : \A y \in T : <<y, x>> \notin OpToRel(<, Nat)
  BY NatLessThanWellFounded, WFMin
<1>2. \A y \in T : ~(y < x)
  BY <1>1 DEF OpToRel
<1> QED
  BY <1>2

LEMMA HasGreatest ==
    ASSUME NEW b \in Nat, NEW T \in SUBSET (0..b), T # {}
    PROVE  \E x \in T : \A y \in T : y <= x
<1> DEFINE U == {b - x : x \in T}
<1>1. U \in SUBSET Nat /\ U # {}
  <2>1. \A x \in T : b - x \in Nat
    OBVIOUS
  <2>2. PICK x \in T : TRUE
    OBVIOUS
  <2>3. b - x \in U
    OBVIOUS
  <2> QED
    BY <2>1, <2>3
<1>2. PICK u \in U : \A v \in U : u <= v
  <2> HIDE DEF U
  <2> QED
    BY <1>1, HasLeast
<1>3. PICK x \in T : u = b - x
  OBVIOUS
<1>4. ASSUME NEW y \in T
      PROVE  y <= x
  <2>1. b - y \in U
    OBVIOUS
  <2>2. b - x <= b - y
    BY <1>2, <1>3, <2>1
  <2> QED
    BY <2>2
<1> QED
  BY <1>4

LEMMA MaxProps ==
    ASSUME NEW b \in Nat, NEW T \in SUBSET (0..b), T # {}
    PROVE  Max(T) \in T /\ \A y \in T : y <= Max(T)
<1>1. \E x \in T : \A y \in T : x >= y
  BY HasGreatest
<1>2. Max(T) \in T /\ \A y \in T : Max(T) >= y
  BY <1>1 DEF Max
<1> QED
  BY <1>2

LEMMA MinProps ==
    ASSUME NEW T \in SUBSET Nat, T # {}
    PROVE  Min(T) \in T /\ \A y \in T : Min(T) <= y
<1>1. \E x \in T : \A y \in T : x <= y
  BY HasLeast
<1> QED
  BY <1>1 DEF Min

-----------------------------------------------------------------------------
(* A fold is a function of the sets of positions.                          *)

\* g gives what comes of the positions in a set, the last of them applied last.
FoldOf(g, n, D, base, F) ==
    /\ g \in [SUBSET (1..n) -> D]
    /\ g[{}] = base
    /\ \A s \in SUBSET (1..n) : s # {} => g[s] = F[<<g[s \ {Max(s)}], Max(s)>>]

LEMMA MaxOfPositions ==
    ASSUME NEW n \in Nat, NEW s \in SUBSET (1..n), s # {}
    PROVE  Max(s) \in s /\ \A y \in s : y <= Max(s)
<1>1. s \in SUBSET (0..n)
  OBVIOUS
<1> QED
  BY <1>1, MaxProps

LEMMA NothingFolds ==
    ASSUME NEW D, NEW base \in D, NEW F
    PROVE  \E g : FoldOf(g, 0, D, base, F)
<1>1. SUBSET (1..0) = {{}}
  OBVIOUS
<1>2. FoldOf([s \in {{}} |-> base], 0, D, base, F)
  BY <1>1 DEF FoldOf
<1> QED
  BY <1>2

LEMMA OneMoreFolds ==
    ASSUME NEW k \in Nat, NEW D, NEW base,
           NEW F, \A x \in D, i \in 1 .. k + 1 : F[<<x, i>>] \in D,
           NEW h, FoldOf(h, k, D, base, F)
    PROVE  \E g : FoldOf(g, k + 1, D, base, F)
<1> DEFINE m == k + 1
           g == [s \in SUBSET (1..m) |-> IF m \in s THEN F[<<h[s \ {m}], m>>] ELSE h[s]]
<1>1. m \in Nat /\ m \in 1..m /\ \A x \in D, i \in 1..m : F[<<x, i>>] \in D
  OBVIOUS
<1>2. \A s \in SUBSET (1..m) : s \ {m} \in SUBSET (1..k)
  OBVIOUS
<1>3. /\ h \in [SUBSET (1..k) -> D] /\ h[{}] = base
      /\ \A s \in SUBSET (1..k) : s # {} => h[s] = F[<<h[s \ {Max(s)}], Max(s)>>]
  BY DEF FoldOf
<1> HIDE DEF m
<1>4. ASSUME NEW s \in SUBSET (1..m), m \notin s
      PROVE  s \in SUBSET (1..k)
  BY <1>2, <1>4
<1>5. g[{}] = base
  BY <1>3
<1>6. ASSUME NEW s \in SUBSET (1..m)
      PROVE  g[s] \in D
  <2>1. CASE m \in s
    <3>1. h[s \ {m}] \in D
      BY <1>2, <1>3
    <3> QED
      BY <1>1, <2>1, <3>1
  <2>2. CASE m \notin s
    BY <1>3, <1>4, <2>2
  <2> QED
    BY <2>1, <2>2
<1>7. ASSUME NEW s \in SUBSET (1..m), s # {}
      PROVE  g[s] = F[<<g[s \ {Max(s)}], Max(s)>>]
  <2>1. Max(s) \in s /\ \A y \in s : y <= Max(s)
    BY <1>1, <1>7, MaxOfPositions
  <2>2. CASE m \in s
    <3>1. Max(s) = m
      <4>1. Max(s) \in 1..m /\ m <= Max(s)
        BY <2>1, <2>2
      <4> QED
        BY <1>1, <4>1
    <3>2. s \ {m} \in SUBSET (1..m) /\ m \notin s \ {m}
      OBVIOUS
    <3>3. g[s \ {m}] = h[s \ {m}]
      BY <3>2
    <3> QED
      BY <2>2, <3>1, <3>3
  <2>3. CASE m \notin s
    <3>1. s \ {Max(s)} \in SUBSET (1..m) /\ m \notin s \ {Max(s)}
      BY <2>3
    <3>2. g[s \ {Max(s)}] = h[s \ {Max(s)}] /\ g[s] = h[s]
      BY <2>3, <3>1
    <3>3. h[s] = F[<<h[s \ {Max(s)}], Max(s)>>]
      BY <1>3, <1>4, <1>7, <2>3
    <3> QED
      BY <3>2, <3>3
  <2> QED
    BY <2>2, <2>3
<1>8. g \in [SUBSET (1..m) -> D]
  BY <1>6
<1> HIDE DEF g
<1>9. FoldOf(g, m, D, base, F)
  BY <1>5, <1>7, <1>8 DEF FoldOf
<1> QED
  BY <1>9 DEF m

LEMMA FoldExists ==
    ASSUME NEW n \in Nat, NEW D, NEW base \in D,
           NEW F, \A x \in D, i \in 1..n : F[<<x, i>>] \in D
    PROVE  \E g : FoldOf(g, n, D, base, F)
<1> DEFINE T == {m \in 0..n : ~ \E g : FoldOf(g, m, D, base, F)}
<1>1. CASE T # {}
  <2>1. PICK m \in T : \A k \in T : m <= k
    <3>1. T \in SUBSET Nat
      OBVIOUS
    <3> HIDE DEF T
    <3> QED
      BY <1>1, <3>1, HasLeast
  <2>2. m # 0
    BY NothingFolds
  <2>3. PICK k \in Nat : m = k + 1 /\ k \in 0..n
    <3>1. m - 1 \in Nat /\ m = (m - 1) + 1 /\ m - 1 \in 0..n
      BY <2>2
    <3> QED
      BY <3>1
  <2>4. k \notin T
    <3> HIDE DEF T
    <3>1. ~(k + 1 <= k)
      OBVIOUS
    <3> QED
      BY <2>1, <2>3, <3>1
  <2>5. PICK h : FoldOf(h, k, D, base, F)
    BY <2>3, <2>4
  <2>6. \A x \in D, i \in 1 .. k + 1 : F[<<x, i>>] \in D
    <3>1. \A i \in 1 .. k + 1 : i \in 1..n
      BY <2>3
    <3> QED
      BY <3>1
  <2>7. \E g : FoldOf(g, k + 1, D, base, F)
    BY <2>5, <2>6, OneMoreFolds
  <2> QED
    BY <2>3, <2>7
<1>2. CASE T = {}
  <2>1. n \in 0..n
    OBVIOUS
  <2> QED
    BY <1>2, <2>1
<1> QED
  BY <1>1, <1>2

TakesSteps(t, n, D, base, F) ==
    /\ t \in [0..n -> D]
    /\ t[0] = base
    /\ \A i \in 1..n : t[i] = F[<<t[i - 1], i>>]

Reaches(t, n, g) == t[n] = g[1..n]

\* Read along the positions, it starts from the base and takes one step after the other.
LEMMA FoldSteps ==
    ASSUME NEW n \in Nat, NEW D, NEW base \in D,
           NEW F, \A x \in D, i \in 1..n : F[<<x, i>>] \in D,
           NEW g, FoldOf(g, n, D, base, F)
    PROVE  \E t : TakesSteps(t, n, D, base, F) /\ Reaches(t, n, g)
<1> DEFINE t == [i \in 0..n |-> g[1..i]]
<1>1. t \in [0..n -> D]
  <2>1. \A i \in 0..n : 1..i \in SUBSET (1..n)
    OBVIOUS
  <2> QED
    BY <2>1 DEF FoldOf
<1>2. t[0] = base
  <2>1. 1..0 = {}
    OBVIOUS
  <2> QED
    BY <2>1 DEF FoldOf
<1>3. ASSUME NEW i \in 1..n
      PROVE  t[i] = F[<<t[i - 1], i>>]
  <2>1. 1..i \in SUBSET (1..n) /\ 1..i # {} /\ i \in Nat
    OBVIOUS
  <2>2. Max(1..i) = i
    <3>1. Max(1..i) \in 1..i /\ \A y \in 1..i : y <= Max(1..i)
      BY <2>1, MaxOfPositions
    <3> QED
      BY <3>1
  <2>3. (1..i) \ {i} = 1 .. i - 1 /\ i - 1 \in 0..n
    OBVIOUS
  <2>4. g[1..i] = F[<<g[1 .. i - 1], i>>]
    BY <2>1, <2>2, <2>3 DEF FoldOf
  <2> QED
    BY <2>3, <2>4
<1>4. Reaches(t, n, g)
  BY DEF Reaches
<1> HIDE DEF t
<1>5. TakesSteps(t, n, D, base, F)
  BY <1>1, <1>2, <1>3 DEF TakesSteps
<1> QED
  BY <1>4, <1>5

\* Where c has come to what g has, it takes the same step.
Follows(c, g, n, base, F) ==
    /\ c[{}] = base
    /\ \A s \in SUBSET (1..n) : (s # {} /\ c[s \ {Max(s)}] = g[s \ {Max(s)}])
           => c[s] = F[<<g[s \ {Max(s)}], Max(s)>>]

\* Two functions that take the same steps come to the same.
LEMMA FoldUnique ==
    ASSUME NEW n \in Nat, NEW D, NEW base, NEW F, NEW g, FoldOf(g, n, D, base, F),
           NEW c, Follows(c, g, n, base, F)
    PROVE  c[1..n] = g[1..n]
<1> DEFINE T == {i \in 0..n : c[1..i] # g[1..i]}
<1>1. CASE T # {}
  <2>1. PICK m \in T : \A k \in T : m <= k
    <3>1. T \in SUBSET Nat
      OBVIOUS
    <3> HIDE DEF T
    <3> QED
      BY <1>1, <3>1, HasLeast
  <2>2. m # 0
    <3>1. 1..0 = {}
      OBVIOUS
    <3> QED
      BY <3>1 DEF FoldOf, Follows
  <2>3. m - 1 \in 0..n /\ m \in 1..n /\ m \in Nat
    BY <2>2
  <2>4. c[1 .. m - 1] = g[1 .. m - 1]
    <3>1. m - 1 \notin T
      <4> HIDE DEF T
      <4> QED
        BY <2>1, <2>3
    <3> QED
      BY <2>3, <3>1
  <2>5. 1..m \in SUBSET (1..n) /\ 1..m # {}
    <3>1. m \in 1..m /\ \A i \in 1..m : i \in 1..n
      BY ONLY <2>3, n \in Nat
    <3> QED
      BY ONLY <3>1
  <2>6. Max(1..m) = m
    <3>1. Max(1..m) \in 1..m /\ \A y \in 1..m : y <= Max(1..m)
      BY <2>3, <2>5, MaxOfPositions
    <3> QED
      BY <2>3, <3>1
  <2>7. (1..m) \ {m} = 1 .. m - 1
    BY <2>3
  <2>8. c[1..m] = F[<<g[1 .. m - 1], m>>]
    BY <2>4, <2>5, <2>6, <2>7 DEF Follows
  <2>9. g[1..m] = F[<<g[1 .. m - 1], m>>]
    BY <2>5, <2>6, <2>7 DEF FoldOf
  <2> QED
    BY <2>1, <2>8, <2>9
<1>2. CASE T = {}
  <2>1. n \in 0..n
    OBVIOUS
  <2> QED
    BY <1>2, <2>1
<1> QED
  BY <1>1, <1>2

-----------------------------------------------------------------------------
(* Finding the place of an edit.                                           *)

LEMMA EndIs ==
    ASSUME NEW text \in Seq(Lines), NEW i \in DOMAIN text
    PROVE  End(text, i) \in i .. Len(text)
<1> DEFINE S == {j \in i .. Len(text) : \A k \in i + 1 .. j : text[k].indent > text[i].indent}
<1>1. i \in 1..Len(text) /\ Len(text) \in Nat
  OBVIOUS
<1>2. i \in S /\ S \in SUBSET (1..Len(text))
  BY <1>1
<1>3. Max(S) \in S
  <2> HIDE DEF S
  <2> QED
    BY <1>1, <1>2, MaxOfPositions
<1> QED
  BY <1>3 DEF End

LEMMA InsideIn ==
    ASSUME NEW text \in Seq(Lines), NEW s \in SUBSET DOMAIN text, NEW is
    PROVE  Inside(text, s, is) \in SUBSET DOMAIN text
<1> DEFINE hits == Hits(text, s, is)
<1>1. CASE IsFound(hits, is)
  <2>1. hits \in SUBSET Nat /\ hits # {} /\ hits \subseteq DOMAIN text
    BY <1>1 DEF Hits, IsFound
  <2>2. Min(hits) \in DOMAIN text
    BY <2>1, MinProps
  <2>3. End(text, Min(hits)) \in Min(hits) .. Len(text)
    BY <2>2, EndIs
  <2>4. Min(hits) + 1 .. End(text, Min(hits)) \subseteq DOMAIN text
    BY <2>2, <2>3
  <2> QED
    BY <1>1, <2>4 DEF Inside
<1>2. CASE ~IsFound(hits, is)
  BY <1>2 DEF Inside
<1> QED
  BY <1>1, <1>2

LEMMA ScopeIn ==
    ASSUME NEW text \in Seq(Lines), NEW path \in Seq(Headers)
    PROVE  Scope(text, path) \in SUBSET DOMAIN text
<1> DEFINE D == SUBSET DOMAIN text
           n == Len(path)
           F == [x \in D \X (1..n) |-> Inside(text, x[1], path[x[2]])]
           Is(c) == c = [s \in SUBSET (1..n) |->
                            IF s = {} THEN DOMAIN text
                            ELSE Inside(text, c[s \ {Max(s)}], path[Max(s)])]
           chosen == CHOOSE c : Is(c)
<1>1. Scope(text, path) = chosen[1..n]
  <2>1. DOMAIN path = 1..n
    OBVIOUS
  <2> QED
    BY <2>1 DEF Scope, FoldLeft, MapThenFoldSet
<1>2. n \in Nat /\ DOMAIN text \in D
  OBVIOUS
<1>3. \A x \in D, i \in 1..n : F[<<x, i>>] = Inside(text, x, path[i]) /\ F[<<x, i>>] \in D
  BY InsideIn
<1> HIDE DEF D, F, n
<1>4. PICK g : FoldOf(g, n, D, DOMAIN text, F)
  BY <1>2, <1>3, FoldExists
<1>5. Is(g)
  <2>1. ASSUME NEW s \in SUBSET (1..n), s # {}
        PROVE  g[s] = Inside(text, g[s \ {Max(s)}], path[Max(s)])
    <3>1. Max(s) \in 1..n /\ s \ {Max(s)} \in SUBSET (1..n)
      BY <1>2, <2>1, MaxOfPositions
    <3> QED
      BY <1>3, <1>4, <2>1, <3>1 DEF FoldOf
  <2> QED
    BY <1>4, <2>1 DEF FoldOf
<1> HIDE DEF Is
<1>6. PICK c : c = chosen /\ Is(c)
  BY <1>5
<1> HIDE DEF chosen
<1>7. c[1..n] = g[1..n]
  <2>1. c[{}] = DOMAIN text
    BY <1>6 DEF Is
  <2>2. ASSUME NEW s \in SUBSET (1..n), s # {}, c[s \ {Max(s)}] = g[s \ {Max(s)}]
        PROVE  c[s] = F[<<g[s \ {Max(s)}], Max(s)>>]
    <3>1. Max(s) \in 1..n /\ s \ {Max(s)} \in SUBSET (1..n)
      BY <1>2, <2>2, MaxOfPositions
    <3>2. g[s \ {Max(s)}] \in D
      BY <1>4, <3>1 DEF FoldOf
    <3> QED
      BY <1>3, <1>6, <2>2, <3>1, <3>2 DEF Is
  <2>3. Follows(c, g, n, DOMAIN text, F)
    BY <2>1, <2>2 DEF Follows
  <2> QED
    BY <1>2, <1>4, <2>3, FoldUnique
<1>8. g[1..n] \in D
  BY <1>4 DEF FoldOf
<1> QED
  BY <1>1, <1>6, <1>7, <1>8 DEF D

-----------------------------------------------------------------------------
(* What an edit writes.                                                    *)

Flattens(t, seqs, S) ==
    /\ t \in [0..Len(seqs) -> Seq(S)] /\ t[0] = <<>>
    /\ \A i \in 1..Len(seqs) : t[i] = t[i - 1] \o seqs[i]

\* Sequences are joined one after the other.
LEMMA FlattenSteps ==
    ASSUME NEW S, NEW seqs \in Seq(Seq(S))
    PROVE  \E t : Flattens(t, seqs, S) /\ t[Len(seqs)] = FlattenSeq(seqs)
<1> DEFINE n == Len(seqs)
           D == Seq(S)
           F == [x \in D \X (1..n) |-> x[1] \o seqs[x[2]]]
           Is(f) == f = [i \in 1..n |-> IF i = 1 THEN seqs[i] ELSE f[i - 1] \o seqs[i]]
           chosen == CHOOSE f : Is(f)
<1>1. n \in Nat /\ <<>> \in D /\ \A i \in 1..n : seqs[i] \in D
  OBVIOUS
<1>2. \A x \in D, i \in 1..n : F[<<x, i>>] = x \o seqs[i] /\ F[<<x, i>>] \in D
  BY <1>1, ConcatProperties
<1>3. \A x \in D : <<>> \o x = x
  BY ConcatEmptySeq
<1>4. n # 0 => FlattenSeq(seqs) = chosen[n]
  BY DEF FlattenSeq
<1>5. n = 0 => FlattenSeq(seqs) = <<>>
  BY DEF FlattenSeq
<1> HIDE DEF n, D, F
<1>6. PICK g : FoldOf(g, n, D, <<>>, F)
  BY <1>1, <1>2, FoldExists
<1>7. PICK t : TakesSteps(t, n, D, <<>>, F)
  BY <1>1, <1>2, <1>6, FoldSteps
<1>8. ASSUME NEW i \in 1..n
      PROVE  t[i] = t[i - 1] \o seqs[i]
  <2>1. i - 1 \in 0..n
    BY <1>1
  <2> QED
    BY <1>2, <1>7, <2>1 DEF TakesSteps
<1>9. Flattens(t, seqs, S)
  BY <1>7, <1>8 DEF Flattens, TakesSteps, n, D
<1>10. CASE n = 0
  BY <1>5, <1>7, <1>9, <1>10 DEF n, TakesSteps
<1>11. CASE n # 0
  <2>1. ASSUME 1 \in 1..n
        PROVE  t[1] = seqs[1]
    <3>1. t[1] = t[1 - 1] \o seqs[1]
      BY <1>8, <2>1
    <3>2. t[0] = <<>> /\ 1 - 1 = 0
      BY <1>7 DEF TakesSteps
    <3>3. seqs[1] \in D
      BY <1>1, <2>1
    <3> QED
      BY <1>3, <3>1, <3>2, <3>3
  <2>2. ASSUME NEW i \in 1..n, i # 1
        PROVE  i - 1 \in 1..n
    BY <1>1, <2>2
  <2>3. Is([i \in 1..n |-> t[i]])
    BY <1>8, <2>1, <2>2
  <2> HIDE DEF Is
  <2>4. PICK f : f = chosen /\ Is(f)
    BY <2>3
  <2> HIDE DEF chosen
  <2> DEFINE T == {i \in 1..n : f[i] # t[i]}
  <2>5. CASE T # {}
    <3>1. PICK m \in T : \A k \in T : m <= k
      <4>1. T \in SUBSET Nat
        OBVIOUS
      <4> HIDE DEF T
      <4> QED
        BY <2>5, <4>1, HasLeast
    <3>2. m # 1
      BY <1>1, <2>1, <2>4, <3>1 DEF Is
    <3>3. m - 1 \in 1..n /\ m \in 1..n /\ ~(m <= m - 1)
      BY <1>1, <3>1, <3>2
    <3>4. f[m - 1] = t[m - 1]
      <4>1. m - 1 \notin T
        <5> HIDE DEF T
        <5> QED
          BY <3>1, <3>3
      <4> QED
        BY <3>3, <4>1
    <3>5. f[m] = f[m - 1] \o seqs[m]
      BY <2>4, <3>2, <3>3 DEF Is
    <3> QED
      BY <1>8, <3>1, <3>3, <3>4, <3>5
  <2>6. CASE T = {}
    <3>1. n \in 1..n
      BY <1>1, <1>11
    <3> QED
      BY <1>4, <1>9, <1>11, <2>4, <2>6, <3>1 DEF n
  <2> QED
    BY <2>5, <2>6
<1> QED
  BY <1>10, <1>11

LEMMA FlattenIn ==
    ASSUME NEW S, NEW seqs \in Seq(Seq(S))
    PROVE  FlattenSeq(seqs) \in Seq(S)
<1>1. PICK t : Flattens(t, seqs, S) /\ t[Len(seqs)] = FlattenSeq(seqs)
  BY FlattenSteps
<1>2. Len(seqs) \in 0..Len(seqs)
  OBVIOUS
<1> QED
  BY <1>1, <1>2 DEF Flattens

LEMMA ReindentIn ==
    ASSUME NEW lines \in Seq(Lines), NEW by \in Nat
    PROVE  Reindent(lines, by) \in Seq(Lines)
<1>1. ASSUME NEW i \in DOMAIN lines
      PROVE  Line(lines[i].indent + by, lines[i].is) \in Lines
  <2>1. lines[i] \in Lines
    OBVIOUS
  <2>2. lines[i].indent \in Nat /\ lines[i].is \in Words
    BY <2>1 DEF Lines
  <2> QED
    BY <2>2 DEF Line, Lines
<1>2. Len(lines) \in Nat /\ DOMAIN lines = 1..Len(lines)
  OBVIOUS
<1>3. Reindent(lines, by) \in [1..Len(lines) -> Lines]
  BY <1>1, <1>2 DEF Reindent
<1> QED
  BY <1>2, <1>3, SeqDef

LEMMA FillIn ==
    ASSUME NEW new \in Seq(Lines), NEW original \in Seq(Lines), NEW base \in Nat
    PROVE  Fill(new, original, base) \in Seq(Lines)
<1> DEFINE pieces == [i \in DOMAIN new |->
                         IF new[i].is = "original" THEN Reindent(original, new[i].indent)
                         ELSE Reindent(<<new[i]>>, base)]
<1>1. Len(new) \in Nat /\ DOMAIN new = 1..Len(new)
  OBVIOUS
<1>2. ASSUME NEW i \in DOMAIN new
      PROVE  pieces[i] \in Seq(Lines)
  <2>1. new[i] \in Lines
    OBVIOUS
  <2>2. new[i].indent \in Nat /\ <<new[i]>> \in Seq(Lines)
    BY <2>1 DEF Lines
  <2> QED
    BY <2>2, ReindentIn
<1>3. pieces \in [1..Len(new) -> Seq(Lines)]
  BY <1>1, <1>2
<1>4. pieces \in Seq(Seq(Lines))
  BY <1>1, <1>3, SeqDef
<1> HIDE DEF pieces
<1>5. FlattenSeq(pieces) \in Seq(Lines)
  BY <1>4, FlattenIn
<1> QED
  BY <1>5 DEF Fill, pieces

-----------------------------------------------------------------------------
(* An edit.                                                                *)

Texts == Seq(Lines) \cup {NotFound}

EditOK(e) ==
    /\ e.new \in Seq(Lines)
    /\ e.how \in {"end", "top", "before", "replace", "start", "body", "header", "after",
                  "counts", "here", "around"}
    /\ e.how \notin {"end", "top"} => e.path \in Seq(Headers)
    /\ e.how = "around" => e.after \in Seq(Lines)
    /\ e.how = "body" => e.find \in Headers

\* The lines first .. last of a text, or the place before first.
IsSpan(text, first, last) == first \in 1 .. Len(text) + 1 /\ last \in first - 1 .. Len(text)

\* Where the lines of a text are once first .. last are replaced by new.
Spliced(text, first, last, new, out) ==
    /\ out \in Seq(Lines) /\ Len(out) = Len(text) + Len(new) - (last + 1 - first)
    /\ \A i \in 1 .. first - 1 : out[i] = text[i]
    /\ \A i \in 1 .. Len(new) : out[first - 1 + i] = new[i]
    /\ \A i \in last + 1 .. Len(text) : out[i + Len(new) - (last + 1 - first)] = text[i]

LEMMA ReplaceLinesAt ==
    ASSUME NEW text \in Seq(Lines), NEW new \in Seq(Lines), NEW first, NEW last,
           IsSpan(text, first, last)
    PROVE  Spliced(text, first, last, new, ReplaceLines(text, first, last, new))
<1> DEFINE head == SubSeq(text, 1, first - 1)
           tail == SubSeq(text, last + 1, Len(text))
           start == head \o new
           out == start \o tail
<1>1. /\ Len(text) \in Nat /\ first \in Nat /\ last \in Nat /\ DOMAIN text = 1..Len(text)
      /\ last <= Len(text) /\ first - 1 <= last /\ first - 1 \in Nat
      /\ \A i \in 1..Len(text) : text[i] \in Lines
  BY DEF IsSpan
<1>2. /\ head \in Seq(Lines) /\ Len(head) = first - 1
      /\ \A i \in 1 .. first - 1 : head[i] = text[i]
  <2>1. \A i \in 1 .. first - 1 : text[i] \in Lines
    BY <1>1
  <2>2. 1 \in Int /\ first - 1 \in Int
    BY <1>1
  <2>3. head \in Seq(Lines)
    BY <2>1, <2>2, SubSeqProperties
  <2>4. Len(head) = IF 1 <= first - 1 THEN first - 1 - 1 + 1 ELSE 0
    BY <2>1, <2>2, SubSeqProperties
  <2>5. \A i \in 1 .. first - 1 - 1 + 1 : head[i] = text[1 + i - 1]
    BY <2>1, <2>2, SubSeqProperties
  <2> HIDE DEF head
  <2>6. Len(head) = first - 1
    <3>1. PICK f \in Nat : f = first /\ f - 1 \in Nat
      BY <1>1
    <3>2. (IF 1 <= f - 1 THEN f - 1 - 1 + 1 ELSE 0) = f - 1
      BY <3>1
    <3> QED
      BY <2>4, <3>1, <3>2
  <2>7. ASSUME NEW i \in 1 .. first - 1
        PROVE  head[i] = text[i]
    <3>1. i \in 1 .. first - 1 - 1 + 1 /\ 1 + i - 1 = i
      BY <1>1
    <3> QED
      BY <2>5, <3>1
  <2> QED
    BY <2>3, <2>6, <2>7
<1>3. /\ tail \in Seq(Lines) /\ Len(tail) = Len(text) - last
      /\ \A i \in last + 1 .. Len(text) : tail[i - last] = text[i]
  <2>1. \A i \in last + 1 .. Len(text) : text[i] \in Lines
    BY <1>1
  <2>2. last + 1 \in Int /\ Len(text) \in Int
    BY <1>1
  <2>3. tail \in Seq(Lines)
    BY <2>1, <2>2, SubSeqProperties
  <2>4. Len(tail) = IF last + 1 <= Len(text) THEN Len(text) - (last + 1) + 1 ELSE 0
    BY <2>1, <2>2, SubSeqProperties
  <2>5. \A i \in 1 .. Len(text) - (last + 1) + 1 : tail[i] = text[last + 1 + i - 1]
    BY <2>1, <2>2, SubSeqProperties
  <2> HIDE DEF tail
  <2>6. Len(tail) = Len(text) - last
    <3>1. PICK a \in Nat, b \in Nat : a = Len(text) /\ b = last /\ b <= a
      BY <1>1
    <3>2. (IF b + 1 <= a THEN a - (b + 1) + 1 ELSE 0) = a - b
      BY <3>1
    <3> QED
      BY <2>4, <3>1, <3>2
  <2>7. ASSUME NEW i \in last + 1 .. Len(text)
        PROVE  tail[i - last] = text[i]
    <3>1. i - last \in 1 .. Len(text) - (last + 1) + 1 /\ last + 1 + (i - last) - 1 = i
      BY <1>1
    <3> QED
      BY <2>5, <3>1
  <2> QED
    BY <2>3, <2>6, <2>7
<1> HIDE DEF head, tail
<1>4. /\ start \in Seq(Lines) /\ Len(start) = Len(head) + Len(new)
      /\ \A i \in 1 .. Len(head) + Len(new) :
            start[i] = IF i <= Len(head) THEN head[i] ELSE new[i - Len(head)]
  BY <1>2, ConcatProperties
<1> HIDE DEF start
<1>5. /\ out \in Seq(Lines) /\ Len(out) = Len(start) + Len(tail)
      /\ \A i \in 1 .. Len(start) + Len(tail) :
            out[i] = IF i <= Len(start) THEN start[i] ELSE tail[i - Len(start)]
  <2>1. start \in Seq(Lines) /\ tail \in Seq(Lines)
    BY <1>3, <1>4
  <2> QED
    BY ONLY <2>1, ConcatProperties
<1>6. ReplaceLines(text, first, last, new) = out
  BY DEF ReplaceLines, head, tail, start
<1> HIDE DEF out
<1>7. PICK a \in Nat, b \in Nat, f \in Nat, n \in Nat :
         /\ a = Len(text) /\ b = last /\ f = first /\ n = Len(new)
         /\ f - 1 \in Nat /\ b <= a /\ f - 1 <= b
         /\ Len(head) = f - 1 /\ Len(tail) = a - b /\ Len(start) = f - 1 + n
         /\ Len(out) = f - 1 + n + (a - b)
  <2>1. Len(new) \in Nat /\ first - 1 \in Nat
    BY <1>1
  <2>2. Len(out) = first - 1 + Len(new) + (Len(text) - last)
    BY <1>2, <1>3, <1>4, <1>5
  <2> QED
    BY <1>1, <1>2, <1>3, <1>4, <2>1, <2>2
<1>8. ASSUME NEW i \in 1 .. first - 1
      PROVE  out[i] = text[i]
  <2>1. i \in 1 .. Len(head) + Len(new) /\ i <= Len(head) /\ i <= Len(start)
        /\ i \in 1 .. Len(start) + Len(tail)
    BY ONLY <1>7, <1>8
  <2> QED
    BY <1>2, <1>4, <1>5, <1>8, <2>1
<1>9. ASSUME NEW i \in 1 .. Len(new)
      PROVE  out[first - 1 + i] = new[i]
  <2> DEFINE j == first - 1 + i
  <2>1. /\ j \in 1 .. Len(head) + Len(new) /\ ~(j <= Len(head)) /\ j <= Len(start)
        /\ j \in 1 .. Len(start) + Len(tail) /\ j - Len(head) = i
    BY ONLY <1>7, <1>9
  <2> HIDE DEF j
  <2>2. out[j] = new[i]
    BY <1>4, <1>5, <2>1
  <2> QED
    BY <2>2 DEF j
<1>10. ASSUME NEW i \in last + 1 .. Len(text)
       PROVE  out[i + Len(new) - (last + 1 - first)] = text[i]
  <2> DEFINE j == i + Len(new) - (last + 1 - first)
  <2>1. /\ ~(j <= Len(start)) /\ j - Len(start) = i - last
        /\ j \in 1 .. Len(start) + Len(tail)
    BY ONLY <1>7, <1>10
  <2> HIDE DEF j
  <2>2. out[j] = text[i]
    BY <1>3, <1>5, <1>10, <2>1
  <2> QED
    BY <2>2 DEF j
<1>11. Len(out) = Len(text) + Len(new) - (last + 1 - first)
  BY ONLY <1>7
<1> QED
  BY <1>5, <1>6, <1>8, <1>9, <1>10, <1>11 DEF Spliced

LEMMA ReplaceLinesIn ==
    ASSUME NEW text \in Seq(Lines), NEW new \in Seq(Lines), NEW first, NEW last,
           IsSpan(text, first, last)
    PROVE  /\ ReplaceLines(text, first, last, new) \in Seq(Lines)
           /\ Len(ReplaceLines(text, first, last, new)) >= Len(text) - (last + 1 - first)
           /\ \A i \in DOMAIN text : i \notin first .. last =>
                 \E j \in DOMAIN ReplaceLines(text, first, last, new) :
                    ReplaceLines(text, first, last, new)[j] = text[i]
<1>1. PICK out : out = ReplaceLines(text, first, last, new)
  OBVIOUS
<1>2. Spliced(text, first, last, new, out)
  BY <1>1, ReplaceLinesAt
<1>3. PICK n \in Nat, m \in Nat, f \in Nat, b \in Int :
         n = Len(text) /\ m = Len(new) /\ f = first /\ b = last /\ f >= 1 /\ b >= f - 1 /\ b <= n
  BY DEF IsSpan
<1>4. Len(out) \in Nat /\ Len(out) = n + m - (b + 1 - f) /\ DOMAIN out = 1..Len(out)
  BY <1>2, <1>3 DEF Spliced
<1>5. ASSUME NEW i \in DOMAIN text, i \notin first .. last
      PROVE  \E j \in DOMAIN out : out[j] = text[i]
  <2>1. i \in 1..n
    BY <1>3
  <2>2. CASE i < f
    <3>1. i \in 1 .. first - 1 /\ i \in DOMAIN out
      BY <1>3, <1>4, <2>1, <2>2
    <3> QED
      BY <1>2, <3>1 DEF Spliced
  <2>3. CASE i > b
    <3> DEFINE j == i + Len(new) - (last + 1 - first)
    <3>1. i \in last + 1 .. Len(text) /\ j \in DOMAIN out
      BY <1>3, <1>4, <2>1, <2>3
    <3>2. out[j] = text[i]
      BY <1>2, <3>1 DEF Spliced
    <3> QED
      BY <3>1, <3>2
  <2> QED
    BY <1>3, <1>5, <2>1, <2>2, <2>3
<1> QED
  BY <1>1, <1>2, <1>3, <1>4, <1>5 DEF Spliced

LEMMA PlaceIn ==
    ASSUME NEW text \in Seq(Lines), NEW e, e.path \in Seq(Headers), Found(text, e)
    PROVE  Place(text, e) \in DOMAIN text /\ text[Place(text, e)].is = e.find
<1> DEFINE hits == Hits(text, Scope(text, e.path), e.find)
<1>1. Scope(text, e.path) \in SUBSET DOMAIN text
  BY ScopeIn
<1>2. hits \in SUBSET Nat /\ hits # {} /\ hits \subseteq DOMAIN text
  BY <1>1 DEF Hits, Found, IsFound
<1>3. Min(hits) \in hits
  BY <1>2, MinProps
<1> QED
  BY <1>2, <1>3 DEF Place, Hits

LEMMA LastCountIs ==
    ASSUME NEW text \in Seq(Lines), NEW i \in DOMAIN text
    PROVE  /\ LastCount(text, i) \in i .. Len(text)
           /\ \A k \in i + 1 .. LastCount(text, i) : text[k].is \in {"sum", "assert"}
<1> DEFINE S == {j \in i .. Len(text) : \A k \in i + 1 .. j : text[k].is \in {"sum", "assert"}}
<1>1. i \in 1..Len(text) /\ Len(text) \in Nat
  OBVIOUS
<1>2. i \in S /\ S \in SUBSET (1..Len(text))
  BY <1>1
<1>3. Max(S) \in S
  <2> HIDE DEF S
  <2> QED
    BY <1>1, <1>2, MaxOfPositions
<1> QED
  BY <1>3 DEF LastCount

\* The edits that have a span, and the lines it is made of.
Spanning == {"before", "replace", "start", "body", "header", "after", "counts", "here"}

LEMMA SpanIs ==
    ASSUME NEW text \in Seq(Lines), NEW i \in DOMAIN text, NEW how \in Spanning
    PROVE  \E first, last :
              /\ IsSpan(text, first, last)
              /\ Span(text, i, how) = <<first, last>>
              /\ how = "before" => first = i /\ last = i - 1
              /\ how = "header" => first = i /\ last = i
              /\ how = "counts" => first = i /\ last = LastCount(text, i)
              /\ how = "body" => first = i + 1 /\ last = End(text, i)
              /\ how \in {"replace", "here"} => first = i /\ last = End(text, i)
              /\ how = "start" => first = i + 1 /\ last = i
              /\ how = "after" => first = End(text, i) + 1 /\ last = End(text, i)
<1>1. i \in 1..Len(text) /\ Len(text) \in Nat
  OBVIOUS
<1>2. End(text, i) \in i .. Len(text)
  BY EndIs
<1>3. LastCount(text, i) \in i .. Len(text)
  BY LastCountIs
<1>4. CASE how = "before"
  <2>1. Span(text, i, how) = <<i, i - 1>>
    BY <1>4 DEF Span
  <2> QED
    BY <1>1, <1>4, <2>1 DEF IsSpan
<1>5. CASE how \in {"replace", "here"}
  <2>1. Span(text, i, how) = <<i, End(text, i)>>
    BY <1>5 DEF Span
  <2> QED
    BY <1>1, <1>2, <1>5, <2>1 DEF IsSpan
<1>6. CASE how = "header"
  <2>1. Span(text, i, how) = <<i, i>>
    BY <1>6 DEF Span
  <2> QED
    BY <1>1, <1>6, <2>1 DEF IsSpan
<1>7. CASE how = "start"
  <2>1. Span(text, i, how) = <<i + 1, i>>
    BY <1>7 DEF Span
  <2> QED
    BY <1>1, <1>7, <2>1 DEF IsSpan
<1>8. CASE how = "body"
  <2>1. Span(text, i, how) = <<i + 1, End(text, i)>>
    BY <1>8 DEF Span
  <2> QED
    BY <1>1, <1>2, <1>8, <2>1 DEF IsSpan
<1>9. CASE how = "after"
  <2>1. Span(text, i, how) = <<End(text, i) + 1, End(text, i)>>
    BY <1>9 DEF Span
  <2> QED
    BY <1>1, <1>2, <1>9, <2>1 DEF IsSpan
<1>10. CASE how = "counts"
  <2>1. Span(text, i, how) = <<i, LastCount(text, i)>>
    BY <1>10 DEF Span
  <2> QED
    BY <1>1, <1>3, <1>10, <2>1 DEF IsSpan
<1> QED
  BY <1>4, <1>5, <1>6, <1>7, <1>8, <1>9, <1>10 DEF Spanning

LEMMA PartIn ==
    ASSUME NEW text \in Seq(Lines), NEW first \in Nat \ {0}, NEW last \in Int, last <= Len(text)
    PROVE  SubSeq(text, first, last) \in Seq(Lines)
<1>1. \A i \in first .. last : text[i] \in Lines
  <2>1. \A i \in first .. last : i \in 1..Len(text)
    OBVIOUS
  <2> QED
    BY <2>1
<1> QED
  BY <1>1, SubSeqProperties

\* The last statement of a body starts in it: a line that opens a block has one.
LEMMA BodyHasLast ==
    ASSUME NEW text \in Seq(Lines), Compiles(text), NEW i \in DOMAIN text, text[i].is \in Headers
    PROVE  LET S == {j \in i + 1 .. End(text, i) : text[j].indent = text[i + 1].indent}
           IN  Max(S) \in i + 1 .. End(text, i)
<1> DEFINE S == {j \in i + 1 .. End(text, i) : text[j].indent = text[i + 1].indent}
           E == {j \in i .. Len(text) : \A k \in i + 1 .. j : text[k].indent > text[i].indent}
<1>1. i \in 1..Len(text) /\ Len(text) \in Nat
  OBVIOUS
<1>2. i < Len(text) /\ text[i + 1].indent = text[i].indent + 1
  BY DEF Compiles
<1>3. text[i].indent \in Nat
  <2>1. text[i] \in Lines
    OBVIOUS
  <2> QED
    BY <2>1 DEF Lines
<1>4. i + 1 \in E /\ E \in SUBSET (1..Len(text))
  <2>1. i + 1 \in i .. Len(text)
    BY <1>1, <1>2
  <2>2. \A k \in i + 1 .. i + 1 : k = i + 1
    BY <1>1
  <2>3. text[i + 1].indent > text[i].indent
    BY <1>2, <1>3
  <2>4. E \in SUBSET (1..Len(text))
    BY <1>1
  <2> QED
    BY <2>1, <2>2, <2>3, <2>4
<1>5. End(text, i) \in i + 1 .. Len(text)
  <2>1. Max(E) \in E /\ \A y \in E : y <= Max(E)
    <3> HIDE DEF E
    <3> QED
      BY <1>1, <1>4, MaxOfPositions
  <2>2. End(text, i) = Max(E)
    BY DEF End
  <2>3. Max(E) \in i .. Len(text) /\ i + 1 <= Max(E)
    BY <1>4, <2>1
  <2> HIDE DEF E
  <2> QED
    BY <1>1, <2>2, <2>3
<1>6. i + 1 \in S /\ S \in SUBSET (1..Len(text))
  BY <1>1, <1>5
<1>7. Max(S) \in S
  <2> HIDE DEF S
  <2> QED
    BY <1>1, <1>6, MaxOfPositions
<1> QED
  BY <1>7

LEMMA KeptIn ==
    ASSUME NEW text \in Seq(Lines), Compiles(text), NEW i \in DOMAIN text,
           NEW how \in Spanning, how = "body" => text[i].is \in Headers
    PROVE  Kept(text, Span(text, i, how), how) \in Seq(Lines)
<1>1. PICK first, last :
         /\ IsSpan(text, first, last)
         /\ Span(text, i, how) = <<first, last>>
         /\ how = "body" => first = i + 1 /\ last = End(text, i)
  BY SpanIs
<1>2. /\ Len(text) \in Nat /\ first \in Nat \ {0} /\ last \in Int /\ last <= Len(text)
      /\ i \in Nat
  BY <1>1 DEF IsSpan
<1>3. CASE how # "body"
  <2>1. Kept(text, <<first, last>>, how) = SubSeq(text, first, last)
    BY <1>3 DEF Kept
  <2> QED
    BY <1>1, <1>2, <2>1, PartIn
<1>4. CASE how = "body"
  <2> DEFINE S == {j \in i + 1 .. End(text, i) : text[j].indent = text[i + 1].indent}
  <2>1. Max(S) \in i + 1 .. End(text, i)
    BY <1>4, BodyHasLast
  <2>2. Kept(text, <<i + 1, End(text, i)>>, how) = SubSeq(text, Max(S), End(text, i))
    BY <1>4 DEF Kept
  <2>3. PICK m : m = Max(S)
    OBVIOUS
  <2> HIDE DEF S
  <2>4. m \in Nat \ {0}
    BY <1>1, <1>2, <1>4, <2>1, <2>3
  <2>5. SubSeq(text, m, last) \in Seq(Lines)
    BY <1>2, <2>4, PartIn
  <2> QED
    BY <1>1, <1>4, <2>2, <2>3, <2>5
<1> QED
  BY <1>3, <1>4

\* An edit that spans lines puts its own in their place.
LEMMA EditSpans ==
    ASSUME NEW text \in Seq(Lines), text # NotFound, NEW e, EditOK(e), e.how \in Spanning,
           Found(text, e)
    PROVE  \E first, last : \E new \in Seq(Lines) :
              /\ IsSpan(text, first, last)
              /\ Edit(text, e) = ReplaceLines(text, first, last, new)
              /\ Span(text, Place(text, e), e.how) = <<first, last>>
<1>1. PICK i : i = Place(text, e)
  OBVIOUS
<1>2. i \in DOMAIN text /\ text[i].is = e.find /\ text[i] \in Lines
  BY <1>1, PlaceIn DEF EditOK, Spanning
<1>3. PICK first, last : IsSpan(text, first, last) /\ Span(text, i, e.how) = <<first, last>>
  BY <1>2, SpanIs
<1>4. PICK base : base = IF e.how = "here" THEN text[i].indent ELSE 0
  OBVIOUS
<1>5. base \in Nat
  BY <1>2, <1>4 DEF Lines
<1>6. PICK kept : kept = Kept(text, Span(text, i, e.how), e.how)
  OBVIOUS
<1>7. kept \in Seq(Lines)
  BY <1>2, <1>6, KeptIn DEF EditOK, Found
<1>8. PICK new : new = Fill(e.new, kept, base)
  OBVIOUS
<1>9. new \in Seq(Lines)
  BY <1>5, <1>7, <1>8, FillIn DEF EditOK
<1>10. Edit(text, e) = ReplaceLines(text, first, last, new)
  BY <1>1, <1>3, <1>4, <1>6, <1>8 DEF Edit, Spanning
<1> QED
  BY <1>1, <1>3, <1>9, <1>10

LEMMA AroundIn ==
    ASSUME NEW text \in Seq(Lines), NEW i \in DOMAIN text, NEW e, e.new \in Seq(Lines),
           e.after \in Seq(Lines)
    PROVE  AroundAt(text, i, e) \in Seq(Lines)
<1>1. Len(text) \in Nat /\ i \in 1..Len(text)
  OBVIOUS
<1>2. PICK n : n = End(text, i)
  OBVIOUS
<1>3. n \in i .. Len(text)
  BY <1>2, EndIs
<1>4. PICK once : once = ReplaceLines(text, n + 1, n, e.after)
  OBVIOUS
<1>5. IsSpan(text, n + 1, n) /\ n + 1 - (n + 1) = 0
  BY <1>1, <1>3 DEF IsSpan
<1>6. once \in Seq(Lines) /\ Len(once) >= Len(text) - (n + 1 - (n + 1))
  BY <1>4, <1>5, ReplaceLinesIn
<1>7. IsSpan(once, i, i - 1)
  <2>1. Len(once) \in Nat
    BY <1>6
  <2>2. Len(once) >= Len(text)
    BY <1>1, <1>5, <1>6, <2>1
  <2>3. i \in Nat /\ i >= 1 /\ i <= Len(text)
    BY <1>1
  <2> QED
    BY ONLY <1>1, <2>1, <2>2, <2>3 DEF IsSpan
<1>8. ReplaceLines(once, i, i - 1, e.new) \in Seq(Lines)
  BY <1>6, <1>7, ReplaceLinesIn
<1> QED
  BY <1>2, <1>4, <1>8 DEF AroundAt

\* An edit makes a text of a text, or raises.
LEMMA EditIn ==
    ASSUME NEW text \in Texts, NEW e, EditOK(e)
    PROVE  Edit(text, e) \in Texts
<1>1. CASE text = NotFound
  BY <1>1 DEF Edit, Texts
<1>2. CASE text # NotFound /\ e.how = "end"
  <2>1. text \o e.new \in Seq(Lines)
    BY <1>2, ConcatProperties DEF Texts, EditOK
  <2> QED
    BY <1>2, <2>1 DEF Edit, Texts
<1>3. CASE text # NotFound /\ e.how = "top"
  <2>1. e.new \o text \in Seq(Lines)
    BY <1>3, ConcatProperties DEF Texts, EditOK
  <2> QED
    BY <1>3, <2>1 DEF Edit, Texts
<1>4. CASE text # NotFound /\ e.how \notin {"end", "top"} /\ ~Found(text, e)
  BY <1>4 DEF Edit, Texts
<1>5. CASE text # NotFound /\ e.how = "around" /\ Found(text, e)
  <2>1. PICK i : i = Place(text, e)
    OBVIOUS
  <2>2. i \in DOMAIN text
    BY <1>5, <2>1, PlaceIn DEF Texts, EditOK
  <2>3. AroundAt(text, i, e) \in Seq(Lines)
    BY <1>5, <2>2, AroundIn DEF Texts, EditOK
  <2> QED
    BY <1>5, <2>1, <2>3 DEF Edit, Texts
<1>6. CASE text # NotFound /\ e.how \in Spanning /\ Found(text, e)
  <2>1. text \in Seq(Lines)
    BY <1>6 DEF Texts
  <2>2. PICK first, last, new :
           /\ IsSpan(text, first, last) /\ new \in Seq(Lines)
           /\ Edit(text, e) = ReplaceLines(text, first, last, new)
    BY <1>6, <2>1, EditSpans
  <2> QED
    BY <2>1, <2>2, ReplaceLinesIn DEF Texts
<1> QED
  BY <1>1, <1>2, <1>3, <1>4, <1>5, <1>6 DEF EditOK, Spanning

\* The lines that an edit of these kinds replaces are the one it looks for and the sums
\* of a count: every other line is still there.
LEMMA EditKeeps ==
    ASSUME NEW text \in Seq(Lines), text # NotFound, NEW e, EditOK(e),
           e.how \in {"before", "header", "counts"}, Edit(text, e) # NotFound,
           NEW is, is \notin {e.find, "sum", "assert"}, HasLine(text, is)
    PROVE  HasLine(Edit(text, e), is)
<1>1. Found(text, e)
  BY DEF Edit
<1>2. PICK first, last, new :
         /\ IsSpan(text, first, last) /\ new \in Seq(Lines)
         /\ Edit(text, e) = ReplaceLines(text, first, last, new)
         /\ Span(text, Place(text, e), e.how) = <<first, last>>
  BY <1>1, EditSpans DEF Spanning
<1>3. PICK i \in DOMAIN text : text[i].is = is
  BY DEF HasLine
<1>4. PICK p : p = Place(text, e)
  OBVIOUS
<1>5. p \in DOMAIN text /\ text[p].is = e.find
  BY <1>1, <1>4, PlaceIn DEF EditOK
<1>6. PICK a, b :
         /\ Span(text, p, e.how) = <<a, b>>
         /\ e.how = "before" => a = p /\ b = p - 1
         /\ e.how = "header" => a = p /\ b = p
         /\ e.how = "counts" => a = p /\ b = LastCount(text, p)
  BY <1>5, SpanIs DEF Spanning
<1>7. first = a /\ last = b /\ p \in Nat /\ i \in Nat
  BY <1>2, <1>4, <1>5, <1>6
<1>8. \A k \in p + 1 .. LastCount(text, p) : text[k].is \in {"sum", "assert"}
  BY <1>5, LastCountIs
<1>9. i # p /\ i \notin p + 1 .. LastCount(text, p)
  BY <1>3, <1>5, <1>8
<1>10. LastCount(text, p) \in Int
  BY <1>5, LastCountIs
<1>11. i \notin first .. last
  BY <1>6, <1>7, <1>9, <1>10
<1>12. \E j \in DOMAIN Edit(text, e) : Edit(text, e)[j] = text[i]
  BY <1>2, <1>11, ReplaceLinesIn
<1> QED
  BY <1>3, <1>12 DEF HasLine

-----------------------------------------------------------------------------
(* Lists of edits.                                                         *)

\* A list of edits that can be made.
GoodEdits(es) ==
    /\ Len(es) \in Nat /\ DOMAIN es = 1..Len(es) /\ es \in [1..Len(es) -> {es[i] : i \in 1..Len(es)}]
    /\ \A i \in 1..Len(es) : EditOK(es[i])

LEMMA GoodJoin ==
    ASSUME NEW a, GoodEdits(a), NEW b, GoodEdits(b)
    PROVE  /\ GoodEdits(a \o b) /\ Len(a \o b) = Len(a) + Len(b)
           /\ \A i \in 1..Len(a) : (a \o b)[i] = a[i]
           /\ \A i \in Len(a) + 1 .. Len(a \o b) : \E j \in 1..Len(b) : (a \o b)[i] = b[j]
<1> DEFINE S == {a[i] : i \in 1..Len(a)} \cup {b[i] : i \in 1..Len(b)}
           c == a \o b
<1>1. Len(a) \in Nat /\ Len(b) \in Nat /\ \A e \in S : EditOK(e)
  BY DEF GoodEdits
<1>2. a \in Seq(S) /\ b \in Seq(S)
  <2>1. a \in [1..Len(a) -> S] /\ b \in [1..Len(b) -> S]
    BY DEF GoodEdits
  <2> HIDE DEF S
  <2> QED
    BY <1>1, <2>1, SeqDef
<1> HIDE DEF S
<1>3. /\ c \in Seq(S) /\ Len(c) = Len(a) + Len(b)
      /\ \A i \in 1 .. Len(a) + Len(b) : c[i] = IF i <= Len(a) THEN a[i] ELSE b[i - Len(a)]
  BY <1>2, ConcatProperties
<1> HIDE DEF c
<1>4. Len(c) \in Nat /\ DOMAIN c = 1..Len(c) /\ \A i \in 1..Len(c) : c[i] \in S
  BY <1>3
<1>5. c \in [1..Len(c) -> {c[i] : i \in 1..Len(c)}]
  BY <1>3, <1>4
<1>6. GoodEdits(c)
  BY <1>1, <1>4, <1>5 DEF GoodEdits
<1>7. ASSUME NEW i \in 1..Len(a)
      PROVE  c[i] = a[i]
  <2>1. i \in 1 .. Len(a) + Len(b) /\ i <= Len(a)
    BY <1>1
  <2> QED
    BY <1>3, <2>1
<1>8. ASSUME NEW i \in Len(a) + 1 .. Len(c)
      PROVE  \E j \in 1..Len(b) : c[i] = b[j]
  <2>1. /\ i \in 1 .. Len(a) + Len(b) /\ ~(i <= Len(a))
        /\ i - Len(a) \in 1..Len(b)
    BY <1>1, <1>3
  <2>2. c[i] = b[i - Len(a)]
    BY <1>3, <2>1
  <2> QED
    BY <2>1, <2>2
<1> QED
  BY <1>3, <1>6, <1>7, <1>8 DEF c

LEMMA Shapes ==
    ASSUME NEW path \in Seq(Headers), NEW find, NEW new \in Seq(Lines)
    PROVE  /\ EditOK(Before(path, find, new))
           /\ EditOK(Replace(path, find, new))
           /\ EditOK(BodyStart(path, find, new))
           /\ find \in Headers => EditOK(Body(path, find, new))
           /\ EditOK(HeaderOf(path, find, new))
           /\ EditOK(After(path, find, new))
           /\ EditOK(Counts(path, find, new))
           /\ EditOK(ReplaceHere(path, find, new))
           /\ \A after \in Seq(Lines) : EditOK(Around(path, find, new, after))
           /\ EditOK(AtEnd(new))
           /\ EditOK(AtTop(new))
BY DEF EditOK, Before, Replace, BodyStart, Body, HeaderOf, After, Counts, ReplaceHere,
       Around, AtEnd, AtTop

LEMMA LineIn == \A indent \in Nat, is \in Words : Line(indent, is) \in Lines
BY DEF Line, Lines

LEMMA GoodList ==
    ASSUME NEW S, NEW es \in Seq(S), \A e \in S : EditOK(e)
    PROVE  GoodEdits(es)
<1>1. Len(es) \in Nat /\ DOMAIN es = 1..Len(es) /\ \A i \in 1..Len(es) : es[i] \in S
  OBVIOUS
<1>2. es \in [1..Len(es) -> {es[i] : i \in 1..Len(es)}]
  BY <1>1
<1> QED
  BY <1>1, <1>2 DEF GoodEdits

LEMMA Tuples ==
    ASSUME NEW S
    PROVE  /\ <<>> \in Seq(S)
           /\ \A a \in S : <<a>> \in Seq(S)
           /\ \A a, b \in S : <<a, b>> \in Seq(S)
           /\ \A a, b, c \in S : <<a, b, c>> \in Seq(S)
           /\ \A a, b, c, d \in S : <<a, b, c, d>> \in Seq(S)
           /\ \A a, b, c, d, e \in S : <<a, b, c, d, e>> \in Seq(S)
           /\ \A a, b, c, d, e, f \in S : <<a, b, c, d, e, f>> \in Seq(S)
OBVIOUS

LEMMA GoodTuples ==
    /\ GoodEdits(<<>>)
    /\ \A a : EditOK(a) => GoodEdits(<<a>>)
    /\ \A a, b : EditOK(a) /\ EditOK(b) => GoodEdits(<<a, b>>)
    /\ \A a, b, c : EditOK(a) /\ EditOK(b) /\ EditOK(c) => GoodEdits(<<a, b, c>>)
    /\ \A a, b, c, d, e, f :
          EditOK(a) /\ EditOK(b) /\ EditOK(c) /\ EditOK(d) /\ EditOK(e) /\ EditOK(f)
              => GoodEdits(<<a, b, c, d, e, f>>)
<1>1. GoodEdits(<<>>)
  BY DEF GoodEdits
<1>2. ASSUME NEW a,
             EditOK(a)
      PROVE  GoodEdits(<<a>>)
  <2> DEFINE S == {a}
             es == <<a>>
  <2>1. es \in Seq(S)
    BY Tuples
  <2>2. \A x \in S : EditOK(x)
    BY <1>2
  <2> HIDE DEF S, es
  <2>3. GoodEdits(es)
    BY <2>1, <2>2, GoodList
  <2> QED
    BY <2>3 DEF es
<1>3. ASSUME NEW a, NEW b,
             EditOK(a), EditOK(b)
      PROVE  GoodEdits(<<a, b>>)
  <2> DEFINE S == {a, b}
             es == <<a, b>>
  <2>1. es \in Seq(S)
    BY Tuples
  <2>2. \A x \in S : EditOK(x)
    BY <1>3
  <2> HIDE DEF S, es
  <2>3. GoodEdits(es)
    BY <2>1, <2>2, GoodList
  <2> QED
    BY <2>3 DEF es
<1>4. ASSUME NEW a, NEW b, NEW c,
             EditOK(a), EditOK(b), EditOK(c)
      PROVE  GoodEdits(<<a, b, c>>)
  <2> DEFINE S == {a, b, c}
             es == <<a, b, c>>
  <2>1. es \in Seq(S)
    BY Tuples
  <2>2. \A x \in S : EditOK(x)
    BY <1>4
  <2> HIDE DEF S, es
  <2>3. GoodEdits(es)
    BY <2>1, <2>2, GoodList
  <2> QED
    BY <2>3 DEF es
<1>5. ASSUME NEW a, NEW b, NEW c, NEW d, NEW e, NEW f,
             EditOK(a), EditOK(b), EditOK(c), EditOK(d), EditOK(e), EditOK(f)
      PROVE  GoodEdits(<<a, b, c, d, e, f>>)
  <2> DEFINE S == {a, b, c, d, e, f}
             es == <<a, b, c, d, e, f>>
  <2>1. es \in Seq(S)
    BY Tuples
  <2>2. \A x \in S : EditOK(x)
    BY <1>5
  <2> HIDE DEF S, es
  <2>3. GoodEdits(es)
    BY <2>1, <2>2, GoodList
  <2> QED
    BY <2>3 DEF es
<1> QED
  BY <1>1, <1>2, <1>3, <1>4, <1>5

LEMMA EndShapes == \A new \in Seq(Lines) : EditOK(AtEnd(new)) /\ EditOK(AtTop(new))
BY DEF EditOK, AtEnd, AtTop

LEMMA IfGood ==
    ASSUME NEW c, NEW es, GoodEdits(es)
    PROVE  GoodEdits(If(c, es))
<1>1. CASE c
  BY <1>1 DEF If
<1>2. CASE ~c
  BY <1>2, GoodTuples DEF If
<1> QED
  BY <1>1, <1>2

-----------------------------------------------------------------------------
(* A list of edits is made one after the other.                            *)

RunOf(t, text, es) ==
    /\ t \in [0..Len(es) -> Texts] /\ t[0] = text
    /\ \A i \in 1..Len(es) : t[i] = Edit(t[i - 1], es[i])

LEMMA EditsRun ==
    ASSUME NEW text \in Texts, NEW es, GoodEdits(es)
    PROVE  \E t : RunOf(t, text, es) /\ t[Len(es)] = FoldLeft(Edit, text, es)
<1> DEFINE n == Len(es)
           F == [x \in Texts \X (1..n) |-> Edit(x[1], es[x[2]])]
           Is(c) == c = [s \in SUBSET (1..n) |->
                            IF s = {} THEN text ELSE Edit(c[s \ {Max(s)}], es[Max(s)])]
           chosen == CHOOSE c : Is(c)
<1>1. FoldLeft(Edit, text, es) = chosen[1..n]
  <2>1. DOMAIN es = 1..n
    BY DEF GoodEdits
  <2> QED
    BY <2>1 DEF FoldLeft, MapThenFoldSet
<1>2. n \in Nat /\ \A i \in 1..n : EditOK(es[i])
  BY DEF GoodEdits
<1>3. \A x \in Texts, i \in 1..n : F[<<x, i>>] = Edit(x, es[i]) /\ F[<<x, i>>] \in Texts
  BY <1>2, EditIn
<1> HIDE DEF F, n
<1>4. PICK g : FoldOf(g, n, Texts, text, F)
  BY <1>2, <1>3, FoldExists
<1>5. Is(g)
  <2>1. ASSUME NEW s \in SUBSET (1..n), s # {}
        PROVE  g[s] = Edit(g[s \ {Max(s)}], es[Max(s)])
    <3>1. Max(s) \in 1..n /\ s \ {Max(s)} \in SUBSET (1..n)
      BY <1>2, <2>1, MaxOfPositions
    <3> QED
      BY <1>3, <1>4, <2>1, <3>1 DEF FoldOf
  <2> QED
    BY <1>4, <2>1 DEF FoldOf
<1> HIDE DEF Is
<1>6. PICK c : c = chosen /\ Is(c)
  BY <1>5
<1> HIDE DEF chosen
<1>7. c[1..n] = g[1..n]
  <2>1. c[{}] = text
    BY <1>6 DEF Is
  <2>2. ASSUME NEW s \in SUBSET (1..n), s # {}, c[s \ {Max(s)}] = g[s \ {Max(s)}]
        PROVE  c[s] = F[<<g[s \ {Max(s)}], Max(s)>>]
    <3>1. Max(s) \in 1..n /\ s \ {Max(s)} \in SUBSET (1..n)
      BY <1>2, <2>2, MaxOfPositions
    <3>2. g[s \ {Max(s)}] \in Texts
      BY <1>4, <3>1 DEF FoldOf
    <3>3. c[s] = Edit(c[s \ {Max(s)}], es[Max(s)])
      BY <1>6, <2>2 DEF Is
    <3>4. F[<<g[s \ {Max(s)}], Max(s)>>] = Edit(g[s \ {Max(s)}], es[Max(s)])
      BY <1>3, <3>1, <3>2
    <3> QED
      BY <2>2, <3>3, <3>4
  <2>3. Follows(c, g, n, text, F)
    BY <2>1, <2>2 DEF Follows
  <2> QED
    BY <1>2, <1>4, <2>3, FoldUnique
<1>8. PICK t : TakesSteps(t, n, Texts, text, F) /\ Reaches(t, n, g)
  BY <1>2, <1>3, <1>4, FoldSteps
<1>9. RunOf(t, text, es)
  <2>1. ASSUME NEW i \in 1..n
        PROVE  t[i] = Edit(t[i - 1], es[i])
    <3>1. t[i - 1] \in Texts /\ t[i] = F[<<t[i - 1], i>>]
      BY <1>2, <1>8 DEF TakesSteps
    <3> QED
      BY <1>3, <3>1
  <2> QED
    BY <1>8, <2>1 DEF RunOf, TakesSteps, n
<1> QED
  BY <1>1, <1>6, <1>7, <1>8, <1>9 DEF n, Reaches

Joined(c, a, b) ==
    /\ Len(c) = Len(a) + Len(b)
    /\ \A i \in 1..Len(a) : c[i] = a[i]
    /\ \A i \in Len(a) + 1 .. Len(c) : \E j \in 1..Len(b) : c[i] = b[j]

LEMMA GoodJoined ==
    ASSUME NEW a, GoodEdits(a), NEW b, GoodEdits(b), NEW c, c = a \o b
    PROVE  GoodEdits(c) /\ Joined(c, a, b)
BY GoodJoin DEF Joined

\* A text that is not there stays so.
LEMMA RunStays ==
    ASSUME NEW es, GoodEdits(es), NEW text, NEW t, RunOf(t, text, es)
    PROVE  /\ \A i \in 1..Len(es) : t[i] # NotFound => t[i - 1] # NotFound
           /\ \A i \in 0..Len(es) : t[i] # NotFound => t[i] \in Seq(Lines)
BY DEF RunOf, Edit, Texts

\* What every edit of a list keeps, the list keeps.
LEMMA FoldInSet ==
    ASSUME NEW Q \in SUBSET Seq(Lines), NEW text \in Q, NEW es, GoodEdits(es),
           \A x \in Q, i \in 1..Len(es) : x # NotFound /\ Edit(x, es[i]) # NotFound => Edit(x, es[i]) \in Q,
           FoldLeft(Edit, text, es) # NotFound
    PROVE  FoldLeft(Edit, text, es) \in Q
<1>1. PICK n \in Nat : n = Len(es)
  BY DEF GoodEdits
<1>2. PICK t : RunOf(t, text, es) /\ t[n] = FoldLeft(Edit, text, es)
  BY <1>1, EditsRun DEF Texts
<1>3. /\ t[0] = text
      /\ \A i \in 1..n : t[i] = Edit(t[i - 1], es[i]) /\ (t[i] # NotFound => t[i - 1] # NotFound)
  BY <1>1, <1>2, RunStays DEF RunOf
<1> DEFINE T == {i \in 0..n : t[i] # NotFound /\ t[i] \notin Q}
<1>4. T = {}
  <2> SUFFICES ASSUME T # {}
               PROVE  FALSE
    OBVIOUS
  <2>1. PICK m \in T : \A k \in T : m <= k
    <3>1. T \in SUBSET Nat
      OBVIOUS
    <3> HIDE DEF T
    <3> QED
      BY <3>1, HasLeast
  <2>2. m # 0
    BY <1>3, <2>1
  <2>3. m \in 1..n /\ m - 1 \in 0..n /\ ~(m <= m - 1)
    BY <2>1, <2>2
  <2>4. m - 1 \notin T
    <3> HIDE DEF T
    <3> QED
      BY <2>1, <2>3
  <2>5. t[m - 1] # NotFound /\ t[m] = Edit(t[m - 1], es[m])
    BY <1>3, <2>1, <2>3
  <2>6. t[m - 1] \in Q
    BY <2>3, <2>4, <2>5
  <2> QED
    BY <1>1, <2>1, <2>3, <2>5, <2>6
<1>5. n \in 0..n
  OBVIOUS
<1> QED
  BY <1>2, <1>4, <1>5

\* Two edits, and one list after another.
LEMMA FoldPair ==
    ASSUME NEW text \in Seq(Lines), NEW a, NEW b, EditOK(a), EditOK(b)
    PROVE  FoldLeft(Edit, text, <<a, b>>) = Edit(Edit(text, a), b)
<1>1. GoodEdits(<<a, b>>)
  BY GoodTuples
<1>2. Len(<<a, b>>) = 2 /\ <<a, b>>[1] = a /\ <<a, b>>[2] = b
  OBVIOUS
<1>3. PICK es : es = <<a, b>>
  OBVIOUS
<1>4. PICK t : RunOf(t, text, es) /\ t[2] = FoldLeft(Edit, text, es)
  BY <1>1, <1>2, <1>3, EditsRun DEF Texts
<1>5. t[0] = text /\ t[1] = Edit(t[0], es[1]) /\ t[2] = Edit(t[1], es[2])
  <2>1. 1 \in 1..2 /\ 2 \in 1..2 /\ 1 - 1 = 0 /\ 2 - 1 = 1
    OBVIOUS
  <2> QED
    BY <1>2, <1>3, <1>4, <2>1 DEF RunOf
<1> QED
  BY <1>2, <1>3, <1>4, <1>5

-----------------------------------------------------------------------------
(* What is MAX's own.                                                      *)

LEMMA FlattenJoin ==
    ASSUME NEW S, NEW a \in Seq(Seq(S)), NEW b \in Seq(Seq(S))
    PROVE  FlattenSeq(a \o b) = FlattenSeq(a) \o FlattenSeq(b)
<1>1. PICK k \in Nat, n \in Nat : k = Len(a) /\ n = Len(b)
  OBVIOUS
<1>2. PICK c : c = a \o b
  OBVIOUS
<1>3. /\ c \in Seq(Seq(S)) /\ Len(c) = k + n
      /\ \A i \in 1 .. k + n : c[i] = IF i <= k THEN a[i] ELSE b[i - k]
  BY <1>1, <1>2, ConcatProperties
<1>4. PICK s : Flattens(s, a, S) /\ s[k] = FlattenSeq(a)
  BY <1>1, FlattenSteps
<1>5. PICK t : Flattens(t, b, S) /\ t[n] = FlattenSeq(b)
  BY <1>1, FlattenSteps
<1>6. PICK u : Flattens(u, c, S) /\ u[k + n] = FlattenSeq(c)
  BY <1>3, FlattenSteps
<1>7. \A i \in 0..k : u[i] = s[i]
  <2> DEFINE T == {i \in 0..k : u[i] # s[i]}
  <2> SUFFICES ASSUME T # {}
               PROVE  FALSE
    OBVIOUS
  <2>1. PICK m \in T : \A j \in T : m <= j
    <3>1. T \in SUBSET Nat
      BY ONLY k \in Nat
    <3> HIDE DEF T
    <3> QED
      BY <3>1, HasLeast
  <2>2. m # 0
    BY <1>4, <1>6, <2>1 DEF Flattens
  <2>3. m \in 1..k /\ m - 1 \in 0..k /\ ~(m <= m - 1) /\ m \in 1 .. k + n /\ m <= k
    BY <2>1, <2>2
  <2>4. u[m - 1] = s[m - 1]
    <3>1. m - 1 \notin T
      <4> HIDE DEF T
      <4> QED
        BY <2>1, <2>3
    <3> QED
      BY <2>3, <3>1
  <2>5. u[m] = u[m - 1] \o c[m] /\ s[m] = s[m - 1] \o a[m] /\ c[m] = a[m]
    BY <1>1, <1>3, <1>4, <1>6, <2>3 DEF Flattens
  <2> QED
    BY <2>1, <2>4, <2>5
<1>8. s[k] \in Seq(S) /\ \A i \in 0..n : t[i] \in Seq(S)
  <2>1. s \in [0..k -> Seq(S)] /\ t \in [0..n -> Seq(S)] /\ k \in 0..k
    BY <1>1, <1>4, <1>5 DEF Flattens
  <2> QED
    BY <2>1
<1>9. \A i \in 0..n : u[k + i] = s[k] \o t[i]
  <2> DEFINE Goes(i) == u[k + i] = s[k] \o t[i]
             T == {i \in 0..n : ~Goes(i)}
  <2> SUFFICES ASSUME T # {}
               PROVE  FALSE
    OBVIOUS
  <2>1. PICK m \in T : \A j \in T : m <= j
    <3> HIDE DEF Goes
    <3>1. T \in SUBSET Nat
      BY ONLY n \in Nat
    <3> HIDE DEF T
    <3> QED
      BY <3>1, HasLeast
  <2>2. m # 0
    <3>1. k + 0 = k /\ k \in 0..k
      OBVIOUS
    <3>2. t[0] = <<>> /\ 0 \in 0..n
      BY <1>5 DEF Flattens
    <3>3. s[k] \o <<>> = s[k]
      BY <1>8, <3>2, ConcatEmptySeq
    <3> QED
      BY <1>7, <2>1, <3>1, <3>2, <3>3
  <2>3. /\ m \in 1..n /\ m - 1 \in 0..n /\ ~(m <= m - 1) /\ k + m \in 1 .. k + n
        /\ (k + m) - 1 = k + (m - 1) /\ ~(k + m <= k) /\ (k + m) - k = m
    BY <2>1, <2>2
  <2>4. u[k + (m - 1)] = s[k] \o t[m - 1]
    <3>1. m - 1 \notin T
      <4> HIDE DEF T
      <4> QED
        BY <2>1, <2>3
    <3> QED
      BY <2>3, <3>1
  <2>5. c[k + m] = b[m]
    BY <1>3, <2>3
  <2>6. u[k + m] = (s[k] \o t[m - 1]) \o b[m]
    BY <1>3, <1>6, <2>3, <2>4, <2>5 DEF Flattens
  <2>7. t[m] = t[m - 1] \o b[m]
    BY <1>1, <1>5, <2>3 DEF Flattens
  <2>8. b[m] \in Seq(S)
    BY <1>1, <2>3
  <2>9. (s[k] \o t[m - 1]) \o b[m] = s[k] \o (t[m - 1] \o b[m])
    <3>1. t[m - 1] \in Seq(S)
      BY <1>8, <2>3
    <3>2. PICK x, y, z : x = s[k] /\ y = t[m - 1] /\ z = b[m]
      OBVIOUS
    <3>3. x \in Seq(S) /\ y \in Seq(S) /\ z \in Seq(S)
      BY <1>8, <2>8, <3>1, <3>2
    <3>4. (x \o y) \o z = x \o (y \o z)
      BY ONLY <3>3, ConcatAssociative
    <3> QED
      BY <3>2, <3>4
  <2> QED
    BY <2>1, <2>6, <2>7, <2>9
<1>10. u[k + n] = s[k] \o t[n]
  <2>1. n \in 0..n
    OBVIOUS
  <2> QED
    BY <1>9, <2>1
<1> QED
  BY <1>2, <1>4, <1>5, <1>6, <1>10

\* One sequence, and none that has anything.
LEMMA FlattenOne ==
    ASSUME NEW S, NEW s \in Seq(S)
    PROVE  FlattenSeq(<<s>>) = s
<1>1. <<s>> \in Seq(Seq(S)) /\ Len(<<s>>) = 1 /\ <<s>>[1] = s
  OBVIOUS
<1>2. PICK p : p = <<s>>
  OBVIOUS
<1>3. PICK t : Flattens(t, p, S) /\ t[1] = FlattenSeq(p)
  BY <1>1, <1>2, FlattenSteps
<1>4. t[1] = t[0] \o s /\ t[0] = <<>>
  <2>1. 1 \in 1..1 /\ 1 - 1 = 0
    OBVIOUS
  <2> QED
    BY <1>1, <1>2, <1>3, <2>1 DEF Flattens
<1> QED
  BY <1>2, <1>3, <1>4, ConcatEmptySeq

LEMMA FlattenNone ==
    ASSUME NEW S, NEW seqs \in Seq(Seq(S)), \A i \in 1..Len(seqs) : seqs[i] = <<>>
    PROVE  FlattenSeq(seqs) = <<>>
<1>1. PICK n \in Nat : n = Len(seqs)
  OBVIOUS
<1>2. PICK t : Flattens(t, seqs, S) /\ t[n] = FlattenSeq(seqs)
  BY <1>1, FlattenSteps
<1>3. \A i \in 0..n : t[i] = <<>>
  <2> DEFINE T == {i \in 0..n : t[i] # <<>>}
  <2> SUFFICES ASSUME T # {}
               PROVE  FALSE
    OBVIOUS
  <2>1. PICK m \in T : \A j \in T : m <= j
    <3>1. T \in SUBSET Nat
      OBVIOUS
    <3> HIDE DEF T
    <3> QED
      BY <3>1, HasLeast
  <2>2. m # 0
    BY <1>2, <2>1 DEF Flattens
  <2>3. m \in 1..n /\ m - 1 \in 0..n /\ ~(m <= m - 1)
    BY <2>1, <2>2
  <2>4. t[m - 1] = <<>>
    <3>1. m - 1 \notin T
      <4> HIDE DEF T
      <4> QED
        BY <2>1, <2>3
    <3> QED
      BY <2>3, <3>1
  <2>5. t[m] = t[m - 1] \o seqs[m] /\ seqs[m] = <<>>
    BY <1>1, <1>2, <2>3 DEF Flattens
  <2>6. <<>> \in Seq(S) /\ <<>> \o <<>> = <<>>
    BY EmptySeq, ConcatEmptySeq
  <2> QED
    BY <2>1, <2>4, <2>5, <2>6
<1> QED
  BY <1>2, <1>3

OwnPieces(text, words) ==
    [i \in DOMAIN text |-> IF text[i].is \in words THEN <<text[i].is>> ELSE <<>>]

LEMMA PiecesIn ==
    ASSUME NEW text \in Seq(Lines), NEW words
    PROVE  /\ OwnPieces(text, words) \in Seq(Seq(Words))
           /\ Len(OwnPieces(text, words)) = Len(text)
           /\ \A i \in 1..Len(text) :
                 OwnPieces(text, words)[i] = IF text[i].is \in words THEN <<text[i].is>> ELSE <<>>
           /\ Own(text, words) = FlattenSeq(OwnPieces(text, words))
<1>1. Len(text) \in Nat /\ DOMAIN text = 1..Len(text)
  OBVIOUS
<1>2. ASSUME NEW i \in 1..Len(text)
      PROVE  (IF text[i].is \in words THEN <<text[i].is>> ELSE <<>>) \in Seq(Words)
  <2>1. text[i] \in Lines
    OBVIOUS
  <2>2. text[i].is \in Words
    BY <2>1 DEF Lines
  <2> QED
    BY <2>2
<1>3. OwnPieces(text, words) \in [1..Len(text) -> Seq(Words)]
  BY <1>1, <1>2 DEF OwnPieces
<1>4. OwnPieces(text, words) \in Seq(Seq(Words))
  BY <1>1, <1>3, SeqDef
<1>5. Len(OwnPieces(text, words)) = Len(text)
  BY <1>1, <1>3, <1>4
<1>6. \A i \in 1..Len(text) :
         OwnPieces(text, words)[i] = IF text[i].is \in words THEN <<text[i].is>> ELSE <<>>
  BY <1>1 DEF OwnPieces
<1>7. Own(text, words) = FlattenSeq(OwnPieces(text, words))
  BY DEF Own, OwnPieces
<1> QED
  BY <1>4, <1>5, <1>6, <1>7

LEMMA OwnIn == \A words : \A text \in Seq(Lines) : Own(text, words) \in Seq(Words)
BY PiecesIn, FlattenIn

\* The lines of one text and of another after it.
Joins(a, b, words) == Own(a \o b, words) = Own(a, words) \o Own(b, words)

LEMMA OwnJoin ==
    ASSUME NEW a \in Seq(Lines), NEW b \in Seq(Lines), NEW words
    PROVE  Joins(a, b, words)
<1>1. PICK c : c = a \o b
  OBVIOUS
<1>2. PICK k \in Nat, n \in Nat : k = Len(a) /\ n = Len(b)
  OBVIOUS
<1>3. /\ c \in Seq(Lines) /\ Len(c) = k + n
      /\ \A i \in 1 .. k + n : c[i] = IF i <= k THEN a[i] ELSE b[i - k]
  BY <1>1, <1>2, ConcatProperties
<1>4. PICK p, q, r : p = OwnPieces(a, words) /\ q = OwnPieces(b, words) /\ r = OwnPieces(c, words)
  OBVIOUS
<1>5. /\ p \in Seq(Seq(Words)) /\ Len(p) = k
      /\ \A i \in 1..k : p[i] = IF a[i].is \in words THEN <<a[i].is>> ELSE <<>>
  BY <1>2, <1>4, PiecesIn
<1>6. /\ q \in Seq(Seq(Words)) /\ Len(q) = n
      /\ \A i \in 1..n : q[i] = IF b[i].is \in words THEN <<b[i].is>> ELSE <<>>
  BY <1>2, <1>4, PiecesIn
<1>7. /\ r \in Seq(Seq(Words)) /\ Len(r) = k + n
      /\ \A i \in 1 .. k + n : r[i] = IF c[i].is \in words THEN <<c[i].is>> ELSE <<>>
  <2>1. /\ r \in Seq(Seq(Words)) /\ Len(r) = Len(c)
        /\ \A i \in 1..Len(c) : r[i] = IF c[i].is \in words THEN <<c[i].is>> ELSE <<>>
    <3>1. c \in Seq(Lines) /\ r = OwnPieces(c, words)
      BY <1>3, <1>4
    <3> QED
      BY ONLY <3>1, PiecesIn
  <2> QED
    BY <1>3, <2>1
<1>8. /\ p \o q \in Seq(Seq(Words)) /\ Len(p \o q) = k + n
      /\ \A i \in 1 .. k + n : (p \o q)[i] = IF i <= k THEN p[i] ELSE q[i - k]
  <2>1. p \in Seq(Seq(Words)) /\ q \in Seq(Seq(Words))
    BY <1>5, <1>6
  <2>2. /\ p \o q \in Seq(Seq(Words)) /\ Len(p \o q) = Len(p) + Len(q)
        /\ \A i \in 1 .. Len(p) + Len(q) :
              (p \o q)[i] = IF i <= Len(p) THEN p[i] ELSE q[i - Len(p)]
    BY ONLY <2>1, ConcatProperties
  <2> QED
    BY <1>5, <1>6, <2>2
<1>9. ASSUME NEW i \in 1 .. k + n
      PROVE  r[i] = (p \o q)[i]
  <2>1. CASE i <= k
    <3>1. i \in 1..k
      BY <2>1
    <3> QED
      BY <1>3, <1>5, <1>7, <1>8, <2>1, <3>1
  <2>2. CASE ~(i <= k)
    <3>1. i - k \in 1..n
      BY <2>2
    <3> QED
      BY <1>3, <1>6, <1>7, <1>8, <2>2, <3>1
  <2> QED
    BY <2>1, <2>2
<1>10. r = p \o q
  BY <1>7, <1>8, <1>9, SeqEqual
<1>11. FlattenSeq(p \o q) = FlattenSeq(p) \o FlattenSeq(q)
  BY <1>5, <1>6, FlattenJoin
<1>12. Own(a, words) = FlattenSeq(p) /\ Own(b, words) = FlattenSeq(q)
  BY ONLY <1>4, PiecesIn, a \in Seq(Lines), b \in Seq(Lines)
<1>13. Own(c, words) = FlattenSeq(r)
  BY ONLY <1>3, <1>4, PiecesIn
<1> QED
  BY ONLY <1>1, <1>10, <1>11, <1>12, <1>13 DEF Joins

\* Nothing is MAX's own of lines with other words.
LEMMA OwnNone ==
    ASSUME NEW text \in Seq(Lines), NEW words, WordsOf(text) \cap words = {}
    PROVE  Own(text, words) = <<>>
<1>1. \A i \in 1..Len(text) : text[i].is \notin words
  BY DEF WordsOf
<1>2. PICK p : p = OwnPieces(text, words)
  OBVIOUS
<1>3. /\ p \in Seq(Seq(Words)) /\ Len(p) = Len(text) /\ Own(text, words) = FlattenSeq(p)
      /\ \A i \in 1..Len(p) : p[i] = <<>>
  <2>1. /\ p \in Seq(Seq(Words)) /\ Len(p) = Len(text) /\ Own(text, words) = FlattenSeq(p)
        /\ \A i \in 1..Len(text) : p[i] = IF text[i].is \in words THEN <<text[i].is>> ELSE <<>>
    BY ONLY <1>2, PiecesIn, text \in Seq(Lines)
  <2> QED
    BY <1>1, <2>1
<1>4. FlattenSeq(p) = <<>>
  BY ONLY <1>3, FlattenNone
<1> QED
  BY <1>3, <1>4

\* Only the words count.
LEMMA OwnOfWords ==
    ASSUME NEW a \in Seq(Lines), NEW b \in Seq(Lines), Len(a) = Len(b),
           \A i \in 1..Len(a) : a[i].is = b[i].is, NEW words
    PROVE  Own(a, words) = Own(b, words)
<1>1. PICK p, q : p = OwnPieces(a, words) /\ q = OwnPieces(b, words)
  OBVIOUS
<1>2. /\ p \in Seq(Seq(Words)) /\ Len(p) = Len(a) /\ Own(a, words) = FlattenSeq(p)
      /\ \A i \in 1..Len(a) : p[i] = IF a[i].is \in words THEN <<a[i].is>> ELSE <<>>
  BY <1>1, PiecesIn
<1>3. /\ q \in Seq(Seq(Words)) /\ Len(q) = Len(a) /\ Own(b, words) = FlattenSeq(q)
      /\ \A i \in 1..Len(a) : q[i] = IF b[i].is \in words THEN <<b[i].is>> ELSE <<>>
  BY <1>1, PiecesIn
<1>4. \A i \in 1..Len(p) : p[i] = q[i]
  BY <1>2, <1>3
<1>5. p = q
  BY ONLY <1>2, <1>3, <1>4, SeqEqual
<1> QED
  BY <1>2, <1>3, <1>5

-----------------------------------------------------------------------------
(* What the lines of a template become.                                    *)

LEMMA FlattenSingles ==
    ASSUME NEW S, NEW x \in Seq(S), NEW seqs \in Seq(Seq(S)), Len(seqs) = Len(x),
           \A i \in 1..Len(x) : seqs[i] = <<x[i]>>
    PROVE  FlattenSeq(seqs) = x
<1>1. PICK n \in Nat : n = Len(x)
  OBVIOUS
<1>2. PICK t : Flattens(t, seqs, S) /\ t[n] = FlattenSeq(seqs)
  BY <1>1, FlattenSteps
<1>3. \A i \in 0..n : t[i] = SubSeq(x, 1, i)
  <2> DEFINE Goes(i) == t[i] = SubSeq(x, 1, i)
             T == {i \in 0..n : ~Goes(i)}
  <2> SUFFICES ASSUME T # {}
               PROVE  FALSE
    OBVIOUS
  <2>1. PICK m \in T : \A j \in T : m <= j
    <3> HIDE DEF Goes
    <3>1. T \in SUBSET Nat
      OBVIOUS
    <3> HIDE DEF T
    <3> QED
      BY <3>1, HasLeast
  <2>2. m # 0
    <3>1. SubSeq(x, 1, 0) = <<>>
      BY SubSeqEmpty
    <3>2. t[0] = <<>>
      BY <1>2 DEF Flattens
    <3> QED
      BY <2>1, <3>1, <3>2
  <2>3. m \in 1..n /\ m - 1 \in 0..n /\ ~(m <= m - 1)
    BY <2>1, <2>2
  <2>4. t[m - 1] = SubSeq(x, 1, m - 1)
    <3>1. m - 1 \notin T
      <4> HIDE DEF T
      <4> QED
        BY <2>1, <2>3
    <3> QED
      BY <2>3, <3>1
  <2>5. t[m] = t[m - 1] \o <<x[m]>>
    BY <1>1, <1>2, <2>3 DEF Flattens
  <2>6. SubSeq(x, 1, m) = SubSeq(x, 1, m - 1) \o <<x[m]>>
    <3>1. 1 \in 1..Len(x) /\ m \in 1..Len(x)
      BY <1>1, <2>3
    <3> QED
      BY <3>1, SubSeqRecursiveSecond
  <2> QED
    BY <2>1, <2>4, <2>5, <2>6
<1>4. n \in 0..n /\ SubSeq(x, 1, n) = x
  BY <1>1, SubSeqFull
<1> QED
  BY <1>2, <1>3, <1>4

FillPieces(new, original, base) ==
    [i \in DOMAIN new |-> IF new[i].is = "original" THEN Reindent(original, new[i].indent)
                          ELSE Reindent(<<new[i]>>, base)]

LEMMA FillPiecesIn ==
    ASSUME NEW new \in Seq(Lines), NEW original \in Seq(Lines), NEW base \in Nat
    PROVE  /\ FillPieces(new, original, base) \in Seq(Seq(Lines))
           /\ Len(FillPieces(new, original, base)) = Len(new)
           /\ \A i \in 1..Len(new) : FillPieces(new, original, base)[i] =
                 IF new[i].is = "original" THEN Reindent(original, new[i].indent)
                 ELSE Reindent(<<new[i]>>, base)
           /\ Fill(new, original, base) = FlattenSeq(FillPieces(new, original, base))
<1> DEFINE pieces == FillPieces(new, original, base)
<1>1. Len(new) \in Nat /\ DOMAIN new = 1..Len(new)
  OBVIOUS
<1>2. ASSUME NEW i \in DOMAIN new
      PROVE  pieces[i] \in Seq(Lines)
  <2>1. new[i] \in Lines
    OBVIOUS
  <2>2. new[i].indent \in Nat /\ <<new[i]>> \in Seq(Lines)
    BY <2>1 DEF Lines
  <2> QED
    BY <2>2, ReindentIn DEF FillPieces
<1>3. DOMAIN pieces = 1..Len(new) /\ pieces = [i \in DOMAIN pieces |-> pieces[i]]
  BY <1>1 DEF FillPieces
<1>4. pieces \in [1..Len(new) -> Seq(Lines)]
  BY <1>1, <1>2, <1>3
<1>5. pieces \in Seq(Seq(Lines)) /\ Len(pieces) = Len(new)
  BY <1>1, <1>4, SeqDef
<1>6. \A i \in 1..Len(new) : pieces[i] =
         IF new[i].is = "original" THEN Reindent(original, new[i].indent)
         ELSE Reindent(<<new[i]>>, base)
  BY <1>1 DEF FillPieces
<1>7. Fill(new, original, base) = FlattenSeq(pieces)
  BY DEF Fill, FillPieces
<1> QED
  BY <1>5, <1>6, <1>7

LEMMA FillJoin ==
    ASSUME NEW a \in Seq(Lines), NEW b \in Seq(Lines), NEW original \in Seq(Lines), NEW base \in Nat
    PROVE  Fill(a \o b, original, base) = Fill(a, original, base) \o Fill(b, original, base)
<1>1. PICK c : c = a \o b
  OBVIOUS
<1>2. PICK k \in Nat, n \in Nat : k = Len(a) /\ n = Len(b)
  OBVIOUS
<1>3. /\ c \in Seq(Lines) /\ Len(c) = k + n
      /\ \A i \in 1 .. k + n : c[i] = IF i <= k THEN a[i] ELSE b[i - k]
  BY <1>1, <1>2, ConcatProperties
<1>4. PICK p, q, r : /\ p = FillPieces(a, original, base)
                     /\ q = FillPieces(b, original, base)
                     /\ r = FillPieces(c, original, base)
  OBVIOUS
<1> DEFINE Piece(l) == IF l.is = "original" THEN Reindent(original, l.indent) ELSE Reindent(<<l>>, base)
<1>5. /\ p \in Seq(Seq(Lines)) /\ Len(p) = k /\ Fill(a, original, base) = FlattenSeq(p)
      /\ \A i \in 1..k : p[i] = Piece(a[i])
  BY <1>2, <1>4, FillPiecesIn
<1>6. /\ q \in Seq(Seq(Lines)) /\ Len(q) = n /\ Fill(b, original, base) = FlattenSeq(q)
      /\ \A i \in 1..n : q[i] = Piece(b[i])
  BY <1>2, <1>4, FillPiecesIn
<1>7. /\ r \in Seq(Seq(Lines)) /\ Len(r) = k + n /\ Fill(c, original, base) = FlattenSeq(r)
      /\ \A i \in 1 .. k + n : r[i] = Piece(c[i])
  <2>1. c \in Seq(Lines) /\ r = FillPieces(c, original, base)
    BY <1>3, <1>4
  <2>2. /\ r \in Seq(Seq(Lines)) /\ Len(r) = Len(c) /\ Fill(c, original, base) = FlattenSeq(r)
        /\ \A i \in 1..Len(c) : r[i] = Piece(c[i])
    BY ONLY <2>1, FillPiecesIn, original \in Seq(Lines), base \in Nat
  <2> QED
    BY <1>3, <2>2
<1> HIDE DEF Piece
<1>8. /\ p \o q \in Seq(Seq(Lines)) /\ Len(p \o q) = k + n
      /\ \A i \in 1 .. k + n : (p \o q)[i] = IF i <= k THEN p[i] ELSE q[i - k]
  <2>1. p \in Seq(Seq(Lines)) /\ q \in Seq(Seq(Lines))
    BY <1>5, <1>6
  <2>2. /\ p \o q \in Seq(Seq(Lines)) /\ Len(p \o q) = Len(p) + Len(q)
        /\ \A i \in 1 .. Len(p) + Len(q) :
              (p \o q)[i] = IF i <= Len(p) THEN p[i] ELSE q[i - Len(p)]
    BY ONLY <2>1, ConcatProperties
  <2> QED
    BY <1>5, <1>6, <2>2
<1>9. ASSUME NEW i \in 1 .. k + n
      PROVE  r[i] = (p \o q)[i]
  <2>1. CASE i <= k
    <3>1. i \in 1..k
      BY <2>1
    <3> QED
      BY <1>3, <1>5, <1>7, <1>8, <2>1, <3>1
  <2>2. CASE ~(i <= k)
    <3>1. i - k \in 1..n
      BY <2>2
    <3> QED
      BY <1>3, <1>6, <1>7, <1>8, <2>2, <3>1
  <2> QED
    BY <2>1, <2>2
<1>10. r = p \o q
  BY <1>7, <1>8, <1>9, SeqEqual
<1>11. FlattenSeq(p \o q) = FlattenSeq(p) \o FlattenSeq(q)
  BY <1>5, <1>6, FlattenJoin
<1> QED
  BY ONLY <1>1, <1>5, <1>6, <1>7, <1>10, <1>11

LEMMA ReindentIs ==
    ASSUME NEW lines \in Seq(Lines), NEW by \in Nat
    PROVE  /\ Len(Reindent(lines, by)) = Len(lines)
           /\ \A i \in 1..Len(lines) :
                 /\ Reindent(lines, by)[i] = Line(lines[i].indent + by, lines[i].is)
                 /\ Reindent(lines, by)[i].is = lines[i].is
                 /\ Reindent(lines, by)[i].indent = lines[i].indent + by
                 /\ lines[i].indent \in Nat
<1>1. Len(lines) \in Nat /\ DOMAIN lines = 1..Len(lines)
  OBVIOUS
<1>2. DOMAIN Reindent(lines, by) = 1..Len(lines)
  BY <1>1 DEF Reindent
<1>3. Len(Reindent(lines, by)) = Len(lines)
  <2>1. Reindent(lines, by) \in Seq(Lines)
    BY ReindentIn
  <2>7. PICK r \in Seq(Lines) : r = Reindent(lines, by)
    BY <2>1
  <2>8. Len(r) \in Nat /\ Len(lines) \in Nat /\ DOMAIN r = 1..Len(r)
    BY ONLY <2>7, LenProperties, lines \in Seq(Lines)
  <2>2. PICK n \in Nat, m \in Nat : n = Len(lines) /\ m = Len(r)
    BY <2>8
  <2>3. DOMAIN r = 1..m /\ DOMAIN r = 1..n
    BY <1>2, <2>2, <2>7, <2>8
  <2>4. m \in 1..m \/ m = 0
    OBVIOUS
  <2>5. n \in 1..n \/ n = 0
    OBVIOUS
  <2>6. m <= n /\ n <= m
    BY <2>3, <2>4, <2>5
  <2> QED
    BY <2>2, <2>6, <2>7
<1>4. ASSUME NEW i \in 1..Len(lines)
      PROVE  /\ Reindent(lines, by)[i] = Line(lines[i].indent + by, lines[i].is)
             /\ lines[i].indent \in Nat
  <2>1. lines[i] \in Lines
    OBVIOUS
  <2> QED
    BY <1>1, <2>1 DEF Reindent, Lines
<1>5. \A indent, is : Line(indent, is).is = is /\ Line(indent, is).indent = indent
  BY DEF Line
<1> QED
  BY <1>3, <1>4, <1>5

\* Of lines without "original".
LEMMA FillPlain ==
    ASSUME NEW new \in Seq(Lines), NEW original \in Seq(Lines), NEW base \in Nat,
           \A i \in 1..Len(new) : new[i].is # "original"
    PROVE  Fill(new, original, base) = Reindent(new, base)
<1>1. PICK p, r : p = FillPieces(new, original, base) /\ r = Reindent(new, base)
  OBVIOUS
<1>2. r \in Seq(Lines) /\ Len(r) = Len(new)
  BY <1>1, ReindentIn, ReindentIs
<1>3. p \in Seq(Seq(Lines)) /\ Len(p) = Len(new) /\ Fill(new, original, base) = FlattenSeq(p)
  BY ONLY <1>1, FillPiecesIn, new \in Seq(Lines), original \in Seq(Lines), base \in Nat
<1>4. ASSUME NEW i \in 1..Len(new)
      PROVE  p[i] = <<r[i]>>
  <2>1. p[i] = Reindent(<<new[i]>>, base)
    BY <1>1, FillPiecesIn
  <2>2. new[i] \in Lines
    OBVIOUS
  <2>3. PICK l \in Lines : l = new[i]
    BY <2>2
  <2>4. Reindent(<<l>>, base) = <<Line(l.indent + base, l.is)>>
    BY DEF Reindent
  <2>5. r[i] = Line(l.indent + base, l.is)
    BY <1>1, <2>3, ReindentIs
  <2> QED
    BY <2>1, <2>3, <2>4, <2>5
<1>5. FlattenSeq(p) = r
  BY <1>2, <1>3, <1>4, FlattenSingles
<1> QED
  BY <1>1, <1>3, <1>5

LEMMA FillOriginal ==
    ASSUME NEW indent \in Nat, "original" \in Words, NEW original \in Seq(Lines), NEW base \in Nat
    PROVE  Fill(<<Line(indent, "original")>>, original, base) = Reindent(original, indent)
<1>1. PICK l : l = Line(indent, "original")
  OBVIOUS
<1>2. l \in Lines /\ l.is = "original" /\ l.indent = indent
  BY <1>1 DEF Line, Lines
<1>3. PICK new : new = <<l>>
  OBVIOUS
<1>4. new \in Seq(Lines) /\ Len(new) = 1 /\ new[1] = l
  BY <1>2, <1>3
<1>5. PICK p : p = FillPieces(new, original, base)
  OBVIOUS
<1>6. p \in Seq(Seq(Lines)) /\ Len(p) = 1 /\ Fill(new, original, base) = FlattenSeq(p)
  BY <1>4, <1>5, FillPiecesIn
<1>7. p[1] = Reindent(original, indent)
  BY <1>2, <1>4, <1>5, FillPiecesIn
<1>8. PICK s \in Seq(Lines) : s = p[1]
  BY <1>7, ReindentIn
<1>9. FlattenSeq(p) = p[1]
  <2>1. <<s>> \in Seq(Seq(Lines)) /\ Len(<<s>>) = 1 /\ <<s>>[1] = s
    OBVIOUS
  <2>2. \A i \in 1..Len(p) : p[i] = <<s>>[i]
    BY <1>6, <1>8, <2>1
  <2>3. PICK one : one = <<s>>
    OBVIOUS
  <2>4. p = one
    BY <1>6, <2>1, <2>2, <2>3, SeqEqual
  <2> QED
    BY <1>8, <2>3, <2>4, FlattenOne
<1> QED
  BY <1>1, <1>3, <1>6, <1>7, <1>9

\* Lines with other words than those.
Other(words) == {l \in Lines : l.is \notin words}

LEMMA OwnOther ==
    ASSUME NEW words, NEW text \in Seq(Other(words))
    PROVE  text \in Seq(Lines) /\ Own(text, words) = <<>>
<1>1. text \in Seq(Lines)
  <2>1. Other(words) \subseteq Lines
    BY DEF Other
  <2> QED
    BY <2>1, SeqMonotonic
<1>2. \A i \in DOMAIN text : text[i] \in Other(words)
  OBVIOUS
<1>3. WordsOf(text) \cap words = {}
  BY <1>2 DEF WordsOf, Other
<1> QED
  BY <1>1, <1>3, OwnNone

LEMMA IsOther ==
    ASSUME NEW words, NEW text \in Seq(Lines), \A i \in 1..Len(text) : text[i].is \notin words
    PROVE  text \in Seq(Other(words))
<1>1. Len(text) \in Nat /\ text \in [1..Len(text) -> Lines]
  OBVIOUS
<1>2. text \in [1..Len(text) -> Other(words)]
  BY <1>1 DEF Other
<1> QED
  BY <1>1, <1>2, SeqDef

LEMMA OwnReindent ==
    ASSUME NEW text \in Seq(Lines), NEW by \in Nat, NEW words
    PROVE  Own(Reindent(text, by), words) = Own(text, words)
<1>1. PICK r : r = Reindent(text, by)
  OBVIOUS
<1>2. r \in Seq(Lines) /\ Len(r) = Len(text) /\ \A i \in 1..Len(r) : r[i].is = text[i].is
  BY <1>1, ReindentIn, ReindentIs
<1> QED
  BY <1>1, <1>2, OwnOfWords

LEMMA FillOther ==
    ASSUME NEW words, NEW new \in Seq(Lines), NEW original \in Seq(Other(words)), NEW base \in Nat,
           \A i \in 1..Len(new) : new[i].is \notin words
    PROVE  Fill(new, original, base) \in Seq(Other(words))
<1> DEFINE p == FillPieces(new, original, base)
<1>1. original \in Seq(Lines)
  BY OwnOther
<1>2. /\ p \in Seq(Seq(Lines)) /\ Len(p) = Len(new) /\ Fill(new, original, base) = FlattenSeq(p)
      /\ \A i \in 1..Len(new) : p[i] =
            IF new[i].is = "original" THEN Reindent(original, new[i].indent)
            ELSE Reindent(<<new[i]>>, base)
  BY <1>1, FillPiecesIn
<1> HIDE DEF p
<1>3. ASSUME NEW s \in Seq(Other(words)), NEW by \in Nat
      PROVE  Reindent(s, by) \in Seq(Other(words))
  <2>1. PICK r : r = Reindent(s, by)
    OBVIOUS
  <2>2. s \in Seq(Lines) /\ \A i \in 1..Len(s) : s[i] \in Other(words)
    BY OwnOther
  <2>3. r \in Seq(Lines) /\ Len(r) = Len(s) /\ \A i \in 1..Len(r) : r[i].is = s[i].is
    <3>1. s \in Seq(Lines) /\ by \in Nat
      BY <2>2
    <3>2. r \in Seq(Lines)
      BY ONLY <2>1, <3>1, ReindentIn
    <3>3. /\ Len(r) = Len(s)
          /\ \A i \in 1..Len(s) : r[i].is = s[i].is
      BY ONLY <2>1, <3>1, ReindentIs
    <3> QED
      BY <3>2, <3>3
  <2>4. \A i \in 1..Len(r) : r[i].is \notin words
    BY <2>2, <2>3 DEF Other
  <2> QED
    BY <2>1, <2>3, <2>4, IsOther
<1>4. ASSUME NEW i \in 1..Len(new)
      PROVE  p[i] \in Seq(Other(words))
  <2>1. new[i] \in Lines
    OBVIOUS
  <2>2. PICK l \in Lines : l = new[i]
    BY <2>1
  <2>3. l \in Other(words) /\ l.indent \in Nat
    BY <2>2 DEF Other, Lines
  <2>4. <<l>> \in Seq(Other(words))
    BY <2>3
  <2> QED
    BY <1>2, <1>3, <2>2, <2>3, <2>4
<1>5. p \in Seq(Seq(Other(words)))
  <2>1. PICK n \in Nat : n = Len(p)
    BY <1>2
  <2>2. p \in [1..n -> Seq(Other(words))]
    BY <1>2, <1>4, <2>1
  <2> QED
    BY <2>1, <2>2, SeqDef
<1> QED
  BY <1>2, <1>5, FlattenIn

\* Lines in the place of others, with as much of MAX's own.
LEMMA OwnSplice ==
    ASSUME NEW text \in Seq(Lines), NEW new \in Seq(Lines), NEW first, NEW last,
           IsSpan(text, first, last), NEW words,
           Own(new, words) = Own(SubSeq(text, first, last), words)
    PROVE  Own(ReplaceLines(text, first, last, new), words) = Own(text, words)
<1>1. PICK n \in Nat, f \in Nat, b \in Int :
         n = Len(text) /\ f = first /\ b = last /\ f >= 1 /\ b >= f - 1 /\ b <= n
  BY DEF IsSpan
<1>2. PICK head, span, tail :
         /\ head = SubSeq(text, 1, first - 1) /\ span = SubSeq(text, first, last)
         /\ tail = SubSeq(text, last + 1, Len(text))
  OBVIOUS
<1>3. head \in Seq(Lines) /\ span \in Seq(Lines) /\ tail \in Seq(Lines)
  <2>1. 1 \in Nat \ {0} /\ f - 1 \in Int /\ f - 1 <= n
    BY <1>1
  <2>2. f \in Nat \ {0} /\ b \in Int /\ b <= n
    BY <1>1
  <2>3. b + 1 \in Nat \ {0} /\ n \in Int /\ n <= n
    BY <1>1
  <2> QED
    BY <1>1, <1>2, <2>1, <2>2, <2>3, PartIn
<1>4. Len(span) = b + 1 - f /\ \A i \in 1..Len(span) : span[i] = text[f - 1 + i]
  <2>1. \A i \in f .. b : text[i] \in Lines
    <3>1. \A i \in f .. b : i \in 1..Len(text)
      BY <1>1
    <3> QED
      BY <3>1
  <2>2. /\ Len(SubSeq(text, f, b)) = IF f <= b THEN b - f + 1 ELSE 0
        /\ \A i \in 1 .. b - f + 1 : SubSeq(text, f, b)[i] = text[f + i - 1]
    BY <1>1, <2>1, SubSeqProperties
  <2>3. Len(span) = b + 1 - f
    BY <1>1, <1>2, <2>2
  <2>4. ASSUME NEW i \in 1..Len(span)
        PROVE  span[i] = text[f - 1 + i]
    <3>1. i \in 1 .. b - f + 1 /\ f + i - 1 = f - 1 + i
      BY <1>1, <2>3
    <3> QED
      BY <1>1, <1>2, <2>2, <3>1
  <2> QED
    BY <2>3, <2>4
<1>5. ReplaceLines(text, first, last, span) = text
  <2>1. PICK out : out = ReplaceLines(text, first, last, span)
    OBVIOUS
  <2>2. Spliced(text, first, last, span, out)
    BY <1>3, <2>1, ReplaceLinesAt
  <2>3. out \in Seq(Lines) /\ Len(out) = n
    BY <1>1, <1>4, <2>2 DEF Spliced
  <2>4. ASSUME NEW i \in 1..n
        PROVE  out[i] = text[i]
    <3>1. CASE i < f
      <4>1. i \in 1 .. first - 1
        BY <1>1, <3>1
      <4> QED
        BY <2>2, <4>1 DEF Spliced
    <3>2. CASE i \in f..b
      <4>1. PICK k \in Nat : k = i - f + 1
        BY <1>1, <3>2
      <4>2. k \in 1..Len(span) /\ f - 1 + k = i
        BY <1>1, <1>4, <3>2, <4>1
      <4> QED
        BY <1>1, <1>4, <2>2, <4>2 DEF Spliced
    <3>3. CASE i > b
      <4>1. i \in last + 1 .. Len(text) /\ i + Len(span) - (last + 1 - first) = i
        BY <1>1, <1>4, <3>3
      <4> QED
        BY <2>2, <4>1 DEF Spliced
    <3> QED
      BY <1>1, <3>1, <3>2, <3>3
  <2> QED
    BY <1>1, <2>1, <2>3, <2>4, SeqEqual
<1>6. \A x \in Seq(Lines) :
         Own(ReplaceLines(text, first, last, x), words)
            = (Own(head, words) \o Own(x, words)) \o Own(tail, words)
  <2> SUFFICES ASSUME NEW x \in Seq(Lines)
               PROVE  Own(ReplaceLines(text, first, last, x), words)
                         = (Own(head, words) \o Own(x, words)) \o Own(tail, words)
    OBVIOUS
  <2>1. PICK start : start = head \o x
    OBVIOUS
  <2>2. start \in Seq(Lines)
    BY ONLY <1>3, <2>1, x \in Seq(Lines), ConcatProperties
  <2>3. ReplaceLines(text, first, last, x) = start \o tail
    BY <1>2, <2>1 DEF ReplaceLines
  <2>4. Own(start \o tail, words) = Own(start, words) \o Own(tail, words)
    <3>1. start \in Seq(Lines) /\ tail \in Seq(Lines)
      BY <1>3, <2>2
    <3>2. Joins(start, tail, words)
      BY ONLY <3>1, OwnJoin
    <3> QED
      BY ONLY <3>2 DEF Joins
  <2>5. Own(start, words) = Own(head, words) \o Own(x, words)
    <3>1. head \in Seq(Lines) /\ x \in Seq(Lines)
      BY <1>3
    <3>2. Joins(head, x, words)
      BY ONLY <3>1, OwnJoin
    <3> QED
      BY ONLY <2>1, <3>2 DEF Joins
  <2> QED
    BY <2>3, <2>4, <2>5
<1> QED
  BY <1>2, <1>3, <1>5, <1>6

-----------------------------------------------------------------------------
(* What an edit does to MAX's own lines.                                   *)

\* An edit that spans lines: where it is, what it replaces, keeps and writes.
Edited(text, e, i, first, last, kept, new, out) ==
    /\ Compiles(text) /\ i = Place(text, e) /\ i \in 1..Len(text) /\ text[i].is = e.find
    /\ IsSpan(text, first, last)
    /\ e.how = "before" => first = i /\ last = i - 1
    /\ e.how = "header" => first = i /\ last = i
    /\ e.how = "counts" => first = i /\ last = LastCount(text, i)
    /\ e.how = "body" => first = i + 1 /\ last = End(text, i)
    /\ e.how \in {"replace", "here"} => first = i /\ last = End(text, i)
    /\ e.how = "start" => first = i + 1 /\ last = i
    /\ e.how = "after" => first = End(text, i) + 1 /\ last = End(text, i)
    /\ kept \in Seq(Lines) /\ kept = Kept(text, <<first, last>>, e.how)
    /\ new \in Seq(Lines)
    /\ new = Fill(e.new, kept, IF e.how = "here" THEN text[i].indent ELSE 0)
    /\ out = ReplaceLines(text, first, last, new)
    /\ Spliced(text, first, last, new, out)

LEMMA EditAt ==
    ASSUME NEW text \in Seq(Lines), text # NotFound, NEW e, EditOK(e), e.how \in Spanning,
           Edit(text, e) # NotFound
    PROVE  \E i, first, last, kept, new :
              Edited(text, e, i, first, last, kept, new, Edit(text, e))
<1>0. Found(text, e)
  BY DEF Edit, Spanning
<1>1. PICK i : i = Place(text, e)
  OBVIOUS
<1>2. i \in DOMAIN text /\ text[i].is = e.find /\ text[i] \in Lines
  BY <1>0, <1>1, PlaceIn DEF EditOK, Spanning
<1>3. PICK first, last :
         /\ IsSpan(text, first, last)
         /\ Span(text, i, e.how) = <<first, last>>
         /\ e.how = "before" => first = i /\ last = i - 1
         /\ e.how = "header" => first = i /\ last = i
         /\ e.how = "counts" => first = i /\ last = LastCount(text, i)
         /\ e.how = "body" => first = i + 1 /\ last = End(text, i)
         /\ e.how \in {"replace", "here"} => first = i /\ last = End(text, i)
         /\ e.how = "start" => first = i + 1 /\ last = i
         /\ e.how = "after" => first = End(text, i) + 1 /\ last = End(text, i)
  BY <1>2, SpanIs
<1>4. PICK base : base = IF e.how = "here" THEN text[i].indent ELSE 0
  OBVIOUS
<1>5. base \in Nat
  BY <1>2, <1>4 DEF Lines
<1>6. PICK kept : kept = Kept(text, <<first, last>>, e.how)
  OBVIOUS
<1>7. kept \in Seq(Lines)
  <2>1. Kept(text, Span(text, i, e.how), e.how) \in Seq(Lines)
    BY <1>0, <1>2, KeptIn DEF EditOK, Found
  <2> QED
    BY <1>3, <1>6, <2>1
<1>8. PICK new : new = Fill(e.new, kept, base)
  OBVIOUS
<1>9. new \in Seq(Lines)
  BY <1>5, <1>7, <1>8, FillIn DEF EditOK
<1>10. Edit(text, e) = ReplaceLines(text, first, last, new)
  BY <1>0, <1>1, <1>3, <1>4, <1>6, <1>8 DEF Edit, Spanning
<1>11. Spliced(text, first, last, new, Edit(text, e))
  BY <1>3, <1>9, <1>10, ReplaceLinesAt
<1>12. Compiles(text) /\ i \in 1..Len(text)
  BY <1>0, <1>2 DEF Found
<1>13. Edited(text, e, i, first, last, kept, new, Edit(text, e))
  BY <1>1, <1>2, <1>3, <1>4, <1>6, <1>7, <1>8, <1>9, <1>10, <1>11, <1>12 DEF Edited
<1> QED
  BY <1>13

\* A statement that opens no block is one line.
LEMMA OneLine ==
    ASSUME NEW text \in Seq(Lines), Compiles(text), NEW i \in 1..Len(text),
           text[i].is \notin Headers
    PROVE  End(text, i) = i
<1> DEFINE S == {j \in i .. Len(text) : \A k \in i + 1 .. j : text[k].indent > text[i].indent}
<1>1. Len(text) \in Nat /\ i \in Nat
  OBVIOUS
<1>2. i \in S /\ S \in SUBSET (1..Len(text))
  BY <1>1
<1>3. PICK m : m = Max(S)
  OBVIOUS
<1>4. m \in S
  <2> HIDE DEF S
  <2> QED
    BY <1>1, <1>2, <1>3, MaxOfPositions
<1>5. m = i
  <2> SUFFICES ASSUME m # i
               PROVE  FALSE
    OBVIOUS
  <2>1. i + 1 \in i + 1 .. m /\ i < Len(text) /\ i + 1 \in 1..Len(text)
    BY <1>1, <1>4
  <2>2. text[i + 1].indent > text[i].indent
    BY <1>4, <2>1
  <2>3. text[i + 1].indent <= text[i].indent
    BY <2>1 DEF Compiles
  <2>4. text[i] \in Lines /\ text[i + 1] \in Lines
    BY <2>1
  <2> QED
    BY <2>2, <2>3, <2>4 DEF Lines
<1> QED
  BY <1>3, <1>5 DEF End

\* Lines without MAX's own in the place of lines without.
LEMMA OwnOtherSplice ==
    ASSUME NEW text \in Seq(Lines), NEW words, NEW first, NEW last, IsSpan(text, first, last),
           \A j \in first..last : text[j].is \notin words, NEW new \in Seq(Other(words))
    PROVE  /\ SubSeq(text, first, last) \in Seq(Other(words))
           /\ Own(ReplaceLines(text, first, last, new), words) = Own(text, words)
<1>1. PICK n \in Nat, f \in Nat, b \in Int :
         n = Len(text) /\ f = first /\ b = last /\ f >= 1 /\ b <= n
  BY DEF IsSpan
<1>2. \A j \in f..b : text[j] \in Other(words)
  <2>1. \A j \in f..b : j \in 1..Len(text)
    BY <1>1
  <2>2. \A j \in f..b : text[j] \in Lines
    BY <2>1
  <2> QED
    BY <1>1, <2>2 DEF Other
<1>3. SubSeq(text, f, b) \in Seq(Other(words))
  BY <1>1, <1>2, SubSeqProperties
<1>4. PICK span : span = SubSeq(text, first, last)
  OBVIOUS
<1>5. span \in Seq(Other(words))
  BY <1>1, <1>3, <1>4
<1>6. Own(span, words) = <<>>
  BY <1>5, OwnOther
<1>7. new \in Seq(Lines) /\ Own(new, words) = <<>>
  BY OwnOther
<1>8. Own(ReplaceLines(text, first, last, new), words) = Own(text, words)
  BY <1>4, <1>6, <1>7, OwnSplice
<1> QED
  BY <1>4, <1>5, <1>8

\* An edit that replaces no line of MAX's own, and adds none.
LEMMA OwnEditPlain ==
    ASSUME NEW text \in Seq(Lines), NEW words, NEW e, EditOK(e), e.how \in Spanning \ {"body"},
           NEW i, NEW first, NEW last, NEW kept, NEW new, NEW out,
           Edited(text, e, i, first, last, kept, new, out),
           \A j \in first..last : text[j].is \notin words,
           \A j \in 1..Len(e.new) : e.new[j].is \notin words
    PROVE  Own(out, words) = Own(text, words)
<1>1. IsSpan(text, first, last) /\ out = ReplaceLines(text, first, last, new)
  BY DEF Edited
<1>2. <<>> \in Seq(Other(words))
  OBVIOUS
<1>3. SubSeq(text, first, last) \in Seq(Other(words))
  BY <1>1, <1>2, OwnOtherSplice
<1>4. kept \in Seq(Other(words))
  <2>1. kept = SubSeq(text, first, last)
    BY DEF Edited, Kept
  <2> QED
    BY <1>3, <2>1
<1>5. PICK base : base = IF e.how = "here" THEN text[i].indent ELSE 0
  OBVIOUS
<1>6. base \in Nat
  <2>1. text[i] \in Lines
    BY DEF Edited
  <2> QED
    BY <1>5, <2>1 DEF Lines
<1>7. new = Fill(e.new, kept, base) /\ e.new \in Seq(Lines)
  BY <1>5 DEF Edited, EditOK
<1>8. new \in Seq(Other(words))
  BY <1>4, <1>6, <1>7, FillOther
<1> QED
  BY <1>1, <1>8, OwnOtherSplice

\* A template whose last line is "original", with none of the words before it.
OriginalLast(new, a, k, words) ==
    /\ a \in Seq(Lines) /\ k \in Nat /\ new = a \o <<Line(k, "original")>>
    /\ "original" \in Words /\ \A j \in 1..Len(a) : a[j].is \notin words \cup {"original"}

LEMMA FillLast ==
    ASSUME NEW new, NEW a, NEW k, NEW words, OriginalLast(new, a, k, words), NEW original \in Seq(Lines),
           NEW base \in Nat
    PROVE  Fill(new, original, base) = Reindent(a, base) \o Reindent(original, k)
<1>1. PICK one : one = <<Line(k, "original")>>
  OBVIOUS
<1>2. Line(k, "original") \in Lines
  BY LineIn DEF OriginalLast
<1>3. one \in Seq(Lines) /\ a \in Seq(Lines) /\ k \in Nat
  BY <1>1, <1>2 DEF OriginalLast
<1>4. Fill(a \o one, original, base) = Fill(a, original, base) \o Fill(one, original, base)
  BY <1>3, FillJoin
<1>5. Fill(a, original, base) = Reindent(a, base)
  BY FillPlain DEF OriginalLast
<1>6. Fill(one, original, base) = Reindent(original, k)
  BY <1>1, FillOriginal DEF OriginalLast
<1> QED
  BY <1>1, <1>4, <1>5, <1>6 DEF OriginalLast

LEMMA OwnFillLast ==
    ASSUME NEW new, NEW a, NEW k, NEW words, OriginalLast(new, a, k, words), NEW original \in Seq(Lines),
           NEW base \in Nat
    PROVE  Own(Fill(new, original, base), words) = Own(original, words)
<1>1. a \in Seq(Lines) /\ k \in Nat
  BY DEF OriginalLast
<1>2. PICK x, y : x = Reindent(a, base) /\ y = Reindent(original, k)
  OBVIOUS
<1>3. x \in Seq(Lines) /\ y \in Seq(Lines)
  BY <1>1, <1>2, ReindentIn
<1>4. Own(x, words) = Own(a, words) /\ Own(y, words) = Own(original, words)
  BY <1>1, <1>2, OwnReindent
<1>5. a \in Seq(Other(words))
  BY <1>1, IsOther DEF OriginalLast
<1>6. Own(a, words) = <<>>
  BY <1>5, OwnOther
<1>7. Own(x \o y, words) = Own(x, words) \o Own(y, words)
  <2>1. Joins(x, y, words)
    BY <1>3, OwnJoin
  <2> QED
    BY ONLY <2>1 DEF Joins
<1>8. Own(original, words) \in Seq(Words)
  BY OwnIn
<1>9. <<>> \o Own(original, words) = Own(original, words)
  BY <1>8, ConcatEmptySeq
<1>10. Fill(new, original, base) = x \o y
  <2>1. Fill(new, original, base) = Reindent(a, base) \o Reindent(original, k)
    BY FillLast
  <2> QED
    BY <1>2, <2>1
<1> QED
  BY <1>4, <1>6, <1>7, <1>9, <1>10

\* An edit that writes what it replaces once.
Once(e, words) == e.how \in {"counts", "here"} /\ \E a, k : OriginalLast(e.new, a, k, words)

LEMMA OwnEditOnce ==
    ASSUME NEW text \in Seq(Lines), NEW words, NEW e, Once(e, words),
           NEW i, NEW first, NEW last, NEW kept, NEW new, NEW out,
           Edited(text, e, i, first, last, kept, new, out)
    PROVE  Own(out, words) = Own(text, words)
<1>0. PICK a, k : OriginalLast(e.new, a, k, words) /\ e.how \in {"counts", "here"}
  BY DEF Once
<1>1. IsSpan(text, first, last) /\ out = ReplaceLines(text, first, last, new)
  BY DEF Edited
<1>2. new \in Seq(Lines) /\ kept \in Seq(Lines) /\ kept = SubSeq(text, first, last)
  BY <1>0 DEF Edited, Kept
<1>3. PICK base : base = IF e.how = "here" THEN text[i].indent ELSE 0
  OBVIOUS
<1>4. base \in Nat
  <2>1. text[i] \in Lines
    BY DEF Edited
  <2> QED
    BY <1>3, <2>1 DEF Lines
<1>5. PICK lines : lines = e.new /\ OriginalLast(lines, a, k, words) /\ new = Fill(lines, kept, base)
  BY <1>0, <1>3 DEF Edited
<1>6. Own(new, words) = Own(kept, words)
  <2>1. PICK o \in Seq(Lines), b \in Nat : o = kept /\ b = base
    BY <1>2, <1>4
  <2>2. OriginalLast(lines, a, k, words)
    BY <1>5
  <2>3. Own(Fill(lines, o, b), words) = Own(o, words)
    BY ONLY <2>2, OwnFillLast
  <2> QED
    BY <1>5, <2>1, <2>3
<1> QED
  BY <1>1, <1>2, <1>6, OwnSplice

\* Lines that are put in, after a statement and before it.
LEMMA OwnAround ==
    ASSUME NEW text \in Seq(Lines), NEW i \in DOMAIN text, NEW words, NEW e,
           e.new \in Seq(Other(words)), e.after \in Seq(Other(words))
    PROVE  Own(AroundAt(text, i, e), words) = Own(text, words)
<1>1. Len(text) \in Nat /\ i \in 1..Len(text)
  OBVIOUS
<1>2. PICK n : n = End(text, i)
  OBVIOUS
<1>3. n \in i .. Len(text)
  BY <1>2, EndIs
<1>4. PICK once : once = ReplaceLines(text, n + 1, n, e.after)
  OBVIOUS
<1>5. IsSpan(text, n + 1, n) /\ n + 1 - (n + 1) = 0 /\ \A j \in n + 1 .. n : FALSE
  BY <1>1, <1>3 DEF IsSpan
<1>6. e.new \in Seq(Lines) /\ e.after \in Seq(Lines)
  BY OwnOther
<1>7. once \in Seq(Lines) /\ Len(once) >= Len(text)
  <2>1. once \in Seq(Lines) /\ Len(once) >= Len(text) - (n + 1 - (n + 1))
    BY <1>4, <1>5, <1>6, ReplaceLinesIn
  <2> QED
    BY <1>1, <1>5, <2>1
<1>8. Own(once, words) = Own(text, words)
  <2>1. \A j \in n + 1 .. n : text[j].is \notin words
    BY <1>5
  <2> QED
    BY <1>4, <1>5, <2>1, OwnOtherSplice
<1>9. IsSpan(once, i, i - 1) /\ \A j \in i .. i - 1 : once[j].is \notin words
  <2>1. Len(once) \in Nat /\ i \in Nat /\ i >= 1 /\ i <= Len(text)
    BY <1>1, <1>7
  <2>2. \A j \in i .. i - 1 : FALSE
    BY <2>1
  <2> QED
    BY <1>1, <1>7, <2>1, <2>2 DEF IsSpan
<1>10. Own(ReplaceLines(once, i, i - 1, e.new), words) = Own(once, words)
  BY <1>7, <1>9, OwnOtherSplice
<1> QED
  BY <1>2, <1>4, <1>8, <1>10 DEF AroundAt

\* The edits that leave MAX's own lines alone in any text.
Spares(e, words) ==
    /\ EditOK(e)
    /\ \A j \in 1..Len(e.new) : e.new[j].is \notin words
    /\ \/ e.how \in {"before", "after", "start", "end", "top"}
       \/ e.how = "around" /\ \A j \in 1..Len(e.after) : e.after[j].is \notin words
       \/ e.how = "header" /\ e.find \notin words
       \/ e.how = "replace" /\ e.find \notin words \cup Headers
       \/ Once(e, words)

LEMMA OwnEdit ==
    ASSUME NEW text \in Seq(Lines), text # NotFound, NEW words, NEW e, Spares(e, words),
           Edit(text, e) # NotFound
    PROVE  Edit(text, e) \in Seq(Lines) /\ Own(Edit(text, e), words) = Own(text, words)
<1>1. EditOK(e) /\ e.new \in Seq(Lines) /\ e.new \in Seq(Other(words))
  <2>1. EditOK(e) /\ e.new \in Seq(Lines)
    BY DEF Spares, EditOK
  <2> QED
    BY <2>1, IsOther DEF Spares
<1>2. Edit(text, e) \in Seq(Lines)
  BY <1>1, EditIn DEF Texts
<1>3. Own(e.new, words) = <<>> /\ Own(text, words) \in Seq(Words)
  BY <1>1, OwnOther, OwnIn
<1>4. CASE e.how = "end"
  <2>1. Own(text \o e.new, words) = Own(text, words) \o Own(e.new, words)
    <3>1. Joins(text, e.new, words)
      BY <1>1, OwnJoin
    <3> QED
      BY ONLY <3>1 DEF Joins
  <2>2. Own(text, words) \o <<>> = Own(text, words)
    BY <1>3, ConcatEmptySeq
  <2>3. Edit(text, e) = text \o e.new
    BY <1>4 DEF Edit
  <2> QED
    BY <1>2, <1>3, <2>1, <2>2, <2>3
<1>5. CASE e.how = "top"
  <2>1. Own(e.new \o text, words) = Own(e.new, words) \o Own(text, words)
    <3>1. Joins(e.new, text, words)
      BY <1>1, OwnJoin
    <3> QED
      BY ONLY <3>1 DEF Joins
  <2>2. <<>> \o Own(text, words) = Own(text, words)
    BY <1>3, ConcatEmptySeq
  <2>3. Edit(text, e) = e.new \o text
    BY <1>5 DEF Edit
  <2> QED
    BY <1>2, <1>3, <2>1, <2>2, <2>3
<1>6. CASE e.how = "around"
  <2>1. Found(text, e)
    BY <1>6 DEF Edit
  <2>2. PICK i : i = Place(text, e)
    OBVIOUS
  <2>3. i \in DOMAIN text
    BY <1>1, <1>6, <2>1, <2>2, PlaceIn DEF EditOK
  <2>4. e.after \in Seq(Lines) /\ \A j \in 1..Len(e.after) : e.after[j].is \notin words
    BY <1>1, <1>6 DEF Spares, EditOK, Once
  <2>5. e.after \in Seq(Other(words))
    BY <2>4, IsOther
  <2>6. Own(AroundAt(text, i, e), words) = Own(text, words)
    BY <1>1, <2>3, <2>5, OwnAround
  <2> QED
    BY <1>2, <1>6, <2>1, <2>2, <2>6 DEF Edit
<1>7. CASE e.how \in Spanning \ {"body"}
  <2>1. PICK i, first, last, kept, new :
           Edited(text, e, i, first, last, kept, new, Edit(text, e))
    BY <1>1, <1>7, EditAt
  <2>2. i \in Nat /\ End(text, i) \in Int
    <3>1. i \in DOMAIN text
      BY <2>1 DEF Edited
    <3> QED
      BY <3>1, EndIs
  <2>3. CASE e.how \in {"before", "after", "start"}
    <3>1. \A j \in first..last : FALSE
      BY <2>1, <2>2, <2>3 DEF Edited
    <3> QED
      BY <1>1, <1>2, <1>7, <2>1, <3>1, OwnEditPlain DEF Spares
  <2>4. CASE e.how = "header" /\ e.find \notin words
    <3>1. \A j \in first..last : j = i
      BY <2>1, <2>2, <2>4 DEF Edited
    <3>2. \A j \in first..last : text[j].is \notin words
      BY <2>1, <2>4, <3>1 DEF Edited
    <3> QED
      BY <1>1, <1>2, <1>7, <2>1, <3>2, OwnEditPlain DEF Spares
  <2>5. CASE e.how = "replace" /\ e.find \notin words \cup Headers
    <3>1. End(text, i) = i
      BY <2>1, <2>5, OneLine DEF Edited
    <3>2. \A j \in first..last : j = i
      BY <2>1, <2>2, <2>5, <3>1 DEF Edited
    <3>3. \A j \in first..last : text[j].is \notin words
      BY <2>1, <2>5, <3>2 DEF Edited
    <3> QED
      BY <1>1, <1>2, <1>7, <2>1, <3>3, OwnEditPlain DEF Spares
  <2>6. CASE Once(e, words)
    BY <1>2, <2>1, <2>6, OwnEditOnce
  <2> QED
    BY <1>7, <2>3, <2>4, <2>5, <2>6 DEF Spares, Spanning, Once
<1>8. e.how \in {"end", "top", "around"} \/ e.how \in Spanning \ {"body"}
  BY DEF Spares, Spanning, Once
<1> QED
  BY <1>4, <1>5, <1>6, <1>7, <1>8

\* A list of such edits.
LEMMA OwnEdits ==
    ASSUME NEW text \in Seq(Lines), NEW words, NEW es, GoodEdits(es),
           \A i \in 1..Len(es) : Spares(es[i], words),
           FoldLeft(Edit, text, es) # NotFound
    PROVE  /\ FoldLeft(Edit, text, es) \in Seq(Lines)
           /\ Own(FoldLeft(Edit, text, es), words) = Own(text, words)
<1> DEFINE Q == {x \in Seq(Lines) : Own(x, words) = Own(text, words)}
<1>1. ASSUME NEW x \in Q, NEW i \in 1..Len(es), x # NotFound, Edit(x, es[i]) # NotFound
      PROVE  Edit(x, es[i]) \in Q
  BY <1>1, OwnEdit
<1>2. Q \in SUBSET Seq(Lines) /\ text \in Q
  OBVIOUS
<1> HIDE DEF Q
<1>3. FoldLeft(Edit, text, es) \in Q
  BY <1>1, <1>2, FoldInSet
<1> QED
  BY <1>3 DEF Q

\* What an edit writes, without the words.
Fresh(e, words) ==
    /\ \A j \in 1..Len(e.new) : e.new[j].is \notin words
    /\ e.how = "around" => \A j \in 1..Len(e.after) : e.after[j].is \notin words

\* The edits of a list spare the words unless they write them.
Sparing(es, words) == \A i \in 1..Len(es) : Fresh(es[i], words) => Spares(es[i], words)

LEMMA SparingJoin ==
    ASSUME NEW a, GoodEdits(a), NEW b, GoodEdits(b), NEW words,
           Sparing(a, words), Sparing(b, words)
    PROVE  Sparing(a \o b, words)
<1>1. PICK c : c = a \o b
  OBVIOUS
<1>2. Joined(c, a, b)
  BY <1>1, GoodJoined
<1>3. Len(a) \in Nat /\ Len(b) \in Nat
  BY DEF GoodEdits
<1>4. ASSUME NEW i \in 1..Len(c), Fresh(c[i], words)
      PROVE  Spares(c[i], words)
  <2>1. CASE i \in 1..Len(a)
    BY <1>2, <1>4, <2>1 DEF Joined, Sparing
  <2>2. CASE i \in Len(a) + 1 .. Len(c)
    BY <1>2, <1>4, <2>2 DEF Joined, Sparing
  <2>3. Len(c) = Len(a) + Len(b)
    BY <1>2 DEF Joined
  <2> QED
    BY <1>3, <2>1, <2>2, <2>3
<1> QED
  BY <1>1, <1>4 DEF Sparing

LEMMA SparingIf ==
    ASSUME NEW c, NEW es, NEW words, Sparing(es, words)
    PROVE  Sparing(If(c, es), words)
<1>1. CASE c
  BY <1>1 DEF If
<1>2. CASE ~c
  BY <1>2 DEF If, Sparing
<1> QED
  BY <1>1, <1>2

LEMMA SparingSingle ==
    ASSUME NEW words, NEW a, Fresh(a, words) => Spares(a, words)
    PROVE  Sparing(<<a>>, words)
BY DEF Sparing

\* The templates that end with "original".
LEMMA OriginalTuples ==
    ASSUME NEW words, NEW k \in Nat, "original" \in Words,
           NEW p \in Lines, NEW q \in Lines, NEW r \in Lines, NEW s \in Lines,
           {p.is, q.is, r.is, s.is} \cap (words \cup {"original"}) = {}
    PROVE  /\ OriginalLast(<<p, q, r, Line(k, "original")>>, <<p, q, r>>, k, words)
           /\ OriginalLast(<<p, q, r, s, Line(k, "original")>>, <<p, q, r, s>>, k, words)
<1>1. PICK l : l = Line(k, "original")
  OBVIOUS
<1>2. /\ <<p, q, r, l>> = <<p, q, r>> \o <<l>>
      /\ <<p, q, r, s, l>> = <<p, q, r, s>> \o <<l>>
  OBVIOUS
<1>3. <<p, q, r>> \in Seq(Lines) /\ <<p, q, r, s>> \in Seq(Lines)
  BY Tuples
<1>4. \A j \in 1..3 : <<p, q, r>>[j].is \in {p.is, q.is, r.is}
  <2>1. \A j \in 1..3 : j = 1 \/ j = 2 \/ j = 3
    OBVIOUS
  <2> QED
    BY <2>1
<1>5. \A j \in 1..4 : <<p, q, r, s>>[j].is \in {p.is, q.is, r.is, s.is}
  <2>1. \A j \in 1..4 : j = 1 \/ j = 2 \/ j = 3 \/ j = 4
    OBVIOUS
  <2> QED
    BY <2>1
<1>6. Len(<<p, q, r>>) = 3 /\ Len(<<p, q, r, s>>) = 4
  OBVIOUS
<1>7. OriginalLast(<<p, q, r, l>>, <<p, q, r>>, k, words)
  BY <1>1, <1>2, <1>3, <1>4, <1>6 DEF OriginalLast
<1>8. OriginalLast(<<p, q, r, s, l>>, <<p, q, r, s>>, k, words)
  BY <1>1, <1>2, <1>3, <1>5, <1>6 DEF OriginalLast
<1> QED
  BY <1>1, <1>7, <1>8

LEMMA LineOf == \A indent, is : Line(indent, is).is = is /\ Line(indent, is).indent = indent
BY DEF Line

-----------------------------------------------------------------------------
(* Statements and scopes.                                                  *)

\* The lines of a statement are deeper than its first; the line after it is not.
LEMMA EndBounds ==
    ASSUME NEW text \in Seq(Lines), NEW i \in 1..Len(text)
    PROVE  /\ End(text, i) \in i .. Len(text)
           /\ \A k \in i + 1 .. End(text, i) : text[k].indent > text[i].indent
           /\ End(text, i) < Len(text) => text[End(text, i) + 1].indent <= text[i].indent
<1> DEFINE S == {j \in i .. Len(text) : \A k \in i + 1 .. j : text[k].indent > text[i].indent}
<1>1. Len(text) \in Nat /\ i \in Nat
  OBVIOUS
<1>2. i \in S /\ S \in SUBSET (1..Len(text))
  BY <1>1
<1>3. PICK m : m = Max(S)
  OBVIOUS
<1>4. m \in S /\ \A y \in S : y <= m
  <2> HIDE DEF S
  <2> QED
    BY <1>1, <1>2, <1>3, MaxOfPositions
<1>5. ASSUME m < Len(text)
      PROVE  text[m + 1].indent <= text[i].indent
  <2> SUFFICES ASSUME ~(text[m + 1].indent <= text[i].indent)
               PROVE  FALSE
    OBVIOUS
  <2>1. m + 1 \in 1..Len(text) /\ m + 1 \in i .. Len(text)
    BY <1>1, <1>4, <1>5
  <2>2. text[m + 1] \in Lines /\ text[i] \in Lines
    BY <2>1
  <2>3. text[m + 1].indent > text[i].indent
    BY <2>2 DEF Lines
  <2>4. \A k \in i + 1 .. m + 1 : k \in i + 1 .. m \/ k = m + 1
    BY <1>1, <1>4
  <2>5. \A k \in i + 1 .. m + 1 : text[k].indent > text[i].indent
    BY <1>4, <2>3, <2>4
  <2>6. m + 1 \in S
    BY <2>1, <2>5
  <2>7. m + 1 <= m
    <3> HIDE DEF S
    <3> QED
      BY <1>4, <2>6
  <2> QED
    BY <1>4, <2>7
<1>6. End(text, i) = m
  BY <1>3 DEF End
<1> QED
  BY <1>4, <1>5, <1>6

\* A statement is as long as that.
LEMMA EndWhen ==
    ASSUME NEW text \in Seq(Lines), NEW i \in 1..Len(text), NEW m \in i .. Len(text),
           \A k \in i + 1 .. m : text[k].indent > text[i].indent,
           m < Len(text) => text[m + 1].indent <= text[i].indent
    PROVE  End(text, i) = m
<1>1. PICK n : n = End(text, i)
  OBVIOUS
<1>2. /\ n \in i .. Len(text) /\ \A k \in i + 1 .. n : text[k].indent > text[i].indent
      /\ n < Len(text) => text[n + 1].indent <= text[i].indent
  BY <1>1, EndBounds
<1>3. Len(text) \in Nat /\ i \in Nat /\ m \in Nat /\ n \in Nat
  BY <1>2
<1>4. ~(n < m)
  <2> SUFFICES ASSUME n < m
               PROVE  FALSE
    OBVIOUS
  <2>1. n + 1 \in i + 1 .. m /\ n < Len(text) /\ n + 1 \in 1..Len(text)
    BY <1>2, <1>3
  <2>2. text[n + 1].indent > text[i].indent /\ text[n + 1].indent <= text[i].indent
    BY <1>2, <2>1
  <2>3. text[n + 1] \in Lines /\ text[i] \in Lines
    BY <2>1
  <2> QED
    BY <2>2, <2>3 DEF Lines
<1>5. ~(m < n)
  <2> SUFFICES ASSUME m < n
               PROVE  FALSE
    OBVIOUS
  <2>1. m + 1 \in i + 1 .. n /\ m < Len(text) /\ m + 1 \in 1..Len(text)
    BY <1>2, <1>3
  <2>2. text[m + 1].indent > text[i].indent /\ text[m + 1].indent <= text[i].indent
    BY <1>2, <2>1
  <2>3. text[m + 1] \in Lines /\ text[i] \in Lines
    BY <2>1
  <2> QED
    BY <2>2, <2>3 DEF Lines
<1> QED
  BY <1>1, <1>3, <1>4, <1>5

\* What a path leads to, name by name.
LEMMA ScopeSteps ==
    ASSUME NEW text \in Seq(Lines), NEW path \in Seq(Headers)
    PROVE  \E t : /\ t \in [0..Len(path) -> SUBSET DOMAIN text] /\ t[0] = DOMAIN text
                  /\ \A i \in 1..Len(path) : t[i] = Inside(text, t[i - 1], path[i])
                  /\ t[Len(path)] = Scope(text, path)
<1> DEFINE D == SUBSET DOMAIN text
           n == Len(path)
           F == [x \in D \X (1..n) |-> Inside(text, x[1], path[x[2]])]
           Is(c) == c = [s \in SUBSET (1..n) |->
                            IF s = {} THEN DOMAIN text
                            ELSE Inside(text, c[s \ {Max(s)}], path[Max(s)])]
           chosen == CHOOSE c : Is(c)
<1>1. Scope(text, path) = chosen[1..n]
  <2>1. DOMAIN path = 1..n
    OBVIOUS
  <2> QED
    BY <2>1 DEF Scope, FoldLeft, MapThenFoldSet
<1>2. n \in Nat /\ DOMAIN text \in D
  OBVIOUS
<1>3. \A x \in D, i \in 1..n : F[<<x, i>>] = Inside(text, x, path[i]) /\ F[<<x, i>>] \in D
  BY InsideIn
<1> HIDE DEF D, F, n
<1>4. PICK g : FoldOf(g, n, D, DOMAIN text, F)
  BY <1>2, <1>3, FoldExists
<1>5. Is(g)
  <2>1. ASSUME NEW s \in SUBSET (1..n), s # {}
        PROVE  g[s] = Inside(text, g[s \ {Max(s)}], path[Max(s)])
    <3>1. Max(s) \in 1..n /\ s \ {Max(s)} \in SUBSET (1..n)
      BY <1>2, <2>1, MaxOfPositions
    <3> QED
      BY <1>3, <1>4, <2>1, <3>1 DEF FoldOf
  <2> QED
    BY <1>4, <2>1 DEF FoldOf
<1> HIDE DEF Is
<1>6. PICK c : c = chosen /\ Is(c)
  BY <1>5
<1> HIDE DEF chosen
<1>7. c[1..n] = g[1..n]
  <2>1. c[{}] = DOMAIN text
    BY <1>6 DEF Is
  <2>2. ASSUME NEW s \in SUBSET (1..n), s # {}, c[s \ {Max(s)}] = g[s \ {Max(s)}]
        PROVE  c[s] = F[<<g[s \ {Max(s)}], Max(s)>>]
    <3>1. Max(s) \in 1..n /\ s \ {Max(s)} \in SUBSET (1..n)
      BY <1>2, <2>2, MaxOfPositions
    <3>2. g[s \ {Max(s)}] \in D
      BY <1>4, <3>1 DEF FoldOf
    <3> QED
      BY <1>3, <1>6, <2>2, <3>1, <3>2 DEF Is
  <2>3. Follows(c, g, n, DOMAIN text, F)
    BY <2>1, <2>2 DEF Follows
  <2> QED
    BY <1>2, <1>4, <2>3, FoldUnique
<1>8. PICK t : TakesSteps(t, n, D, DOMAIN text, F) /\ Reaches(t, n, g)
  BY <1>2, <1>3, <1>4, FoldSteps
<1>9. \A i \in 1..n : t[i] = Inside(text, t[i - 1], path[i])
  <2>1. ASSUME NEW i \in 1..n
        PROVE  t[i] = Inside(text, t[i - 1], path[i])
    <3>1. t[i - 1] \in D /\ t[i] = F[<<t[i - 1], i>>]
      BY <1>2, <1>8 DEF TakesSteps
    <3> QED
      BY <1>3, <3>1
  <2> QED
    BY <2>1
<1>10. t \in [0..n -> D] /\ t[0] = DOMAIN text /\ t[n] = Scope(text, path)
  BY <1>1, <1>6, <1>7, <1>8 DEF TakesSteps, Reaches
<1> QED
  BY <1>9, <1>10 DEF n, D

LEMMA ScopeOne ==
    ASSUME NEW text \in Seq(Lines), NEW a \in Headers
    PROVE  Scope(text, <<a>>) = Inside(text, DOMAIN text, a)
<1>1. PICK path : path = <<a>>
  OBVIOUS
<1>2. path \in Seq(Headers) /\ Len(path) = 1 /\ path[1] = a
  BY <1>1
<1>3. PICK t : /\ t[0] = DOMAIN text /\ t[1] = Scope(text, path)
               /\ \A i \in 1..1 : t[i] = Inside(text, t[i - 1], path[i])
  BY <1>2, ScopeSteps
<1>4. t[1] = Inside(text, t[0], path[1])
  <2>1. 1 \in 1..1 /\ 1 - 1 = 0
    OBVIOUS
  <2> QED
    BY <1>3, <2>1
<1> QED
  BY <1>1, <1>2, <1>3, <1>4

LEMMA ScopeTwo ==
    ASSUME NEW text \in Seq(Lines), NEW a \in Headers, NEW b \in Headers
    PROVE  Scope(text, <<a, b>>) = Inside(text, Inside(text, DOMAIN text, a), b)
<1>1. PICK path : path = <<a, b>>
  OBVIOUS
<1>2. path \in Seq(Headers) /\ Len(path) = 2 /\ path[1] = a /\ path[2] = b
  BY <1>1
<1>3. PICK t : /\ t[0] = DOMAIN text /\ t[2] = Scope(text, path)
               /\ \A i \in 1..2 : t[i] = Inside(text, t[i - 1], path[i])
  BY <1>2, ScopeSteps
<1>4. t[1] = Inside(text, t[0], path[1]) /\ t[2] = Inside(text, t[1], path[2])
  <2>1. 1 \in 1..2 /\ 2 \in 1..2 /\ 1 - 1 = 0 /\ 2 - 1 = 1
    OBVIOUS
  <2> QED
    BY <1>3, <2>1
<1> QED
  BY <1>1, <1>2, <1>3, <1>4

\* What is inside of a statement is found after its first line, deeper than it.
LEMMA InsideIs ==
    ASSUME NEW text \in Seq(Lines), NEW s \in SUBSET (1..Len(text)), NEW is,
           NEW k \in Inside(text, s, is)
    PROVE  \E i \in s : /\ i \in 1..Len(text) /\ text[i].is = is
                        /\ Inside(text, s, is) = i + 1 .. End(text, i)
                        /\ k \in i + 1 .. End(text, i) /\ k \in 1..Len(text)
                        /\ text[k].indent > text[i].indent
                        /\ IsFound(Hits(text, s, is), is) /\ i = Min(Hits(text, s, is))
<1> DEFINE hits == Hits(text, s, is)
           i == Min(hits)
<1>1. IsFound(hits, is) /\ Inside(text, s, is) = i + 1 .. End(text, i)
  BY DEF Inside
<1>2. hits \in SUBSET Nat /\ hits # {}
  <2>1. \A j \in hits : j \in s
    BY DEF Hits
  <2>2. \A j \in s : j \in Nat
    OBVIOUS
  <2>3. hits # {}
    BY <1>1 DEF IsFound
  <2> HIDE DEF hits
  <2> QED
    BY <2>1, <2>2, <2>3
<1>3. i \in hits
  BY <1>2, MinProps
<1>4. i \in s /\ i \in 1..Len(text) /\ text[i].is = is
  BY <1>3 DEF Hits
<1>5. PICK p : p = i
  OBVIOUS
<1>6. k \in p + 1 .. End(text, p) /\ p \in 1..Len(text)
  BY <1>1, <1>4, <1>5
<1> HIDE DEF i
<1>7. End(text, p) \in p .. Len(text) /\ text[k].indent > text[p].indent
  BY <1>6, EndBounds
<1>8. k \in 1..Len(text)
  BY <1>6, <1>7
<1> QED
  BY <1>1, <1>4, <1>5, <1>6, <1>7, <1>8 DEF i

\* What is found down a path is as deep as the path is long.
LEMMA ScopeDeep ==
    ASSUME NEW text \in Seq(Lines), NEW path \in Seq(Headers), NEW k \in Scope(text, path)
    PROVE  k \in 1..Len(text) /\ text[k].indent >= Len(path)
<1>1. PICK n \in Nat : n = Len(path)
  OBVIOUS
<1>0. PICK t : /\ t \in [0..Len(path) -> SUBSET DOMAIN text] /\ t[0] = DOMAIN text
               /\ \A i \in 1..Len(path) : t[i] = Inside(text, t[i - 1], path[i])
               /\ t[Len(path)] = Scope(text, path)
  BY ScopeSteps
<1>2. /\ t \in [0..n -> SUBSET (1..Len(text))] /\ t[n] = Scope(text, path)
      /\ \A i \in 1..n : t[i] = Inside(text, t[i - 1], path[i])
  BY <1>0, <1>1
<1> DEFINE Goes(i) == \A j \in t[i] : text[j].indent >= i
           T == {i \in 0..n : ~Goes(i)}
<1>3. T = {}
  <2> SUFFICES ASSUME T # {}
               PROVE  FALSE
    OBVIOUS
  <2>1. PICK m \in T : \A j \in T : m <= j
    <3> HIDE DEF Goes
    <3>1. T \in SUBSET Nat
      OBVIOUS
    <3> HIDE DEF T
    <3> QED
      BY <3>1, HasLeast
  <2>2. PICK j \in t[m] : ~(text[j].indent >= m)
    BY <2>1
  <2>3. j \in 1..Len(text)
    BY <1>2, <2>1, <2>2
  <2>4. text[j].indent \in Nat
    <3>1. text[j] \in Lines
      BY <2>3
    <3> QED
      BY <3>1 DEF Lines
  <2>5. m \in 1..n /\ m - 1 \in 0..n /\ ~(m <= m - 1)
    BY <2>1, <2>2, <2>4
  <2>6. Goes(m - 1)
    <3>1. m - 1 \notin T
      <4> HIDE DEF T
      <4> QED
        BY <2>1, <2>5
    <3> QED
      BY <2>5, <3>1
  <2>7. PICK i \in t[m - 1] : i \in 1..Len(text) /\ text[j].indent > text[i].indent
    <3>1. PICK s : s = t[m - 1]
      OBVIOUS
    <3>2. s \in SUBSET (1..Len(text)) /\ t[m] = Inside(text, s, path[m])
      BY <1>2, <2>5, <3>1
    <3> HIDE DEF Goes, T
    <3> QED
      BY <2>2, <3>1, <3>2, InsideIs
  <2>8. text[i].indent >= m - 1 /\ text[i].indent \in Nat
    <3>1. text[i] \in Lines
      BY <2>7
    <3> QED
      BY <2>6, <2>7, <3>1 DEF Lines
  <2> QED
    BY <2>2, <2>4, <2>5, <2>7, <2>8
<1>4. n \in 0..n
  OBVIOUS
<1>5. k \in t[n] /\ k \in 1..Len(text)
  BY <1>2, ScopeIn
<1> QED
  BY <1>1, <1>3, <1>4, <1>5

\* The lines after a statement's first that are deeper, up to one, are of it.
LEMMA EndCovers ==
    ASSUME NEW text \in Seq(Lines), NEW i \in 1..Len(text), NEW q \in i + 1 .. Len(text),
           \A k \in i + 1 .. q : text[k].indent > text[i].indent
    PROVE  q \in i + 1 .. End(text, i)
<1>1. PICK n : n = End(text, i)
  OBVIOUS
<1>2. n \in i .. Len(text) /\ (n < Len(text) => text[n + 1].indent <= text[i].indent)
  BY <1>1, EndBounds
<1>3. ~(n < q)
  <2> SUFFICES ASSUME n < q
               PROVE  FALSE
    OBVIOUS
  <2>1. n + 1 \in i + 1 .. q /\ n < Len(text) /\ n + 1 \in 1..Len(text)
    BY <1>2
  <2>2. text[n + 1].indent > text[i].indent /\ text[n + 1].indent <= text[i].indent
    BY <1>2, <2>1
  <2>3. text[n + 1] \in Lines /\ text[i] \in Lines
    BY <2>1
  <2> QED
    BY <2>2, <2>3 DEF Lines
<1> QED
  BY <1>1, <1>2, <1>3

\* A list whose first edit is looked at by itself.
LEMMA OwnEditsFrom ==
    ASSUME NEW text \in Seq(Lines), NEW words, NEW es, GoodEdits(es), Len(es) >= 1,
           Edit(text, es[1]) # NotFound => Own(Edit(text, es[1]), words) = Own(text, words),
           \A i \in 2..Len(es) : Spares(es[i], words),
           FoldLeft(Edit, text, es) # NotFound
    PROVE  Own(FoldLeft(Edit, text, es), words) = Own(text, words)
<1>1. PICK n \in Nat : n = Len(es)
  BY DEF GoodEdits
<1>2. PICK t : RunOf(t, text, es) /\ t[n] = FoldLeft(Edit, text, es)
  BY <1>1, EditsRun DEF Texts
<1>3. /\ t[0] = text
      /\ \A i \in 1..n : t[i] = Edit(t[i - 1], es[i]) /\ (t[i] # NotFound => t[i - 1] # NotFound)
      /\ \A i \in 0..n : t[i] # NotFound => t[i] \in Seq(Lines)
  BY <1>1, <1>2, RunStays DEF RunOf
<1> DEFINE Goes(i) == t[i] # NotFound => Own(t[i], words) = Own(text, words)
           T == {i \in 0..n : ~Goes(i)}
<1>4. T = {}
  <2> SUFFICES ASSUME T # {}
               PROVE  FALSE
    OBVIOUS
  <2>1. PICK m \in T : \A k \in T : m <= k
    <3> HIDE DEF Goes
    <3>1. T \in SUBSET Nat
      OBVIOUS
    <3> HIDE DEF T
    <3> QED
      BY <3>1, HasLeast
  <2>2. m # 0
    BY <1>3, <2>1
  <2>3. m # 1
    <3>1. 1 \in 1..n /\ 1 - 1 = 0
      BY <1>1
    <3>2. t[1] = Edit(text, es[1])
      BY <1>3, <3>1
    <3> QED
      BY <2>1, <3>2
  <2>4. m \in 1..n /\ m \in 2..n /\ m - 1 \in 0..n /\ ~(m <= m - 1)
    BY <2>1, <2>2, <2>3
  <2>5. m - 1 \notin T
    <3> HIDE DEF T
    <3> QED
      BY <2>1, <2>4
  <2>6. t[m] = Edit(t[m - 1], es[m]) /\ t[m] # NotFound /\ t[m - 1] # NotFound
    BY <1>3, <2>1, <2>4
  <2>7. t[m - 1] \in Seq(Lines) /\ Own(t[m - 1], words) = Own(text, words)
    BY <1>3, <2>4, <2>5, <2>6
  <2>8. Spares(es[m], words)
    BY <1>1, <2>4
  <2>9. Own(Edit(t[m - 1], es[m]), words) = Own(t[m - 1], words)
    <3>1. PICK x, e : x \in Seq(Lines) /\ x = t[m - 1] /\ e = es[m]
      BY <2>7
    <3>2. x # NotFound /\ Spares(e, words) /\ Edit(x, e) # NotFound
      BY <2>6, <2>8, <3>1
    <3>3. Own(Edit(x, e), words) = Own(x, words)
      BY ONLY <3>1, <3>2, OwnEdit
    <3> QED
      BY <3>1, <3>3
  <2> QED
    BY <2>1, <2>6, <2>7, <2>9
<1>5. n \in 0..n
  OBVIOUS
<1> QED
  BY <1>2, <1>4, <1>5

\* A body of lines that are not MAX's own.
LEMMA OwnEditBody ==
    ASSUME NEW text \in Seq(Lines), NEW words, NEW e, EditOK(e), e.how = "body",
           NEW i, NEW first, NEW last, NEW kept, NEW new, NEW out,
           Edited(text, e, i, first, last, kept, new, out),
           \A j \in first..last : text[j].is \notin words, Fresh(e, words)
    PROVE  Own(out, words) = Own(text, words)
<1>1. /\ IsSpan(text, first, last) /\ out = ReplaceLines(text, first, last, new)
      /\ Compiles(text) /\ i \in 1..Len(text) /\ text[i].is \in Headers
      /\ first = i + 1 /\ last = End(text, i) /\ e.new \in Seq(Lines)
      /\ kept = Kept(text, <<first, last>>, "body") /\ new = Fill(e.new, kept, 0)
  BY DEF Edited, EditOK
<1> DEFINE S == {j \in i + 1 .. End(text, i) : text[j].indent = text[i + 1].indent}
<1>2. PICK m : m = Max(S)
  OBVIOUS
<1>3. m \in i + 1 .. End(text, i)
  <2>1. i \in DOMAIN text
    BY <1>1
  <2>2. Max(S) \in i + 1 .. End(text, i)
    BY <1>1, <2>1, BodyHasLast
  <2> QED
    BY <1>2, <2>2
<1>4. kept = SubSeq(text, m, last)
  BY <1>1, <1>2 DEF Kept
<1> HIDE DEF S
<1>5. End(text, i) \in i .. Len(text)
  BY <1>1, EndBounds
<1>6. \A j \in m..last : text[j] \in Other(words)
  <2>1. \A j \in m..last : j \in first..last /\ j \in 1..Len(text)
    BY <1>1, <1>3, <1>5
  <2>2. \A j \in m..last : text[j] \in Lines
    BY <2>1
  <2> QED
    BY <2>1, <2>2 DEF Other
<1>7. kept \in Seq(Other(words))
  <2>1. m \in Int /\ last \in Int
    BY <1>1, <1>3, <1>5
  <2> QED
    BY <1>4, <1>6, <2>1, SubSeqProperties
<1>8. new \in Seq(Other(words))
  BY <1>1, <1>7, FillOther DEF Fresh
<1> QED
  BY <1>1, <1>8, OwnOtherSplice

\* A body of which the last line is kept, where it is the only one of MAX's own.
LEMMA OwnEditLastOfBody ==
    ASSUME NEW text \in Seq(Lines), NEW words, NEW e, EditOK(e), e.how = "body",
           NEW i, NEW first, NEW last, NEW kept, NEW new, NEW out,
           Edited(text, e, i, first, last, kept, new, out),
           \A j \in first .. last - 1 : text[j].is \notin words,
           text[last].indent = text[i + 1].indent,
           NEW a, NEW k, OriginalLast(e.new, a, k, words)
    PROVE  /\ Own(out, words) = Own(text, words)
           /\ kept = <<text[last]>> /\ new = Reindent(a, 0) \o Reindent(kept, k)
           /\ last \in first .. Len(text)
<1>1. /\ IsSpan(text, first, last) /\ out = ReplaceLines(text, first, last, new)
      /\ Compiles(text) /\ i \in 1..Len(text) /\ text[i].is \in Headers
      /\ first = i + 1 /\ last = End(text, i) /\ e.new \in Seq(Lines)
      /\ kept = Kept(text, <<first, last>>, "body") /\ new = Fill(e.new, kept, 0)
      /\ kept \in Seq(Lines) /\ new \in Seq(Lines)
  BY DEF Edited, EditOK
<1> DEFINE S == {j \in i + 1 .. End(text, i) : text[j].indent = text[i + 1].indent}
<1>2. PICK m : m = Max(S)
  OBVIOUS
<1>3. m \in i + 1 .. End(text, i)
  <2>1. i \in DOMAIN text
    BY <1>1
  <2>2. Max(S) \in i + 1 .. End(text, i)
    BY <1>1, <2>1, BodyHasLast
  <2> QED
    BY <1>2, <2>2
<1>4. kept = SubSeq(text, m, last)
  BY <1>1, <1>2 DEF Kept
<1>5. last \in i .. Len(text)
  BY <1>1, EndBounds
<1>6. last \in first .. Len(text) /\ first \in 1..Len(text) /\ last \in 1..Len(text)
  BY <1>1, <1>3, <1>5
<1>7. m = last
  <2>1. last \in S /\ S \in SUBSET (1..Len(text))
    BY <1>1, <1>3, <1>5
  <2>2. Len(text) \in Nat
    OBVIOUS
  <2> HIDE DEF S
  <2>3. \A y \in S : y <= m
    BY <1>2, <2>1, <2>2, MaxOfPositions
  <2>4. last <= m /\ m <= last /\ m \in Int /\ last \in Int
    BY <1>1, <1>3, <1>5, <2>1, <2>3
  <2> QED
    BY <2>4
<1> HIDE DEF S
<1>8. PICK l : l = text[last]
  OBVIOUS
<1>9. l \in Lines
  BY <1>6, <1>8
<1>10. kept = <<l>>
  <2>1. SubSeq(text, last, last) = SubSeq(text, last, last - 1) \o <<text[last]>>
    <3>1. last \in 1..Len(text) /\ last \in last .. Len(text)
      BY <1>6
    <3> QED
      BY <3>1, SubSeqRecursiveSecond
  <2>2. SubSeq(text, last, last - 1) = <<>>
    BY <1>6, SubSeqEmpty
  <2>3. <<>> \o <<l>> = <<l>>
    BY <1>9, ConcatEmptySeq
  <2> QED
    BY <1>4, <1>7, <1>8, <2>1, <2>2, <2>3
<1>11. PICK b : b = SubSeq(text, first, last - 1)
  OBVIOUS
<1>12. SubSeq(text, first, last) = b \o kept
  <2>1. SubSeq(text, first, last) = SubSeq(text, first, last - 1) \o <<text[last]>>
    BY <1>6, SubSeqRecursiveSecond
  <2> QED
    BY <1>8, <1>10, <1>11, <2>1
<1>13. b \in Seq(Other(words))
  <2>1. \A j \in first .. last - 1 : j \in 1..Len(text)
    BY <1>6
  <2>2. \A j \in first .. last - 1 : text[j] \in Lines
    BY <2>1
  <2>3. \A j \in first .. last - 1 : text[j] \in Other(words)
    BY <2>2 DEF Other
  <2>4. first \in Int /\ last - 1 \in Int
    BY <1>6
  <2> QED
    BY <1>11, <2>3, <2>4, SubSeqProperties
<1>14. b \in Seq(Lines) /\ Own(b, words) = <<>>
  BY <1>13, OwnOther
<1>15. Own(SubSeq(text, first, last), words) = Own(kept, words)
  <2>1. Own(b \o kept, words) = Own(b, words) \o Own(kept, words)
    <3>1. PICK y \in Seq(Lines), z \in Seq(Lines) : y = b /\ z = kept
      BY <1>1, <1>14
    <3>2. Own(y \o z, words) = Own(y, words) \o Own(z, words)
      <4>1. Joins(y, z, words)
        BY OwnJoin
      <4> QED
        BY ONLY <4>1 DEF Joins
    <3> QED
      BY <3>1, <3>2
  <2>2. Own(kept, words) \in Seq(Words)
    BY <1>1, OwnIn
  <2>3. <<>> \o Own(kept, words) = Own(kept, words)
    BY <2>2, ConcatEmptySeq
  <2> QED
    BY <1>12, <1>14, <2>1, <2>3
<1>16. PICK lines, o \in Seq(Lines) : lines = e.new /\ o = kept /\ OriginalLast(lines, a, k, words)
  BY <1>1
<1>17. /\ Own(Fill(lines, o, 0), words) = Own(o, words)
       /\ Fill(lines, o, 0) = Reindent(a, 0) \o Reindent(o, k)
  <2>1. OriginalLast(lines, a, k, words) /\ 0 \in Nat
    BY <1>16
  <2>2. Own(Fill(lines, o, 0), words) = Own(o, words)
    BY ONLY <2>1, o \in Seq(Lines), OwnFillLast
  <2>3. Fill(lines, o, 0) = Reindent(a, 0) \o Reindent(o, k)
    BY ONLY <2>1, o \in Seq(Lines), FillLast
  <2> QED
    BY <2>2, <2>3
<1>18. Own(new, words) = Own(SubSeq(text, first, last), words)
  BY <1>1, <1>15, <1>16, <1>17
<1>19. Own(out, words) = Own(text, words)
  BY <1>1, <1>18, OwnSplice
<1> QED
  BY <1>1, <1>6, <1>8, <1>10, <1>16, <1>17, <1>19

-----------------------------------------------------------------------------
(* Statements and bodies that are replaced.                                *)

\* A statement that is replaced, none of whose lines is MAX's own.
LEMMA OwnWhole ==
    ASSUME NEW text \in Seq(Lines), text # NotFound, NEW words, NEW e, EditOK(e),
           e.how = "replace", Fresh(e, words), Edit(text, e) # NotFound, e.find \notin words,
           \A i \in 1..Len(text) : text[i].is = e.find => Under(text, i) \cap words = {}
    PROVE  Own(Edit(text, e), words) = Own(text, words)
<1>1. PICK out : out = Edit(text, e)
  OBVIOUS
<1>2. PICK i, first, last, kept, new : Edited(text, e, i, first, last, kept, new, out)
  BY <1>1, EditAt DEF Spanning
<1>3. i \in 1..Len(text) /\ text[i].is = e.find /\ first = i /\ last = End(text, i)
  BY <1>2 DEF Edited
<1>4. End(text, i) \in i .. Len(text)
  BY <1>3, EndBounds
<1>5. ASSUME NEW j \in first..last
      PROVE  text[j].is \notin words
  <2>1. j = i \/ j \in i + 1 .. End(text, i)
    BY <1>3, <1>4
  <2> QED
    BY <1>3, <2>1 DEF Under
<1>6. /\ \A j \in first..last : text[j].is \notin words
      /\ \A j \in 1..Len(e.new) : e.new[j].is \notin words
      /\ EditOK(e) /\ e.how \in Spanning \ {"body"}
  BY <1>5 DEF Fresh, Spanning
<1>7. Own(out, words) = Own(text, words)
  BY ONLY <1>2, <1>6, text \in Seq(Lines), OwnEditPlain
<1> QED
  BY <1>1, <1>7

\* A body that is replaced.
LEMMA OwnBody ==
    ASSUME NEW text \in Seq(Lines), text # NotFound, NEW words, NEW e, EditOK(e),
           e.how = "body", Fresh(e, words), Edit(text, e) # NotFound,
           Under(text, Place(text, e)) \cap words = {}
    PROVE  Own(Edit(text, e), words) = Own(text, words)
<1>1. PICK out : out = Edit(text, e)
  OBVIOUS
<1>2. PICK i, first, last, kept, new : Edited(text, e, i, first, last, kept, new, out)
  BY <1>1, EditAt DEF Spanning
<1>3. i = Place(text, e) /\ first = i + 1 /\ last = End(text, i)
  BY <1>2 DEF Edited
<1>4. /\ \A j \in first..last : text[j].is \notin words
      /\ EditOK(e) /\ e.how = "body" /\ Fresh(e, words)
  BY <1>3 DEF Under
<1>5. Own(out, words) = Own(text, words)
  BY ONLY <1>2, <1>4, text \in Seq(Lines), OwnEditBody
<1> QED
  BY <1>1, <1>5

\* A body of which the last line is kept.
KeepsLast(text, i, words) ==
    /\ text[End(text, i)].indent = text[i + 1].indent
    /\ \A j \in i + 1 .. End(text, i) - 1 : text[j].is \notin words

KeepsLasts(text, is, words) ==
    \A i \in 1..Len(text) : text[i].is = is => KeepsLast(text, i, words)

\* The last line of the body of a statement is what is left of it, after other lines.
LastKept(text, is, a, k, out) ==
    \E i, first, last, new :
        /\ i \in 1..Len(text) /\ text[i].is = is /\ last = End(text, i)
        /\ Spliced(text, first, last, new, out)
        /\ first = i + 1 /\ last \in first .. Len(text) /\ text[last] \in Lines
        /\ new = Reindent(a, 0) \o Reindent(<<text[last]>>, k)

LEMMA OwnLastOfBody ==
    ASSUME NEW text \in Seq(Lines), text # NotFound, NEW words, NEW e, EditOK(e),
           e.how = "body", Edit(text, e) # NotFound,
           NEW a, NEW k, OriginalLast(e.new, a, k, words), KeepsLasts(text, e.find, words)
    PROVE  /\ Own(Edit(text, e), words) = Own(text, words)
           /\ LastKept(text, e.find, a, k, Edit(text, e))
<1>1. PICK out : out = Edit(text, e)
  OBVIOUS
<1>2. PICK i, first, last, kept, new : Edited(text, e, i, first, last, kept, new, out)
  BY <1>1, EditAt DEF Spanning
<1>3. /\ i \in 1..Len(text) /\ text[i].is = e.find /\ first = i + 1 /\ last = End(text, i)
      /\ Spliced(text, first, last, new, out)
  BY <1>2 DEF Edited
<1>4. /\ \A j \in first .. last - 1 : text[j].is \notin words
      /\ text[last].indent = text[i + 1].indent
      /\ EditOK(e) /\ e.how = "body" /\ OriginalLast(e.new, a, k, words)
  BY <1>3 DEF KeepsLast, KeepsLasts
<1>5. /\ Own(out, words) = Own(text, words)
      /\ kept = <<text[last]>> /\ new = Reindent(a, 0) \o Reindent(kept, k)
      /\ last \in first .. Len(text)
  BY ONLY <1>2, <1>4, text \in Seq(Lines), OwnEditLastOfBody
<1>6. text[last] \in Lines
  <2>1. last \in 1..Len(text)
    BY <1>3, <1>5
  <2> QED
    BY <2>1
<1> QED
  BY <1>1, <1>3, <1>5, <1>6 DEF LastKept

\* Whether an edit that replaces a statement leaves a body elsewhere as it was: a line of
\* x after the splice, and the lines deeper than it that follow.
LEMMA BodyElsewhere ==
    ASSUME NEW text \in Seq(Lines), NEW first, NEW last, IsSpan(text, first, last),
           NEW new \in Seq(Lines), NEW x, Spliced(text, first, last, new, x),
           Len(new) >= 1, NEW j \in 1..Len(x), new[1].indent <= x[j].indent,
           \A k \in 1..Len(new) : x[j].is # new[k].is
    PROVE  \E i \in 1..Len(text) : x[j] = text[i] /\ Under(x, j) \subseteq Under(text, i)
<1>1. PICK n \in Nat, m \in Nat, f \in Nat, b \in Int :
         n = Len(text) /\ m = Len(new) /\ f = first /\ b = last /\ f >= 1 /\ b >= f - 1 /\ b <= n
  BY DEF IsSpan
<1>2. /\ x \in Seq(Lines) /\ Len(x) = n + m - (b + 1 - f)
      /\ \A i \in 1 .. f - 1 : x[i] = text[i]
      /\ \A i \in 1 .. m : x[f - 1 + i] = new[i]
      /\ \A i \in b + 1 .. n : x[i + m - (b + 1 - f)] = text[i]
  BY <1>1 DEF Spliced
<1>3. PICK d \in Int : d = m - (b + 1 - f)
  <2>1. m - (b + 1 - f) \in Int
    BY ONLY m \in Nat, b \in Int, f \in Nat
  <2> QED
    BY <2>1
<1>4. \A i \in f + m .. Len(x) : i - d \in b + 1 .. n /\ x[i] = text[i - d]
  <2> SUFFICES ASSUME NEW i \in f + m .. Len(x)
               PROVE  i - d \in b + 1 .. n /\ x[i] = text[i - d]
    OBVIOUS
  <2>1. i - d \in b + 1 .. n /\ (i - d) + m - (b + 1 - f) = i
    BY <1>1, <1>2, <1>3
  <2> QED
    BY <1>2, <2>1
<1>5. PICK e : e = End(x, j)
  OBVIOUS
<1>6. e \in j .. Len(x) /\ \A k \in j + 1 .. e : x[k].indent > x[j].indent
  BY <1>2, <1>5, EndBounds
<1>7. x[j].indent \in Nat /\ j \in Nat /\ Len(x) \in Nat
  <2>1. x[j] \in Lines
    BY <1>2
  <2> QED
    BY <1>2, <2>1 DEF Lines
<1>8. CASE j < f
  <2>1. j \in 1..n /\ x[j] = text[j]
    BY <1>1, <1>2, <1>7, <1>8
  <2>2. e < f
    <3> SUFFICES ASSUME ~(e < f)
                 PROVE  FALSE
      OBVIOUS
    <3>1. f \in j + 1 .. e
      BY <1>6, <1>7, <1>8
    <3>2. x[f] = new[1]
      <4>1. 1 \in 1..m /\ f - 1 + 1 = f
        BY <1>1
      <4> QED
        BY <1>2, <4>1
    <3>3. new[1].indent \in Nat
      <4>1. new[1] \in Lines
        BY <1>1
      <4> QED
        BY <4>1 DEF Lines
    <3>4. x[f].indent > x[j].indent
      BY <1>6, <3>1
    <3> QED
      BY <1>7, <3>2, <3>3, <3>4
  <2>3. ASSUME NEW q \in j + 1 .. End(x, j)
        PROVE  x[q].is \in Under(text, j)
    <3>1. \A k \in j + 1 .. q : k \in j + 1 .. e /\ k \in 1 .. f - 1
      BY <1>5, <1>6, <1>7, <1>8, <2>2, <2>3
    <3>2. \A k \in j + 1 .. q : text[k].indent > text[j].indent
      BY <1>2, <1>6, <2>1, <3>1
    <3>3. q \in j + 1 .. Len(text) /\ q \in j + 1 .. q
      BY <1>1, <1>5, <1>6, <1>7, <2>2, <2>3
    <3>4. q \in j + 1 .. End(text, j)
      BY <1>1, <2>1, <3>2, <3>3, EndCovers
    <3>5. x[q] = text[q]
      BY <1>2, <3>1, <3>3
    <3> QED
      BY <3>4, <3>5 DEF Under
  <2>4. Under(x, j) \subseteq Under(text, j)
    BY <2>3 DEF Under
  <2> QED
    BY <1>1, <2>1, <2>4
<1>9. CASE j \in f .. f + m - 1
  <2>1. PICK k \in 1..m : j = f - 1 + k
    <3>1. j - f + 1 \in 1..m /\ j = f - 1 + (j - f + 1)
      BY <1>1, <1>7, <1>9
    <3> QED
      BY <3>1
  <2>2. x[j] = new[k]
    BY <1>2, <2>1
  <2> QED
    BY <1>1, <2>1, <2>2
<1>10. CASE j >= f + m
  <2>1. PICK i \in Nat : i = j - d /\ i \in 1..n /\ x[j] = text[i]
    <3>1. j \in f + m .. Len(x)
      BY <1>7, <1>10
    <3>2. j - d \in b + 1 .. n /\ x[j] = text[j - d]
      BY <1>4, <3>1
    <3> QED
      BY <1>1, <3>2
  <2>2. ASSUME NEW q \in j + 1 .. End(x, j)
        PROVE  x[q].is \in Under(text, i)
    <3>1. q \in j + 1 .. e /\ q \in f + m .. Len(x)
      BY <1>1, <1>5, <1>6, <1>7, <1>10
    <3>2. q - d \in b + 1 .. n /\ x[q] = text[q - d]
      BY <1>4, <3>1
    <3>3. ASSUME NEW k \in i + 1 .. q - d
          PROVE  text[k].indent > text[i].indent
      <4>1. k + d \in j + 1 .. e /\ k + d \in f + m .. Len(x) /\ (k + d) - d = k
        BY <1>1, <1>6, <1>7, <1>10, <2>1, <3>1, <3>3
      <4>2. x[k + d] = text[k]
        BY <1>4, <4>1
      <4> QED
        BY <1>6, <2>1, <4>1, <4>2
    <3>4. q - d \in i + 1 .. Len(text)
      BY <1>1, <1>7, <2>1, <3>1, <3>2
    <3>5. q - d \in i + 1 .. End(text, i)
      BY <1>1, <2>1, <3>3, <3>4, EndCovers
    <3> QED
      BY <3>2, <3>5 DEF Under
  <2>3. Under(x, j) \subseteq Under(text, i)
    BY <2>2 DEF Under
  <2> QED
    BY <1>1, <2>1, <2>3
<1> QED
  BY <1>1, <1>7, <1>8, <1>9, <1>10

\* The place an edit finds lies as deep as its path is long.
LEMMA PlaceDeep ==
    ASSUME NEW text \in Seq(Lines), text # NotFound, NEW e, EditOK(e),
           e.how \in Spanning \cup {"around"}, Edit(text, e) # NotFound
    PROVE  /\ Found(text, e) /\ Compiles(text)
           /\ Place(text, e) \in Scope(text, e.path)
           /\ Place(text, e) \in 1..Len(text) /\ text[Place(text, e)].is = e.find
           /\ text[Place(text, e)].indent >= Len(e.path)
<1>1. Found(text, e)
  BY DEF Edit, Spanning
<1>2. e.path \in Seq(Headers)
  BY DEF EditOK, Spanning
<1>3. Compiles(text)
  BY <1>1 DEF Found
<1>4. PICK H : H = Hits(text, Scope(text, e.path), e.find)
  OBVIOUS
<1>5. H # {} /\ H \subseteq Scope(text, e.path) /\ Place(text, e) = Min(H)
  BY <1>1, <1>4 DEF Found, IsFound, Hits, Place
<1>6. Scope(text, e.path) \in SUBSET DOMAIN text
  BY <1>2, ScopeIn
<1>7. H \in SUBSET Nat
  BY <1>5, <1>6
<1>8. Min(H) \in H
  BY <1>5, <1>7, MinProps
<1>9. Place(text, e) \in Scope(text, e.path)
  BY <1>5, <1>8
<1>10. text[Place(text, e)].indent >= Len(e.path)
  BY <1>2, <1>9, ScopeDeep
<1>11. Place(text, e) \in DOMAIN text /\ text[Place(text, e)].is = e.find
  BY <1>1, <1>2, PlaceIn
<1> QED
  BY <1>1, <1>3, <1>9, <1>10, <1>11

\* A line that is outside the span is still there.
LEMMA SplicedKeeps ==
    ASSUME NEW text \in Seq(Lines), NEW first, NEW last, IsSpan(text, first, last),
           NEW new \in Seq(Lines), NEW x, Spliced(text, first, last, new, x)
    PROVE  /\ \A i \in 1..Len(text) : i \notin first..last => text[i].is \in WordsOf(x)
           /\ \A i \in 1..Len(new) : new[i].is \in WordsOf(x)
<1> USE DEF IsSpan
<1>1. /\ x \in Seq(Lines) /\ Len(x) = Len(text) + Len(new) - (last + 1 - first)
      /\ \A i \in 1 .. first - 1 : x[i] = text[i]
      /\ \A i \in 1 .. Len(new) : x[first - 1 + i] = new[i]
      /\ \A i \in last + 1 .. Len(text) : x[i + Len(new) - (last + 1 - first)] = text[i]
  BY DEF Spliced
<1>2. \A j \in 1..Len(x) : x[j].is \in WordsOf(x)
  BY <1>1 DEF WordsOf
<1>3. ASSUME NEW i \in 1..Len(text), i \notin first..last
      PROVE  text[i].is \in WordsOf(x)
  <2>1. CASE i < first
    <3>1. i \in 1 .. first - 1 /\ i \in 1..Len(x)
      BY <1>1, <2>1
    <3> QED
      BY <1>1, <1>2, <3>1
  <2>2. CASE i > last
    <3>1. i \in last + 1 .. Len(text) /\ i + Len(new) - (last + 1 - first) \in 1..Len(x)
      BY <1>1, <2>2
    <3> QED
      BY <1>1, <1>2, <3>1
  <2> QED
    BY <1>3, <2>1, <2>2
<1>4. ASSUME NEW i \in 1..Len(new)
      PROVE  new[i].is \in WordsOf(x)
  <2>1. first - 1 + i \in 1..Len(x)
    BY <1>1
  <2> QED
    BY <1>1, <1>2, <2>1
<1> QED
  BY <1>3, <1>4

\* A statement is replaced, then the body of another.
LEMMA WholeThenBody ==
    ASSUME NEW text \in Seq(Lines), text # NotFound, NEW words, NEW a, NEW b,
           EditOK(a), EditOK(b), a.how = "replace", b.how = "body", Len(b.path) >= 1,
           Fresh(a, words), Fresh(b, words), a.find \notin words,
           Len(a.new) >= 1, a.new[1].indent <= 1,
           \A k \in 1..Len(a.new) : a.new[k].is \notin {"original", b.find},
           \A i \in 1..Len(text) : text[i].is \in {a.find, b.find} => Under(text, i) \cap words = {},
           Edit(Edit(text, a), b) # NotFound
    PROVE  /\ Own(Edit(Edit(text, a), b), words) = Own(text, words)
           /\ \A is \in WordsOf(a.new) :
                 (\A i \in 1..Len(text) : text[i].is = b.find => is \notin Under(text, i))
                     => is \in WordsOf(Edit(Edit(text, a), b))
<1>1. PICK x : x = Edit(text, a)
  OBVIOUS
<1>2. x # NotFound
  BY <1>1 DEF Edit
<1>3. x \in Seq(Lines)
  <2>1. Edit(text, a) \in Texts
    BY EditIn DEF Texts
  <2> QED
    BY <1>1, <1>2, <2>1 DEF Texts
<1>4. Own(x, words) = Own(text, words)
  BY <1>1, <1>2, OwnWhole
<1>5. PICK p \in 1..Len(x) : p = Place(x, b) /\ x[p].is = b.find /\ x[p].indent >= Len(b.path)
  BY <1>1, <1>2, <1>3, PlaceDeep DEF Spanning
<1>6. PICK i, first, last, kept, new : Edited(text, a, i, first, last, kept, new, Edit(text, a))
  BY <1>1, <1>2, EditAt DEF Spanning
<1>7. /\ IsSpan(text, first, last) /\ new \in Seq(Lines) /\ Spliced(text, first, last, new, x)
      /\ kept \in Seq(Lines) /\ new = Fill(a.new, kept, 0)
  BY <1>1, <1>6 DEF Edited
<1>8. new = Reindent(a.new, 0) /\ a.new \in Seq(Lines)
  BY <1>7, FillPlain DEF EditOK
<1>9. /\ Len(new) = Len(a.new)
      /\ \A k \in 1..Len(new) : new[k].is = a.new[k].is
      /\ new[1].indent <= 1
  <2>1. /\ Len(new) = Len(a.new)
        /\ \A k \in 1..Len(a.new) : /\ new[k].is = a.new[k].is
                                    /\ new[k].indent = a.new[k].indent + 0
                                    /\ a.new[k].indent \in Nat
    BY ONLY <1>8, ReindentIs
  <2> QED
    BY <2>1
<1>10. PICK j \in 1..Len(text) : x[p] = text[j] /\ Under(x, p) \subseteq Under(text, j)
  <2>1. \A k \in 1..Len(new) : x[p].is # new[k].is
    BY <1>5, <1>9
  <2>2. Len(b.path) \in Nat /\ x[p].indent \in Nat
    <3>1. b.path \in Seq(Headers)
      BY DEF EditOK
    <3>2. Len(b.path) \in Nat
      BY ONLY <3>1
    <3>3. x[p] \in Lines
      BY ONLY <1>3, p \in 1..Len(x)
    <3> QED
      BY ONLY <3>2, <3>3 DEF Lines
  <2>3. x[p].indent >= 1 /\ Len(new) >= 1
    BY <1>5, <1>9, <2>2
  <2>4. new[1].indent <= x[p].indent
    <3>1. new[1].indent \in Nat
      <4>1. new[1] \in Lines
        BY ONLY <1>7, <2>3
      <4> QED
        BY ONLY <4>1 DEF Lines
    <3> QED
      BY ONLY <1>9, <2>2, <2>3, <3>1
  <2> QED
    BY ONLY <1>3, <1>7, <2>1, <2>3, <2>4, p \in 1..Len(x), text \in Seq(Lines), BodyElsewhere
<1>11. text[j].is = b.find
  BY <1>5, <1>10
<1>12. Own(Edit(x, b), words) = Own(x, words)
  <2>1. Under(x, Place(x, b)) \cap words = {}
    BY <1>5, <1>10, <1>11
  <2>2. Edit(x, b) # NotFound
    BY <1>1
  <2> QED
    BY <1>2, <1>3, <2>1, <2>2, OwnBody
<1>13. ASSUME NEW is \in WordsOf(a.new),
              \A k \in 1..Len(text) : text[k].is = b.find => is \notin Under(text, k)
       PROVE  is \in WordsOf(Edit(x, b))
  <2>1. is \notin Under(x, p)
    BY <1>10, <1>11, <1>13
  <2>2. PICK k \in 1..Len(new) : new[k].is = is
    BY <1>8, <1>9 DEF WordsOf
  <2>3. is \in WordsOf(x)
    BY <1>7, <2>2, SplicedKeeps
  <2>4. PICK q \in 1..Len(x) : x[q].is = is
    BY <1>3, <2>3 DEF WordsOf
  <2>5. PICK i2, first2, last2, kept2, new2 : Edited(x, b, i2, first2, last2, kept2, new2, Edit(x, b))
    BY <1>1, <1>2, <1>3, EditAt DEF Spanning
  <2>6. /\ IsSpan(x, first2, last2) /\ new2 \in Seq(Lines)
        /\ Spliced(x, first2, last2, new2, Edit(x, b))
        /\ first2 = p + 1 /\ last2 = End(x, p)
    BY <1>5, <2>5 DEF Edited
  <2>7. q \notin first2..last2
    BY <2>1, <2>4, <2>6 DEF Under
  <2> QED
    BY <1>3, <2>4, <2>6, <2>7, SplicedKeeps
<1> QED
  BY <1>1, <1>4, <1>12, <1>13

-----------------------------------------------------------------------------
(* Two edits.                                                              *)

LEMMA PairIs == \A a, b : Len(<<a, b>>) = 2 /\ <<a, b>>[1] = a /\ <<a, b>>[2] = b
OBVIOUS

FoldsTo(text, es, out) == out = FoldLeft(Edit, text, es)

LEMMA FoldPairIs ==
    ASSUME NEW text \in Seq(Lines), NEW a, NEW b, EditOK(a), EditOK(b), NEW es, es = <<a, b>>
    PROVE  FoldsTo(text, es, Edit(Edit(text, a), b))
BY FoldPair DEF FoldsTo

\* What is not asked for adds nothing.
LEMMA NoEdits ==
    ASSUME NEW c, ~c, NEW es
    PROVE  If(c, es) = <<>> /\ \A words : Sparing(If(c, es), words)
<1>1. If(c, es) = <<>>
  BY DEF If
<1> QED
  BY <1>1 DEF Sparing

-----------------------------------------------------------------------------
(* Two lines, one directly after the other.                                *)

\* Two lines that follow each other in what an edit writes do so in the text.
LEMMA DirectlyNew ==
    ASSUME NEW text \in Seq(Lines), NEW first, NEW last, IsSpan(text, first, last),
           NEW new \in Seq(Lines), NEW x, Spliced(text, first, last, new, x),
           NEW q \in 2..Len(new)
    PROVE  Directly(x, new[q - 1].is, new[q].is)
<1> USE DEF IsSpan
<1>1. /\ x \in Seq(Lines) /\ Len(x) = Len(text) + Len(new) - (last + 1 - first)
      /\ \A i \in 1 .. Len(new) : x[first - 1 + i] = new[i]
  BY DEF Spliced
<1>2. /\ first - 1 + q \in 2..Len(x) /\ q - 1 \in 1..Len(new)
      /\ (first - 1 + q) - 1 = first - 1 + (q - 1)
  BY <1>1
<1>3. x[first - 1 + q] = new[q] /\ x[(first - 1 + q) - 1] = new[q - 1]
  BY <1>1, <1>2
<1>4. PICK r : r = first - 1 + q
  OBVIOUS
<1>5. r \in 2..Len(x)
  BY ONLY <1>2, <1>4
<1>6. x[r] = new[q] /\ x[r - 1] = new[q - 1]
  BY ONLY <1>3, <1>4
<1> QED
  BY ONLY <1>5, <1>6 DEF Directly

LEMMA DirectlyJoin ==
    ASSUME NEW a \in Seq(Lines), NEW b \in Seq(Lines), NEW before, NEW is
    PROVE  /\ Directly(a, before, is) => Directly(a \o b, before, is)
           /\ Directly(b, before, is) => Directly(a \o b, before, is)
<1>1. /\ Len(a \o b) = Len(a) + Len(b)
      /\ \A i \in 1..Len(a) : (a \o b)[i] = a[i]
      /\ \A i \in 1..Len(b) : (a \o b)[Len(a) + i] = b[i]
  OBVIOUS
<1>2. ASSUME Directly(a, before, is)
      PROVE  Directly(a \o b, before, is)
  <2>1. PICK i \in 2..Len(a) : a[i - 1].is = before /\ a[i].is = is
    BY <1>2 DEF Directly
  <2>2. i \in 2..Len(a \o b) /\ (a \o b)[i - 1] = a[i - 1] /\ (a \o b)[i] = a[i]
    BY <1>1
  <2> QED
    BY <2>1, <2>2 DEF Directly
<1>3. ASSUME Directly(b, before, is)
      PROVE  Directly(a \o b, before, is)
  <2>1. PICK i \in 2..Len(b) : b[i - 1].is = before /\ b[i].is = is
    BY <1>3 DEF Directly
  <2>2. /\ Len(a) + i \in 2..Len(a \o b) /\ Len(a) + i - 1 = Len(a) + (i - 1)
        /\ (a \o b)[Len(a) + (i - 1)] = b[i - 1] /\ (a \o b)[Len(a) + i] = b[i]
    BY <1>1
  <2> QED
    BY <2>1, <2>2 DEF Directly
<1> QED
  BY <1>2, <1>3

LEMMA LastAndNext ==
    ASSUME NEW S, NEW u \in Seq(S), NEW v \in Seq(S), NEW n \in Nat, Len(u) = n, n >= 1, Len(v) = 1
    PROVE  /\ u \o v \in Seq(S) /\ Len(u \o v) = n + 1
           /\ (u \o v)[n] = u[n] /\ (u \o v)[n + 1] = v[1]
<1>1. /\ u \o v \in Seq(S) /\ Len(u \o v) = Len(u) + Len(v)
      /\ \A i \in 1 .. Len(u) + Len(v) : (u \o v)[i] = IF i <= Len(u) THEN u[i] ELSE v[i - Len(u)]
  BY ConcatProperties
<1>2. n \in 1 .. Len(u) + Len(v) /\ n + 1 \in 1 .. Len(u) + Len(v)
      /\ n <= Len(u) /\ ~(n + 1 <= Len(u)) /\ n + 1 - Len(u) = 1
  OBVIOUS
<1> QED
  BY <1>1, <1>2

LEMMA TwoOriginal ==
    ASSUME NEW words, NEW k \in Nat, "original" \in Words, NEW p \in Lines, NEW q \in Lines,
           {p.is, q.is} \cap (words \cup {"original"}) = {}
    PROVE  OriginalLast(<<p, q, Line(k, "original")>>, <<p, q>>, k, words)
<1>1. <<p, q>> \in Seq(Lines) /\ Len(<<p, q>>) = 2
  OBVIOUS
<1>2. \A j \in 1..2 : <<p, q>>[j].is \notin words \cup {"original"}
  OBVIOUS
<1>3. <<p, q, Line(k, "original")>> = <<p, q>> \o <<Line(k, "original")>>
  OBVIOUS
<1> QED
  BY <1>1, <1>2, <1>3 DEF OriginalLast

\* The body of a function but its last statement is rewritten, then something is added.
LEMMA LastOfBodyThenEnd ==
    ASSUME NEW text \in Seq(Lines), text # NotFound, NEW words, NEW a, NEW b, EditOK(a), EditOK(b),
           a.how = "body", b.how = "end", Fresh(b, words),
           NEW s, NEW k, OriginalLast(a.new, s, k, words), Len(s) >= 1,
           KeepsLasts(text, a.find, words), NEW is,
           \A i \in 1..Len(text) : text[i].is = a.find => text[End(text, i)].is = is,
           Edit(Edit(text, a), b) # NotFound
    PROVE  /\ Own(Edit(Edit(text, a), b), words) = Own(text, words)
           /\ Directly(Edit(Edit(text, a), b), s[Len(s)].is, is)
<1>1. PICK x : x = Edit(text, a)
  OBVIOUS
<1>2. x # NotFound
  BY <1>1 DEF Edit
<1>3. x \in Seq(Lines)
  <2>1. Edit(text, a) \in Texts
    BY EditIn DEF Texts
  <2> QED
    BY <1>1, <1>2, <2>1 DEF Texts
<1>4. /\ Own(Edit(text, a), words) = Own(text, words)
      /\ LastKept(text, a.find, s, k, Edit(text, a))
  <2>1. Edit(text, a) # NotFound
    BY <1>1, <1>2
  <2> QED
    BY <2>1, OwnLastOfBody
<1>5. PICK i, first, last, new :
            /\ i \in 1..Len(text) /\ text[i].is = a.find /\ last = End(text, i)
            /\ Spliced(text, first, last, new, x)
            /\ first = i + 1 /\ last \in first .. Len(text) /\ text[last] \in Lines
            /\ new = Reindent(s, 0) \o Reindent(<<text[last]>>, k)
  BY <1>1, <1>4 DEF LastKept
<1>6. text[last].is = is
  BY <1>5
<1>7. s \in Seq(Lines) /\ k \in Nat /\ Len(s) \in Nat /\ Len(s) \in 1..Len(s) /\ Len(s) >= 1
  BY DEF OriginalLast
<1>8. PICK u, v : u = Reindent(s, 0) /\ v = Reindent(<<text[last]>>, k)
  OBVIOUS
<1>9. /\ u \in Seq(Lines) /\ Len(u) = Len(s) /\ u[Len(s)].is = s[Len(s)].is
  <2>1. u \in Seq(Lines)
    BY <1>7, <1>8, ReindentIn
  <2>2. Len(u) = Len(s) /\ \A j \in 1..Len(s) : u[j].is = s[j].is
    BY ONLY <1>7, <1>8, ReindentIs
  <2> QED
    BY <1>7, <2>1, <2>2
<1>10. v \in Seq(Lines) /\ Len(v) = 1 /\ v[1].is = is
  <2>1. PICK o : o = <<text[last]>>
    OBVIOUS
  <2>2. o \in Seq(Lines) /\ Len(o) = 1 /\ o[1] = text[last]
    BY <1>5, <2>1
  <2>3. Len(v) = Len(o) /\ v \in Seq(Lines) /\ \A j \in 1..Len(o) : v[j].is = o[j].is
    BY ONLY <1>7, <1>8, <2>1, <2>2, ReindentIn, ReindentIs
  <2> QED
    BY <1>6, <2>2, <2>3
<1>11. /\ new \in Seq(Lines) /\ Len(new) = Len(s) + 1
       /\ new[Len(s)] = u[Len(s)] /\ new[Len(s) + 1] = v[1]
  <2>1. new = u \o v
    BY <1>5, <1>8
  <2> QED
    BY ONLY <1>7, <1>9, <1>10, <2>1, LastAndNext
<1>12. Directly(x, s[Len(s)].is, is)
  <2>1. IsSpan(text, first, last)
    BY <1>5 DEF IsSpan
  <2>2. PICK q \in 2..Len(new) : q = Len(s) + 1 /\ q - 1 = Len(s)
    BY <1>7, <1>11
  <2>3. Directly(x, new[q - 1].is, new[q].is)
    BY ONLY <1>5, <1>11, <2>1, <2>2, text \in Seq(Lines), DirectlyNew
  <2>4. new[q - 1].is = s[Len(s)].is /\ new[q].is = is
    BY <1>9, <1>10, <1>11, <2>2
  <2> QED
    BY <2>3, <2>4
<1>13. Edit(x, b) = x \o b.new /\ b.new \in Seq(Lines)
  BY <1>2 DEF Edit, EditOK
<1>14. Directly(Edit(x, b), s[Len(s)].is, is)
  BY <1>3, <1>12, <1>13, DirectlyJoin
<1>15. Own(Edit(x, b), words) = Own(x, words)
  <2>1. Spares(b, words)
    BY DEF Spares, Fresh
  <2> QED
    BY <1>1, <1>2, <1>3, <2>1, OwnEdit
<1> QED
  BY <1>1, <1>4, <1>14, <1>15

LEMMA TripleIs ==
    \A a, b, c : /\ Len(<<a, b, c>>) = 3
                 /\ <<a, b, c>>[1] = a /\ <<a, b, c>>[2] = b /\ <<a, b, c>>[3] = c
OBVIOUS

\* Two lines that follow each other do so after an edit that replaces neither and adds
\* nothing between them.
LEMMA SplicedKeepsLines ==
    ASSUME NEW text \in Seq(Lines), NEW first, NEW last, IsSpan(text, first, last),
           NEW new \in Seq(Lines), NEW x, Spliced(text, first, last, new, x),
           NEW q \in 2..Len(text), q \notin first..last, q - 1 \notin first..last,
           q = first => last >= first
    PROVE  \E r \in 2..Len(x) : x[r - 1] = text[q - 1] /\ x[r] = text[q]
<1> USE DEF IsSpan
<1>1. /\ x \in Seq(Lines) /\ Len(x) = Len(text) + Len(new) - (last + 1 - first)
      /\ \A i \in 1 .. first - 1 : x[i] = text[i]
      /\ \A i \in last + 1 .. Len(text) : x[i + Len(new) - (last + 1 - first)] = text[i]
  BY DEF Spliced
<1>2. Len(text) \in Nat /\ Len(new) \in Nat /\ q - 1 \in 1..Len(text) /\ Len(x) \in Nat
  BY <1>1
<1>3. CASE q <= first - 1
  <2>1. q \in 1 .. first - 1 /\ q - 1 \in 1 .. first - 1 /\ q \in 2..Len(x)
    BY <1>1, <1>2, <1>3
  <2> QED
    BY <1>1, <2>1
<1>4. CASE q >= first
  <2>1. q - 1 >= last + 1
    BY ONLY <1>2, <1>4, q \in 2..Len(text), q \notin first..last, q - 1 \notin first..last,
       q = first => last >= first, IsSpan(text, first, last) DEF IsSpan
  <2>2. q \in last + 1 .. Len(text) /\ q - 1 \in last + 1 .. Len(text)
    BY <1>2, <2>1
  <2>3. PICK d \in Int : d = Len(new) - (last + 1 - first)
    <3>1. Len(new) - (last + 1 - first) \in Int
      BY <1>2
    <3> QED
      BY <3>1
  <2>4. /\ q + d \in 2..Len(x) /\ (q - 1) + d = q + d - 1
        /\ q + Len(new) - (last + 1 - first) = q + d
        /\ (q - 1) + Len(new) - (last + 1 - first) = q + d - 1
    BY <1>1, <1>2, <2>1, <2>3
  <2>5. x[q + d] = text[q] /\ x[q + d - 1] = text[q - 1]
    BY <1>1, <2>2, <2>4
  <2> QED
    BY <2>4, <2>5
<1> QED
  BY <1>2, <1>3, <1>4

LEMMA SplicedKeepsPair ==
    ASSUME NEW text \in Seq(Lines), NEW first, NEW last, IsSpan(text, first, last),
           NEW new \in Seq(Lines), NEW x, Spliced(text, first, last, new, x),
           NEW q \in 2..Len(text), q \notin first..last, q - 1 \notin first..last,
           q = first => last >= first
    PROVE  Directly(x, text[q - 1].is, text[q].is)
<1>1. \E r \in 2..Len(x) : x[r - 1] = text[q - 1] /\ x[r] = text[q]
  BY ONLY text \in Seq(Lines), IsSpan(text, first, last), new \in Seq(Lines),
          Spliced(text, first, last, new, x), q \in 2..Len(text), q \notin first..last,
          q - 1 \notin first..last, q = first => last >= first, SplicedKeepsLines
<1>2. PICK r \in 2..Len(x) : x[r - 1] = text[q - 1] /\ x[r] = text[q]
  BY ONLY <1>1
<1> QED
  BY ONLY <1>2, r \in 2..Len(x) DEF Directly

KeepsPair(e, before, is) ==
    /\ EditOK(e)
    /\ \/ e.how \in {"end", "top"}
       \/ /\ e.how \in {"before", "header", "counts", "start"}
          /\ {e.find, "sum", "assert"} \cap {before, is} = {}
       \/ e.how = "replace" /\ e.find \notin Headers \cup {before, is}
       \/ e.how = "after" /\ e.find \notin Headers \cup {before}

LEMMA EditKeepsPair ==
    ASSUME NEW text \in Seq(Lines), text # NotFound, NEW e, NEW before, NEW is,
           KeepsPair(e, before, is), Directly(text, before, is), Edit(text, e) # NotFound
    PROVE  Directly(Edit(text, e), before, is)
<1>1. EditOK(e)
  BY DEF KeepsPair
<1>2. CASE e.how \in {"end", "top"}
  <2>1. e.new \in Seq(Lines)
    BY <1>1 DEF EditOK
  <2>2. Edit(text, e) = text \o e.new \/ Edit(text, e) = e.new \o text
    BY <1>2 DEF Edit
  <2> QED
    BY <2>1, <2>2, DirectlyJoin
<1>3. CASE e.how \notin {"end", "top"}
  <2>1. PICK q \in 2..Len(text) : text[q - 1].is = before /\ text[q].is = is
    BY DEF Directly
  <2>2. e.how \in Spanning
    BY <1>3 DEF KeepsPair, Spanning
  <2>3. PICK i, first, last, kept, new : Edited(text, e, i, first, last, kept, new, Edit(text, e))
    BY <1>1, <2>2, EditAt
  <2>4. /\ Compiles(text) /\ i \in 1..Len(text) /\ text[i].is = e.find
        /\ IsSpan(text, first, last)
        /\ e.how = "before" => first = i /\ last = i - 1
        /\ e.how = "header" => first = i /\ last = i
        /\ e.how = "counts" => first = i /\ last = LastCount(text, i)
        /\ e.how = "replace" => first = i /\ last = End(text, i)
        /\ e.how = "start" => first = i + 1 /\ last = i
        /\ e.how = "after" => first = End(text, i) + 1 /\ last = End(text, i)
        /\ new \in Seq(Lines)
        /\ Spliced(text, first, last, new, Edit(text, e))
    BY <2>3 DEF Edited
  <2>5. e.find # before /\ (e.how # "after" => e.find # is)
    BY <1>3 DEF KeepsPair
  <2>6. i # q - 1 /\ (e.how # "after" => i # q)
    BY <2>1, <2>4, <2>5
  <2>7. q \notin first..last /\ q - 1 \notin first..last /\ (q = first => last >= first)
    <3>1. CASE e.how = "before" \/ e.how = "header" \/ e.how = "start"
      BY <2>4, <2>6, <3>1
    <3>2. CASE e.how = "counts"
      <4>1. {"sum", "assert"} \cap {before, is} = {}
        BY <3>2 DEF KeepsPair
      <4>2. first = i /\ last = LastCount(text, i)
        BY <2>4, <3>2
      <4>3. last \in i .. Len(text) /\ \A k \in i + 1 .. last : text[k].is \in {"sum", "assert"}
        BY <2>4, <4>2, LastCountIs
      <4>4. \A k \in i + 1 .. last : k # q /\ k # q - 1
        BY <2>1, <4>1, <4>3
      <4> QED
        BY <2>4, <2>6, <4>2, <4>3, <4>4
    <3>3. CASE e.how = "after" \/ e.how = "replace"
      <4>1. text[i].is \notin Headers
        BY <2>4, <3>3 DEF KeepsPair
      <4>2. End(text, i) = i
        BY <2>4, <4>1, OneLine
      <4> QED
        BY <2>4, <2>6, <3>3, <4>2
    <3> QED
      BY <1>3, <3>1, <3>2, <3>3 DEF KeepsPair
  <2> QED
    BY <2>1, <2>4, <2>7, SplicedKeepsPair
<1> QED
  BY <1>2, <1>3

Puts(e, before, is) ==
    \A x \in Seq(Lines) : x # NotFound /\ Edit(x, e) # NotFound => Directly(Edit(x, e), before, is)

\* No edit of a run that came to a text had raised.
LEMMA RunWhole ==
    ASSUME NEW es, GoodEdits(es), NEW text, NEW t, RunOf(t, text, es), t[Len(es)] # NotFound
    PROVE  \A i \in 0..Len(es) : t[i] # NotFound
<1>1. PICK n \in Nat : n = Len(es)
  BY DEF GoodEdits
<1>2. \A i \in 1..n : t[i] # NotFound => t[i - 1] # NotFound
  BY <1>1, RunStays
<1>3. SUFFICES ASSUME NEW j \in 0..n, t[j] = NotFound
               PROVE  FALSE
  BY <1>1
<1> DEFINE V == {i \in 0..n : t[i] = NotFound}
<1>4. j \in V /\ V \in SUBSET (0..n)
  BY <1>3
<1>5. PICK m \in V : \A y \in V : y <= m
  <2> HIDE DEF V
  <2> QED
    BY <1>4, HasGreatest
<1>6. m \in 0..n /\ t[m] = NotFound /\ m # n
  BY <1>1, <1>5
<1>7. m + 1 \in 1..n /\ m + 1 \in 0..n /\ (m + 1) - 1 = m /\ ~(m + 1 <= m)
  BY <1>6
<1>8. t[m + 1] = NotFound
  BY <1>2, <1>6, <1>7
<1>9. m + 1 \in V
  BY <1>7, <1>8
<1> HIDE DEF V
<1> QED
  BY <1>5, <1>7, <1>9

\* What a run has come to after some edit stays in a set the later edits stay in.
LEMMA RunKeeps ==
    ASSUME NEW es, GoodEdits(es), NEW text, NEW t, RunOf(t, text, es), NEW k \in 0..Len(es),
           NEW Q \in SUBSET Seq(Lines), t[Len(es)] # NotFound, t[k] \in Q,
           \A i \in k + 1 .. Len(es), x \in Q :
               x # NotFound /\ Edit(x, es[i]) # NotFound => Edit(x, es[i]) \in Q
    PROVE  t[Len(es)] \in Q
<1>1. PICK n \in Nat : n = Len(es)
  BY DEF GoodEdits
<1>3. \A i \in 1..n : t[i] = Edit(t[i - 1], es[i])
  BY <1>1 DEF RunOf
<1> DEFINE Goes(i) == t[i] # NotFound /\ (i >= k => t[i] \in Q)
           T == {i \in 0..n : i >= k /\ t[i] \notin Q}
           U == {i \in 0..n : t[i] # NotFound}
<1>4. \A i \in 0..n : t[i] # NotFound
  BY <1>1, RunWhole
<1>5. T = {}
  <2> SUFFICES ASSUME T # {}
               PROVE  FALSE
    OBVIOUS
  <2>1. PICK m \in T : \A y \in T : m <= y
    <3>1. T \in SUBSET Nat
      OBVIOUS
    <3> HIDE DEF T
    <3> QED
      BY <3>1, HasLeast
  <2>2. m \in 0..n /\ m >= k /\ t[m] \notin Q /\ m # k /\ k \in Nat
    BY <1>1, <2>1
  <2>3. m \in k + 1 .. n /\ m \in 1..n /\ m - 1 \in 0..n /\ m - 1 >= k /\ ~(m <= m - 1)
    BY <2>2
  <2>4. t[m - 1] \in Q
    <3>1. m - 1 \notin T
      <4> HIDE DEF T
      <4> QED
        BY <2>1, <2>3
    <3> QED
      BY <2>3, <3>1
  <2>5. t[m] \in Q
    BY <1>1, <1>3, <1>4, <2>2, <2>3, <2>4
  <2> QED
    BY <2>2, <2>5
<1>6. n \in 0..n /\ n >= k
  BY <1>1
<1> QED
  BY <1>1, <1>5, <1>6

LEMMA PairStands ==
    ASSUME NEW text \in Seq(Lines), NEW es, GoodEdits(es), NEW before, NEW is, NEW k \in 1..Len(es),
           Puts(es[k], before, is), \A i \in k + 1 .. Len(es) : KeepsPair(es[i], before, is),
           FoldLeft(Edit, text, es) # NotFound
    PROVE  Directly(FoldLeft(Edit, text, es), before, is)
<1>1. text \in Texts
  BY DEF Texts
<1>2. PICK t : RunOf(t, text, es) /\ t[Len(es)] = FoldLeft(Edit, text, es)
  BY <1>1, EditsRun
<1>3. PICK n \in Nat : n = Len(es)
  BY DEF GoodEdits
<1> DEFINE Q == {x \in Seq(Lines) : Directly(x, before, is)}
<1>5. \A i \in 0..n : t[i] # NotFound => t[i] \in Seq(Lines)
  BY <1>2, <1>3, RunStays
<1>6. \A i \in 0..n : t[i] # NotFound
  BY <1>2, <1>3, RunWhole
<1>7. t[k] \in Q
  <2>1. k \in 1..n /\ k \in 0..n /\ k - 1 \in 0..n
    BY <1>3
  <2>2. t[k] = Edit(t[k - 1], es[k])
    BY <1>2, <1>3, <2>1 DEF RunOf
  <2>3. Directly(t[k], before, is)
    BY <1>5, <1>6, <2>1, <2>2 DEF Puts
  <2> QED
    BY <1>5, <1>6, <2>1, <2>3
<1>8. ASSUME NEW i \in k + 1 .. Len(es), NEW x \in Q, x # NotFound, Edit(x, es[i]) # NotFound
      PROVE  Edit(x, es[i]) \in Q
  <2>1. EditOK(es[i])
    BY DEF KeepsPair
  <2>2. Edit(x, es[i]) \in Seq(Lines)
    BY <1>8, <2>1, EditIn DEF Texts
  <2>3. Directly(Edit(x, es[i]), before, is)
    BY <1>8, EditKeepsPair
  <2> QED
    BY <2>2, <2>3
<1>9. Q \in SUBSET Seq(Lines) /\ k \in 0..Len(es)
  BY <1>3
<1>10. t[Len(es)] \in Q
  <2> HIDE DEF Q
  <2> QED
    BY <1>2, <1>7, <1>8, <1>9, RunKeeps
<1> QED
  BY <1>2, <1>10

\* What an edit of these kinds has put beside what it found.
LEMMA PutsBefore ==
    ASSUME NEW e, EditOK(e), e.how = "before", Len(e.new) >= 1,
           \A j \in 1..Len(e.new) : e.new[j].is # "original"
    PROVE  Puts(e, e.new[Len(e.new)].is, e.find)
<1> SUFFICES ASSUME NEW x \in Seq(Lines), x # NotFound, Edit(x, e) # NotFound
             PROVE  Directly(Edit(x, e), e.new[Len(e.new)].is, e.find)
  BY DEF Puts
<1>1. PICK i, first, last, kept, new : Edited(x, e, i, first, last, kept, new, Edit(x, e))
  BY EditAt DEF Spanning
<1>2. /\ i \in 1..Len(x) /\ x[i].is = e.find /\ first = i /\ last = i - 1
      /\ kept \in Seq(Lines) /\ new \in Seq(Lines) /\ new = Fill(e.new, kept, 0)
      /\ Spliced(x, first, last, new, Edit(x, e))
  BY <1>1 DEF Edited
<1>3. e.new \in Seq(Lines)
  BY DEF EditOK
<1>4. new = Reindent(e.new, 0)
  BY <1>2, <1>3, FillPlain
<1>5. PICK n \in Nat : n = Len(e.new) /\ n >= 1
  BY <1>3
<1>6. Len(new) = n /\ new[n].is = e.new[n].is
  <2>1. Len(new) = Len(e.new) /\ \A j \in 1..Len(e.new) : new[j].is = e.new[j].is
    BY ONLY <1>3, <1>4, ReindentIs
  <2> QED
    BY <1>5, <2>1
<1>7. PICK out : out = Edit(x, e)
  OBVIOUS
<1>8. /\ out \in Seq(Lines) /\ Len(out) = Len(x) + n
      /\ out[i - 1 + n] = new[n] /\ out[i + n] = x[i]
  <2>1. /\ out \in Seq(Lines) /\ Len(out) = Len(x) + Len(new) - (last + 1 - first)
        /\ \A j \in 1 .. Len(new) : out[first - 1 + j] = new[j]
        /\ \A j \in last + 1 .. Len(x) : out[j + Len(new) - (last + 1 - first)] = x[j]
    BY <1>2, <1>7 DEF Spliced
  <2>2. /\ n \in 1..Len(new) /\ i \in last + 1 .. Len(x) /\ first - 1 + n = i - 1 + n
        /\ Len(x) + Len(new) - (last + 1 - first) = Len(x) + n
        /\ i + Len(new) - (last + 1 - first) = i + n
    <3>1. i \in 1..Len(x) /\ Len(x) \in Nat /\ first = i /\ last = i - 1
      BY <1>2
    <3>2. n \in Nat /\ n >= 1 /\ Len(new) = n
      BY <1>5, <1>6
    <3> QED
      BY ONLY <3>1, <3>2
  <2>3. out[first - 1 + n] = new[n] /\ out[i + Len(new) - (last + 1 - first)] = x[i]
    BY <2>1, <2>2
  <2> QED
    BY <2>1, <2>2, <2>3
<1>9. i + n \in 2..Len(out) /\ (i + n) - 1 = i - 1 + n
  <2>1. i \in 1..Len(x) /\ Len(x) \in Nat /\ n \in Nat /\ n >= 1 /\ Len(out) = Len(x) + n
    BY <1>2, <1>5, <1>8
  <2> QED
    BY ONLY <2>1
<1>10. out[(i + n) - 1].is = e.new[n].is /\ out[i + n].is = e.find
  BY <1>2, <1>6, <1>8, <1>9
<1>11. Directly(out, e.new[n].is, e.find)
  BY ONLY <1>9, <1>10 DEF Directly
<1> QED
  BY <1>5, <1>7, <1>11

LEMMA PutsStart ==
    ASSUME NEW e, EditOK(e), e.how = "start", Len(e.new) >= 1,
           \A j \in 1..Len(e.new) : e.new[j].is # "original"
    PROVE  Puts(e, e.find, e.new[1].is)
<1> SUFFICES ASSUME NEW x \in Seq(Lines), x # NotFound, Edit(x, e) # NotFound
             PROVE  Directly(Edit(x, e), e.find, e.new[1].is)
  BY DEF Puts
<1>1. PICK i, first, last, kept, new : Edited(x, e, i, first, last, kept, new, Edit(x, e))
  BY EditAt DEF Spanning
<1>2. /\ i \in 1..Len(x) /\ x[i].is = e.find /\ first = i + 1 /\ last = i
      /\ kept \in Seq(Lines) /\ new \in Seq(Lines) /\ new = Fill(e.new, kept, 0)
      /\ Spliced(x, first, last, new, Edit(x, e))
  BY <1>1 DEF Edited
<1>3. e.new \in Seq(Lines)
  BY DEF EditOK
<1>4. new = Reindent(e.new, 0)
  BY <1>2, <1>3, FillPlain
<1>5. Len(new) >= 1 /\ new[1].is = e.new[1].is
  <2>1. Len(new) = Len(e.new) /\ \A j \in 1..Len(e.new) : new[j].is = e.new[j].is
    BY ONLY <1>3, <1>4, ReindentIs
  <2> QED
    BY <1>3, <2>1
<1>6. PICK out : out = Edit(x, e)
  OBVIOUS
<1>7. /\ out \in Seq(Lines) /\ i + 1 \in 2..Len(out) /\ (i + 1) - 1 = i
      /\ out[i] = x[i] /\ out[i + 1] = new[1]
  <2>1. /\ out \in Seq(Lines) /\ Len(out) = Len(x) + Len(new) - (last + 1 - first)
        /\ \A j \in 1 .. first - 1 : out[j] = x[j]
        /\ \A j \in 1 .. Len(new) : out[first - 1 + j] = new[j]
    BY <1>2, <1>6 DEF Spliced
  <2>2. i \in 1 .. first - 1 /\ 1 \in 1 .. Len(new) /\ first - 1 + 1 = i + 1
    BY <1>2, <1>5
  <2>3. out[i] = x[i] /\ out[i + 1] = new[1]
    BY <2>1, <2>2
  <2> QED
    BY <1>2, <1>5, <2>1, <2>3
<1> QED
  BY <1>2, <1>5, <1>6, <1>7 DEF Directly

ThreeOf(x, u, v, w) == x = u \o (v \o w)

LEMMA ThreeParts ==
    ASSUME NEW u \in Seq(Lines), NEW v \in Seq(Lines), NEW w \in Seq(Lines), NEW n \in Nat, n >= 1,
           Len(v) = n, Len(w) >= 1,
           NEW x, ThreeOf(x, u, v, w)
    PROVE  /\ Len(u) \in Nat /\ Len(w) \in Nat /\ Len(x) = Len(u) + n + Len(w)
           /\ x[Len(u) + n] = v[n] /\ x[Len(u) + n + 1] = w[1]
<1>1. PICK z : z = v \o w
  OBVIOUS
<1>2. /\ z \in Seq(Lines) /\ Len(z) = n + Len(w)
      /\ \A i \in 1 .. Len(v) + Len(w) : z[i] = IF i <= Len(v) THEN v[i] ELSE w[i - Len(v)]
  BY <1>1, ConcatProperties
<1>3. n \in 1 .. Len(v) + Len(w) /\ n + 1 \in 1 .. Len(v) + Len(w) /\ n <= Len(v)
      /\ ~(n + 1 <= Len(v)) /\ n + 1 - Len(v) = 1
  OBVIOUS
<1>4. z[n] = v[n] /\ z[n + 1] = w[1]
  BY <1>2, <1>3
<1>5. /\ Len(u \o z) = Len(u) + Len(z)
      /\ \A i \in 1 .. Len(u) + Len(z) : (u \o z)[i] = IF i <= Len(u) THEN u[i] ELSE z[i - Len(u)]
  <2>1. z \in Seq(Lines) /\ u \in Seq(Lines)
    BY <1>2
  <2> QED
    BY ONLY <2>1, ConcatProperties
<1>6. /\ Len(u) \in Nat /\ Len(w) \in Nat
      /\ Len(u) + n \in 1 .. Len(u) + Len(z) /\ ~(Len(u) + n <= Len(u)) /\ Len(u) + n - Len(u) = n
      /\ Len(u) + n + 1 \in 1 .. Len(u) + Len(z) /\ ~(Len(u) + n + 1 <= Len(u))
      /\ Len(u) + n + 1 - Len(u) = n + 1
  BY <1>2
<1>7. (u \o z)[Len(u) + n] = z[n] /\ (u \o z)[Len(u) + n + 1] = z[n + 1]
  BY <1>5, <1>6
<1> QED
  BY <1>1, <1>2, <1>4, <1>5, <1>6, <1>7 DEF ThreeOf

LEMMA FillEnds ==
    ASSUME NEW pre \in Seq(Lines), NEW b \in Seq(Lines), NEW a, NEW k, NEW words,
           OriginalLast(b, a, k, words), Len(a) >= 1, NEW kept \in Seq(Lines), Len(kept) >= 1,
           NEW base \in Nat
    PROVE  \E q \in 2..Len(Fill(pre \o b, kept, base)) :
              /\ Fill(pre \o b, kept, base)[q - 1].is = a[Len(a)].is
              /\ Fill(pre \o b, kept, base)[q].is = kept[1].is
<1>1. Fill(pre \o b, kept, base) = Fill(pre, kept, base) \o Fill(b, kept, base)
  BY FillJoin
<1>2. Fill(b, kept, base) = Reindent(a, base) \o Reindent(kept, k)
  BY FillLast
<1>3. a \in Seq(Lines) /\ k \in Nat
  BY DEF OriginalLast
<1>4. PICK u \in Seq(Lines), v \in Seq(Lines), w \in Seq(Lines) :
          u = Fill(pre, kept, base) /\ v = Reindent(a, base) /\ w = Reindent(kept, k)
  BY <1>3, FillIn, ReindentIn
<1>5. PICK n \in Nat : n = Len(a) /\ n >= 1
  BY <1>3
<1>6. Len(v) = n /\ v[n].is = a[n].is
  <2>1. Len(v) = Len(a) /\ \A j \in 1..Len(a) : v[j].is = a[j].is
    BY ONLY <1>3, <1>4, base \in Nat, ReindentIs
  <2> QED
    BY <1>5, <2>1
<1>7. Len(w) >= 1 /\ w[1].is = kept[1].is
  <2>1. Len(w) = Len(kept) /\ \A j \in 1..Len(kept) : w[j].is = kept[j].is
    BY <1>3, <1>4, ReindentIs
  <2> QED
    BY <2>1
<1>8. PICK new \in Seq(Lines) : new = Fill(pre \o b, kept, base) /\ new = u \o (v \o w)
  <2>1. u \o (v \o w) \in Seq(Lines)
    OBVIOUS
  <2> QED
    BY <1>1, <1>2, <1>4, <2>1
<1>9. /\ Len(u) \in Nat /\ Len(w) \in Nat /\ Len(new) = Len(u) + n + Len(w)
      /\ new[Len(u) + n] = v[n] /\ new[Len(u) + n + 1] = w[1]
  <2>1. Len(v) = n /\ Len(w) >= 1 /\ n >= 1
    BY <1>5, <1>6, <1>7
  <2>2. ThreeOf(new, u, v, w)
    BY <1>8 DEF ThreeOf
  <2>3. u \in Seq(Lines) /\ v \in Seq(Lines) /\ w \in Seq(Lines) /\ n \in Nat
    OBVIOUS
  <2> QED
    BY ONLY <2>1, <2>2, <2>3, ThreeParts
<1>10. PICK q \in 2..Len(new) : q = Len(u) + n + 1 /\ q - 1 = Len(u) + n
  <2>1. Len(u) + n + 1 \in 2..Len(new) /\ Len(u) + n + 1 - 1 = Len(u) + n
    BY <1>5, <1>7, <1>9
  <2> QED
    BY <2>1
<1>11. new[q - 1].is = a[n].is /\ new[q].is = kept[1].is
  BY <1>6, <1>7, <1>9, <1>10
<1> QED
  BY <1>5, <1>8, <1>11

LEMMA PutsLast ==
    ASSUME NEW e, EditOK(e), e.how \in {"counts", "here", "replace"},
           NEW pre \in Seq(Lines), NEW b \in Seq(Lines), e.new = pre \o b,
           NEW a, NEW k, OriginalLast(b, a, k, {}), Len(a) >= 1
    PROVE  Puts(e, a[Len(a)].is, e.find)
<1> SUFFICES ASSUME NEW x \in Seq(Lines), x # NotFound, Edit(x, e) # NotFound
             PROVE  Directly(Edit(x, e), a[Len(a)].is, e.find)
  BY DEF Puts
<1>1. PICK i, first, last, kept, new : Edited(x, e, i, first, last, kept, new, Edit(x, e))
  BY EditAt DEF Spanning
<1>2. PICK base : base = IF e.how = "here" THEN x[i].indent ELSE 0
  OBVIOUS
<1>3. /\ i \in 1..Len(x) /\ x[i].is = e.find /\ first = i /\ IsSpan(x, first, last)
      /\ kept \in Seq(Lines) /\ kept = Kept(x, <<first, last>>, e.how)
      /\ new \in Seq(Lines) /\ new = Fill(e.new, kept, base)
      /\ Spliced(x, first, last, new, Edit(x, e))
      /\ last = LastCount(x, i) \/ last = End(x, i)
  BY <1>1, <1>2 DEF Edited
<1>4. last \in i .. Len(x)
  BY <1>3, LastCountIs, EndIs
<1>5. base \in Nat
  <2>1. x[i] \in Lines
    BY <1>3
  <2> QED
    BY <1>2, <2>1 DEF Lines
<1>6. Len(kept) >= 1 /\ kept[1] = x[i]
  <2>1. kept = SubSeq(x, i, last)
    BY <1>3 DEF Kept
  <2> QED
    <3>1. x \in Seq(Lines) /\ i \in 1..Len(x)
      BY <1>3
    <3> QED
      BY ONLY <1>4, <2>1, <3>1
<1>7. a \in Seq(Lines) /\ k \in Nat
  BY DEF OriginalLast
<1>14. kept \in Seq(Lines) /\ pre \in Seq(Lines) /\ b \in Seq(Lines) /\ OriginalLast(b, a, k, {})
  BY <1>3
<1>13. PICK q \in 2..Len(new) : new[q - 1].is = a[Len(a)].is /\ new[q].is = e.find
  <2>1. Len(a) >= 1 /\ Len(kept) >= 1
    BY <1>6
  <2>2. PICK q \in 2..Len(Fill(pre \o b, kept, base)) :
            /\ Fill(pre \o b, kept, base)[q - 1].is = a[Len(a)].is
            /\ Fill(pre \o b, kept, base)[q].is = kept[1].is
    BY ONLY <1>5, <1>14, <2>1, FillEnds
  <2>3. new = Fill(pre \o b, kept, base)
    BY <1>3
  <2> QED
    BY <1>3, <1>6, <2>2, <2>3
<1>15. Directly(Edit(x, e), new[q - 1].is, new[q].is)
  BY <1>3, <1>13, DirectlyNew
<1> QED
  BY <1>13, <1>15

AllKeep(es, before, is) == \A i \in 1..Len(es) : KeepsPair(es[i], before, is)

LEMMA AllKeepJoin ==
    ASSUME NEW a, GoodEdits(a), NEW b, GoodEdits(b), NEW before, NEW is,
           AllKeep(a, before, is), AllKeep(b, before, is)
    PROVE  AllKeep(a \o b, before, is)
<1>1. PICK c : c = a \o b
  OBVIOUS
<1>2. Joined(c, a, b)
  BY <1>1, GoodJoined
<1>3. Len(a) \in Nat /\ Len(b) \in Nat
  BY DEF GoodEdits
<1>4. ASSUME NEW i \in 1..Len(c)
      PROVE  KeepsPair(c[i], before, is)
  <2>1. i \in 1..Len(a) \/ i \in Len(a) + 1 .. Len(c)
    BY <1>2, <1>3 DEF Joined
  <2> QED
    BY <1>2, <2>1 DEF Joined, AllKeep
<1> QED
  BY <1>1, <1>4 DEF AllKeep

LEMMA AllKeepIf ==
    ASSUME NEW c, NEW es, NEW before, NEW is, AllKeep(es, before, is)
    PROVE  AllKeep(If(c, es), before, is)
BY DEF AllKeep, If

LEMMA AllKeepOne ==
    ASSUME NEW e, NEW before, NEW is, KeepsPair(e, before, is)
    PROVE  AllKeep(<<e>>, before, is)
BY DEF AllKeep

LEMMA OneOriginal ==
    ASSUME NEW words, NEW k \in Nat, "original" \in Words, NEW p \in Lines,
           p.is \notin words \cup {"original"}
    PROVE  OriginalLast(<<p, Line(k, "original")>>, <<p>>, k, words) /\ Len(<<p>>) = 1
<1>1. <<p>> \in Seq(Lines) /\ Len(<<p>>) = 1 /\ <<p>>[1] = p
  OBVIOUS
<1>2. \A j \in 1..Len(<<p>>) : <<p>>[j].is \notin words \cup {"original"}
  BY <1>1
<1>3. <<p, Line(k, "original")>> = <<p>> \o <<Line(k, "original")>>
  OBVIOUS
<1> QED
  BY <1>1, <1>2, <1>3 DEF OriginalLast

\* The words that MAX's own lines of a text have are those of its lines.
OwnAt(x, words, i, a, c, u, w) ==
    /\ a \in Seq(Lines) /\ a = SubSeq(x, 1, i - 1) /\ u \in Seq(Words) /\ u = Own(a, words)
    /\ c \in Seq(Lines) /\ c = SubSeq(x, i + 1, Len(x)) /\ w \in Seq(Words) /\ w = Own(c, words)
    /\ Own(x, words) = u \o (<<x[i].is>> \o w)

LEMMA OwnSplit ==
    ASSUME NEW x \in Seq(Lines), NEW words, NEW i \in 1..Len(x), x[i].is \in words
    PROVE  \E a, c, u, w : OwnAt(x, words, i, a, c, u, w)
<1>1. PICK is : is = x[i].is /\ is \in words
  OBVIOUS
<1>2. PICK a, b, c : a = SubSeq(x, 1, i - 1) /\ b = <<x[i]>> /\ c = SubSeq(x, i + 1, Len(x))
  OBVIOUS
<1>3. /\ a \in Seq(Lines) /\ b \in Seq(Lines) /\ c \in Seq(Lines) /\ x = a \o (b \o c)
  <2>1. PICK n \in Nat : n = Len(x) /\ i <= n /\ i \in Nat /\ i >= 1 /\ x[i] \in Lines
    OBVIOUS
  <2>2. /\ 1 \in 1 .. Len(x) + 1 /\ i - 1 \in 1 - 1 .. Len(x) /\ Len(x) \in i - 1 .. Len(x)
        /\ i - 1 + 1 = i /\ Len(x) \in i .. Len(x)
    BY ONLY <2>1
  <2>3. SubSeq(x, 1, i - 1) \o SubSeq(x, i - 1 + 1, Len(x)) = SubSeq(x, 1, Len(x))
    BY <2>2, ConcatAdjacentSubSeq
  <2>4. SubSeq(x, i, Len(x)) = <<x[i]>> \o SubSeq(x, i + 1, Len(x))
    BY <2>2, SubSeqRecursiveFirst
  <2>5. SubSeq(x, 1, Len(x)) = x
    BY SubSeqFull
  <2>6. /\ 1 \in Nat \ {0} /\ i + 1 \in Nat \ {0} /\ i - 1 \in Int /\ n \in Int
        /\ i - 1 <= n /\ n <= n
    BY ONLY <2>1
  <2>7. a \in Seq(Lines) /\ c \in Seq(Lines)
    BY <1>2, <2>1, <2>6, PartIn
  <2>8. b \in Seq(Lines)
    BY <1>2, <2>1
  <2> QED
    BY <1>2, <2>2, <2>3, <2>4, <2>5, <2>7, <2>8
<1>4. PICK u \in Seq(Words), v \in Seq(Words), w \in Seq(Words) :
          u = Own(a, words) /\ v = Own(b, words) /\ w = Own(c, words)
  BY <1>3, OwnIn
<1>5. Own(x, words) = u \o (v \o w)
  <2>1. b \o c \in Seq(Lines)
    BY <1>3
  <2>2. Own(b \o c, words) = Own(b, words) \o Own(c, words)
    <3>1. b \in Seq(Lines) /\ c \in Seq(Lines)
      BY <1>3
    <3>2. Joins(b, c, words)
      BY ONLY <3>1, OwnJoin
    <3> QED
      BY ONLY <3>2 DEF Joins
  <2>4. PICK z \in Seq(Lines) : z = b \o c
    BY <2>1
  <2>5. Own(a \o z, words) = Own(a, words) \o Own(z, words)
    <3>1. a \in Seq(Lines) /\ z \in Seq(Lines)
      BY <1>3
    <3>2. Joins(a, z, words)
      BY ONLY <3>1, OwnJoin
    <3> QED
      BY ONLY <3>2 DEF Joins
  <2>3. Own(a \o (b \o c), words) = Own(a, words) \o Own(b \o c, words)
    BY <2>4, <2>5
  <2> QED
    BY <1>3, <1>4, <2>2, <2>3
<1>6. v = <<is>>
  <2>1. Len(b) = 1 /\ b[1].is = is
    BY ONLY <1>1, <1>2
  <2>2. PICK p \in Seq(Seq(Words)) : p = OwnPieces(b, words)
    BY <1>3, PiecesIn
  <2>3. Len(p) = 1 /\ p[1] = <<is>> /\ v = FlattenSeq(p)
    <3>1. /\ Len(p) = Len(b)
          /\ \A j \in 1..Len(b) : p[j] = IF b[j].is \in words THEN <<b[j].is>> ELSE <<>>
          /\ v = FlattenSeq(p)
      BY ONLY <1>3, <1>4, <2>2, PiecesIn
    <3> QED
      BY ONLY <1>1, <2>1, <3>1
  <2>4. p = <<p[1]>> /\ p[1] \in Seq(Words)
    <3>1. p \in Seq(Seq(Words)) /\ Len(p) = 1
      BY <2>3
    <3>2. p[1] \in Seq(Words)
      <4>1. 1 \in 1..Len(p)
        BY ONLY <3>1
      <4> QED
        BY ONLY <3>1, <4>1, ElementOfSeq
    <3>3. <<p[1]>> \in Seq(Seq(Words)) /\ Len(<<p[1]>>) = 1 /\ <<p[1]>>[1] = p[1]
      BY ONLY <3>2
    <3>4. \A j \in 1..Len(p) : p[j] = <<p[1]>>[j]
      BY ONLY <3>1, <3>3
    <3> QED
      BY ONLY <3>1, <3>2, <3>3, <3>4, SeqEqual
  <2>5. FlattenSeq(<<p[1]>>) = p[1]
    BY <2>4, FlattenOne
  <2> QED
    BY <2>3, <2>4, <2>5
<1> QED
  BY <1>1, <1>2, <1>3, <1>4, <1>5, <1>6 DEF OwnAt

LEMMA OwnHas ==
    ASSUME NEW x \in Seq(Lines), NEW words, NEW is \in words \cap WordsOf(x)
    PROVE  \E j \in 1..Len(Own(x, words)) : Own(x, words)[j] = is
<1>1. PICK i \in 1..Len(x) : x[i].is = is
  BY DEF WordsOf
<1>2. PICK a, c, u, w : OwnAt(x, words, i, a, c, u, w)
  BY <1>1, OwnSplit
<1>3. PICK v : v = <<is>>
  OBVIOUS
<1>4. u \in Seq(Words) /\ w \in Seq(Words) /\ Own(x, words) = u \o (v \o w) /\ v \in Seq({is})
  BY <1>1, <1>2, <1>3 DEF OwnAt
<1>5. /\ Len(u) + 1 \in 1..Len(u \o (v \o w)) /\ (u \o (v \o w))[Len(u) + 1] = is
  BY ONLY <1>3, <1>4
<1> QED
  BY <1>4, <1>5

LEMMA OwnOnly ==
    ASSUME NEW x \in Seq(Lines), NEW words
    PROVE  Own(x, words) \in Seq(WordsOf(x))
<1>1. PICK p : p = OwnPieces(x, words)
  OBVIOUS
<1>2. /\ p \in Seq(Seq(Words)) /\ Len(p) = Len(x)
      /\ \A i \in 1..Len(x) : p[i] = IF x[i].is \in words THEN <<x[i].is>> ELSE <<>>
      /\ Own(x, words) = FlattenSeq(p)
  BY <1>1, PiecesIn
<1>3. \A i \in 1..Len(p) : p[i] \in Seq(WordsOf(x))
  <2> SUFFICES ASSUME NEW i \in 1..Len(p)
               PROVE  p[i] \in Seq(WordsOf(x))
    OBVIOUS
  <2>1. i \in 1..Len(x) /\ x[i].is \in WordsOf(x)
    <3>1. i \in 1..Len(x) /\ DOMAIN x = 1..Len(x)
      BY <1>2
    <3> QED
      BY ONLY <3>1 DEF WordsOf
  <2>2. <<>> \in Seq(WordsOf(x)) /\ <<x[i].is>> \in Seq(WordsOf(x))
    BY <2>1
  <2> QED
    BY <1>2, <2>1, <2>2
<1>4. p \in Seq(Seq(WordsOf(x)))
  <2>1. p \in [1..Len(p) -> Seq(WordsOf(x))] /\ Len(p) \in Nat
    BY <1>2, <1>3
  <2> QED
    BY <2>1
<1> QED
  BY <1>2, <1>4, FlattenIn

LEMMA OwnKeepsWord ==
    ASSUME NEW x \in Seq(Lines), NEW y \in Seq(Lines), NEW words, Own(x, words) = Own(y, words),
           NEW is \in words \cap WordsOf(y)
    PROVE  HasLine(x, is)
<1>1. PICK o \in Seq(WordsOf(x)) : o = Own(x, words)
  BY OwnOnly
<1>2. PICK j \in 1..Len(o) : o[j] = is
  <2>1. \E j \in 1..Len(Own(y, words)) : Own(y, words)[j] = is
    BY OwnHas
  <2> QED
    BY <1>1, <2>1
<1>3. is \in WordsOf(x)
  BY <1>1, <1>2
<1> QED
  BY <1>3 DEF WordsOf, HasLine

LEMMA DirectlyImports == \A x, before, is : Directly(x, before, is) /\ x \in Seq(Lines)
                             => HasLine(x, is) /\ HasLine(x, before)
<1> SUFFICES ASSUME NEW x \in Seq(Lines), NEW before, NEW is, Directly(x, before, is)
             PROVE  HasLine(x, is) /\ HasLine(x, before)
  OBVIOUS
<1>1. PICK i \in 2..Len(x) : x[i - 1].is = before /\ x[i].is = is
  BY DEF Directly
<1>2. i \in DOMAIN x /\ i - 1 \in DOMAIN x
  BY <1>1
<1> QED
  BY <1>1, <1>2 DEF HasLine

LEMMA ListStands ==
    ASSUME NEW text \in Seq(Lines), NEW es, GoodEdits(es), NEW before, NEW is,
           NEW a, GoodEdits(a), NEW b, GoodEdits(b), Joined(es, a, b), NEW k \in 1..Len(a),
           Puts(a[k], before, is), \A i \in k + 1 .. Len(a) : KeepsPair(a[i], before, is),
           AllKeep(b, before, is), FoldLeft(Edit, text, es) # NotFound
    PROVE  Directly(FoldLeft(Edit, text, es), before, is)
<1>1. Len(a) \in Nat /\ Len(b) \in Nat
  BY DEF GoodEdits
<1>2. k \in 1..Len(es) /\ es[k] = a[k]
  BY <1>1 DEF Joined
<1>3. Puts(es[k], before, is)
  BY <1>2
<1>4. ASSUME NEW i \in k + 1 .. Len(es)
      PROVE  KeepsPair(es[i], before, is)
  <2>1. i \in k + 1 .. Len(a) \/ i \in Len(a) + 1 .. Len(es)
    BY <1>1 DEF Joined
  <2>2. i \in k + 1 .. Len(a) => i \in 1..Len(a)
    BY <1>1
  <2> QED
    BY <2>1, <2>2 DEF Joined, AllKeep
<1> QED
  BY <1>2, <1>3, <1>4, PairStands

-----------------------------------------------------------------------------
(* The last edit of a list.                                                *)

\* The last edit of a list is made on a text.
LEMMA LastStep ==
    ASSUME NEW text \in Seq(Lines), NEW es, GoodEdits(es), Len(es) >= 1,
           FoldLeft(Edit, text, es) # NotFound
    PROVE  \E x \in Seq(Lines) : /\ x # NotFound
                                 /\ FoldsTo(text, es, Edit(x, es[Len(es)]))
<1>1. text \in Texts
  BY DEF Texts
<1>2. PICK t : RunOf(t, text, es) /\ t[Len(es)] = FoldLeft(Edit, text, es)
  BY <1>1, EditsRun
<1>3. PICK n \in Nat : n = Len(es) /\ n >= 1
  BY DEF GoodEdits
<1>4. n - 1 \in 0..n /\ n \in 1..n
  BY <1>3
<1>5. t[n - 1] # NotFound /\ t[n - 1] \in Seq(Lines)
  <2>1. \A i \in 0..Len(es) : t[i] # NotFound
    BY <1>2, RunWhole
  <2>2. \A i \in 0..Len(es) : t[i] # NotFound => t[i] \in Seq(Lines)
    BY <1>2, RunStays
  <2> QED
    BY <1>3, <1>4, <2>1, <2>2
<1>6. t[n] = Edit(t[n - 1], es[n])
  BY <1>2, <1>3, <1>4 DEF RunOf
<1>7. FoldLeft(Edit, text, es) = Edit(t[n - 1], es[n])
  BY <1>2, <1>3, <1>6
<1> QED
  BY <1>3, <1>5, <1>7 DEF FoldsTo

\* A template whose last lines are a header and "original".
LEMMA PutsElse ==
    ASSUME NEW e, EditOK(e), e.how \in {"counts", "here", "replace"},
           NEW p \in Lines, NEW q \in Lines, NEW r \in Lines, NEW s \in Lines, NEW u \in Lines,
           NEW k \in Nat, "original" \in Words, u.is # "original",
           \/ e.new = <<p, q, r, u, Line(k, "original")>>
           \/ e.new = <<p, q, r, s, u, Line(k, "original")>>
           \/ e.new = <<p, q, u, Line(k, "original")>>
    PROVE  Puts(e, u.is, e.find)
<1>1. PICK l \in Lines : l = Line(k, "original")
  BY LineIn
<1>2. PICK a, b : a = <<u>> /\ b = <<u, l>>
  OBVIOUS
<1>3. OriginalLast(b, a, k, {}) /\ Len(a) = 1
  <2>1. u.is \notin {} \cup {"original"}
    OBVIOUS
  <2> QED
    BY <1>1, <1>2, <2>1, OneOriginal
<1>4. b \in Seq(Lines)
  BY <1>2, Tuples
<1>5. PICK pre \in Seq(Lines) : e.new = pre \o b
  <2>5. <<p, q, r>> \in Seq(Lines) /\ <<p, q, r, s>> \in Seq(Lines)
    BY Tuples
  <2>6. <<p, q, r, u, l>> = <<p, q, r>> \o <<u, l>>
    OBVIOUS
  <2>7. <<p, q, r, s, u, l>> = <<p, q, r, s>> \o <<u, l>>
    OBVIOUS
  <2>1. CASE e.new = <<p, q, r, u, l>>
    BY ONLY <1>2, <2>1, <2>5, <2>6
  <2>2. CASE e.new = <<p, q, r, s, u, l>>
    BY ONLY <1>2, <2>2, <2>5, <2>7
  <2>3. CASE e.new = <<p, q, u, l>>
    <3>1. <<p, q, u, l>> = <<p, q>> \o <<u, l>> /\ <<p, q>> \in Seq(Lines)
      OBVIOUS
    <3> QED
      BY <1>2, <2>3, <3>1
  <2> QED
    BY <1>1, <2>1, <2>2, <2>3
<1>6. a[Len(a)].is = u.is /\ Len(a) >= 1
  BY ONLY <1>2, <1>3
<1>7. Puts(e, a[Len(a)].is, e.find)
  <2>1. EditOK(e) /\ e.how \in {"counts", "here", "replace"}
    OBVIOUS
  <2> QED
    BY ONLY <1>3, <1>4, <1>5, <1>6, <2>1, PutsLast
<1> QED
  BY <1>6, <1>7

LEMMA OneAndOne == \A x, y : <<x>> \o <<y>> = <<x, y>>
<1> TAKE x, y
<1>1. <<x>> \in Seq({x, y}) /\ <<y>> \in Seq({x, y}) /\ <<x, y>> \in Seq({x, y})
  OBVIOUS
<1>2. /\ <<x>> \o <<y>> \in Seq({x, y}) /\ Len(<<x>> \o <<y>>) = Len(<<x>>) + Len(<<y>>)
      /\ \A i \in 1 .. Len(<<x>>) + Len(<<y>>) :
            (<<x>> \o <<y>>)[i] = IF i <= Len(<<x>>) THEN <<x>>[i] ELSE <<y>>[i - Len(<<x>>)]
  BY <1>1, ConcatProperties
<1>3. Len(<<x>>) = 1 /\ Len(<<y>>) = 1 /\ Len(<<x, y>>) = 2 /\ <<x, y>>[1] = x /\ <<x, y>>[2] = y
      /\ <<x>>[1] = x /\ <<y>>[1] = y
  OBVIOUS
<1>4. PICK s : s = <<x>> \o <<y>>
  OBVIOUS
<1>5. PICK t : t = <<x, y>>
  OBVIOUS
<1>6. /\ s \in Seq({x, y}) /\ t \in Seq({x, y}) /\ Len(s) = 2 /\ Len(t) = 2
      /\ s[1] = x /\ s[2] = y /\ t[1] = x /\ t[2] = y
  BY <1>1, <1>2, <1>3, <1>4, <1>5
<1>7. Len(s) = Len(t) /\ \A i \in 1..Len(s) : s[i] = t[i]
  BY ONLY <1>6
<1>8. s = t
  BY ONLY <1>6, <1>7, SeqEqual
<1> QED
  BY <1>4, <1>5, <1>8

LEMMA JoinedAt ==
    ASSUME NEW a, GoodEdits(a), NEW b, GoodEdits(b), NEW c, c = a \o b
    PROVE  \A j \in 1..Len(b) : c[Len(a) + j] = b[j]
<1> DEFINE S == {a[i] : i \in 1..Len(a)} \cup {b[i] : i \in 1..Len(b)}
<1>1. Len(a) \in Nat /\ Len(b) \in Nat
  BY DEF GoodEdits
<1>2. a \in Seq(S) /\ b \in Seq(S)
  <2>1. a \in [1..Len(a) -> S] /\ b \in [1..Len(b) -> S]
    BY DEF GoodEdits
  <2> HIDE DEF S
  <2> QED
    BY ONLY <1>1, <2>1, SeqDef
<1> HIDE DEF S
<1>3. \A i \in 1 .. Len(a) + Len(b) : (a \o b)[i] = IF i <= Len(a) THEN a[i] ELSE b[i - Len(a)]
  BY <1>2, ConcatProperties
<1>4. ASSUME NEW j \in 1..Len(b)
      PROVE  (a \o b)[Len(a) + j] = b[j]
  <2>1. /\ Len(a) + j \in 1 .. Len(a) + Len(b) /\ ~(Len(a) + j <= Len(a)) /\ Len(a) + j - Len(a) = j
    BY <1>1
  <2> QED
    BY <1>3, <2>1
<1> QED
  BY <1>4

-----------------------------------------------------------------------------
(* Where a line comes to stand, and where its statement ends.              *)

\* Where a line that is not replaced comes to stand.
Moved(i, first, last, n) == IF i < first THEN i ELSE i + n - (last + 1 - first)

\* A line is one of the new ones, or it was there.
LEMMA SplicedBack ==
    ASSUME NEW text \in Seq(Lines), NEW first, NEW last, IsSpan(text, first, last),
           NEW new \in Seq(Lines), NEW x, Spliced(text, first, last, new, x), NEW j \in 1..Len(x)
    PROVE  \/ \E k \in 1..Len(new) : j = first - 1 + k /\ x[j] = new[k]
           \/ \E i \in 1..Len(text) : /\ i \notin first..last /\ x[j] = text[i]
                                      /\ j = Moved(i, first, last, Len(new))
<1>1. PICK n \in Nat, m \in Nat, f \in Nat, b \in Int :
         /\ n = Len(text) /\ m = Len(new) /\ f = first /\ b = last
         /\ f >= 1 /\ f <= n + 1 /\ b >= f - 1 /\ b <= n
  BY DEF IsSpan
<1>2. /\ Len(x) = n + m - (b + 1 - f)
      /\ \A i \in 1 .. f - 1 : x[i] = text[i]
      /\ \A i \in 1 .. m : x[f - 1 + i] = new[i]
      /\ \A i \in b + 1 .. n : x[i + m - (b + 1 - f)] = text[i]
  BY <1>1 DEF Spliced
<1>3. CASE j < f
  <2>1. j \in 1..n /\ j \in 1 .. f - 1 /\ j \notin f..b
    BY <1>1, <1>3
  <2>2. x[j] = text[j] /\ j = Moved(j, f, b, m)
    BY <1>2, <1>3, <2>1 DEF Moved
  <2> QED
    BY <1>1, <2>1, <2>2
<1>4. CASE j \in f .. f + m - 1
  <2>1. j - f + 1 \in 1..m /\ j = f - 1 + (j - f + 1)
    BY <1>1, <1>4
  <2>2. x[j] = new[j - f + 1]
    BY <1>2, <2>1
  <2> QED
    BY <1>1, <2>1, <2>2
<1>5. CASE j >= f + m
  <2>1. PICK i \in Int : i = j - m + (b + 1 - f)
    <3>1. j - m + (b + 1 - f) \in Int
      BY ONLY <1>1, j \in 1..Len(x), <1>2
    <3> QED
      BY <3>1
  <2>2. i \in b + 1 .. n /\ j = i + m - (b + 1 - f) /\ i \in 1..n /\ i \notin f..b /\ ~(i < f)
    BY <1>1, <1>2, <1>5, <2>1
  <2>3. x[j] = text[i] /\ j = Moved(i, f, b, m)
    BY <1>2, <2>2 DEF Moved
  <2> QED
    BY <1>1, <2>2, <2>3
<1> QED
  BY <1>1, <1>3, <1>4, <1>5

\* One that is none of the new ones was there.
NoneOf(line, new) == \A k \in 1..Len(new) : line # new[k]
WasAt(text, first, last, n, x, j) ==
    \E i \in 1..Len(text) : x[j] = text[i] /\ j = Moved(i, first, last, n)
LEMMA NotNew ==
    ASSUME NEW text \in Seq(Lines), NEW first, NEW last, IsSpan(text, first, last),
           NEW new \in Seq(Lines), NEW x, Spliced(text, first, last, new, x), NEW j \in 1..Len(x),
           NoneOf(x[j], new)
    PROVE  WasAt(text, first, last, Len(new), x, j)
<1>1. \/ \E k \in 1..Len(new) : j = first - 1 + k /\ x[j] = new[k]
      \/ \E i \in 1..Len(text) : /\ i \notin first..last /\ x[j] = text[i]
                                 /\ j = Moved(i, first, last, Len(new))
  BY SplicedBack
<1>2. \A k \in 1..Len(new) : x[j] # new[k]
  BY DEF NoneOf
<1>3. \E i \in 1..Len(text) : x[j] = text[i] /\ j = Moved(i, first, last, Len(new))
  BY ONLY <1>1, <1>2
<1> QED
  BY <1>3 DEF WasAt

\* A statement after the lines that are replaced keeps its lines.
LEMMA EndBefore ==
    ASSUME NEW text \in Seq(Lines), NEW first, NEW last, IsSpan(text, first, last),
           NEW new \in Seq(Lines), NEW x, Spliced(text, first, last, new, x),
           NEW i \in last + 1 .. Len(text), NEW d, d = Len(new) - (last + 1 - first)
    PROVE  /\ i + d \in 1..Len(x) /\ x[i + d] = text[i]
           /\ End(x, i + d) = End(text, i) + d
           /\ \A k \in i .. Len(text) : k + d \in 1..Len(x) /\ x[k + d] = text[k]
           /\ Under(x, i + d) = Under(text, i)
<1>1. PICK n \in Nat, m \in Nat, f \in Nat, b \in Int :
         /\ n = Len(text) /\ m = Len(new) /\ f = first /\ b = last
         /\ f >= 1 /\ f <= n + 1 /\ b >= f - 1 /\ b <= n
  BY DEF IsSpan
<1>2. /\ Len(x) = n + d /\ x \in Seq(Lines) /\ d \in Int /\ d = m - (b + 1 - f)
      /\ \A k \in b + 1 .. n : x[k + d] = text[k]
  <2>1. /\ Len(x) = n + m - (b + 1 - f) /\ x \in Seq(Lines) /\ d = m - (b + 1 - f)
        /\ \A k \in b + 1 .. n : x[k + m - (b + 1 - f)] = text[k]
    BY <1>1 DEF Spliced
  <2>2. \A k \in b + 1 .. n : k + m - (b + 1 - f) = k + d
    BY <1>1, <2>1
  <2> QED
    BY <1>1, <2>1, <2>2
<1>20. Len(x) = n + d /\ d \in Int /\ d = m - (b + 1 - f)
  BY <1>2
<1>3. i \in b + 1 .. n /\ i \in 1..n
  BY <1>1
<1>4. ASSUME NEW k \in i .. n
      PROVE  k + d \in 1 .. Len(x) /\ x[k + d] = text[k]
  <2>1. /\ b \in Int /\ m \in Nat /\ f \in Nat /\ f >= 1 /\ n \in Nat /\ d \in Int
        /\ i \in b + 1 .. n /\ d = m - (b + 1 - f)
    BY <1>1, <1>3, <1>20
  <2>2. k \in b + 1 .. n /\ k + d \in 1 .. n + d
    BY ONLY <2>1, k \in i .. n
  <2> QED
    BY <1>2, <1>20, <2>2
<1>5. PICK e \in Nat : e = End(text, i) /\ e \in i .. n
  <2>1. End(text, i) \in i .. Len(text)
    BY <1>1, <1>3, EndBounds
  <2>2. End(text, i) \in Nat
    BY ONLY <1>1, <1>3, <2>1
  <2> QED
    BY <1>1, <2>1, <2>2
<1>50. /\ \A k \in i + 1 .. e : text[k].indent > text[i].indent
       /\ e < n => text[e + 1].indent <= text[i].indent
  BY <1>1, <1>3, <1>5, EndBounds
<1>51. i \in Nat /\ i >= 1 /\ i <= e /\ e <= n
  BY ONLY <1>1, <1>3, <1>5
<1>52. d \in Int /\ n \in Nat /\ e \in Nat
  BY ONLY <1>20, n \in Nat, e \in Nat
<1>6. End(x, i + d) = e + d
  <2>0. m + f <= i + d /\ m >= 0 /\ f >= 1
    <3>1. /\ b \in Int /\ m \in Nat /\ f \in Nat /\ f >= 1
          /\ i \in b + 1 .. n /\ d = m - (b + 1 - f)
      BY <1>1, <1>3, <1>20
    <3> QED
      BY ONLY <1>51, <1>52, <3>1
  <2>1. i + d \in 1..Len(x) /\ e + d \in i + d .. Len(x)
    <3>1. i + d \in 1 .. n + d /\ e + d \in i + d .. n + d
      BY ONLY <1>51, <1>52, <2>0, m \in Nat, f \in Nat
    <3> QED
      BY <1>20, <3>1
  <2>2. ASSUME NEW k \in i + d + 1 .. e + d
        PROVE  x[k].indent > x[i + d].indent
    <3>1. k - d \in i + 1 .. e /\ k - d \in i..n /\ (k - d) + d = k /\ i \in i..n
      BY ONLY <1>51, <1>52, k \in i + d + 1 .. e + d
    <3>2. x[k] = text[k - d] /\ x[i + d] = text[i]
      BY <1>4, <3>1
    <3> QED
      BY <1>5, <1>50, <1>51, <3>1, <3>2
  <2>3. ASSUME e + d < Len(x)
        PROVE  x[e + d + 1].indent <= x[i + d].indent
    <3>0. e + d < n + d
      BY <1>20, <2>3
    <3>1. e < n /\ e + 1 \in i..n /\ (e + 1) + d = e + d + 1 /\ i \in i..n
      BY ONLY <1>51, <1>52, <3>0
    <3>2. x[(e + 1) + d] = text[e + 1] /\ x[i + d] = text[i]
      BY <1>4, <3>1
    <3> QED
      BY <1>5, <1>50, <1>51, <3>1, <3>2
  <2> QED
    BY <1>2, <2>1, <2>2, <2>3, EndWhen
<1>7. Under(x, i + d) = Under(text, i)
  <2>1. ASSUME NEW k \in i + d + 1 .. e + d
        PROVE  k - d \in i + 1 .. e /\ x[k] = text[k - d]
    <3>1. k - d \in i + 1 .. e /\ k - d \in i..n /\ (k - d) + d = k
      BY ONLY <1>51, <1>52, k \in i + d + 1 .. e + d
    <3> QED
      BY <1>4, <3>1
  <2>2. ASSUME NEW k \in i + 1 .. e
        PROVE  k + d \in i + d + 1 .. e + d /\ x[k + d] = text[k]
    <3>1. k + d \in i + d + 1 .. e + d /\ k \in i..n
      BY ONLY <1>51, <1>52, k \in i + 1 .. e
    <3> QED
      BY <1>4, <3>1
  <2>3. Under(x, i + d) = {x[k].is : k \in i + d + 1 .. e + d} /\ Under(text, i) = {text[k].is : k \in i + 1 .. e}
    BY <1>5, <1>50, <1>51, <1>6 DEF Under
  <2>4. \A w : (\E k \in i + d + 1 .. e + d : w = x[k].is) => (\E k \in i + 1 .. e : w = text[k].is)
    BY <2>1
  <2>5. \A w : (\E k \in i + 1 .. e : w = text[k].is) => (\E k \in i + d + 1 .. e + d : w = x[k].is)
    BY <2>2
  <2>6. \A w : w \in Under(x, i + d) <=> \E k \in i + d + 1 .. e + d : w = x[k].is
    BY ONLY <2>3
  <2>7. \A w : w \in Under(text, i) <=> \E k \in i + 1 .. e : w = text[k].is
    BY ONLY <2>3
  <2>8. \A w : w \in Under(x, i + d) <=> w \in Under(text, i)
    BY ONLY <2>4, <2>5, <2>6, <2>7
  <2>9. Under(x, i + d) \subseteq Under(text, i) /\ Under(text, i) \subseteq Under(x, i + d)
    BY ONLY <2>8
  <2> QED
    BY ONLY <2>9
<1> QED
  BY <1>1, <1>3, <1>4, <1>5, <1>50, <1>51, <1>6, <1>7

\* So does one that ends before them, unless new deeper lines come right after it.
LEMMA EndBeyond ==
    ASSUME NEW text \in Seq(Lines), NEW first, NEW last, IsSpan(text, first, last),
           NEW new \in Seq(Lines), NEW x, Spliced(text, first, last, new, x),
           NEW i \in 1..Len(text), End(text, i) < first,
           \/ End(text, i) + 1 < first
           \/ Len(new) >= 1 /\ new[1].indent <= text[i].indent
    PROVE  /\ i \in 1..Len(x) /\ \A k \in 1 .. End(text, i) : x[k] = text[k]
           /\ End(x, i) = End(text, i)
           /\ Under(x, i) = Under(text, i)
           /\ End(text, i) + 1 < first => x[End(text, i) + 1] = text[End(text, i) + 1]
<1>1. PICK n \in Nat, m \in Nat, f \in Nat, b \in Int :
         /\ n = Len(text) /\ m = Len(new) /\ f = first /\ b = last
         /\ f >= 1 /\ f <= n + 1 /\ b >= f - 1 /\ b <= n
  BY DEF IsSpan
<1>2. /\ Len(x) = n + m - (b + 1 - f) /\ x \in Seq(Lines)
      /\ \A k \in 1 .. f - 1 : x[k] = text[k]
      /\ \A k \in 1 .. m : x[f - 1 + k] = new[k]
  BY <1>1 DEF Spliced
<1>5. PICK e \in Nat : e = End(text, i) /\ e \in i .. n
  <2>1. End(text, i) \in i .. Len(text)
    BY EndBounds
  <2>2. End(text, i) \in Nat
    BY ONLY <1>1, <2>1, i \in 1..Len(text)
  <2> QED
    BY <1>1, <2>1, <2>2
<1>50. /\ \A k \in i + 1 .. e : text[k].indent > text[i].indent
       /\ e < n => text[e + 1].indent <= text[i].indent
  BY <1>1, <1>5, EndBounds
<1>51. i \in Nat /\ i >= 1 /\ i <= e /\ e <= n
  BY ONLY <1>1, <1>5, i \in 1..Len(text)
<1>3. i \in 1..n /\ i >= 1 /\ i <= e /\ e < f
  BY <1>1, <1>5, <1>50, <1>51
<1>6. \A k \in 1..e : k \in 1 .. f - 1 /\ x[k] = text[k]
  BY <1>1, <1>2, <1>3, <1>5, <1>50, <1>51
<1>7. i \in 1..Len(x) /\ e \in i..Len(x)
  BY <1>1, <1>2, <1>3, <1>5, <1>50, <1>51
<1>8. x[i] = text[i] /\ \A k \in i + 1 .. e : x[k] = text[k]
  BY <1>3, <1>5, <1>50, <1>51, <1>6
<1>9. \A k \in i + 1 .. e : x[k].indent > x[i].indent
  BY <1>5, <1>50, <1>51, <1>8
<1>10. ASSUME e < Len(x)
       PROVE  x[e + 1].indent <= x[i].indent
  <2>1. CASE e + 1 < f
    <3>1. e + 1 \in 1 .. f - 1 /\ e < n
      BY <1>1, <1>3, <2>1
    <3> QED
      BY <1>2, <1>5, <1>50, <1>51, <1>8, <3>1
  <2>2. CASE ~(e + 1 < f)
    <3>1. m >= 1 /\ new[1].indent <= text[i].indent /\ e + 1 = f
      BY <1>1, <1>3, <1>5, <1>50, <1>51, <2>2
    <3>2. 1 \in 1..m /\ f - 1 + 1 = e + 1
      BY <3>1, <1>1
    <3>3. x[e + 1] = new[1]
      BY <1>2, <3>2
    <3> QED
      BY <1>8, <3>1, <3>3
  <2> QED
    BY <2>1, <2>2
<1>11. End(x, i) = e
  BY <1>2, <1>7, <1>9, <1>10, EndWhen
<1>12. Under(x, i) = Under(text, i)
  BY <1>5, <1>50, <1>51, <1>8, <1>11 DEF Under
<1>13. ASSUME e + 1 < f
       PROVE  x[e + 1] = text[e + 1]
  <2>1. e + 1 \in 1 .. f - 1
    BY <1>1, <1>13
  <2> QED
    BY <1>2, <2>1
<1> QED
  BY <1>1, <1>5, <1>50, <1>51, <1>6, <1>7, <1>11, <1>12, <1>13

\* What is replaced inside a statement by deeper lines stays inside it.
LEMMA EndWithin ==
    ASSUME NEW text \in Seq(Lines), NEW first, NEW last, IsSpan(text, first, last),
           NEW new \in Seq(Lines), NEW x, Spliced(text, first, last, new, x),
           NEW i \in 1..Len(text), i < first, last <= End(text, i),
           \A k \in 1..Len(new) : new[k].indent > text[i].indent,
           NEW d, d = Len(new) - (last + 1 - first)
    PROVE  /\ i \in 1..Len(x) /\ x[i] = text[i]
           /\ End(x, i) = End(text, i) + d
           /\ \A k \in last + 1 .. Len(text) : x[k + d] = text[k]
           /\ Under(x, i) \subseteq Under(text, i) \cup WordsOf(new)
<1>1. PICK n \in Nat, m \in Nat, f \in Nat, b \in Int :
         /\ n = Len(text) /\ m = Len(new) /\ f = first /\ b = last
         /\ f >= 1 /\ f <= n + 1 /\ b >= f - 1 /\ b <= n
  BY DEF IsSpan
<1>2. /\ Len(x) = n + d /\ x \in Seq(Lines) /\ d \in Int /\ d = m - (b + 1 - f)
      /\ \A k \in b + 1 .. n : x[k + d] = text[k]
      /\ \A k \in 1 .. f - 1 : x[k] = text[k]
      /\ \A k \in 1 .. m : x[f - 1 + k] = new[k]
  <2>1. /\ Len(x) = n + m - (b + 1 - f) /\ x \in Seq(Lines) /\ d = m - (b + 1 - f)
        /\ \A k \in b + 1 .. n : x[k + m - (b + 1 - f)] = text[k]
        /\ \A k \in 1 .. f - 1 : x[k] = text[k]
        /\ \A k \in 1 .. m : x[f - 1 + k] = new[k]
    BY <1>1 DEF Spliced
  <2>2. \A k \in b + 1 .. n : k + m - (b + 1 - f) = k + d
    BY <1>1, <2>1
  <2> QED
    BY <1>1, <2>1, <2>2
<1>5. PICK e \in Nat : e = End(text, i) /\ e \in i .. n
  <2>1. End(text, i) \in i .. Len(text)
    BY EndBounds
  <2>2. End(text, i) \in Nat
    BY ONLY <1>1, <2>1, i \in 1..Len(text)
  <2> QED
    BY <1>1, <2>1, <2>2
<1>50. /\ \A k \in i + 1 .. e : text[k].indent > text[i].indent
       /\ e < n => text[e + 1].indent <= text[i].indent
  BY <1>1, <1>5, EndBounds
<1>51. i \in Nat /\ i >= 1 /\ i <= e /\ e <= n
  BY ONLY <1>1, <1>5, i \in 1..Len(text)
<1>20. Len(x) = n + d /\ d \in Int /\ d = m - (b + 1 - f)
  BY <1>2
<1>3. i \in 1..n /\ i < f /\ b <= e
  BY <1>1, <1>5, <1>50, <1>51
<1>52. /\ n \in Nat /\ m \in Nat /\ f \in Nat /\ b \in Int /\ e \in Nat /\ d \in Int
       /\ d = m - (b + 1 - f) /\ f >= 1 /\ i < f /\ b >= f - 1 /\ b <= e /\ b <= n
  BY <1>1, <1>20, <1>3
<1>4. i \in 1..Len(x) /\ x[i] = text[i] /\ e + d \in i..Len(x)
  <2>1. i \in 1 .. n + d /\ i \in 1 .. f - 1 /\ e + d \in i .. n + d
    BY ONLY <1>51, <1>52
  <2> QED
    BY <1>2, <1>20, <2>1
<1>6. ASSUME NEW k \in i + 1 .. e + d
      PROVE  /\ x[k].indent > x[i].indent
             /\ x[k].is \in Under(text, i) \cup WordsOf(new)
  <2>1. CASE k < f
    <3>1. k \in i + 1 .. e /\ k \in 1 .. f - 1
      BY ONLY <1>51, <1>52, <2>1, k \in i + 1 .. e + d
    <3>2. x[k] = text[k]
      BY <1>2, <3>1
    <3> QED
      BY <1>4, <1>5, <1>50, <1>51, <3>1, <3>2 DEF Under
  <2>2. CASE k \in f .. f + m - 1
    <3>1. k - f + 1 \in 1..m /\ k = f - 1 + (k - f + 1)
      BY ONLY <1>52, <2>2
    <3>2. x[k] = new[k - f + 1]
      BY <1>2, <3>1
    <3>3. k - f + 1 \in DOMAIN new
      BY <1>1, <3>1
    <3>4. x[k].is \in WordsOf(new)
      BY <3>2, <3>3 DEF WordsOf
    <3>5. new[k - f + 1].indent > text[i].indent
      BY <1>1, <3>1
    <3> QED
      BY <1>4, <3>2, <3>4, <3>5
  <2>3. CASE k >= f + m
    <3>1. k - d \in b + 1 .. n /\ k - d \in i + 1 .. e /\ (k - d) + d = k
      BY ONLY <1>51, <1>52, <2>3, k \in i + 1 .. e + d
    <3>2. x[k] = text[k - d]
      BY <1>2, <3>1
    <3> QED
      BY <1>4, <1>5, <1>50, <1>51, <3>1, <3>2 DEF Under
  <2> QED
    BY <1>1, <1>3, <1>6, <2>1, <2>2, <2>3
<1>7. ASSUME e + d < Len(x)
      PROVE  x[e + d + 1].indent <= x[i].indent
  <2>3. b <= e /\ d \in Int /\ e + d < n + d
    BY ONLY <1>20, <1>3, <1>7
  <2>1. e < n /\ e + 1 \in b + 1 .. n /\ (e + 1) + d = e + d + 1
    BY ONLY <2>3, n \in Nat, e \in Nat, b \in Int
  <2>2. x[(e + 1) + d] = text[e + 1]
    BY <1>2, <2>1
  <2> QED
    BY <1>4, <1>5, <1>50, <1>51, <2>1, <2>2
<1>8. End(x, i) = e + d
  BY <1>2, <1>4, <1>6, <1>7, EndWhen
<1>9. Under(x, i) \subseteq Under(text, i) \cup WordsOf(new)
  BY <1>6, <1>8 DEF Under
<1> QED
  BY <1>1, <1>2, <1>4, <1>5, <1>50, <1>51, <1>8, <1>9

-----------------------------------------------------------------------------
(* Words that an edit does not bring.                                      *)

\* An Around edit is two splices.
LEMMA AroundAtIs ==
    ASSUME NEW text \in Seq(Lines), NEW i \in 1..Len(text), NEW e, e.new \in Seq(Lines),
           e.after \in Seq(Lines)
    PROVE  \E once \in Seq(Lines), n \in i .. Len(text) :
              /\ n = End(text, i)
              /\ IsSpan(text, n + 1, n) /\ Spliced(text, n + 1, n, e.after, once)
              /\ IsSpan(once, i, i - 1) /\ Spliced(once, i, i - 1, e.new, AroundAt(text, i, e))
              /\ AroundAt(text, i, e) \in Seq(Lines)
<1>1. Len(text) \in Nat /\ i \in DOMAIN text
  OBVIOUS
<1>2. PICK n : n = End(text, i)
  OBVIOUS
<1>3. n \in i .. Len(text) /\ n \in Nat
  <2>1. n \in i .. Len(text)
    BY <1>1, <1>2, EndIs
  <2> QED
    BY <1>1, <2>1
<1>4. PICK once : once = ReplaceLines(text, n + 1, n, e.after)
  OBVIOUS
<1>5. IsSpan(text, n + 1, n)
  BY <1>1, <1>3 DEF IsSpan
<1>6. Spliced(text, n + 1, n, e.after, once)
  BY <1>4, <1>5, ReplaceLinesAt
<1>7. once \in Seq(Lines) /\ Len(once) >= Len(text)
  <2>1. once \in Seq(Lines) /\ Len(once) = Len(text) + Len(e.after) - (n + 1 - (n + 1))
    BY <1>6 DEF Spliced
  <2>2. Len(e.after) \in Nat /\ n + 1 - (n + 1) = 0
    BY <1>3
  <2> QED
    BY <1>1, <2>1, <2>2
<1>8. IsSpan(once, i, i - 1)
  <2>1. Len(once) \in Nat /\ i \in Nat /\ i >= 1 /\ i <= Len(text)
    BY <1>1, <1>7
  <2> QED
    BY <1>1, <1>7, <2>1 DEF IsSpan
<1>9. Spliced(once, i, i - 1, e.new, ReplaceLines(once, i, i - 1, e.new))
  BY <1>7, <1>8, ReplaceLinesAt
<1>10. AroundAt(text, i, e) = ReplaceLines(once, i, i - 1, e.new)
  BY <1>2, <1>4 DEF AroundAt
<1>11. AroundAt(text, i, e) \in Seq(Lines)
  BY <1>9, <1>10 DEF Spliced
<1> QED
  BY <1>2, <1>3, <1>5, <1>6, <1>7, <1>8, <1>9, <1>10, <1>11

\* An edit that writes no line with a word.
BringsNo(e, is) ==
    /\ EditOK(e) /\ is \notin AddedBy(e)
    /\ \/ e.how = "counts" /\ is \notin {e.find, "sum", "assert"}
       \/ /\ e.how \in {"before", "header", "start", "after", "replace", "end", "top", "around"}
          /\ "original" \notin WordsOf(e.new)

\* The lines with the word are the text's own.
Subset(x, text, is) ==
    \A j \in 1..Len(x) : x[j].is = is => \E i \in 1..Len(text) : text[i] = x[j]

LEMMA SpliceBrings ==
    ASSUME NEW text \in Seq(Lines), NEW first, NEW last, IsSpan(text, first, last),
           NEW new \in Seq(Lines), NEW x, Spliced(text, first, last, new, x), NEW is,
           \A k \in 1..Len(new) : new[k].is # is
    PROVE  Subset(x, text, is)
<1> SUFFICES ASSUME NEW j \in 1..Len(x), x[j].is = is
             PROVE  \E i \in 1..Len(text) : text[i] = x[j]
  BY DEF Subset
<1> QED
  BY SplicedBack

LEMMA SpanWrites ==
    ASSUME NEW text \in Seq(Lines), NEW e, NEW is, BringsNo(e, is), e.how \in Spanning,
           NEW i, NEW first, NEW last, NEW kept, NEW new, NEW out,
           Edited(text, e, i, first, last, kept, new, out)
    PROVE  new \in Seq(Lines) /\ \A k \in 1..Len(new) : new[k].is # is
<1>1. EditOK(e) /\ e.new \in Seq(Lines) /\ \A k \in 1..Len(e.new) : e.new[k].is # is
  BY DEF BringsNo, EditOK, AddedBy, WordsOf
<1>2. /\ i \in 1..Len(text) /\ text[i].is = e.find /\ IsSpan(text, first, last)
      /\ kept \in Seq(Lines) /\ new \in Seq(Lines) /\ kept = Kept(text, <<first, last>>, e.how)
      /\ new = Fill(e.new, kept, IF e.how = "here" THEN text[i].indent ELSE 0)
      /\ e.how = "counts" => first = i /\ last = LastCount(text, i)
  BY DEF Edited
<1>3. e.how # "here" /\ e.how # "body"
  BY DEF BringsNo
<1>4. new = Fill(e.new, kept, 0)
  BY <1>2, <1>3
<1>5. CASE e.how = "counts"
  <2>1. is \notin {e.find, "sum", "assert"}
    BY <1>5 DEF BringsNo
  <2>2. \A j \in first..last : text[j].is # is
    <3>1. \A k \in i + 1 .. LastCount(text, i) : text[k].is \in {"sum", "assert"}
      BY <1>2, LastCountIs
    <3>2. first = i /\ last = LastCount(text, i) /\ i \in Nat
      BY <1>2, <1>5
    <3>3. LastCount(text, i) \in i .. Len(text)
      BY <1>2, LastCountIs
    <3>4. \A j \in first..last : j = i \/ j \in i + 1 .. LastCount(text, i)
      BY <3>2, <3>3
    <3> QED
      BY <1>2, <2>1, <3>1, <3>4
  <2>3. PICK words : words = {is}
    OBVIOUS
  <2>4. <<>> \in Seq(Other(words)) /\ \A j \in first..last : text[j].is \notin words
    BY <2>2, <2>3
  <2>5. SubSeq(text, first, last) \in Seq(Other(words))
    BY <1>2, <2>4, OwnOtherSplice
  <2>6. kept \in Seq(Other(words))
    BY <1>2, <1>3, <2>5 DEF Kept
  <2>7. \A k \in 1..Len(e.new) : e.new[k].is \notin words
    BY <1>1, <2>3
  <2>8. new \in Seq(Other(words))
    BY <1>1, <1>4, <2>6, <2>7, FillOther
  <2>9. \A k \in 1..Len(new) : new[k] \in Other(words)
    BY ONLY <2>8
  <2> QED
    BY <1>2, <2>3, <2>9 DEF Other
<1>6. CASE e.how # "counts"
  <2>1. "original" \notin WordsOf(e.new)
    BY <1>6 DEF BringsNo
  <2>2. \A k \in 1..Len(e.new) : e.new[k].is # "original"
    BY <1>1, <2>1 DEF WordsOf
  <2>3. new = Reindent(e.new, 0)
    BY <1>1, <1>2, <1>4, <2>2, FillPlain
  <2>4. Len(new) = Len(e.new) /\ \A k \in 1..Len(e.new) : new[k].is = e.new[k].is
    BY ONLY <1>1, <2>3, ReindentIs
  <2> QED
    BY <1>1, <1>2, <2>4
<1> QED
  BY <1>5, <1>6

LEMMA FromText ==
    ASSUME NEW text \in Seq(Lines), text # NotFound, NEW e, NEW is, BringsNo(e, is),
           Edit(text, e) # NotFound
    PROVE  Edit(text, e) \in Seq(Lines) /\ Subset(Edit(text, e), text, is)
<1>1. EditOK(e) /\ e.new \in Seq(Lines) /\ \A k \in 1..Len(e.new) : e.new[k].is # is
  BY DEF BringsNo, EditOK, AddedBy, WordsOf
<1>2. Edit(text, e) \in Seq(Lines)
  BY <1>1, EditIn DEF Texts
<1>3. CASE e.how \in {"end", "top"}
  <2>1. Edit(text, e) = text \o e.new \/ Edit(text, e) = e.new \o text
    BY <1>3 DEF Edit
  <2>2. ASSUME NEW a \in Seq(Lines), NEW b \in Seq(Lines), NEW j \in 1..Len(a \o b)
        PROVE  (\E k \in 1..Len(a) : (a \o b)[j] = a[k]) \/ (\E k \in 1..Len(b) : (a \o b)[j] = b[k])
    <3>1. CASE j \in 1..Len(a)
      BY <3>1
    <3>2. CASE j \notin 1..Len(a)
      <4>1. j - Len(a) \in 1..Len(b) /\ (a \o b)[j] = b[j - Len(a)]
        BY <3>2
      <4> QED
        BY <4>1
    <3> QED
      BY <3>1, <3>2
  <2>3. ASSUME NEW j \in 1..Len(Edit(text, e)), Edit(text, e)[j].is = is
        PROVE  \E i \in 1..Len(text) : text[i] = Edit(text, e)[j]
    <3>1. (\E k \in 1..Len(text) : Edit(text, e)[j] = text[k]) \/ (\E k \in 1..Len(e.new) : Edit(text, e)[j] = e.new[k])
      <4>1. CASE Edit(text, e) = text \o e.new
        <5>1. j \in 1..Len(text \o e.new)
          BY <4>1
        <5>2. (\E k \in 1..Len(text) : (text \o e.new)[j] = text[k]) \/ (\E k \in 1..Len(e.new) : (text \o e.new)[j] = e.new[k])
          BY ONLY <1>1, <2>2, <5>1, text \in Seq(Lines)
        <5> QED
          BY ONLY <4>1, <5>2
      <4>2. CASE Edit(text, e) = e.new \o text
        <5>1. j \in 1..Len(e.new \o text)
          BY <4>2
        <5>2. (\E k \in 1..Len(e.new) : (e.new \o text)[j] = e.new[k]) \/ (\E k \in 1..Len(text) : (e.new \o text)[j] = text[k])
          BY ONLY <1>1, <2>2, <5>1, text \in Seq(Lines)
        <5> QED
          BY ONLY <4>2, <5>2
      <4> QED
        BY <2>1, <4>1, <4>2
    <3> QED
      BY <1>1, <2>3, <3>1
  <2> QED
    BY <1>2, <2>3 DEF Subset
<1>4. CASE e.how = "around"
  <2>1. e.after \in Seq(Lines) /\ \A k \in 1..Len(e.after) : e.after[k].is # is
    BY <1>1, <1>4 DEF BringsNo, EditOK, AddedBy, WordsOf
  <2>2. PICK i \in 1..Len(text) : Edit(text, e) = AroundAt(text, i, e)
    <3>1. Found(text, e) /\ Edit(text, e) = AroundAt(text, Place(text, e), e)
      BY <1>4 DEF Edit
    <3>2. Place(text, e) \in 1..Len(text)
      BY <1>1, <1>4, PlaceDeep
    <3> QED
      BY <3>1, <3>2
  <2>3. PICK once \in Seq(Lines), n \in i .. Len(text) :
              /\ n = End(text, i)
              /\ IsSpan(text, n + 1, n) /\ Spliced(text, n + 1, n, e.after, once)
              /\ IsSpan(once, i, i - 1) /\ Spliced(once, i, i - 1, e.new, AroundAt(text, i, e))
    BY <1>1, <2>1, AroundAtIs
  <2>4. Subset(once, text, is)
    BY <2>1, <2>3, SpliceBrings
  <2>5. Subset(AroundAt(text, i, e), once, is)
    BY <1>1, <2>3, SpliceBrings
  <2> QED
    BY <1>2, <2>2, <2>4, <2>5 DEF Subset
<1>5. CASE e.how \notin {"end", "top", "around"}
  <2>1. e.how \in Spanning
    BY <1>1, <1>5 DEF EditOK, Spanning
  <2>2. PICK i, first, last, kept, new : Edited(text, e, i, first, last, kept, new, Edit(text, e))
    BY <1>1, <2>1, EditAt
  <2>3. new \in Seq(Lines) /\ \A k \in 1..Len(new) : new[k].is # is
    BY <2>1, <2>2, SpanWrites
  <2>4. IsSpan(text, first, last) /\ Spliced(text, first, last, new, Edit(text, e))
    BY <2>2 DEF Edited
  <2>5. Subset(Edit(text, e), text, is)
    BY <2>3, <2>4, SpliceBrings
  <2> QED
    BY <1>2, <2>5
<1> QED
  BY <1>3, <1>4, <1>5

Indented(x, is, n) == \A i \in 1..Len(x) : x[i].is = is => x[i].indent = n

LEMMA IndentKeeps ==
    ASSUME NEW text \in Seq(Lines), text # NotFound, NEW e, NEW is, BringsNo(e, is), NEW n,
           Indented(text, is, n), Edit(text, e) # NotFound
    PROVE  Edit(text, e) \in Seq(Lines) /\ Indented(Edit(text, e), is, n)
BY FromText DEF Subset, Indented

-----------------------------------------------------------------------------
(* Statements that are there once.                                         *)

\* A text has at most one line with a word.
Single(x, is) == \A i, j \in 1..Len(x) : x[i].is = is /\ x[j].is = is => i = j

LEMMA SingleOwn ==
    ASSUME NEW x \in Seq(Lines), NEW is
    PROVE  Single(x, is) <=> Len(Own(x, {is})) <= 1
<1>1. ASSUME Single(x, is)
      PROVE  Len(Own(x, {is})) <= 1
  <2>1. CASE WordsOf(x) \cap {is} = {}
    <3>1. Own(x, {is}) = <<>>
      BY <2>1, OwnNone
    <3> QED
      BY <3>1
  <2>2. CASE WordsOf(x) \cap {is} # {}
    <3>1. PICK i \in 1..Len(x) : x[i].is = is
      BY <2>2 DEF WordsOf
    <3>2. PICK a, c, u, w : OwnAt(x, {is}, i, a, c, u, w)
      BY <3>1, OwnSplit
    <3>3. /\ Len(x) \in Nat /\ i \in Nat /\ i >= 1 /\ i <= Len(x)
      OBVIOUS
    <3>4. /\ Len(a) = i - 1 /\ \A k \in 1..Len(a) : a[k] = x[k] /\ k \in 1..Len(x) /\ k # i
          /\ a \in Seq(Lines)
      <4>1. a = SubSeq(x, 1, i - 1) /\ a \in Seq(Lines)
        BY <3>2 DEF OwnAt
      <4>2. Len(a) = i - 1
        BY ONLY <3>3, <4>1
      <4>3. \A k \in 1..Len(a) : a[k] = x[k]
        BY ONLY <3>3, <4>1, x \in Seq(Lines)
      <4> QED
        BY ONLY <3>3, <4>1, <4>2, <4>3
    <3>5. /\ Len(c) = Len(x) - i /\ \A k \in 1..Len(c) : c[k] = x[k + i] /\ k + i \in 1..Len(x) /\ k + i # i
          /\ c \in Seq(Lines)
      <4>1. c = SubSeq(x, i + 1, Len(x)) /\ c \in Seq(Lines)
        BY <3>2 DEF OwnAt
      <4>2. Len(c) = Len(x) - i
        BY ONLY <3>3, <4>1
      <4>3. \A k \in 1..Len(c) : c[k] = x[k + i]
        BY ONLY <3>3, <4>1, <4>2, x \in Seq(Lines)
      <4> QED
        BY ONLY <3>3, <4>1, <4>2, <4>3
    <3>6. WordsOf(a) \cap {is} = {}
      BY <1>1, <3>1, <3>4 DEF WordsOf, Single
    <3>7. WordsOf(c) \cap {is} = {}
      BY <1>1, <3>1, <3>5 DEF WordsOf, Single
    <3>8. u = <<>> /\ w = <<>>
      BY <3>2, <3>4, <3>5, <3>6, <3>7, OwnNone DEF OwnAt
    <3>9. Own(x, {is}) = <<>> \o (<<x[i].is>> \o <<>>)
      BY <3>2, <3>8 DEF OwnAt
    <3>10. PICK s : s = x[i].is
      OBVIOUS
    <3>11. Len(<<>> \o (<<s>> \o <<>>)) = 1
      OBVIOUS
    <3>12. Len(Own(x, {is})) = 1
      BY <3>9, <3>10, <3>11
    <3>13. \A l : l = 1 => l <= 1
      OBVIOUS
    <3> QED
      BY ONLY <3>12, <3>13
  <2> QED
    BY <2>1, <2>2
<1>2. ASSUME ~Single(x, is)
      PROVE  ~(Len(Own(x, {is})) <= 1)
  <2>1. PICK i \in 1..Len(x), j \in 1..Len(x) : x[i].is = is /\ x[j].is = is /\ i < j
    BY <1>2 DEF Single
  <2>2. PICK a, c, u, w : OwnAt(x, {is}, i, a, c, u, w)
    BY <2>1, OwnSplit
  <2>3. /\ Len(x) \in Nat /\ i \in Nat /\ i >= 1 /\ i <= Len(x)
    OBVIOUS
  <2>4. j - i \in 1..Len(c) /\ c[j - i] = x[j] /\ c \in Seq(Lines)
    <3>1. c = SubSeq(x, i + 1, Len(x)) /\ c \in Seq(Lines)
      BY <2>2 DEF OwnAt
    <3>2. Len(c) = Len(x) - i
      BY ONLY <2>3, <3>1
    <3>3. j - i \in 1..Len(c)
      BY ONLY <2>1, <2>3, <3>2, j \in 1..Len(x)
    <3>4. \A k \in 1..Len(c) : c[k] = x[k + i]
      BY ONLY <2>3, <3>1, <3>2, x \in Seq(Lines)
    <3>5. (j - i) + i = j
      BY <2>3
    <3> QED
      BY <3>1, <3>3, <3>4, <3>5
  <2>5. is \in {is} \cap WordsOf(c)
    BY <2>1, <2>4 DEF WordsOf
  <2>6. PICK k \in 1..Len(Own(c, {is})) : TRUE
    BY <2>4, <2>5, OwnHas
  <2>7. u \in Seq(Words) /\ w \in Seq(Words) /\ Len(w) >= 1
    BY <2>2, <2>6 DEF OwnAt
  <2>8. PICK v : v = <<x[i].is>>
    OBVIOUS
  <2>9. v \in Seq({x[i].is}) /\ Len(v) = 1
    BY <2>8
  <2>10. Len(u \o (v \o w)) >= 2 /\ Len(u \o (v \o w)) \in Nat
    BY ONLY <2>7, <2>9
  <2> QED
    BY <2>2, <2>8, <2>10 DEF OwnAt
<1> QED
  BY <1>1, <1>2

LEMMA SingleKeeps ==
    ASSUME NEW x \in Seq(Lines), NEW y \in Seq(Lines), NEW is, Own(x, {is}) = Own(y, {is}),
           Single(y, is)
    PROVE  Single(x, is)
BY SingleOwn

\* The lines with a word are so far indented, and do not hold a word of another kind.
Clear(x, is, n, word) ==
    \A i \in 1..Len(x) : x[i].is = is => x[i].indent = n /\ word \notin Under(x, i)

LEMMA ClearKeeps ==
    ASSUME NEW text \in Seq(Lines), text # NotFound, NEW e, NEW is, BringsNo(e, is),
           e.how \in Spanning \ {"counts"}, Len(e.new) >= 1, NEW n, e.new[1].indent <= n, NEW word,
           Clear(text, is, n, word), Edit(text, e) # NotFound
    PROVE  Edit(text, e) \in Seq(Lines) /\ Clear(Edit(text, e), is, n, word)
<1>1. EditOK(e) /\ e.new \in Seq(Lines) /\ "original" \notin WordsOf(e.new) /\ e.how # "here"
  BY DEF BringsNo, EditOK
<1>2. PICK i, first, last, kept, new : Edited(text, e, i, first, last, kept, new, Edit(text, e))
  BY <1>1, EditAt
<1>3. PICK x : x = Edit(text, e)
  OBVIOUS
<1>4. /\ IsSpan(text, first, last) /\ Spliced(text, first, last, new, x)
      /\ kept \in Seq(Lines) /\ new = Fill(e.new, kept, 0)
  BY <1>1, <1>2, <1>3 DEF Edited
<1>5. new \in Seq(Lines) /\ \A k \in 1..Len(new) : new[k].is # is
  BY <1>2, SpanWrites
<1>6. Len(new) >= 1 /\ new[1].indent <= n
  <2>1. \A k \in 1..Len(e.new) : e.new[k].is # "original"
    BY <1>1 DEF WordsOf
  <2>2. new = Reindent(e.new, 0)
    BY <1>1, <1>4, <2>1, FillPlain
  <2>3. /\ Len(new) = Len(e.new)
        /\ \A k \in 1..Len(e.new) : new[k].indent = e.new[k].indent + 0 /\ e.new[k].indent \in Nat
    BY ONLY <1>1, <2>2, ReindentIs
  <2>4. 1 \in 1..Len(e.new)
    BY <1>1
  <2> QED
    BY <2>3, <2>4
<1>7. x \in Seq(Lines) /\ Subset(x, text, is)
  BY <1>3, FromText
<1>8. ASSUME NEW j \in 1..Len(x), x[j].is = is
      PROVE  x[j].indent = n /\ word \notin Under(x, j)
  <2>1. x[j].indent = n
    BY <1>7, <1>8 DEF Subset, Clear
  <2>2. PICK k \in 1..Len(text) : x[j] = text[k] /\ Under(x, j) \subseteq Under(text, k)
    <3>1. new[1].indent <= x[j].indent /\ \A m \in 1..Len(new) : x[j].is # new[m].is
      BY <1>5, <1>6, <1>8, <2>1
    <3>2. IsSpan(text, first, last) /\ Spliced(text, first, last, new, x) /\ Len(new) >= 1 /\ new \in Seq(Lines)
      BY <1>4, <1>5, <1>6
    <3> QED
      BY ONLY <3>1, <3>2, j \in 1..Len(x), text \in Seq(Lines), BodyElsewhere
  <2> QED
    BY <1>8, <2>1, <2>2 DEF Clear
<1> QED
  BY <1>3, <1>7, <1>8 DEF Clear

-----------------------------------------------------------------------------
(* A statement that is timed, and the last line of another.                *)

\* Every line with the word comes right after one of another word, and its statement
\* right before one of a third.
Timed(x, is, t1, t2, n, word) ==
    \A i \in 1..Len(x) : x[i].is = is =>
        /\ i >= 2 /\ x[i].indent = n /\ x[i - 1].is = t1
        /\ End(x, i) < Len(x) /\ x[End(x, i) + 1].is = t2 /\ x[End(x, i) + 1].indent = n
        /\ word \notin Under(x, i)

LEMMA AroundTimes ==
    ASSUME NEW text \in Seq(Lines), text # NotFound, NEW e, EditOK(e), e.how = "around",
           NEW p \in Lines, NEW q \in Lines, e.new = <<p>>, e.after = <<q>>,
           NEW n \in Nat, q.indent = n, e.find \notin {p.is, q.is}, NEW word,
           Single(text, e.find), Clear(text, e.find, n, word), Edit(text, e) # NotFound
    PROVE  Edit(text, e) \in Seq(Lines) /\ Timed(Edit(text, e), e.find, p.is, q.is, n, word)
<1>1. PICK i \in 1..Len(text) : Edit(text, e) = AroundAt(text, i, e) /\ text[i].is = e.find
  <2>1. Found(text, e) /\ Edit(text, e) = AroundAt(text, Place(text, e), e)
    BY DEF Edit
  <2>2. Place(text, e) \in 1..Len(text) /\ text[Place(text, e)].is = e.find
    BY PlaceDeep
  <2> QED
    BY <2>1, <2>2
<1>2. e.new \in Seq(Lines) /\ e.after \in Seq(Lines)
  BY DEF EditOK
<1>3. PICK x : x = AroundAt(text, i, e)
  OBVIOUS
<1>4. PICK once \in Seq(Lines), m \in i .. Len(text) :
          /\ m = End(text, i)
          /\ IsSpan(text, m + 1, m) /\ Spliced(text, m + 1, m, e.after, once)
          /\ IsSpan(once, i, i - 1) /\ Spliced(once, i, i - 1, e.new, x)
          /\ x \in Seq(Lines)
  BY <1>2, <1>3, AroundAtIs
<1>5. PICK u \in Seq(Lines), v \in Seq(Lines) : u = e.new /\ v = e.after
  BY <1>2
<1>6. /\ u \in Seq(Lines) /\ v \in Seq(Lines) /\ Len(u) = 1 /\ u[1] = p /\ Len(v) = 1 /\ v[1] = q
  BY <1>2, <1>5
<1>7. /\ i \in Nat /\ i >= 1 /\ m \in Nat /\ m >= i /\ m <= Len(text) /\ Len(text) \in Nat
  BY <1>4
<1>8. text[i].indent = n /\ word \notin Under(text, i)
  BY <1>1 DEF Clear
<1>90. text \in Seq(Lines)
  OBVIOUS
<1>9. /\ IsSpan(text, m + 1, m) /\ Spliced(text, m + 1, m, v, once)
      /\ IsSpan(once, i, i - 1) /\ Spliced(once, i, i - 1, u, x)
  BY <1>4, <1>5
<1>93. PICK a, c, b, z : a = m + 1 /\ c = i - 1 /\ b = i /\ z = m
  OBVIOUS
<1>91. IsSpan(once, b, c) /\ Spliced(once, b, c, u, x)
  BY <1>9, <1>93
<1>92. IsSpan(text, a, z) /\ Spliced(text, a, z, v, once)
  BY <1>9, <1>93
<1>10. /\ Len(once) = Len(text) + 1 /\ once[m + 1] = q
  <2>1. /\ Len(once) = Len(text) + Len(v) - (m + 1 - (m + 1))
        /\ \A k \in 1 .. Len(v) : once[m + 1 - 1 + k] = v[k]
    BY <1>9 DEF Spliced
  <2>2. m + 1 - 1 + 1 = m + 1 /\ 1 \in 1..Len(v) /\ Len(text) + 1 - (m + 1 - (m + 1)) = Len(text) + 1
    BY ONLY <1>6, <1>7
  <2>3. once[m + 1 - 1 + 1] = v[1]
    BY <2>1, <2>2
  <2> QED
    BY <1>6, <2>1, <2>2, <2>3
<1>11. /\ i \in 1..Len(once) /\ End(once, i) = m /\ Under(once, i) = Under(text, i)
       /\ once[i] = text[i]
  <2>1. End(text, i) < m + 1 /\ Len(v) >= 1 /\ v[1].indent <= text[i].indent
    BY <1>4, <1>6, <1>7, <1>8
  <2>2. /\ i \in 1..Len(once) /\ \A k \in 1 .. End(text, i) : once[k] = text[k]
        /\ End(once, i) = End(text, i) /\ Under(once, i) = Under(text, i)
    BY ONLY <1>9, <2>1, <1>90, v \in Seq(Lines), once \in Seq(Lines), i \in 1..Len(text), EndBeyond
  <2>3. i \in 1 .. End(text, i)
    BY <1>4, <1>7
  <2> QED
    BY <1>4, <2>2, <2>3
<1>12. /\ i + 1 \in 1..Len(x) /\ x[i + 1] = text[i] /\ End(x, i + 1) = m + 1
       /\ Under(x, i + 1) = Under(text, i) /\ m + 1 < Len(x) /\ x[m + 1 + 1] = q
  <2>1. PICK d : d = Len(u) - (c + 1 - b)
    OBVIOUS
  <2>2. d = 1 /\ b \in c + 1 .. Len(once)
    BY <1>6, <1>7, <1>10, <1>93, <2>1
  <2>3. /\ b + d \in 1..Len(x) /\ x[b + d] = once[b] /\ End(x, b + d) = End(once, b) + d
        /\ \A k \in b .. Len(once) : k + d \in 1..Len(x) /\ x[k + d] = once[k]
        /\ Under(x, b + d) = Under(once, b)
    BY ONLY <1>91, <2>1, <2>2, u \in Seq(Lines), once \in Seq(Lines), EndBefore
  <2>4. m + 1 \in b .. Len(once)
    BY <1>7, <1>10, <1>93
  <2>5. m + 1 + 1 \in 1..Len(x) /\ x[m + 1 + 1] = once[m + 1]
    BY <2>2, <2>3, <2>4
  <2>6. m + 1 < Len(x)
    BY <1>4, <1>7, <2>5
  <2> QED
    BY <1>10, <1>11, <1>93, <2>2, <2>3, <2>5, <2>6
<1>13. x[i] = p
  <2>1. \A k \in 1 .. Len(u) : x[i - 1 + k] = u[k]
    BY <1>9 DEF Spliced
  <2>2. i - 1 + 1 = i /\ 1 \in 1..Len(u)
    BY <1>6, <1>7
  <2> QED
    BY <1>6, <2>1, <2>2
<1>14. ASSUME NEW j \in 1..Len(x), x[j].is = e.find
       PROVE  j = i + 1
  <2>1. PICK k \in 1..Len(once) : x[j] = once[k] /\ j = Moved(k, b, c, Len(u))
    <3>1. NoneOf(x[j], u)
      BY <1>6, <1>14 DEF NoneOf
    <3>2. WasAt(once, b, c, Len(u), x, j)
      BY ONLY <1>91, <3>1, u \in Seq(Lines), once \in Seq(Lines), j \in 1..Len(x), NotNew
    <3> QED
      BY ONLY <3>2 DEF WasAt
  <2>2. PICK l \in 1..Len(text) : once[k] = text[l] /\ k = Moved(l, a, z, Len(v))
    <3>1. NoneOf(once[k], v)
      BY <1>6, <1>14, <2>1 DEF NoneOf
    <3>2. WasAt(text, a, z, Len(v), once, k)
      BY ONLY <1>90, <1>92, <3>1, v \in Seq(Lines), once \in Seq(Lines), k \in 1..Len(once), NotNew
    <3> QED
      BY ONLY <3>2 DEF WasAt
  <2>3. l = i
    BY <1>1, <1>14, <2>1, <2>2 DEF Single
  <2>4. k = i
    BY <1>7, <1>93, <2>2, <2>3 DEF Moved
  <2>5. j = i + 1 - (c + 1 - i)
    BY <1>6, <1>7, <1>93, <2>1, <2>4 DEF Moved
  <2> QED
    BY <1>7, <1>93, <2>5
<1>15. ASSUME NEW j \in 1..Len(x), x[j].is = e.find
       PROVE  /\ j >= 2 /\ x[j].indent = n /\ x[j - 1].is = p.is
              /\ End(x, j) < Len(x) /\ x[End(x, j) + 1].is = q.is /\ x[End(x, j) + 1].indent = n
              /\ word \notin Under(x, j)
  <2>1. j = i + 1 /\ j - 1 = i /\ j >= 2
    <3>1. j = i + 1
      BY <1>14, <1>15
    <3> QED
      BY <1>7, <3>1
  <2>2. End(x, j) = m + 1 /\ x[j] = text[i] /\ Under(x, j) = Under(text, i) /\ x[j - 1] = p
    BY <1>12, <1>13, <2>1
  <2> QED
    BY <1>8, <1>12, <2>1, <2>2
<1>16. Timed(x, e.find, p.is, q.is, n, word)
  BY <1>15 DEF Timed
<1> QED
  BY <1>1, <1>3, <1>4, <1>16

\* Where the lines that are replaced may be, for a statement to stay between its neighbours.
Aside(text, i, first, last, new, n) ==
    first \in i .. End(text, i) + 1 => last >= first /\ \A k \in 1..Len(new) : new[k].indent > n

LEMMA TimesStay ==
    ASSUME NEW text \in Seq(Lines), NEW first, NEW last, IsSpan(text, first, last),
           NEW new \in Seq(Lines), NEW x, Spliced(text, first, last, new, x),
           NEW is, NEW t1, NEW t2, NEW n, NEW word, Timed(text, is, t1, t2, n, word),
           \A k \in first..last : text[k].is \notin {is, t1, t2},
           \A k \in 1..Len(new) : new[k].is \notin {is, word},
           \A i \in 1..Len(text) : text[i].is = is => Aside(text, i, first, last, new, n)
    PROVE  Timed(x, is, t1, t2, n, word)
<1> SUFFICES ASSUME NEW j \in 1..Len(x), x[j].is = is
             PROVE  /\ j >= 2 /\ x[j].indent = n /\ x[j - 1].is = t1
                    /\ End(x, j) < Len(x) /\ x[End(x, j) + 1].is = t2 /\ x[End(x, j) + 1].indent = n
                    /\ word \notin Under(x, j)
  BY DEF Timed
<1>1. /\ Len(text) \in Nat /\ Len(new) \in Nat /\ first \in Nat /\ last \in Int
      /\ first >= 1 /\ first <= Len(text) + 1 /\ last >= first - 1 /\ last <= Len(text)
  BY DEF IsSpan
<1>2. x \in Seq(Lines) /\ Len(x) = Len(text) + Len(new) - (last + 1 - first)
  BY DEF Spliced
<1>3. PICK i \in 1..Len(text) : /\ i \notin first..last /\ x[j] = text[i]
                                /\ j = Moved(i, first, last, Len(new))
  <2>1. \A k \in 1..Len(new) : x[j] # new[k]
    OBVIOUS
  <2> QED
    BY <2>1, SplicedBack
<1>4. /\ i >= 2 /\ text[i].indent = n /\ text[i - 1].is = t1 /\ text[i].is = is
      /\ End(text, i) < Len(text) /\ text[End(text, i) + 1].is = t2
      /\ text[End(text, i) + 1].indent = n /\ word \notin Under(text, i)
      /\ Aside(text, i, first, last, new, n)
  BY <1>3 DEF Timed
<1>5. PICK e : e = End(text, i)
  OBVIOUS
<1>6. e \in Nat /\ e >= i /\ e < Len(text) /\ i \in Nat
  <2>1. e \in i .. Len(text)
    BY <1>5, EndBounds
  <2> QED
    BY <1>4, <1>5, <2>1
<1>7. i - 1 \notin first..last /\ e + 1 \notin first..last
  <2>1. text[i - 1].is \in {is, t1, t2} /\ text[e + 1].is \in {is, t1, t2}
    BY <1>4, <1>5
  <2> QED
    BY <2>1
<1>8. PICK d : d = Len(new) - (last + 1 - first)
  OBVIOUS
<1>9. d \in Int /\ Len(x) = Len(text) + d
  BY <1>1, <1>2, <1>8
<1>10. CASE i >= first
  <2>1. i > last
    BY <1>1, <1>3, <1>6, <1>10
  <2>2. i - 1 > last
    <3>1. SUFFICES ASSUME ~(i - 1 > last)
                   PROVE  FALSE
      OBVIOUS
    <3>2. i = first /\ first \in i .. e + 1 /\ ~(last >= first)
      BY <1>1, <1>6, <1>7, <1>10, <2>1, <3>1
    <3> QED
      BY <1>4, <1>5, <3>2 DEF Aside
  <2>3. i \in last + 1 .. Len(text) /\ i - 1 \in last + 1 .. Len(text)
    BY <1>1, <1>6, <2>1, <2>2
  <2>4. /\ i + d \in 1..Len(x) /\ x[i + d] = text[i] /\ End(x, i + d) = End(text, i) + d
        /\ \A k \in i .. Len(text) : k + d \in 1..Len(x) /\ x[k + d] = text[k]
        /\ Under(x, i + d) = Under(text, i)
    BY <1>8, <2>3, EndBefore
  <2>5. PICK h : h = i - 1
    OBVIOUS
  <2>6. h \in last + 1 .. Len(text)
    BY <2>3, <2>5
  <2>7. h + d \in 1..Len(x) /\ x[h + d] = text[h]
    BY <1>8, <2>6, EndBefore
  <2>8. j = i + d
    BY <1>1, <1>3, <1>6, <1>8, <1>10 DEF Moved
  <2>9. j - 1 = h + d /\ j >= 2
    BY <1>6, <1>9, <2>5, <2>7, <2>8
  <2>10. End(x, j) = e + d /\ (e + d) + 1 = (e + 1) + d /\ e + d < Len(x) /\ e + 1 \in i .. Len(text)
    BY <1>5, <1>6, <1>9, <2>4, <2>8
  <2>11. x[End(x, j) + 1] = text[e + 1]
    BY <2>4, <2>10
  <2> QED
    BY <1>4, <1>5, <2>4, <2>5, <2>7, <2>8, <2>9, <2>10, <2>11
<1>11. CASE i < first
  <2>1. j = i
    BY <1>3, <1>11 DEF Moved
  <2>2. x[i - 1] = text[i - 1]
    <3>1. \A k \in 1 .. first - 1 : x[k] = text[k]
      BY DEF Spliced
    <3>2. i - 1 \in 1 .. first - 1
      BY <1>1, <1>4, <1>6, <1>11
    <3> QED
      BY <3>1, <3>2
  <2>3. CASE e + 1 < first
    <3>1. End(text, i) < first /\ End(text, i) + 1 < first
      BY <1>1, <1>5, <1>6, <2>3
    <3>2. /\ End(x, i) = End(text, i) /\ Under(x, i) = Under(text, i)
          /\ x[End(text, i) + 1] = text[End(text, i) + 1]
      BY <3>1, EndBeyond
    <3>3. e < Len(x)
      BY <1>1, <1>2, <1>6, <2>3
    <3> QED
      BY <1>3, <1>4, <1>5, <2>1, <2>2, <3>2, <3>3
  <2>4. CASE ~(e + 1 < first)
    <3>1. first \in i .. e + 1
      BY <1>1, <1>6, <1>11, <2>4
    <3>2. last >= first /\ \A k \in 1..Len(new) : new[k].indent > n
      BY <1>4, <1>5, <3>1 DEF Aside
    <3>3. last <= e /\ e + 1 \in last + 1 .. Len(text)
      BY <1>1, <1>6, <1>7, <3>1, <3>2
    <3>4. last <= End(text, i) /\ \A k \in 1..Len(new) : new[k].indent > text[i].indent
      BY <1>4, <1>5, <3>2, <3>3
    <3>5. /\ End(x, i) = End(text, i) + d
          /\ \A k \in last + 1 .. Len(text) : x[k + d] = text[k]
          /\ Under(x, i) \subseteq Under(text, i) \cup WordsOf(new)
      BY <1>8, <1>11, <3>4, EndWithin
    <3>6. x[(e + 1) + d] = text[e + 1]
      BY <3>3, <3>5
    <3>7. (e + 1) + d = (e + d) + 1 /\ e + d < Len(x)
      BY <1>6, <1>9
    <3>8. word \notin WordsOf(new)
      BY DEF WordsOf
    <3> QED
      BY <1>3, <1>4, <1>5, <2>1, <2>2, <3>5, <3>6, <3>7, <3>8
  <2> QED
    BY <2>3, <2>4
<1> QED
  BY <1>1, <1>6, <1>10, <1>11

\* The statements with the word end with a line of another.
Recorded(x, is, last, n) ==
    \A i \in 1..Len(x) : x[i].is = is => x[i].indent = n /\ x[End(x, i)].is = last

\* Where the lines that are replaced may be, for a statement to keep its last line.
Inner(text, i, first, new, n) ==
    first \in i + 1 .. End(text, i) + 1 =>
        \/ first <= End(text, i) /\ \A k \in 1..Len(new) : new[k].indent > n
        \/ Len(new) >= 1 /\ new[1].indent <= n /\ first = End(text, i) + 1

LEMMA RecordStays ==
    ASSUME NEW text \in Seq(Lines), NEW first, NEW last, IsSpan(text, first, last),
           NEW new \in Seq(Lines), NEW x, Spliced(text, first, last, new, x),
           NEW is, NEW rec, NEW n, Recorded(text, is, rec, n),
           \A k \in first..last : text[k].is # rec, \A k \in 1..Len(new) : new[k].is # is,
           \A i \in 1..Len(text) : text[i].is = is => Inner(text, i, first, new, n)
    PROVE  Recorded(x, is, rec, n)
<1> SUFFICES ASSUME NEW j \in 1..Len(x), x[j].is = is
             PROVE  x[j].indent = n /\ x[End(x, j)].is = rec
  BY DEF Recorded
<1>1. /\ Len(text) \in Nat /\ Len(new) \in Nat /\ first \in Nat /\ last \in Int
      /\ first >= 1 /\ first <= Len(text) + 1 /\ last >= first - 1 /\ last <= Len(text)
  BY DEF IsSpan
<1>2. x \in Seq(Lines) /\ Len(x) = Len(text) + Len(new) - (last + 1 - first)
  BY DEF Spliced
<1>3. PICK i \in 1..Len(text) : /\ i \notin first..last /\ x[j] = text[i]
                                /\ j = Moved(i, first, last, Len(new))
  <2>1. \A k \in 1..Len(new) : x[j] # new[k]
    OBVIOUS
  <2> QED
    BY <2>1, SplicedBack
<1>4. /\ text[i].indent = n /\ text[i].is = is /\ text[End(text, i)].is = rec
      /\ Inner(text, i, first, new, n)
  BY <1>3 DEF Recorded
<1>5. PICK e : e = End(text, i)
  OBVIOUS
<1>6. e \in Nat /\ e >= i /\ e <= Len(text) /\ i \in Nat /\ i >= 1
  <2>1. e \in i .. Len(text)
    BY <1>5, EndBounds
  <2> QED
    BY <2>1
<1>7. e \notin first..last
  BY <1>4, <1>5
<1>8. PICK d : d = Len(new) - (last + 1 - first)
  OBVIOUS
<1>10. CASE i >= first
  <2>1. i \in last + 1 .. Len(text) /\ e \in i .. Len(text)
    BY <1>1, <1>3, <1>6, <1>10
  <2>2. /\ End(x, i + d) = End(text, i) + d
        /\ \A k \in i .. Len(text) : k + d \in 1..Len(x) /\ x[k + d] = text[k]
    BY <1>8, <2>1, EndBefore
  <2>3. j = i + d
    BY <1>1, <1>3, <1>6, <1>8, <1>10 DEF Moved
  <2> QED
    BY <1>3, <1>4, <1>5, <2>1, <2>2, <2>3
<1>11. CASE i < first
  <2>1. j = i
    BY <1>3, <1>11 DEF Moved
  <2>2. CASE e < first /\ (e + 1 < first \/ (Len(new) >= 1 /\ new[1].indent <= n))
    <3>1. /\ End(text, i) < first
          /\ End(text, i) + 1 < first \/ (Len(new) >= 1 /\ new[1].indent <= text[i].indent)
      BY <1>4, <1>5, <2>2
    <3>2. End(x, i) = End(text, i) /\ \A k \in 1 .. End(text, i) : x[k] = text[k]
      BY <3>1, EndBeyond
    <3>3. e \in 1 .. e
      BY <1>6
    <3> QED
      BY <1>3, <1>4, <1>5, <2>1, <3>2, <3>3
  <2>3. CASE first <= e /\ \A k \in 1..Len(new) : new[k].indent > n
    <3>1. last <= e /\ e \in last + 1 .. Len(text)
      BY <1>1, <1>6, <1>7, <2>3
    <3>2. last <= End(text, i) /\ \A k \in 1..Len(new) : new[k].indent > text[i].indent
      BY <1>4, <1>5, <2>3, <3>1
    <3>3. /\ End(x, i) = End(text, i) + d
          /\ \A k \in last + 1 .. Len(text) : x[k + d] = text[k]
      BY <1>8, <1>11, <3>2, EndWithin
    <3> QED
      BY <1>3, <1>4, <1>5, <2>1, <3>1, <3>3
  <2>4. CASE first \in i + 1 .. e + 1
    <3>1. \/ first <= e /\ \A k \in 1..Len(new) : new[k].indent > n
          \/ Len(new) >= 1 /\ new[1].indent <= n /\ first = e + 1
      BY <1>4, <1>5, <2>4 DEF Inner
    <3>2. first = e + 1 => e < first
      BY <1>6
    <3> QED
      BY <2>2, <2>3, <3>1, <3>2
  <2>5. CASE first \notin i + 1 .. e + 1
    <3>1. e + 1 < first /\ e < first
      BY <1>1, <1>6, <1>11, <2>5
    <3> QED
      BY <2>2, <3>1
  <2> QED
    BY <2>4, <2>5
<1> QED
  BY <1>1, <1>6, <1>10, <1>11

\* What an edit that writes no "original" writes.
LEMMA PlainNew ==
    ASSUME NEW text \in Seq(Lines), text # NotFound, NEW e, EditOK(e),
           e.how \in Spanning \ {"here", "body"}, \A k \in 1..Len(e.new) : e.new[k].is # "original",
           Edit(text, e) # NotFound
    PROVE  \E i, first, last, kept, new :
              /\ Edited(text, e, i, first, last, kept, new, Edit(text, e))
              /\ Len(new) = Len(e.new)
              /\ \A k \in 1..Len(new) : new[k].is = e.new[k].is /\ new[k].indent = e.new[k].indent
<1>1. PICK i, first, last, kept, new : Edited(text, e, i, first, last, kept, new, Edit(text, e))
  BY EditAt
<1>2. kept \in Seq(Lines) /\ new = Fill(e.new, kept, 0) /\ e.new \in Seq(Lines)
  BY <1>1 DEF Edited, EditOK
<1>3. new = Reindent(e.new, 0)
  BY <1>2, FillPlain
<1>4. /\ Len(new) = Len(e.new)
      /\ \A k \in 1..Len(e.new) : /\ new[k].is = e.new[k].is
                                  /\ new[k].indent = e.new[k].indent + 0
                                  /\ e.new[k].indent \in Nat
  BY ONLY <1>2, <1>3, ReindentIs
<1>5. \A k \in 1..Len(new) : new[k].is = e.new[k].is /\ new[k].indent = e.new[k].indent
  BY <1>4
<1> QED
  BY <1>1, <1>4, <1>5

LEMMA AfterRecords ==
    ASSUME NEW text \in Seq(Lines), text # NotFound, NEW e, EditOK(e), e.how = "after",
           NEW q \in Lines, e.new = <<q>>, q.is \notin {"original", e.find},
           NEW n \in Nat, q.indent > n, Single(text, e.find), Indented(text, e.find, n),
           Edit(text, e) # NotFound
    PROVE  Edit(text, e) \in Seq(Lines) /\ Recorded(Edit(text, e), e.find, q.is, n)
<1>1. Len(e.new) = 1 /\ e.new[1] = q
  OBVIOUS
<1>2. e.how \in Spanning \ {"here", "body"} /\ \A k \in 1..Len(e.new) : e.new[k].is # "original"
  BY <1>1 DEF Spanning
<1>3. PICK i, first, last, kept, new :
              /\ Edited(text, e, i, first, last, kept, new, Edit(text, e))
              /\ Len(new) = Len(e.new)
              /\ \A k \in 1..Len(new) : new[k].is = e.new[k].is /\ new[k].indent = e.new[k].indent
  BY <1>2, PlainNew
<1>4. PICK x : x = Edit(text, e)
  OBVIOUS
<1>5. /\ i \in 1..Len(text) /\ text[i].is = e.find /\ IsSpan(text, first, last)
      /\ first = End(text, i) + 1 /\ last = End(text, i) /\ new \in Seq(Lines)
      /\ Spliced(text, first, last, new, x) /\ x \in Seq(Lines)
  BY <1>3, <1>4 DEF Edited, Spliced
<1>6. Len(new) = 1 /\ new[1].is = q.is /\ new[1].indent = q.indent
  BY <1>1, <1>3
<1>7. PICK m \in Nat : m = End(text, i) /\ m >= i /\ m <= Len(text) /\ i >= 1
  <2>1. End(text, i) \in i .. Len(text)
    BY <1>5, EndBounds
  <2> QED
    BY <1>5, <2>1
<1>8. PICK d : d = Len(new) - (last + 1 - first)
  OBVIOUS
<1>9. d = 1 /\ i < first /\ last <= End(text, i)
  <2>1. first = m + 1 /\ last = m /\ m <= End(text, i) /\ i \in Nat
    BY <1>5, <1>7
  <2>2. d = 1 - (last + 1 - first)
    BY <1>6, <1>8
  <2> QED
    BY ONLY <1>7, <2>1, <2>2
<1>10. text[i].indent = n
  BY <1>5 DEF Indented
<1>11. \A k \in 1..Len(new) : new[k].indent > text[i].indent
  BY <1>6, <1>10
<1>12. End(x, i) = End(text, i) + d /\ x[i] = text[i]
  BY <1>5, <1>8, <1>9, <1>11, EndWithin
<1>13. x[m + 1] = new[1]
  <2>1. \A k \in 1..Len(new) : x[first - 1 + k] = new[k]
    BY <1>5 DEF Spliced
  <2>2. first - 1 + 1 = m + 1 /\ 1 \in 1..Len(new)
    BY <1>5, <1>6, <1>7
  <2> QED
    BY <2>1, <2>2
<1>14. ASSUME NEW j \in 1..Len(x), x[j].is = e.find
       PROVE  x[j].indent = n /\ x[End(x, j)].is = q.is
  <2>1. PICK k \in 1..Len(text) : x[j] = text[k] /\ j = Moved(k, first, last, Len(new))
    <3>1. \A k \in 1..Len(new) : x[j] # new[k]
      BY <1>6, <1>14
    <3> QED
      BY <1>5, <3>1, SplicedBack
  <2>2. k = i
    BY <1>5, <1>14, <2>1 DEF Single
  <2>3. j = i
    BY <1>9, <2>1, <2>2 DEF Moved
  <2> QED
    BY <1>6, <1>7, <1>9, <1>10, <1>12, <1>13, <2>3
<1> QED
  BY <1>4, <1>5, <1>14 DEF Recorded

\* A line less far indented than a statement is neither in it nor next to it.
LEMMA Outside ==
    ASSUME NEW text \in Seq(Lines), NEW is, NEW t1, NEW t2, NEW n \in Nat, NEW word,
           Timed(text, is, t1, t2, n, word), NEW i \in 1..Len(text), text[i].is = is,
           NEW m \in 1..Len(text), text[m].indent < n
    PROVE  m \notin i .. End(text, i) + 1
<1>1. PICK e : e = End(text, i)
  OBVIOUS
<1>2. e \in i .. Len(text) /\ \A k \in i + 1 .. e : text[k].indent > text[i].indent
  BY <1>1, EndBounds
<1>3. text[i].indent = n /\ text[e + 1].indent = n
  BY <1>1 DEF Timed
<1>4. text[m] \in Lines
  OBVIOUS
<1>5. text[m].indent \in Nat
  BY <1>4 DEF Lines
<1>6. m \in i .. e + 1 => m = i \/ m = e + 1 \/ m \in i + 1 .. e
  BY <1>2
<1> QED
  BY <1>1, <1>2, <1>3, <1>5, <1>6

LEMMA AfterTimes ==
    ASSUME NEW text \in Seq(Lines), text # NotFound, NEW e, EditOK(e), e.how = "after",
           NEW q \in Lines, e.new = <<q>>, q.is # "original", NEW n \in Nat, Indented(text, e.find, n),
           NEW is, NEW t1, NEW t2, NEW m \in Nat, NEW word, n < m, q.is \notin {is, word},
           Timed(text, is, t1, t2, m, word), Edit(text, e) # NotFound
    PROVE  Timed(Edit(text, e), is, t1, t2, m, word)
<1>1. Len(e.new) = 1 /\ e.new[1] = q
  OBVIOUS
<1>2. e.how \in Spanning \ {"here", "body"} /\ \A k \in 1..Len(e.new) : e.new[k].is # "original"
  BY <1>1 DEF Spanning
<1>3. PICK i, first, last, kept, new :
              /\ Edited(text, e, i, first, last, kept, new, Edit(text, e))
              /\ Len(new) = Len(e.new)
              /\ \A k \in 1..Len(new) : new[k].is = e.new[k].is /\ new[k].indent = e.new[k].indent
  BY <1>2, PlainNew
<1>4. PICK x : x = Edit(text, e)
  OBVIOUS
<1>5. /\ i \in 1..Len(text) /\ text[i].is = e.find /\ IsSpan(text, first, last)
      /\ first = End(text, i) + 1 /\ last = End(text, i) /\ new \in Seq(Lines)
      /\ Spliced(text, first, last, new, x)
  BY <1>3, <1>4 DEF Edited
<1>6. \A k \in 1..Len(new) : new[k].is \notin {is, word}
  BY <1>1, <1>3
<1>7. last \in Nat /\ \A k \in first..last : FALSE
  <2>1. End(text, i) \in i .. Len(text)
    BY <1>5, EndBounds
  <2>2. last \in Nat
    BY <1>5, <2>1
  <2> QED
    BY <1>5, <2>2
<1>8. ASSUME NEW k \in 1..Len(text), text[k].is = is
      PROVE  Aside(text, k, first, last, new, m)
  <2>1. SUFFICES ASSUME first \in k .. End(text, k) + 1
                 PROVE  FALSE
    BY DEF Aside
  <2>2. End(text, k) \in k .. Len(text) /\ End(text, k) < Len(text)
    BY <1>8, EndBounds DEF Timed
  <2>3. first \in 1..Len(text) /\ last < Len(text)
    BY <1>5, <1>7, <2>1, <2>2
  <2>4. text[first].indent <= text[i].indent
    BY <1>5, <2>3, EndBounds
  <2>5. text[first].indent < m
    <3>1. text[first] \in Lines /\ text[i].indent = n
      BY <1>5, <2>3 DEF Indented
    <3>2. text[first].indent \in Nat
      BY <3>1 DEF Lines
    <3> QED
      BY <2>4, <3>1, <3>2
  <2>6. first \notin k .. End(text, k) + 1
    BY <1>8, <2>3, <2>5, Outside
  <2> QED
    BY <2>1, <2>6
<1>9. Timed(x, is, t1, t2, m, word)
  <2>1. \A k \in first..last : text[k].is \notin {is, t1, t2}
    BY <1>7
  <2> QED
    BY <1>5, <1>6, <1>8, <2>1, TimesStay
<1> QED
  BY <1>4, <1>9

\* Lines are added at the end.
LEMMA EndSplice ==
    ASSUME NEW text \in Seq(Lines), NEW new \in Seq(Lines)
    PROVE  /\ IsSpan(text, Len(text) + 1, Len(text))
           /\ Spliced(text, Len(text) + 1, Len(text), new, text \o new)
<1>1. Len(text) \in Nat /\ Len(new) \in Nat
  OBVIOUS
<1>2. IsSpan(text, Len(text) + 1, Len(text))
  BY <1>1 DEF IsSpan
<1>3. /\ text \o new \in Seq(Lines) /\ Len(text \o new) = Len(text) + Len(new)
      /\ \A i \in 1..Len(text) : (text \o new)[i] = text[i]
      /\ \A i \in 1..Len(new) : (text \o new)[Len(text) + i] = new[i]
  OBVIOUS
<1>4. /\ Len(text) + Len(new) - (Len(text) + 1 - (Len(text) + 1)) = Len(text) + Len(new)
      /\ Len(text) + 1 - 1 = Len(text) /\ \A i \in Len(text) + 1 .. Len(text) : FALSE
  BY <1>1
<1>5. Spliced(text, Len(text) + 1, Len(text), new, text \o new)
  BY <1>3, <1>4 DEF Spliced
<1> QED
  BY <1>2, <1>5

LEMMA EndStays ==
    ASSUME NEW text \in Seq(Lines), NEW new \in Seq(Lines), Len(new) >= 1,
           NEW n \in Nat, new[1].indent <= n, NEW is, NEW t1, NEW t2, NEW m, NEW word,
           \A k \in 1..Len(new) : new[k].is \notin {is, word}
    PROVE  /\ Timed(text, is, t1, t2, m, word) => Timed(text \o new, is, t1, t2, m, word)
           /\ Recorded(text, is, word, n) => Recorded(text \o new, is, word, n)
<1>1. PICK first, last : first = Len(text) + 1 /\ last = Len(text)
  OBVIOUS
<1>2. PICK x : x = text \o new
  OBVIOUS
<1>3. IsSpan(text, first, last) /\ Spliced(text, first, last, new, x)
  BY <1>1, <1>2, EndSplice
<1>4. Len(text) \in Nat /\ \A k \in first..last : FALSE
  BY <1>1
<1>5. ASSUME NEW i \in 1..Len(text)
      PROVE  End(text, i) \in i .. Len(text) /\ End(text, i) \in Nat
  <2>1. End(text, i) \in i .. Len(text)
    BY EndBounds
  <2> QED
    BY <2>1
<1>6. ASSUME Timed(text, is, t1, t2, m, word)
      PROVE  Timed(x, is, t1, t2, m, word)
  <2>1. ASSUME NEW i \in 1..Len(text), text[i].is = is
        PROVE  Aside(text, i, first, last, new, m)
    <3>1. End(text, i) < Len(text)
      BY <1>6, <2>1 DEF Timed
    <3>2. first \notin i .. End(text, i) + 1
      BY <1>1, <1>4, <1>5, <3>1
    <3> QED
      BY <3>2 DEF Aside
  <2>2. \A k \in first..last : text[k].is \notin {is, t1, t2}
    BY <1>4
  <2> QED
    BY <1>3, <1>6, <2>1, <2>2, TimesStay
<1>7. ASSUME Recorded(text, is, word, n)
      PROVE  Recorded(x, is, word, n)
  <2>1. ASSUME NEW i \in 1..Len(text), text[i].is = is
        PROVE  Inner(text, i, first, new, n)
    <3>1. first \in i + 1 .. End(text, i) + 1 => first = End(text, i) + 1
      BY <1>1, <1>4, <1>5
    <3> QED
      BY <3>1 DEF Inner
  <2>2. \A k \in first..last : text[k].is # word
    BY <1>4
  <2> QED
    BY <1>3, <1>7, <2>1, <2>2, RecordStays
<1> QED
  BY <1>2, <1>6, <1>7

\* The later edits of utils leave both statements as they are.
LEMMA DeepInner ==
    ASSUME NEW text \in Seq(Lines), NEW is, NEW rec, NEW n \in Nat, Recorded(text, is, rec, n),
           NEW first \in 1..Len(text), text[first].indent > n, NEW new,
           \A i \in 1..Len(text) :
               text[i].is = is /\ first \in i + 1 .. End(text, i) => \A k \in 1..Len(new) : new[k].indent > n
    PROVE  \A i \in 1..Len(text) : text[i].is = is => Inner(text, i, first, new, n)
<1> SUFFICES ASSUME NEW i \in 1..Len(text), text[i].is = is, first \in i + 1 .. End(text, i) + 1
             PROVE  first <= End(text, i) /\ \A k \in 1..Len(new) : new[k].indent > n
  BY DEF Inner
<1>1. /\ End(text, i) \in i .. Len(text)
      /\ End(text, i) < Len(text) => text[End(text, i) + 1].indent <= text[i].indent
  BY EndBounds
<1>2. text[i].indent = n
  BY DEF Recorded
<1>3. first # End(text, i) + 1
  <2>1. SUFFICES ASSUME first = End(text, i) + 1
                 PROVE  FALSE
    OBVIOUS
  <2>2. End(text, i) < Len(text)
    BY <1>1, <2>1
  <2>3. text[first].indent <= n
    BY <1>1, <1>2, <2>1, <2>2
  <2>4. text[first] \in Lines
    OBVIOUS
  <2>5. text[first].indent \in Nat
    BY <2>4 DEF Lines
  <2> QED
    BY <2>3, <2>5
<1>4. first \in i + 1 .. End(text, i)
  BY <1>1, <1>3
<1> QED
  BY <1>1, <1>4

LEMMA KvStays ==
    ASSUME NEW text \in Seq(Lines), text # NotFound, NEW e, EditOK(e), e.how \in {"before", "header"},
           \A k \in 1..Len(e.new) : e.new[k].is # "original",
           NEW is, NEW t1, NEW t2, NEW m \in Nat, e.find \notin {is, t1, t2},
           Timed(text, is, t1, t2, m, e.find),
           NEW log, NEW rec, NEW n \in Nat, Recorded(text, log, rec, n), e.find # rec,
           Len(e.path) > n, \A k \in 1..Len(e.new) : e.new[k].indent > n,
           \A k \in 1..Len(e.new) : e.new[k].is \notin {is, e.find, log},
           Edit(text, e) # NotFound
    PROVE  Timed(Edit(text, e), is, t1, t2, m, e.find) /\ Recorded(Edit(text, e), log, rec, n)
<1>1. e.how \in Spanning \ {"here", "body"}
  BY DEF Spanning
<1>2. PICK i, first, last, kept, new :
              /\ Edited(text, e, i, first, last, kept, new, Edit(text, e))
              /\ Len(new) = Len(e.new)
              /\ \A k \in 1..Len(new) : new[k].is = e.new[k].is /\ new[k].indent = e.new[k].indent
  BY <1>1, PlainNew
<1>3. PICK x : x = Edit(text, e)
  OBVIOUS
<1>4. /\ i \in 1..Len(text) /\ text[i].is = e.find /\ IsSpan(text, first, last)
      /\ first = i /\ (last = i - 1 \/ last = i) /\ new \in Seq(Lines)
      /\ Spliced(text, first, last, new, x) /\ i = Place(text, e)
  BY <1>2, <1>3 DEF Edited
<1>5. i \in Nat /\ \A k \in first..last : k = i
  BY <1>4
<1>6. text[i].indent > n
  <2>1. text[i].indent >= Len(e.path)
    BY <1>1, <1>4, PlaceDeep
  <2>2. Len(e.path) \in Nat
    <3>1. e.path \in Seq(Headers)
      BY DEF EditOK
    <3> QED
      BY ONLY <3>1
  <2>3. text[i] \in Lines
    BY <1>4
  <2>4. text[i].indent \in Nat
    BY <2>3 DEF Lines
  <2> QED
    BY <2>1, <2>2, <2>4
<1>7. /\ \A k \in 1..Len(new) : new[k].is \notin {is, e.find} /\ new[k].is # log
      /\ \A k \in 1..Len(new) : new[k].indent > n
  BY <1>2
<1>8. ASSUME NEW k \in 1..Len(text), text[k].is = is
      PROVE  Aside(text, k, first, last, new, m)
  <2>1. PICK h : h = End(text, k)
    OBVIOUS
  <2>2. h \in k .. Len(text) /\ text[h + 1].is = t2 /\ e.find \notin Under(text, k)
    BY <1>8, <2>1, EndBounds DEF Timed
  <2>3. i # k /\ i # h + 1 /\ i \notin k + 1 .. h
    BY <1>4, <1>8, <2>1, <2>2 DEF Under
  <2>4. first \notin k .. h + 1
    BY <1>4, <1>5, <2>2, <2>3
  <2> QED
    BY <2>1, <2>4 DEF Aside
<1>9. Timed(x, is, t1, t2, m, e.find)
  <2>1. \A k \in first..last : text[k].is \notin {is, t1, t2}
    BY <1>4, <1>5
  <2> QED
    BY <1>4, <1>7, <1>8, <2>1, TimesStay
<1>10. \A k \in 1..Len(text) : text[k].is = log => Inner(text, k, first, new, n)
  <2>1. first \in 1..Len(text) /\ text[first].indent > n
    BY <1>4, <1>6
  <2> QED
    BY <1>7, <2>1, DeepInner
<1>11. Recorded(x, log, rec, n)
  <2>1. \A k \in first..last : text[k].is # rec
    BY <1>4, <1>5
  <2> QED
    BY <1>4, <1>7, <1>10, <2>1, RecordStays
<1> QED
  BY <1>3, <1>9, <1>11

\* What a tier's edit writes: its own lines, then those it replaces, no less far indented.
CountsWrite(text, a, first, last, new) ==
    \A l \in 1..Len(new) :
        \/ \E j \in 1..Len(a) : new[l].is = a[j].is /\ new[l].indent = a[j].indent
        \/ \E h \in first..last : /\ h \in 1..Len(text)
                                  /\ new[l].is = text[h].is /\ new[l].indent >= text[h].indent

LEMMA CountsNew ==
    ASSUME NEW text \in Seq(Lines), text # NotFound, NEW e, EditOK(e), e.how = "counts",
           NEW a, NEW k, NEW words, OriginalLast(e.new, a, k, words), Edit(text, e) # NotFound
    PROVE  \E i, first, last, new :
              /\ i \in 1..Len(text) /\ text[i].is = e.find /\ i = Place(text, e)
              /\ IsSpan(text, first, last) /\ first = i /\ last >= first
              /\ \A h \in first..last : text[h].is \in {e.find, "sum", "assert"}
              /\ new \in Seq(Lines) /\ Spliced(text, first, last, new, Edit(text, e))
              /\ CountsWrite(text, a, first, last, new)
<1>1. e.how \in Spanning
  BY DEF Spanning
<1>2. PICK i, first, last, kept, new : Edited(text, e, i, first, last, kept, new, Edit(text, e))
  BY <1>1, EditAt
<1>3. /\ i \in 1..Len(text) /\ text[i].is = e.find /\ i = Place(text, e)
      /\ IsSpan(text, first, last) /\ first = i /\ last = LastCount(text, i)
      /\ kept \in Seq(Lines) /\ kept = Kept(text, <<first, last>>, e.how)
      /\ new \in Seq(Lines) /\ Spliced(text, first, last, new, Edit(text, e))
      /\ new = Fill(e.new, kept, IF e.how = "here" THEN text[i].indent ELSE 0)
  BY <1>2 DEF Edited
<1>4. /\ last \in i .. Len(text) /\ i \in Nat /\ i >= 1
      /\ \A h \in i + 1 .. last : text[h].is \in {"sum", "assert"}
  BY <1>3, LastCountIs
<1>5. \A h \in first..last : text[h].is \in {e.find, "sum", "assert"}
  <2>1. \A h \in first..last : h = i \/ h \in i + 1 .. last
    BY <1>3, <1>4
  <2> QED
    BY <1>3, <1>4, <2>1
<1>6. kept = SubSeq(text, first, last)
  BY <1>3 DEF Kept
<1>7. /\ Len(kept) = last + 1 - first
      /\ \A l \in 1..Len(kept) : kept[l] = text[first - 1 + l] /\ first - 1 + l \in first..last
                                 /\ first - 1 + l \in 1..Len(text)
  <2>1. first \in Nat /\ first >= 1 /\ last \in Nat /\ last >= first /\ last <= Len(text) /\ Len(text) \in Nat
    BY <1>3, <1>4
  <2>2. Len(kept) = last + 1 - first
    BY ONLY <1>6, <2>1
  <2>3. \A l \in 1..Len(kept) : kept[l] = text[first - 1 + l]
    BY ONLY <1>6, <2>1, <2>2, text \in Seq(Lines)
  <2> QED
    BY ONLY <2>1, <2>2, <2>3
<1>8. PICK b \in Seq(Lines), c \in Seq(Lines) :
          /\ b = Reindent(a, 0) /\ c = Reindent(kept, k) /\ new = b \o c
  <2>1. new = Fill(e.new, kept, 0)
    BY <1>3
  <2>2. new = Reindent(a, 0) \o Reindent(kept, k)
    <3>1. kept \in Seq(Lines) /\ 0 \in Nat /\ OriginalLast(e.new, a, k, words)
      BY <1>3
    <3> QED
      BY ONLY <2>1, <3>1, FillLast
  <2>3. Reindent(a, 0) \in Seq(Lines) /\ Reindent(kept, k) \in Seq(Lines)
    BY <1>3, ReindentIn DEF OriginalLast
  <2> QED
    BY <2>2, <2>3
<1>9. Len(b) = Len(a) /\ \A j \in 1..Len(a) : b[j].is = a[j].is /\ b[j].indent = a[j].indent
  <2>1. a \in Seq(Lines) /\ b = Reindent(a, 0)
    BY <1>8 DEF OriginalLast
  <2>2. /\ Len(b) = Len(a)
        /\ \A j \in 1..Len(a) : /\ b[j].is = a[j].is /\ b[j].indent = a[j].indent + 0
                                /\ a[j].indent \in Nat
    BY ONLY <2>1, ReindentIs
  <2> QED
    BY <2>2
<1>10. Len(c) = Len(kept) /\ \A j \in 1..Len(kept) : c[j].is = kept[j].is /\ c[j].indent >= kept[j].indent
  <2>1. k \in Nat /\ kept \in Seq(Lines) /\ c = Reindent(kept, k)
    BY <1>3, <1>8 DEF OriginalLast
  <2>2. /\ Len(c) = Len(kept)
        /\ \A j \in 1..Len(kept) : /\ c[j].is = kept[j].is /\ c[j].indent = kept[j].indent + k
                                   /\ kept[j].indent \in Nat
    BY ONLY <2>1, ReindentIs
  <2> QED
    BY <2>1, <2>2
<1>11. ASSUME NEW l \in 1..Len(new)
       PROVE  \/ \E j \in 1..Len(a) : new[l].is = a[j].is /\ new[l].indent = a[j].indent
              \/ \E h \in first..last : /\ h \in 1..Len(text)
                                        /\ new[l].is = text[h].is /\ new[l].indent >= text[h].indent
  <2>1. (\E j \in 1..Len(b) : new[l] = b[j]) \/ (\E j \in 1..Len(c) : new[l] = c[j])
    <3>1. b \in Seq(Lines) /\ c \in Seq(Lines) /\ new = b \o c
      BY <1>8
    <3>2. CASE l \in 1..Len(b)
      <4>1. new[l] = b[l]
        BY ONLY <3>1, <3>2
      <4> QED
        BY <3>2, <4>1
    <3>3. CASE l \notin 1..Len(b)
      <4>1. l - Len(b) \in 1..Len(c) /\ new[l] = c[l - Len(b)]
        BY ONLY <3>1, <3>3, l \in 1..Len(new)
      <4> QED
        BY <4>1
    <3> QED
      BY <3>2, <3>3
  <2>2. CASE \E j \in 1..Len(b) : new[l] = b[j]
    BY <1>9, <2>2
  <2>3. CASE \E j \in 1..Len(c) : new[l] = c[j]
    BY <1>7, <1>10, <2>3
  <2> QED
    BY <2>1, <2>2, <2>3
<1>12. last >= first
  BY <1>3, <1>4
<1>13. CountsWrite(text, a, first, last, new)
  BY <1>11 DEF CountsWrite
<1> QED
  BY <1>3, <1>5, <1>12, <1>13

LEMMA CountsStay ==
    ASSUME NEW text \in Seq(Lines), text # NotFound, NEW e, EditOK(e), e.how = "counts",
           NEW is, NEW t1, NEW t2, NEW m \in Nat, NEW word, Timed(text, is, t1, t2, m, word),
           NEW log, NEW rec, NEW n \in Nat, n < m, Recorded(text, log, rec, n), Len(e.path) > n,
           {e.find, "sum", "assert"} \cap {is, t1, t2, word, log, rec} = {},
           NEW a, NEW k, OriginalLast(e.new, a, k, {is, word, log}),
           \A j \in 1..Len(a) : a[j].indent > m, Edit(text, e) # NotFound
    PROVE  Timed(Edit(text, e), is, t1, t2, m, word) /\ Recorded(Edit(text, e), log, rec, n)
<1>1. PICK i, first, last, new :
              /\ i \in 1..Len(text) /\ text[i].is = e.find /\ i = Place(text, e)
              /\ IsSpan(text, first, last) /\ first = i /\ last >= first
              /\ \A h \in first..last : text[h].is \in {e.find, "sum", "assert"}
              /\ new \in Seq(Lines) /\ Spliced(text, first, last, new, Edit(text, e))
              /\ CountsWrite(text, a, first, last, new)
  BY CountsNew
<1>2. PICK x : x = Edit(text, e)
  OBVIOUS
<1>3. Spliced(text, first, last, new, x)
  BY <1>1, <1>2
<1>4. /\ \A l \in 1..Len(a) : a[l].is \notin {is, word, log} /\ a[l] \in Lines /\ a[l].indent \in Nat
      /\ \A l \in 1..Len(text) : text[l].indent \in Nat
  <2>1. a \in Seq(Lines) /\ \A l \in 1..Len(a) : a[l].is \notin {is, word, log}
    BY DEF OriginalLast
  <2>2. \A l \in 1..Len(a) : a[l] \in Lines
    BY ONLY <2>1
  <2>3. \A l \in 1..Len(text) : text[l] \in Lines
    OBVIOUS
  <2> QED
    BY <2>1, <2>2, <2>3 DEF Lines
<1>5. \A h \in first..last : text[h].is \notin {is, t1, t2, word, log, rec}
  BY <1>1
<1>6. \A l \in 1..Len(new) : new[l].is \notin {is, word, log}
  BY <1>1, <1>4, <1>5 DEF CountsWrite
<1>7. \A l \in 1..Len(new) : new[l].indent \in Nat
  <2>1. \A l \in 1..Len(new) : new[l] \in Lines
    BY <1>1
  <2> QED
    BY <2>1 DEF Lines
\* Inside a statement the new lines are as deep as those they replace.
<1>8. ASSUME NEW s \in 1..Len(text), text[s].indent <= m, first \in s + 1 .. End(text, s),
             last <= End(text, s)
      PROVE  \A l \in 1..Len(new) : new[l].indent > text[s].indent
  <2>1. End(text, s) \in s .. Len(text) /\ \A h \in s + 1 .. End(text, s) : text[h].indent > text[s].indent
    BY EndBounds
  <2>2. \A h \in first..last : h \in s + 1 .. End(text, s)
    <3>1. s \in Nat /\ first \in Nat /\ last \in Int /\ End(text, s) \in Nat
      BY <1>1, <2>1 DEF IsSpan
    <3> QED
      BY ONLY <1>8, <3>1
  <2>3. ASSUME NEW l \in 1..Len(new)
        PROVE  new[l].indent > text[s].indent
    <3>1. CASE \E j \in 1..Len(a) : new[l].is = a[j].is /\ new[l].indent = a[j].indent
      <4>1. PICK j \in 1..Len(a) : new[l].indent = a[j].indent
        BY <3>1
      <4>2. a[j].indent > m /\ a[j].indent \in Nat /\ text[s].indent \in Nat /\ text[s].indent <= m
        BY <1>4, <1>8
      <4> QED
        BY ONLY <4>1, <4>2, m \in Nat
    <3>2. CASE \E h \in first..last : /\ h \in 1..Len(text)
                                      /\ new[l].is = text[h].is /\ new[l].indent >= text[h].indent
      BY <1>4, <1>7, <2>1, <2>2, <3>2
    <3> QED
      BY <1>1, <3>1, <3>2 DEF CountsWrite
  <2> QED
    BY <2>3
<1>9. ASSUME NEW s \in 1..Len(text), text[s].is = is
      PROVE  Aside(text, s, first, last, new, m)
  <2>1. SUFFICES ASSUME first \in s .. End(text, s) + 1
                 PROVE  last >= first /\ \A l \in 1..Len(new) : new[l].indent > m
    BY DEF Aside
  <2>2. PICK h : h = End(text, s)
    OBVIOUS
  <2>3. /\ h \in s .. Len(text) /\ text[s].indent = m /\ text[h + 1].is = t2 /\ h < Len(text)
    BY <1>9, <2>2, EndBounds DEF Timed
  <2>4. first # s /\ h + 1 \notin first..last
    BY <1>1, <1>5, <1>9, <2>3
  <2>5. first \in s + 1 .. h /\ last <= h
    <3>1. s \in Nat /\ first \in Nat /\ last \in Int /\ last >= first
      BY <1>1 DEF IsSpan
    <3> QED
      BY <2>1, <2>2, <2>3, <2>4, <3>1
  <2>6. text[s].indent <= m
    BY <2>3
  <2>7. \A l \in 1..Len(new) : new[l].indent > text[s].indent
    BY <1>8, <2>2, <2>5, <2>6
  <2> QED
    BY <1>1, <2>3, <2>7
<1>10. Timed(x, is, t1, t2, m, word)
  <2>1. \A h \in first..last : text[h].is \notin {is, t1, t2}
    BY <1>5
  <2>2. \A l \in 1..Len(new) : new[l].is \notin {is, word}
    BY <1>6
  <2> QED
    BY <1>1, <1>3, <1>9, <2>1, <2>2, TimesStay
<1>11. \A s \in 1..Len(text) : text[s].is = log => Inner(text, s, first, new, n)
  <2>1. first \in 1..Len(text) /\ text[first].indent > n
    <3>1. text[i].indent >= Len(e.path)
      <4>1. e.how \in Spanning \cup {"around"}
        BY DEF Spanning
      <4> QED
        BY <1>1, <4>1, PlaceDeep
    <3>2. Len(e.path) \in Nat
      <4>1. e.path \in Seq(Headers)
        BY DEF EditOK
      <4> QED
        BY ONLY <4>1
    <3> QED
      BY <1>1, <1>4, <3>1, <3>2
  <2>2. ASSUME NEW s \in 1..Len(text), text[s].is = log, first \in s + 1 .. End(text, s)
        PROVE  \A l \in 1..Len(new) : new[l].indent > n
    <3>1. text[s].indent = n /\ text[End(text, s)].is = rec /\ End(text, s) \in s .. Len(text)
      BY <2>2, EndBounds DEF Recorded
    <3>2. End(text, s) \notin first..last
      BY <1>5, <3>1
    <3>3. last <= End(text, s)
      <4>1. s \in Nat /\ first \in Nat /\ last \in Int /\ last >= first
        BY <1>1 DEF IsSpan
      <4> QED
        BY <2>2, <3>1, <3>2, <4>1
    <3>4. text[s].indent <= m
      BY <3>1
    <3>5. \A l \in 1..Len(new) : new[l].indent > text[s].indent
      BY <1>8, <2>2, <3>3, <3>4
    <3> QED
      BY <3>1, <3>5
  <2> QED
    BY <2>1, <2>2, DeepInner
<1>12. Recorded(x, log, rec, n)
  <2>1. /\ \A h \in first..last : text[h].is # rec
        /\ \A l \in 1..Len(new) : new[l].is # log
    BY <1>5, <1>6
  <2> QED
    BY <1>1, <1>3, <1>11, <2>1, RecordStays
<1> QED
  BY <1>2, <1>10, <1>12

-----------------------------------------------------------------------------
(* Words of edits.                                                         *)

LEMMA IfOf == \A c, es : (c => If(c, es) = es) /\ (~c => If(c, es) = <<>>)
<1> QED
  BY DEF If

LEMMA WordsOfTuples ==
    /\ \A p : WordsOf(<<p>>) = {p.is}
    /\ \A p, q, r : WordsOf(<<p, q, r>>) = {p.is, q.is, r.is}
    /\ \A p, q, r, s : WordsOf(<<p, q, r, s>>) = {p.is, q.is, r.is, s.is}
    /\ \A p, q, r, s, u : WordsOf(<<p, q, r, s, u>>) = {p.is, q.is, r.is, s.is, u.is}
    /\ \A p, q, r, s, u, v : WordsOf(<<p, q, r, s, u, v>>) = {p.is, q.is, r.is, s.is, u.is, v.is}
<1>1. ASSUME NEW p
      PROVE  WordsOf(<<p>>) = {p.is}
  <2>1. DOMAIN <<p>> = {1} /\ <<p>>[1] = p
    OBVIOUS
  <2> QED
    BY <2>1 DEF WordsOf
<1>2. ASSUME NEW p, NEW q, NEW r
      PROVE  WordsOf(<<p, q, r>>) = {p.is, q.is, r.is}
  <2>1. PICK t : t = <<p, q, r>>
    OBVIOUS
  <2>2. DOMAIN t = 1..3 /\ 1..3 = {1, 2, 3} /\ t[1] = p /\ t[2] = q /\ t[3] = r
    BY ONLY <2>1
  <2>3. DOMAIN t = {1, 2, 3} /\ t[1] = p /\ t[2] = q /\ t[3] = r
    BY <2>2
  <2>4. WordsOf(t) = {p.is, q.is, r.is}
    BY ONLY <2>3 DEF WordsOf
  <2> QED
    BY <2>1, <2>4
<1>3. ASSUME NEW p, NEW q, NEW r, NEW s
      PROVE  WordsOf(<<p, q, r, s>>) = {p.is, q.is, r.is, s.is}
  <2>1. PICK t : t = <<p, q, r, s>>
    OBVIOUS
  <2>2. DOMAIN t = 1..4 /\ 1..4 = {1, 2, 3, 4} /\ t[1] = p /\ t[2] = q /\ t[3] = r /\ t[4] = s
    BY ONLY <2>1
  <2>3. DOMAIN t = {1, 2, 3, 4} /\ t[1] = p /\ t[2] = q /\ t[3] = r /\ t[4] = s
    BY <2>2
  <2>4. WordsOf(t) = {p.is, q.is, r.is, s.is}
    BY ONLY <2>3 DEF WordsOf
  <2> QED
    BY <2>1, <2>4
<1>4. ASSUME NEW p, NEW q, NEW r, NEW s, NEW u
      PROVE  WordsOf(<<p, q, r, s, u>>) = {p.is, q.is, r.is, s.is, u.is}
  <2>1. PICK t : t = <<p, q, r, s, u>>
    OBVIOUS
  <2>2. DOMAIN t = 1..5 /\ 1..5 = {1, 2, 3, 4, 5} /\ t[1] = p /\ t[2] = q /\ t[3] = r /\ t[4] = s /\ t[5] = u
    BY ONLY <2>1
  <2>3. DOMAIN t = {1, 2, 3, 4, 5} /\ t[1] = p /\ t[2] = q /\ t[3] = r /\ t[4] = s /\ t[5] = u
    BY <2>2
  <2>4. WordsOf(t) = {p.is, q.is, r.is, s.is, u.is}
    BY ONLY <2>3 DEF WordsOf
  <2> QED
    BY <2>1, <2>4
<1>5. ASSUME NEW p, NEW q, NEW r, NEW s, NEW u, NEW v
      PROVE  WordsOf(<<p, q, r, s, u, v>>) = {p.is, q.is, r.is, s.is, u.is, v.is}
  <2>1. PICK t : t = <<p, q, r, s, u, v>>
    OBVIOUS
  <2>2. DOMAIN t = 1..6 /\ 1..6 = {1, 2, 3, 4, 5, 6} /\ t[1] = p /\ t[2] = q /\ t[3] = r /\ t[4] = s /\ t[5] = u /\ t[6] = v
    BY ONLY <2>1
  <2>3. DOMAIN t = {1, 2, 3, 4, 5, 6} /\ t[1] = p /\ t[2] = q /\ t[3] = r /\ t[4] = s /\ t[5] = u /\ t[6] = v
    BY <2>2
  <2>4. WordsOf(t) = {p.is, q.is, r.is, s.is, u.is, v.is}
    BY ONLY <2>3 DEF WordsOf
  <2> QED
    BY <2>1, <2>4
<1> QED
  BY <1>1, <1>2, <1>3, <1>4, <1>5

\* The words of the text that the first edits of utils leave as they are.
Plain(e, is) == BringsNo(e, is) /\ Spares(e, {is})

-----------------------------------------------------------------------------
(* What is there once stays so.                                            *)

LEMMA SingleStays ==
    ASSUME NEW x \in Seq(Lines), x # NotFound, NEW e, NEW is, Spares(e, {is}), Single(x, is),
           Edit(x, e) # NotFound
    PROVE  Edit(x, e) \in Seq(Lines) /\ Single(Edit(x, e), is)
<1>1. PICK words : words = {is}
  OBVIOUS
<1>2. Edit(x, e) \in Seq(Lines) /\ Own(Edit(x, e), words) = Own(x, words)
  BY <1>1, OwnEdit
<1> QED
  BY <1>1, <1>2, SingleKeeps

\* A statement that is there once, and so indented, before each of the first edits of utils.
OnceAt(x, is, n) == x \in Seq(Lines) /\ Single(x, is) /\ Indented(x, is, n)

LEMMA OnceStays ==
    ASSUME NEW x, x # NotFound, NEW is, NEW n, OnceAt(x, is, n), NEW e, Plain(e, is),
           Edit(x, e) # NotFound
    PROVE  OnceAt(Edit(x, e), is, n)
<1>1. x \in Seq(Lines) /\ Single(x, is) /\ Indented(x, is, n) /\ BringsNo(e, is) /\ Spares(e, {is})
  BY DEF OnceAt, Plain
<1>2. Edit(x, e) \in Seq(Lines) /\ Single(Edit(x, e), is)
  BY <1>1, SingleStays
<1>3. Indented(Edit(x, e), is, n)
  BY <1>1, IndentKeeps
<1> QED
  BY <1>2, <1>3 DEF OnceAt

ClearAt(x, is, n, word) == x \in Seq(Lines) /\ Single(x, is) /\ Clear(x, is, n, word)

LEMMA ClearStays ==
    ASSUME NEW x, x # NotFound, NEW is, NEW n, NEW word, ClearAt(x, is, n, word), NEW e, Plain(e, is),
           e.how \in Spanning \ {"counts"}, Len(e.new) >= 1, e.new[1].indent <= n,
           Edit(x, e) # NotFound
    PROVE  ClearAt(Edit(x, e), is, n, word)
<1>1. x \in Seq(Lines) /\ Single(x, is) /\ Clear(x, is, n, word) /\ BringsNo(e, is) /\ Spares(e, {is})
  BY DEF ClearAt, Plain
<1>2. Edit(x, e) \in Seq(Lines) /\ Single(Edit(x, e), is)
  BY <1>1, SingleStays
<1>3. Clear(Edit(x, e), is, n, word)
  BY <1>1, ClearKeeps
<1> QED
  BY <1>2, <1>3 DEF ClearAt

-----------------------------------------------------------------------------
(* What is written before a statement that is timed.                       *)

\* What is written before a statement of a function: the lines before it, one of them no
\* deeper than the statement that is timed later, none of them that statement.
Guarded(x, word, before, is, m, n) ==
    \E c \in 4..Len(x) :
        /\ x[c].is = is /\ x[c].indent > n /\ x[c - 1].is = before
        /\ x[c - 1].is # word /\ x[c - 2].is # word /\ x[c - 3].is # word
        /\ x[c - 3].indent <= m

PairIn(x, before, is, n) ==
    \E c \in 2..Len(x) : x[c].is = is /\ x[c].indent > n /\ x[c - 1].is = before

LEMMA GuardWritten ==
    ASSUME NEW text \in Seq(Lines), text # NotFound, NEW e, EditOK(e), e.how = "before",
           NEW log \in Headers, e.path = <<log>>, NEW n \in Nat, Indented(text, log, n),
           NEW p \in Lines, NEW q \in Lines, NEW r \in Lines, NEW s \in Lines,
           e.new = <<p, q, r, s>>, NEW m \in Nat, q.indent <= m, NEW word,
           q.is # word, r.is # word, s.is # word,
           "original" \notin {p.is, q.is, r.is, s.is}, Edit(text, e) # NotFound
    PROVE  Edit(text, e) \in Seq(Lines) /\ Guarded(Edit(text, e), word, s.is, e.find, m, n)
<1>1. /\ Len(e.new) = 4 /\ e.new[1] = p /\ e.new[2] = q /\ e.new[3] = r /\ e.new[4] = s
      /\ \A k \in 1..Len(e.new) : k = 1 \/ k = 2 \/ k = 3 \/ k = 4
  OBVIOUS
<1>2. e.how \in Spanning \ {"here", "body"} /\ \A k \in 1..Len(e.new) : e.new[k].is # "original"
  BY <1>1 DEF Spanning
<1>3. PICK i, first, last, kept, new :
              /\ Edited(text, e, i, first, last, kept, new, Edit(text, e))
              /\ Len(new) = Len(e.new)
              /\ \A k \in 1..Len(new) : new[k].is = e.new[k].is /\ new[k].indent = e.new[k].indent
  BY <1>2, PlainNew
<1>4. PICK x : x = Edit(text, e)
  OBVIOUS
<1>5. /\ i \in 1..Len(text) /\ text[i].is = e.find /\ i = Place(text, e) /\ first = i /\ last = i - 1
      /\ new \in Seq(Lines) /\ Spliced(text, first, last, new, x)
  BY <1>3, <1>4 DEF Edited
<1>6. Len(new) = 4 /\ new[2].is = q.is /\ new[3].is = r.is /\ new[4].is = s.is /\ new[2].indent = q.indent
  <2>1. Len(new) = 4
    BY <1>1, <1>3
  <2>2. 2 \in 1..Len(new) /\ 3 \in 1..Len(new) /\ 4 \in 1..Len(new)
    BY ONLY <2>1
  <2> QED
    BY <1>1, <1>3, <2>1, <2>2
<1>7. text[i].indent > n
  <2>1. i \in Scope(text, e.path)
    <3>1. e.how \in Spanning \cup {"around"}
      BY <1>2
    <3> QED
      BY <1>5, <3>1, PlaceDeep
  <2>2. i \in Inside(text, DOMAIN text, log)
    BY <2>1, ScopeOne
  <2>3. PICK h \in 1..Len(text) : text[h].is = log /\ text[i].indent > text[h].indent
    <3>1. DOMAIN text \in SUBSET (1..Len(text))
      OBVIOUS
    <3> QED
      BY <2>2, <3>1, InsideIs
  <2>4. text[h].indent = n
    BY <2>3 DEF Indented
  <2> QED
    BY <2>3, <2>4
<1>8. /\ x \in Seq(Lines) /\ Len(x) = Len(text) + 4
      /\ x[i + 1] = new[2] /\ x[i + 2] = new[3] /\ x[i + 3] = new[4] /\ x[i + 4] = text[i]
  <2>1. /\ x \in Seq(Lines) /\ Len(x) = Len(text) + Len(new) - (last + 1 - first)
        /\ \A k \in 1 .. Len(new) : x[first - 1 + k] = new[k]
        /\ \A k \in last + 1 .. Len(text) : x[k + Len(new) - (last + 1 - first)] = text[k]
    BY <1>5 DEF Spliced
  <2>2. Len(new) = 4 /\ i \in Nat /\ i <= Len(text) /\ Len(text) \in Nat /\ first = i /\ last = i - 1 /\ i >= 1
    BY <1>5, <1>6
  <2>3. /\ first - 1 + 2 = i + 1 /\ first - 1 + 3 = i + 2 /\ first - 1 + 4 = i + 3
        /\ i + Len(new) - (last + 1 - first) = i + 4 /\ i \in last + 1 .. Len(text)
        /\ 2 \in 1..Len(new) /\ 3 \in 1..Len(new) /\ 4 \in 1..Len(new)
        /\ Len(text) + Len(new) - (last + 1 - first) = Len(text) + 4
    BY ONLY <2>2
  <2>4. x[first - 1 + 2] = new[2] /\ x[first - 1 + 3] = new[3] /\ x[first - 1 + 4] = new[4]
    BY ONLY <2>1, <2>3
  <2>5. x[i + Len(new) - (last + 1 - first)] = text[i]
    BY ONLY <2>1, <2>3
  <2> QED
    BY <2>1, <2>3, <2>4, <2>5
<1>9. PICK c \in 4..Len(x) : c = i + 4
  <2>1. i \in Nat /\ i <= Len(text) /\ Len(text) \in Nat /\ Len(x) = Len(text) + 4
    <3>1. i \in 1..Len(text)
      BY ONLY <1>5
    <3>2. Len(x) = Len(text) + 4
      BY ONLY <1>8
    <3>3. Len(text) \in Nat
      BY ONLY text \in Seq(Lines), LenProperties
    <3> QED
      BY ONLY <3>1, <3>2, <3>3
  <2>2. i + 4 \in 4..Len(x)
    BY ONLY <2>1
  <2> QED
    BY ONLY <2>2
<1>10. c - 1 = i + 3 /\ c - 2 = i + 2 /\ c - 3 = i + 1
  <2>1. i \in Nat /\ c = i + 4
    BY <1>5, <1>9
  <2> QED
    BY ONLY <2>1
<1>11. /\ x[c].is = e.find /\ x[c].indent > n /\ x[c - 1].is = s.is
       /\ x[c - 1].is # word /\ x[c - 2].is # word /\ x[c - 3].is # word
       /\ x[c - 3].indent <= m
  BY <1>5, <1>6, <1>7, <1>8, <1>9, <1>10
<1> QED
  BY <1>4, <1>8, <1>11 DEF Guarded

LEMMA GuardTimed ==
    ASSUME NEW text \in Seq(Lines), text # NotFound, NEW e, EditOK(e), e.how = "around",
           NEW m \in Nat, Indented(text, e.find, m), NEW before, NEW is, NEW n, is # e.find,
           Guarded(text, e.find, before, is, m, n), Edit(text, e) # NotFound
    PROVE  Edit(text, e) \in Seq(Lines) /\ PairIn(Edit(text, e), before, is, n)
<1>1. PICK i \in 1..Len(text) : Edit(text, e) = AroundAt(text, i, e) /\ text[i].is = e.find
  <2>1. Found(text, e) /\ Edit(text, e) = AroundAt(text, Place(text, e), e)
    BY DEF Edit
  <2>2. Place(text, e) \in 1..Len(text) /\ text[Place(text, e)].is = e.find
    BY PlaceDeep
  <2> QED
    BY <2>1, <2>2
<1>2. e.new \in Seq(Lines) /\ e.after \in Seq(Lines)
  BY DEF EditOK
<1>3. PICK x : x = AroundAt(text, i, e)
  OBVIOUS
<1>4. PICK once \in Seq(Lines), k \in i .. Len(text) :
          /\ k = End(text, i)
          /\ IsSpan(text, k + 1, k) /\ Spliced(text, k + 1, k, e.after, once)
          /\ IsSpan(once, i, i - 1) /\ Spliced(once, i, i - 1, e.new, x)
          /\ x \in Seq(Lines)
  BY <1>2, <1>3, AroundAtIs
<1>5. PICK c \in 4..Len(text) :
        /\ text[c].is = is /\ text[c].indent > n /\ text[c - 1].is = before
        /\ text[c - 1].is # e.find /\ text[c - 2].is # e.find /\ text[c - 3].is # e.find
        /\ text[c - 3].indent <= m
  BY DEF Guarded
<1>6. /\ i # c /\ i # c - 1 /\ i # c - 2 /\ i # c - 3 /\ text[i].indent = m
  BY <1>1, <1>5 DEF Indented
<1>7. c # k + 1
  <2> SUFFICES ASSUME c = k + 1
               PROVE  FALSE
    OBVIOUS
  <2>1. \A l \in i + 1 .. k : text[l].indent > text[i].indent
    BY <1>4, EndBounds
  <2>2. c - 3 \in i + 1 .. k
    <3>1. i \in Nat /\ k \in Nat /\ i <= k /\ c = k + 1
      BY <1>4
    <3>2. i # c - 1 /\ i # c - 2 /\ i # c - 3
      BY <1>6
    <3> QED
      BY ONLY <3>1, <3>2
  <2>3. c - 3 \in 1..Len(text)
    OBVIOUS
  <2>4. text[c - 3].indent \in Nat
    <3>1. text[c - 3] \in Lines
      BY <2>3
    <3> QED
      BY ONLY <3>1 DEF Lines
  <2> QED
    BY <1>5, <1>6, <2>1, <2>2, <2>4
<1>8. PICK d \in 2..Len(once) : once[d - 1] = text[c - 1] /\ once[d] = text[c]
  <2>1. PICK first, last : first = k + 1 /\ last = k
    OBVIOUS
  <2>2. IsSpan(text, first, last) /\ Spliced(text, first, last, e.after, once)
    BY <1>4, <2>1
  <2>3. c \in 2..Len(text) /\ c \notin first..last /\ c - 1 \notin first..last /\ (c = first => last >= first)
    BY <1>4, <1>7, <2>1
  <2> QED
    BY ONLY <1>2, <1>4, <2>2, <2>3, text \in Seq(Lines), SplicedKeepsLines
<1>9. d # i
  <2>1. once[i] = text[i]
    <3>1. PICK first, last : first = k + 1 /\ last = k
      OBVIOUS
    <3>2. Spliced(text, first, last, e.after, once)
      BY <1>4, <3>1
    <3>3. \A j \in 1 .. first - 1 : once[j] = text[j]
      BY ONLY <3>2 DEF Spliced
    <3>4. i \in 1 .. first - 1
      BY <1>4, <3>1
    <3> QED
      BY <3>3, <3>4
  <2> QED
    BY <1>1, <1>5, <1>8, <2>1
<1>10. PICK b \in 2..Len(x) : x[b - 1] = once[d - 1] /\ x[b] = once[d]
  <2>1. PICK first, last : first = i /\ last = i - 1
    OBVIOUS
  <2>2. IsSpan(once, first, last) /\ Spliced(once, first, last, e.new, x)
    BY <1>4, <2>1
  <2>3. d \in 2..Len(once) /\ d \notin first..last /\ d - 1 \notin first..last /\ (d = first => last >= first)
    BY <1>8, <1>9, <2>1
  <2>4. PICK y \in Seq(Lines), u \in Seq(Lines) : y = once /\ u = e.new
    BY <1>2, <1>4
  <2>5. IsSpan(y, first, last) /\ Spliced(y, first, last, u, x)
    BY <2>2, <2>4
  <2>6. PICK q \in 2..Len(y) : q = d
    BY <1>8, <2>4
  <2>7. q \notin first..last /\ q - 1 \notin first..last /\ (q = first => last >= first)
    BY <2>3, <2>6
  <2>8. \E b \in 2..Len(x) : x[b - 1] = y[q - 1] /\ x[b] = y[q]
    BY ONLY <2>5, <2>7, y \in Seq(Lines), u \in Seq(Lines), q \in 2..Len(y), SplicedKeepsLines
  <2> QED
    BY <2>4, <2>6, <2>8
<1>11. x[b].is = is /\ x[b].indent > n /\ x[b - 1].is = before
  BY <1>5, <1>8, <1>10
<1> QED
  BY <1>1, <1>3, <1>4, <1>11 DEF PairIn

LEMMA PairAfter ==
    ASSUME NEW text \in Seq(Lines), text # NotFound, NEW e, EditOK(e), e.how = "after",
           NEW n \in Nat, Indented(text, e.find, n), NEW before, NEW is,
           PairIn(text, before, is, n), Edit(text, e) # NotFound
    PROVE  Edit(text, e) \in Seq(Lines) /\ Directly(Edit(text, e), before, is)
<1>1. e.how \in Spanning
  BY DEF Spanning
<1>2. PICK i, first, last, kept, new : Edited(text, e, i, first, last, kept, new, Edit(text, e))
  BY <1>1, EditAt
<1>3. PICK x : x = Edit(text, e)
  OBVIOUS
<1>4. /\ i \in 1..Len(text) /\ text[i].is = e.find /\ IsSpan(text, first, last)
      /\ first = End(text, i) + 1 /\ last = End(text, i)
      /\ new \in Seq(Lines) /\ Spliced(text, first, last, new, x)
  BY <1>2, <1>3 DEF Edited
<1>5. PICK c \in 2..Len(text) : text[c].is = is /\ text[c].indent > n /\ text[c - 1].is = before
  BY DEF PairIn
<1>6. End(text, i) \in i..Len(text) /\ (End(text, i) < Len(text) => text[End(text, i) + 1].indent <= text[i].indent)
  BY <1>4, EndBounds
<1>7. text[i].indent = n
  BY <1>4 DEF Indented
<1>8. c # End(text, i) + 1
  <2> SUFFICES ASSUME c = End(text, i) + 1
               PROVE  FALSE
    OBVIOUS
  <2>1. End(text, i) < Len(text)
    BY <1>4, <1>6
  <2>2. text[c].indent <= n
    BY <1>6, <1>7, <2>1
  <2>3. text[c].indent \in Nat
    <3>1. text[c] \in Lines
      BY <1>5
    <3> QED
      BY ONLY <3>1 DEF Lines
  <2> QED
    BY <1>5, <2>2, <2>3
<1>9. c \notin first..last /\ c - 1 \notin first..last /\ (c = first => last >= first)
  BY <1>4, <1>6, <1>8
<1>10. Directly(x, text[c - 1].is, text[c].is)
  BY ONLY <1>4, <1>9, c \in 2..Len(text), text \in Seq(Lines), SplicedKeepsPair
<1>11. x \in Seq(Lines)
  BY <1>4 DEF Spliced
<1> QED
  BY <1>3, <1>5, <1>10, <1>11

-----------------------------------------------------------------------------
(* A place that is found again.                                            *)

LEMMA OnlyHit ==
    ASSUME NEW n \in Nat, NEW hits \in SUBSET (1..n), Cardinality(hits) = 1, NEW k \in hits
    PROVE  Min(hits) = k
<1>1. IsFiniteSet(hits)
  <2>1. IsFiniteSet(1..n)
    BY FS_Interval
  <2> QED
    BY <2>1, FS_Subset
<1>2. PICK y : hits = {y}
  BY <1>1, FS_Singleton
<1>3. hits \in SUBSET Nat /\ hits # {}
  OBVIOUS
<1>4. Min(hits) \in hits
  BY <1>3, MinProps
<1> QED
  BY ONLY <1>2, <1>4, k \in hits

\* What is found before a place is found again in a text that agrees up to it.
Again(text, x, is, m, s, u, c) ==
    /\ is \notin Statements /\ m \in Nat /\ c \in Nat
    /\ \A j \in 1 .. m - 1 : x[j] = text[j]
    /\ u \in SUBSET (1..Len(x)) /\ c < m /\ c \in u /\ c >= 1 /\ text[c].is = is
    /\ \A j \in s : text[j].is = is => c <= j
    /\ \A j \in u : j < m => j \in s

LEMMA FoundAgain ==
    ASSUME NEW text \in Seq(Lines), NEW x \in Seq(Lines), NEW is, NEW m, NEW s, NEW u, NEW c,
           Again(text, x, is, m, s, u, c)
    PROVE  Min(Hits(x, u, is)) = c /\ Inside(x, u, is) = c + 1 .. End(x, c)
<1>0. /\ is \notin Statements /\ m \in Nat /\ c \in Nat
      /\ (\A j \in 1 .. m - 1 : x[j] = text[j])
      /\ u \in SUBSET (1..Len(x)) /\ c < m /\ c \in u /\ c >= 1 /\ text[c].is = is
      /\ (\A j \in s : text[j].is = is => c <= j)
      /\ (\A j \in u : j < m => j \in s)
  BY DEF Again
<1>1. PICK hits : hits = Hits(x, u, is)
  OBVIOUS
<1>2. \A j : j \in hits <=> j \in u /\ x[j].is = is
  BY <1>1 DEF Hits
<1>3. c \in hits
  BY <1>0, <1>2
<1>10. \A j \in u : j \in Nat /\ j >= 1
  <2>1. Len(x) \in Nat
    OBVIOUS
  <2> QED
    BY ONLY <1>0, <2>1
<1>4. ASSUME NEW j \in hits
      PROVE  c <= j
  <2>1. j \in u /\ x[j].is = is /\ j \in Nat /\ j >= 1
    BY <1>2, <1>10
  <2>2. CASE j < m
    BY <1>0, <2>1, <2>2
  <2>3. CASE j >= m
    BY <1>0, <2>1, <2>3
  <2> QED
    BY <1>0, <2>1, <2>2, <2>3
<1>5. hits \in SUBSET Nat /\ hits # {}
  <2>1. \A j \in hits : j \in Nat
    BY <1>0, <1>2, <1>10
  <2> QED
    BY <1>3, <2>1
<1>6. Min(hits) \in hits /\ \A y \in hits : Min(hits) <= y
  BY <1>5, MinProps
<1>7. Min(hits) = c
  <2>1. Min(hits) <= c /\ c <= Min(hits) /\ Min(hits) \in Nat
    BY <1>0, <1>3, <1>4, <1>5, <1>6
  <2> QED
    BY <1>0, <2>1
<1>8. IsFound(hits, is)
  BY <1>0, <1>5 DEF IsFound
<1>9. Inside(x, u, is) = Min(hits) + 1 .. End(x, Min(hits))
  BY <1>1, <1>8 DEF Inside
<1> QED
  BY <1>1, <1>7, <1>9

\* The two statements that a path of two goes through.
Through(text, a, d, m, c, g) ==
    /\ c \in 1..Len(text) /\ text[c].is = a /\ \A j \in DOMAIN text : text[j].is = a => c <= j
    /\ g \in c + 1 .. End(text, c) /\ text[g].is = d
    /\ \A j \in c + 1 .. End(text, c) : text[j].is = d => g <= j
    /\ m \in g + 1 .. Len(text) /\ m <= End(text, c)
    /\ \A k \in g + 1 .. m : text[k].indent > text[g].indent
    /\ \A k \in c + 1 .. g : text[k].indent > text[c].indent

LEMMA PathTwo ==
    ASSUME NEW text \in Seq(Lines), NEW a \in Headers, NEW d \in Headers, NEW m \in Scope(text, <<a, d>>)
    PROVE  \E c, g : Through(text, a, d, m, c, g)
<1>1. PICK s : s = Inside(text, DOMAIN text, a)
  OBVIOUS
<1>2. m \in Inside(text, s, d)
  BY <1>1, ScopeTwo
<1>3. DOMAIN text \in SUBSET (1..Len(text)) /\ DOMAIN text \in SUBSET DOMAIN text
  OBVIOUS
<1>4. s \in SUBSET (1..Len(text))
  BY <1>1, <1>3, InsideIn
<1>5. PICK g \in s : /\ g \in 1..Len(text) /\ text[g].is = d
                     /\ Inside(text, s, d) = g + 1 .. End(text, g)
                     /\ m \in g + 1 .. End(text, g) /\ m \in 1..Len(text)
                     /\ text[m].indent > text[g].indent
                     /\ IsFound(Hits(text, s, d), d) /\ g = Min(Hits(text, s, d))
  BY <1>2, <1>4, InsideIs
<1>6. g \in Inside(text, DOMAIN text, a)
  BY <1>1, <1>5
<1>7. PICK c \in DOMAIN text :
                     /\ c \in 1..Len(text) /\ text[c].is = a
                     /\ Inside(text, DOMAIN text, a) = c + 1 .. End(text, c)
                     /\ g \in c + 1 .. End(text, c) /\ g \in 1..Len(text)
                     /\ text[g].indent > text[c].indent
                     /\ IsFound(Hits(text, DOMAIN text, a), a) /\ c = Min(Hits(text, DOMAIN text, a))
  BY <1>3, <1>6, InsideIs
<1>8. ASSUME NEW r \in SUBSET (1..Len(text)), NEW is, NEW j \in r, text[j].is = is
      PROVE  Min(Hits(text, r, is)) <= j
  <2>1. Hits(text, r, is) \in SUBSET Nat /\ j \in Hits(text, r, is)
    <3>1. \A k \in Hits(text, r, is) : k \in r
      BY DEF Hits
    <3>2. \A k \in r : k \in Nat
      OBVIOUS
    <3>3. j \in Hits(text, r, is)
      BY <1>8 DEF Hits
    <3> QED
      BY <3>1, <3>2, <3>3
  <2>2. Hits(text, r, is) # {}
    BY <2>1
  <2> QED
    BY <2>1, <2>2, MinProps
<1>9. \A j \in DOMAIN text : text[j].is = a => c <= j
  BY <1>3, <1>7, <1>8
<1>10. \A j \in c + 1 .. End(text, c) : text[j].is = d => g <= j
  BY <1>1, <1>4, <1>5, <1>7, <1>8
<1>11. /\ \A k \in g + 1 .. End(text, g) : text[k].indent > text[g].indent
       /\ \A k \in c + 1 .. End(text, c) : text[k].indent > text[c].indent
       /\ End(text, c) \in c .. Len(text) /\ End(text, g) \in g .. Len(text)
  BY <1>5, <1>7, EndBounds
<1>12. c \in Nat /\ g \in Nat /\ m \in Nat /\ End(text, c) \in Nat /\ End(text, g) \in Nat /\ Len(text) \in Nat
  BY <1>5, <1>7, <1>11
<1>13. \A k \in g + 1 .. m : text[k].indent > text[g].indent
  BY <1>5, <1>11, <1>12
<1>14. m <= End(text, c)
  <2>1. \A k \in c + 1 .. m : text[k].indent > text[c].indent
    <3> SUFFICES ASSUME NEW k \in c + 1 .. m
                 PROVE  text[k].indent > text[c].indent
      OBVIOUS
    <3>1. CASE k \in c + 1 .. g
      BY <1>7, <1>11, <1>12, <3>1
    <3>2. CASE k \in g + 1 .. m
      <4>1. text[k].indent > text[g].indent /\ text[g].indent > text[c].indent
        BY <1>7, <1>13, <3>2
      <4>2. text[k] \in Lines /\ text[g] \in Lines /\ text[c] \in Lines
        BY <1>5, <1>7, <1>12, <3>2
      <4>3. text[k].indent \in Nat /\ text[g].indent \in Nat /\ text[c].indent \in Nat
        BY ONLY <4>2 DEF Lines
      <4> QED
        BY ONLY <4>1, <4>3
    <3> QED
      BY <1>7, <1>12, <3>1, <3>2
  <2>2. m \in c + 1 .. Len(text)
    BY <1>5, <1>7, <1>12
  <2>3. m \in c + 1 .. End(text, c)
    BY <1>7, <2>1, <2>2, EndCovers
  <2> QED
    BY <1>12, <2>3
<1>15. m \in g + 1 .. Len(text)
  BY <1>5, <1>12
<1>16. \A k \in c + 1 .. g : text[k].indent > text[c].indent
  BY <1>7, <1>11, <1>12
<1> QED
  BY <1>5, <1>7, <1>9, <1>10, <1>13, <1>14, <1>15, <1>16 DEF Through

\* A path leads to the same place, and past it, in a text that agrees up to there.
LEMMA PathAgain ==
    ASSUME NEW text \in Seq(Lines), NEW x \in Seq(Lines), NEW a \in Headers, NEW d \in Headers,
           a \notin Statements, d \notin Statements, NEW m, NEW c, NEW g,
           Through(text, a, d, m, c, g), \A j \in 1 .. m - 1 : x[j] = text[j],
           NEW n \in m .. Len(x), \A k \in m .. n : x[k].indent > text[g].indent
    PROVE  n \in Scope(x, <<a, d>>)
<1>1. /\ c \in 1..Len(text) /\ text[c].is = a /\ \A j \in DOMAIN text : text[j].is = a => c <= j
      /\ g \in c + 1 .. End(text, c) /\ text[g].is = d
      /\ \A j \in c + 1 .. End(text, c) : text[j].is = d => g <= j
      /\ m \in g + 1 .. Len(text) /\ m <= End(text, c)
      /\ \A k \in g + 1 .. m : text[k].indent > text[g].indent
      /\ \A k \in c + 1 .. g : text[k].indent > text[c].indent
  BY DEF Through
<1>2. End(text, c) \in c..Len(text)
  BY <1>1, EndBounds
<1>3. /\ c \in Nat /\ c >= 1 /\ g \in Nat /\ g >= c + 1 /\ m \in Nat /\ m >= g + 1 /\ m <= Len(text)
      /\ Len(text) \in Nat /\ Len(x) \in Nat /\ End(text, c) \in Nat /\ n \in Nat /\ n >= m /\ n <= Len(x)
  <2>1. Len(text) \in Nat /\ Len(x) \in Nat
    OBVIOUS
  <2>2. c \in Nat /\ c >= 1 /\ End(text, c) \in Nat
    BY <1>1, <1>2, <2>1
  <2>3. g \in Nat /\ g >= c + 1
    BY <1>1, <2>2
  <2>4. m \in Nat /\ m >= g + 1 /\ m <= Len(text)
    BY <1>1, <2>1, <2>3
  <2> QED
    BY <2>1, <2>2, <2>3, <2>4
<1>4. x[c] = text[c] /\ x[g] = text[g] /\ c \in 1..Len(x) /\ g \in 1..Len(x)
  <2>1. c \in 1 .. m - 1 /\ g \in 1 .. m - 1 /\ c \in 1..Len(x) /\ g \in 1..Len(x)
    BY ONLY <1>3
  <2> QED
    BY <2>1
<1>5. \A k \in g + 1 .. n : x[k].indent > x[g].indent
  <2> SUFFICES ASSUME NEW k \in g + 1 .. n
               PROVE  x[k].indent > x[g].indent
    OBVIOUS
  <2>1. CASE k < m
    <3>1. k \in 1 .. m - 1 /\ k \in g + 1 .. m
      BY ONLY <1>3, <2>1, k \in g + 1 .. n
    <3> QED
      BY <1>1, <1>4, <3>1
  <2>2. CASE k >= m
    <3>1. k \in m .. n
      BY ONLY <1>3, <2>2, k \in g + 1 .. n
    <3> QED
      BY <1>4, <3>1
  <2> QED
    BY <1>3, <2>1, <2>2
<1>6. n \in g + 1 .. End(x, g)
  <2>1. n \in g + 1 .. Len(x)
    BY ONLY <1>3
  <2> QED
    BY <1>4, <1>5, <2>1, EndCovers
<1>7. \A k \in c + 1 .. g : x[k].indent > x[c].indent
  <2> SUFFICES ASSUME NEW k \in c + 1 .. g
               PROVE  x[k].indent > x[c].indent
    OBVIOUS
  <2>1. k \in 1 .. m - 1
    BY ONLY <1>3, k \in c + 1 .. g
  <2> QED
    BY <1>1, <1>4, <2>1
<1>8. g \in c + 1 .. End(x, c)
  <2>1. g \in c + 1 .. Len(x)
    BY ONLY <1>3
  <2> QED
    BY <1>4, <1>7, <2>1, EndCovers
<1>9. Inside(x, DOMAIN x, a) = c + 1 .. End(x, c)
  <2>1. PICK s, u : s = DOMAIN text /\ u = DOMAIN x
    OBVIOUS
  <2>2. u \in SUBSET (1..Len(x)) /\ c \in u /\ (\A j \in u : j < m => j \in s)
    <3>1. s = 1..Len(text) /\ u = 1..Len(x)
      BY <2>1
    <3> QED
      BY ONLY <1>3, <1>4, <3>1
  <2>3. m \in Nat /\ c \in Nat /\ c < m /\ c >= 1
    BY ONLY <1>3
  <2>4. text[c].is = a /\ \A j \in s : text[j].is = a => c <= j
    BY <1>1, <2>1
  <2>5. Inside(x, u, a) = c + 1 .. End(x, c)
    <3>1. Again(text, x, a, m, s, u, c)
      BY <2>2, <2>3, <2>4 DEF Again
    <3> QED
      BY <3>1, FoundAgain
  <2> QED
    BY <2>1, <2>5
<1>10. Inside(x, Inside(x, DOMAIN x, a), d) = g + 1 .. End(x, g)
  <2>1. PICK s, u : s = c + 1 .. End(text, c) /\ u = c + 1 .. End(x, c)
    OBVIOUS
  <2>2. u \in SUBSET (1..Len(x)) /\ g \in u /\ (\A j \in u : j < m => j \in s)
    <3>1. End(x, c) \in c .. Len(x)
      BY <1>4, EndBounds
    <3>2. m <= End(text, c)
      BY <1>1
    <3> QED
      BY ONLY <1>3, <1>8, <2>1, <3>1, <3>2
  <2>3. m \in Nat /\ g \in Nat /\ g < m /\ g >= 1
    BY ONLY <1>3
  <2>4. text[g].is = d /\ \A j \in s : text[j].is = d => g <= j
    BY <1>1, <2>1
  <2>5. Inside(x, u, d) = g + 1 .. End(x, g)
    <3>1. Again(text, x, d, m, s, u, g)
      BY <2>2, <2>3, <2>4 DEF Again
    <3> QED
      BY <3>1, FoundAgain
  <2> QED
    BY <1>9, <2>1, <2>5
<1>11. Scope(x, <<a, d>>) = g + 1 .. End(x, g)
  BY <1>10, ScopeTwo
<1> QED
  BY <1>6, <1>11

\* Lines before a statement, and a new first line of it.
LEMMA BeforeThenHeader ==
    ASSUME NEW text \in Seq(Lines), text # NotFound, NEW b, NEW h, EditOK(b), EditOK(h),
           b.how = "before", h.how = "header", NEW a \in Headers, NEW d \in Headers,
           a \notin Statements, d \notin Statements, NEW path, path = <<a, d>>, b.path = path,
           h.path = path, b.find \in Statements, h.find = b.find,
           NEW n \in Nat, Indented(text, d, n),
           NEW p \in Lines, NEW q \in Lines, NEW r \in Lines, NEW s \in Lines,
           b.new = <<p, q, r>>, h.new = <<s>>, "original" \notin {p.is, q.is, r.is, s.is},
           p.indent > n, q.indent > n, r.indent > n,
           Edit(text, b) # NotFound, Edit(Edit(text, b), h) # NotFound
    PROVE  Directly(Edit(Edit(text, b), h), r.is, s.is)
<1>1. Len(b.new) = 3 /\ b.new[1] = p /\ b.new[2] = q /\ b.new[3] = r /\ Len(h.new) = 1 /\ h.new[1] = s
  BY ONLY b.new = <<p, q, r>>, h.new = <<s>>
<1>2. /\ b.how \in Spanning \ {"here", "body"} /\ h.how \in Spanning \ {"here", "body"}
      /\ \A k \in 1..Len(b.new) : b.new[k].is # "original"
      /\ \A k \in 1..Len(h.new) : h.new[k].is # "original"
  <2>1. (\A k \in 1..Len(b.new) : k = 1 \/ k = 2 \/ k = 3) /\ (\A k \in 1..Len(h.new) : k = 1)
    BY ONLY <1>1
  <2> QED
    BY <1>1, <2>1 DEF Spanning
<1>3. PICK i, first, last, kept, new :
              /\ Edited(text, b, i, first, last, kept, new, Edit(text, b))
              /\ Len(new) = Len(b.new)
              /\ \A k \in 1..Len(new) : new[k].is = b.new[k].is /\ new[k].indent = b.new[k].indent
  BY <1>2, PlainNew
<1>4. PICK x : x = Edit(text, b)
  OBVIOUS
<1>5. /\ i \in 1..Len(text) /\ text[i].is = b.find /\ i = Place(text, b) /\ first = i /\ last = i - 1
      /\ new \in Seq(Lines) /\ Spliced(text, first, last, new, x)
  BY <1>3, <1>4 DEF Edited
<1>6. /\ Len(new) = 3 /\ new[3].is = r.is /\ \A k \in 1..3 : new[k].indent > n
  <2>1. Len(new) = 3
    BY <1>1, <1>3
  <2>2. 1 \in 1..Len(new) /\ 2 \in 1..Len(new) /\ 3 \in 1..Len(new)
    BY ONLY <2>1
  <2>3. new[1].indent > n /\ new[2].indent > n /\ new[3].indent > n /\ new[3].is = r.is
    BY <1>1, <1>3, <2>2
  <2>4. \A k \in 1..3 : k = 1 \/ k = 2 \/ k = 3
    OBVIOUS
  <2> QED
    BY <2>1, <2>3, <2>4
<1>7. /\ x \in Seq(Lines) /\ Len(x) = Len(text) + 3 /\ x # NotFound
      /\ \A j \in 1 .. i - 1 : x[j] = text[j]
      /\ x[i] = new[1] /\ x[i + 1] = new[2] /\ x[i + 2] = new[3] /\ x[i + 3] = text[i]
  <2>1. /\ x \in Seq(Lines) /\ Len(x) = Len(text) + Len(new) - (last + 1 - first)
        /\ \A j \in 1 .. first - 1 : x[j] = text[j]
        /\ \A k \in 1 .. Len(new) : x[first - 1 + k] = new[k]
        /\ \A k \in last + 1 .. Len(text) : x[k + Len(new) - (last + 1 - first)] = text[k]
    BY <1>5 DEF Spliced
  <2>2. Len(new) = 3 /\ i \in Nat /\ i <= Len(text) /\ Len(text) \in Nat /\ first = i /\ last = i - 1 /\ i >= 1
    BY <1>5, <1>6
  <2>3. /\ first - 1 + 1 = i /\ first - 1 + 2 = i + 1 /\ first - 1 + 3 = i + 2
        /\ i + Len(new) - (last + 1 - first) = i + 3 /\ i \in last + 1 .. Len(text)
        /\ 1 \in 1..Len(new) /\ 2 \in 1..Len(new) /\ 3 \in 1..Len(new)
        /\ Len(text) + Len(new) - (last + 1 - first) = Len(text) + 3
    BY ONLY <2>2
  <2>4. x[first - 1 + 1] = new[1] /\ x[first - 1 + 2] = new[2] /\ x[first - 1 + 3] = new[3]
    BY ONLY <2>1, <2>3
  <2>5. x[i + Len(new) - (last + 1 - first)] = text[i]
    BY ONLY <2>1, <2>3
  <2>6. \A j \in 1 .. i - 1 : x[j] = text[j]
    BY ONLY <2>1, <2>2
  <2> QED
    BY <1>4, <2>1, <2>3, <2>4, <2>5, <2>6
<1>25. i \in Nat /\ i >= 1 /\ i <= Len(text) /\ Len(text) \in Nat /\ Len(x) = Len(text) + 3
  <2>1. Len(text) \in Nat
    BY ONLY text \in Seq(Lines)
  <2>2. i \in 1..Len(text) /\ Len(x) = Len(text) + 3
    BY <1>5, <1>7
  <2> QED
    BY ONLY <2>1, <2>2
<1>8. i \in Scope(text, <<a, d>>)
  <2>1. b.how \in Spanning \cup {"around"}
    BY <1>2
  <2> QED
    BY <1>5, <2>1, PlaceDeep
<1>9. PICK c, g : Through(text, a, d, i, c, g)
  BY <1>8, PathTwo
<1>10. /\ g \in 1..Len(text) /\ text[g].is = d /\ i \in g + 1 .. Len(text)
       /\ \A k \in g + 1 .. i : text[k].indent > text[g].indent
  <2>1. /\ g \in c + 1 .. End(text, c) /\ text[g].is = d /\ i \in g + 1 .. Len(text) /\ c \in 1..Len(text)
        /\ \A k \in g + 1 .. i : text[k].indent > text[g].indent
    BY <1>9 DEF Through
  <2>2. End(text, c) \in c .. Len(text)
    BY <2>1, EndBounds
  <2> QED
    BY <2>1, <2>2
<1>11. text[g].indent = n /\ text[i].indent > n
  <2>1. text[g].indent = n
    BY <1>10 DEF Indented
  <2>2. i \in g + 1 .. i
    BY <1>10
  <2> QED
    BY <1>10, <2>1, <2>2
<1>12. PICK l \in i .. Len(x) : l = i + 3
  <2>1. i + 3 \in i .. Len(x)
    BY ONLY <1>25
  <2> QED
    BY <2>1
<1>13. \A k \in i .. l : x[k].indent > text[g].indent
  <2>1. \A k \in i .. l : k = i \/ k = i + 1 \/ k = i + 2 \/ k = i + 3
    <3>1. i \in Nat /\ l = i + 3
      BY <1>5, <1>12
    <3> QED
      BY ONLY <3>1
  <2>2. 1 \in 1..3 /\ 2 \in 1..3 /\ 3 \in 1..3
    OBVIOUS
  <2> QED
    BY <1>6, <1>7, <1>11, <2>1, <2>2
<1>14. l \in Scope(x, <<a, d>>)
  BY <1>7, <1>9, <1>13, PathAgain
<1>15. Place(x, h) = l
  <2>1. PICK hits : hits = Hits(x, Scope(x, h.path), h.find)
    OBVIOUS
  <2>2. l \in hits
    BY <1>5, <1>7, <1>12, <1>14, <2>1 DEF Hits
  <2>3. Found(x, h)
    <3>1. h.how \in Spanning \cup {"around"} /\ Edit(x, h) # NotFound
      BY <1>2, <1>4
    <3> QED
      BY <1>7, <3>1, PlaceDeep
  <2>4. Cardinality(hits) = 1
    BY <2>1, <2>3 DEF Found, IsFound
  <2>5. hits \in SUBSET (1..Len(x)) /\ Len(x) \in Nat
    <3>1. h.path \in Seq(Headers)
      BY DEF EditOK
    <3>4. Scope(x, h.path) \in SUBSET DOMAIN x
      BY <1>7, <3>1, ScopeIn
    <3>5. DOMAIN x = 1..Len(x) /\ Len(x) \in Nat
      <4>1. x \in Seq(Lines)
        BY <1>7
      <4> QED
        BY ONLY <4>1
    <3>2. Scope(x, h.path) \in SUBSET DOMAIN x /\ DOMAIN x = 1..Len(x) /\ Len(x) \in Nat
      BY ONLY <3>4, <3>5
    <3>3. \A k \in hits : k \in Scope(x, h.path)
      BY <2>1 DEF Hits
    <3> QED
      BY <3>2, <3>3
  <2>6. Min(hits) = l
    BY <2>2, <2>4, <2>5, OnlyHit
  <2> QED
    BY <2>1, <2>6 DEF Place
<1>16. PICK f, first2, last2, kept2, new2 :
              /\ Edited(x, h, f, first2, last2, kept2, new2, Edit(x, h))
              /\ Len(new2) = Len(h.new)
              /\ \A k \in 1..Len(new2) : new2[k].is = h.new[k].is /\ new2[k].indent = h.new[k].indent
  BY <1>2, <1>4, <1>7, PlainNew
<1>17. PICK y : y = Edit(x, h)
  OBVIOUS
<1>18. /\ first2 = l /\ last2 = l /\ new2 \in Seq(Lines) /\ Spliced(x, first2, last2, new2, y)
  BY <1>15, <1>16, <1>17 DEF Edited
<1>19. Len(new2) = 1 /\ new2[1].is = s.is
  <2>1. Len(new2) = 1
    BY <1>1, <1>16
  <2>2. 1 \in 1..Len(new2)
    BY ONLY <2>1
  <2> QED
    BY <1>1, <1>16, <2>1, <2>2
<1>20. y \in Seq(Lines) /\ Len(y) = Len(x) /\ y[l] = new2[1] /\ y[l - 1] = x[l - 1]
  <2>1. /\ y \in Seq(Lines) /\ Len(y) = Len(x) + Len(new2) - (last2 + 1 - first2)
        /\ \A j \in 1 .. first2 - 1 : y[j] = x[j]
        /\ \A k \in 1 .. Len(new2) : y[first2 - 1 + k] = new2[k]
    BY <1>18 DEF Spliced
  <2>2. l \in Nat /\ l >= 2 /\ Len(x) \in Nat /\ Len(new2) = 1 /\ first2 = l /\ last2 = l
    <3>1. l = i + 3
      BY <1>12
    <3>2. Len(new2) = 1 /\ first2 = l /\ last2 = l
      BY <1>18, <1>19
    <3> QED
      BY ONLY <1>25, <3>1, <3>2
  <2>3. /\ Len(x) + Len(new2) - (last2 + 1 - first2) = Len(x) /\ first2 - 1 + 1 = l
        /\ l - 1 \in 1 .. first2 - 1 /\ 1 \in 1..Len(new2)
    BY ONLY <2>2
  <2>4. y[first2 - 1 + 1] = new2[1] /\ y[l - 1] = x[l - 1]
    BY ONLY <2>1, <2>3
  <2> QED
    BY <2>1, <2>3, <2>4
<1>21. x[l - 1] = new[3]
  <2>1. l - 1 = i + 2
    <3>1. i \in Nat /\ l = i + 3
      BY <1>5, <1>12
    <3> QED
      BY ONLY <3>1
  <2> QED
    BY <1>7, <2>1
<1>22. l \in 2..Len(y)
  <2>1. Len(y) = Len(x) /\ l = i + 3
    BY <1>12, <1>20
  <2> QED
    BY ONLY <1>25, <2>1
<1>23. y[l - 1].is = r.is /\ y[l].is = s.is
  BY <1>6, <1>19, <1>20, <1>21
<1>24. Directly(y, r.is, s.is)
  BY ONLY <1>22, <1>23 DEF Directly
<1> QED
  BY <1>4, <1>17, <1>24

-----------------------------------------------------------------------------
(* A word that only one line has.                                          *)

\* A new first line with a word the text has not is the only one with it.
LEMMA HeaderIndents ==
    ASSUME NEW text \in Seq(Lines), text # NotFound, NEW e, EditOK(e), e.how = "header",
           NEW word, WordsOf(e.new) = {word}, NEW n, Len(e.new) = 1, e.new[1].indent = n,
           word # "original", word \notin WordsOf(text), Edit(text, e) # NotFound
    PROVE  Indented(Edit(text, e), word, n)
<1>1. \A k \in 1..Len(e.new) : k = 1 /\ e.new[k].indent = n /\ e.new[k].is = word
  <2>1. \A k \in 1..Len(e.new) : k = 1
    BY ONLY Len(e.new) = 1
  <2>2. DOMAIN e.new = 1..Len(e.new)
    BY DEF EditOK
  <2>3. \A k \in 1..Len(e.new) : e.new[k].is \in WordsOf(e.new)
    BY <2>2 DEF WordsOf
  <2> QED
    BY <2>1, <2>3
<1>2. e.how \in Spanning \ {"here", "body"} /\ \A k \in 1..Len(e.new) : e.new[k].is # "original"
  BY <1>1 DEF Spanning
<1>3. PICK i, first, last, kept, new :
              /\ Edited(text, e, i, first, last, kept, new, Edit(text, e))
              /\ Len(new) = Len(e.new)
              /\ \A k \in 1..Len(new) : new[k].is = e.new[k].is /\ new[k].indent = e.new[k].indent
  BY <1>2, PlainNew
<1>4. PICK x : x = Edit(text, e)
  OBVIOUS
<1>5. IsSpan(text, first, last) /\ new \in Seq(Lines) /\ Spliced(text, first, last, new, x)
  BY <1>3, <1>4 DEF Edited
<1>6. \A k \in 1..Len(new) : new[k].indent = n
  BY <1>1, <1>3
<1>7. \A i2 \in 1..Len(text) : text[i2].is # word
  <2>1. DOMAIN text = 1..Len(text)
    OBVIOUS
  <2> QED
    BY <2>1 DEF WordsOf
<1>8. ASSUME NEW j \in 1..Len(x), x[j].is = word
      PROVE  x[j].indent = n
  <2>1. \/ \E k \in 1..Len(new) : j = first - 1 + k /\ x[j] = new[k]
        \/ \E i2 \in 1..Len(text) : /\ i2 \notin first..last /\ x[j] = text[i2]
                                    /\ j = Moved(i2, first, last, Len(new))
    BY <1>5, SplicedBack
  <2>2. ASSUME NEW k \in 1..Len(new), x[j] = new[k]
        PROVE  x[j].indent = n
    BY <1>6, <2>2
  <2> QED
    BY <1>7, <1>8, <2>1, <2>2
<1> QED
  BY <1>4, <1>8 DEF Indented
=============================================================================
