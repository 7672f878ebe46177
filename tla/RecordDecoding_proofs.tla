------------------------ MODULE RecordDecoding_proofs ------------------------
(***************************************************************************)
(* Lemmas about the decoder that both tails rest on, for any stream whose    *)
(* records are numbered one after the other: a decoder that starts where a    *)
(* record starts finds the records in between, and stops where one starts.     *)
(*                                                                         *)
(* The library states induction for an operator, which the provers cannot     *)
(* instantiate; a set of numbers and its least element serve as well.          *)
(***************************************************************************)
EXTENDS RecordDecoding, SequenceTheorems, FiniteSetTheorems, TLAPS

-----------------------------------------------------------------------------
(* Least and greatest numbers.                                              *)

LEMMA HasLeast ==
    ASSUME NEW T \in SUBSET Nat, T # {}
    PROVE  \E x \in T : \A y \in T : x <= y
<1>1. PICK x \in T : \A y \in T : <<y, x>> \notin OpToRel(<, Nat)
  BY NatLessThanWellFounded, WFMin
<1>2. \A y \in T : ~(y < x)
  BY <1>1 DEF OpToRel
<1> QED
  BY <1>2

LEMMA HasGreatest ==
    ASSUME NEW b \in Nat, NEW T \in SUBSET (0..b), T # {}
    PROVE  \E x \in T : \A y \in T : y <= x
<1> DEFINE U == {b - x : x \in T}
<1>1. U \in SUBSET Nat /\ U # {}
  <2>1. \A x \in T : b - x \in Nat
    OBVIOUS
  <2>2. PICK x \in T : TRUE
    OBVIOUS
  <2>3. b - x \in U
    OBVIOUS
  <2> QED
    BY <2>1, <2>3
<1>2. PICK u \in U : \A v \in U : u <= v
  <2> HIDE DEF U
  <2> QED
    BY <1>1, HasLeast
<1>3. PICK x \in T : u = b - x
  OBVIOUS
<1>4. ASSUME NEW y \in T
      PROVE  y <= x
  <2>1. b - y \in U
    OBVIOUS
  <2>2. b - x <= b - y
    BY <1>2, <1>3, <2>1
  <2> QED
    BY <2>2
<1> QED
  BY <1>4

LEMMA MaxProps ==
    ASSUME NEW b \in Nat, NEW T \in SUBSET (0..b), T # {}
    PROVE  Max(T) \in T /\ \A y \in T : y <= Max(T)
<1>1. \E x \in T : \A y \in T : x >= y
  BY HasGreatest
<1>2. Max(T) \in T /\ \A y \in T : Max(T) >= y
  BY <1>1 DEF Max
<1> QED
  BY <1>2

-----------------------------------------------------------------------------
(* Records in order.                                                        *)

\* The numbers a .. a + n - 1 in order.
Run(a, n) == [i \in 1..n |-> a + i - 1]

\* A sequence of n numbers from a .. a + n - 1 that rises leaves none out.
LEMMA RisingIsRun ==
    ASSUME NEW a \in Nat, NEW n \in Nat, NEW s \in [1..n -> a .. a + n - 1],
           \A i \in 1..n - 1 : s[i] < s[i + 1]
    PROVE  s = Run(a, n)
<1>1. ASSUME NEW i \in 1..n
      PROVE  s[i] >= a + i - 1
  <2> DEFINE T == {j \in 1..n : s[j] < a + j - 1}
  <2>1. CASE T = {}
    <3>1. i \notin T /\ s[i] \in a .. a + n - 1
      BY <2>1
    <3> QED
      BY <3>1
  <2>2. CASE T # {}
    <3>1. PICK j \in T : \A k \in T : j <= k
      <4>1. T \in SUBSET Nat
        OBVIOUS
      <4> HIDE DEF T
      <4> QED
        BY <2>2, <4>1, HasLeast
    <3>2. j \in 1..n /\ s[j] < a + j - 1 /\ s[j] \in a .. a + n - 1
      BY <3>1
    <3>3. j - 1 \in 1..n - 1
      BY <3>2
    <3>4. s[j - 1] < s[j]
      <4>1. (j - 1) + 1 = j
        BY <3>2
      <4> QED
        BY <3>3, <4>1
    <3>5. j - 1 \in 1..n /\ s[j - 1] \in a .. a + n - 1
      BY <3>3
    <3>6. j - 1 \in T
      BY <3>2, <3>4, <3>5
    <3> QED
      BY <3>1, <3>2, <3>6
  <2> QED
    BY <2>1, <2>2
<1>2. ASSUME NEW i \in 1..n
      PROVE  s[i] <= a + i - 1
  <2> DEFINE T == {j \in 1..n : s[j] > a + j - 1}
  <2>1. CASE T = {}
    <3>1. i \notin T /\ s[i] \in a .. a + n - 1
      BY <2>1
    <3> QED
      BY <3>1
  <2>2. CASE T # {}
    <3>1. PICK j \in T : \A k \in T : k <= j
      <4>1. T \in SUBSET (0..n)
        OBVIOUS
      <4> HIDE DEF T
      <4> QED
        BY <2>2, <4>1, HasGreatest
    <3>2. j \in 1..n /\ s[j] > a + j - 1 /\ s[j] \in a .. a + n - 1
      BY <3>1
    <3>3. j \in 1..n - 1 /\ j + 1 \in 1..n
      BY <3>2
    <3>4. s[j] < s[j + 1] /\ s[j + 1] \in a .. a + n - 1
      BY <3>3
    <3>5. j + 1 \in T
      BY <3>2, <3>3, <3>4
    <3> QED
      BY <3>1, <3>2, <3>5
  <2> QED
    BY <2>1, <2>2
<1>3. \A i \in 1..n : s[i] = a + i - 1
  <2> TAKE i \in 1..n
  <2>1. s[i] \in Int /\ a + i - 1 \in Int
    <3>1. s[i] \in a .. a + n - 1
      OBVIOUS
    <3> QED
      BY <3>1
  <2>2. s[i] >= a + i - 1 /\ s[i] <= a + i - 1
    BY <1>1, <1>2
  <2> QED
    BY ONLY <2>1, <2>2
<1> QED
  BY <1>3 DEF Run

LEMMA RunProps ==
    ASSUME NEW a \in Nat, NEW n \in Nat
    PROVE  /\ Run(a, n) \in Seq(Nat) /\ Len(Run(a, n)) = n
           /\ \A i \in 1..n : Run(a, n)[i] = a + i - 1
BY DEF Run

\* The records of an interval, in order.
LEMMA InOrderIsRun ==
    ASSUME NEW a \in Nat, NEW n \in Nat
    PROVE  InOrder(a .. a + n - 1) = Run(a, n)
<1> DEFINE S == a .. a + n - 1
           Rises(s) == s \in [1..n -> S] /\ \A i \in 1..Len(s) - 1 : s[i] < s[i + 1]
<1>1. Cardinality(S) = n
  BY FS_Interval
<1>2. Rises(Run(a, n))
  BY RunProps DEF Run
<1>3. InOrder(S) = CHOOSE s \in [1..n -> S] : \A i \in 1..Len(s) - 1 : s[i] < s[i + 1]
  BY <1>1 DEF InOrder
<1>4. Rises(InOrder(S))
  BY <1>2, <1>3
<1>5. Len(InOrder(S)) = n
  BY <1>4
<1> QED
  BY <1>4, <1>5, RisingIsRun

\* Runs that follow each other, and the beginning of a run.
LEMMA RunsJoin ==
    ASSUME NEW a \in Nat, NEW m \in Nat, NEW n \in Nat
    PROVE  Run(a, m) \o Run(a + m, n) = Run(a, m + n)
<1> DEFINE s == Run(a, m)
           t == Run(a + m, n)
           u == Run(a, m + n)
<1>1. s \in Seq(Nat) /\ Len(s) = m /\ \A i \in 1..m : s[i] = a + i - 1
  BY RunProps
<1>2. t \in Seq(Nat) /\ Len(t) = n /\ \A i \in 1..n : t[i] = a + m + i - 1
  <2>1. a + m \in Nat
    OBVIOUS
  <2> QED
    BY <2>1, RunProps
<1>3. u \in Seq(Nat) /\ Len(u) = m + n /\ \A i \in 1..m + n : u[i] = a + i - 1
  <2>1. m + n \in Nat
    OBVIOUS
  <2> QED
    BY <2>1, RunProps
<1> HIDE DEF s, t, u
<1>4. /\ s \o t \in Seq(Nat) /\ Len(s \o t) = m + n
      /\ \A i \in 1..m + n : (s \o t)[i] = IF i <= m THEN s[i] ELSE t[i - m]
  <2>1. s \o t \in Seq(Nat)
    BY <1>1, <1>2, ConcatProperties
  <2>2. Len(s \o t) = m + n
    BY <1>1, <1>2, ConcatProperties
  <2>3. \A i \in 1..m + n : (s \o t)[i] = IF i <= m THEN s[i] ELSE t[i - m]
    BY <1>1, <1>2, ConcatProperties
  <2> QED
    BY <2>1, <2>2, <2>3
<1>5. \A i \in 1..m + n : (s \o t)[i] = u[i]
  <2> TAKE i \in 1..m + n
  <2>1. CASE i <= m
    <3>1. i \in 1..m
      BY <2>1
    <3> QED
      BY <1>1, <1>3, <1>4, <2>1, <3>1
  <2>2. CASE i > m
    <3>1. i - m \in 1..n /\ a + m + (i - m) - 1 = a + i - 1 /\ ~(i <= m)
      BY <2>2
    <3>2. (s \o t)[i] = t[i - m]
      BY <1>4, <3>1
    <3>3. t[i - m] = a + m + (i - m) - 1
      BY <1>2, <3>1
    <3> QED
      BY <1>3, <3>1, <3>2, <3>3
  <2>3. i <= m \/ i > m
    OBVIOUS
  <2> QED
    BY <2>1, <2>2, <2>3
<1>6. s \o t = u
  BY <1>3, <1>4, <1>5, SeqEqual
<1> QED
  BY <1>6 DEF s, t, u

LEMMA RunPrefix ==
    ASSUME NEW a \in Nat, NEW n \in Nat, NEW m \in 0..n
    PROVE  SubSeq(Run(a, n), 1, m) = Run(a, m)
<1>1. /\ Run(a, m) \in Seq(Nat) /\ Len(Run(a, m)) = m
      /\ \A i \in 1..m : Run(a, m)[i] = a + i - 1
  BY RunProps
<1>2. /\ Run(a, n) \in Seq(Nat) /\ Len(Run(a, n)) = n
      /\ \A i \in 1..n : Run(a, n)[i] = a + i - 1
  BY RunProps
<1>3. SubSeq(Run(a, n), 1, m) = [i \in 1..m |-> Run(a, n)[i]]
  BY <1>2
<1> QED
  BY <1>2, <1>3 DEF Run

-----------------------------------------------------------------------------
(* Streams.                                                                 *)

\* The records of a stream have consecutive numbers, and so its bytes.
Numbered(s) ==
    /\ s \in Seq(Nat)
    /\ \A i, j \in 1..Len(s) : i <= j => s[i] <= s[j]
    /\ \A i \in 1..Len(s) : \A r \in s[1] .. s[i] : \E j \in 1..Len(s) : s[j] = r

\* A record ends with the n-th byte, or none was begun.
Boundary(s, n) == n = 0 \/ n = Len(s) \/ s[n] # s[n + 1]

\* The first record that has no byte among the first n.
NextAt(s, n) == IF n = 0 THEN s[1] ELSE s[n] + 1

LEMMA BoundaryNext ==
    ASSUME NEW s, Numbered(s), NEW n \in 0..Len(s), n < Len(s), Boundary(s, n)
    PROVE  s[n + 1] = NextAt(s, n) /\ s[1] <= NextAt(s, n) /\ NextAt(s, n) \in Nat
<1>1. /\ s \in Seq(Nat) /\ Len(s) \in Nat /\ \A i \in 1..Len(s) : s[i] \in Nat
      /\ \A i, j \in 1..Len(s) : i <= j => s[i] <= s[j]
      /\ \A i \in 1..Len(s) : \A r \in s[1] .. s[i] : \E j \in 1..Len(s) : s[j] = r
  BY ElementOfSeq, LenProperties DEF Numbered
<1>2. CASE n = 0
  <2>1. 1 \in 1..Len(s) /\ n + 1 = 1
    BY <1>1, <1>2
  <2> QED
    BY <1>1, <1>2, <2>1 DEF NextAt
<1>3. CASE n # 0
  <2>1. n \in 1..Len(s) /\ n + 1 \in 1..Len(s) /\ 1 \in 1..Len(s)
    BY <1>1, <1>3
  <2>2. s[n] \in Nat /\ s[n + 1] \in Nat /\ s[1] \in Nat /\ s[1] <= s[n]
    BY <1>1, <2>1
  <2>3. s[n] <= s[n + 1]
    BY <1>1, <2>1
  <2>4. s[n] < s[n + 1]
    BY <1>1, <1>3, <2>2, <2>3 DEF Boundary
  <2> DEFINE r == s[n] + 1
  <2>5. r \in s[1] .. s[n + 1]
    BY <2>2, <2>4
  <2> HIDE DEF r
  <2>6. PICK j \in 1..Len(s) : s[j] = r
    BY <1>1, <2>1, <2>5
  <2>7. ~(j <= n)
    <3>1. j <= n => s[j] <= s[n]
      BY <1>1, <2>1
    <3> QED
      BY <2>2, <2>6, <3>1 DEF r
  <2>8. s[n + 1] <= s[j]
    <3>1. n + 1 <= j
      BY <1>1, <2>7
    <3> QED
      BY <1>1, <2>1, <3>1
  <2>9. s[n + 1] = s[n] + 1
    BY <2>2, <2>4, <2>6, <2>8 DEF r
  <2> QED
    BY <1>3, <2>2, <2>9 DEF NextAt
<1> QED
  BY <1>2, <1>3

\* The last byte of a record.
LEMMA LastByte ==
    ASSUME NEW s, Numbered(s), NEW k \in 1..Len(s)
    PROVE  \E m \in 1..Len(s) : s[m] = s[k] /\ Boundary(s, m)
<1> DEFINE T == {m \in 1..Len(s) : s[m] = s[k]}
<1>1. Len(s) \in Nat
  BY LenProperties DEF Numbered
<1>2. T \in SUBSET (0..Len(s)) /\ T # {}
  BY <1>1
<1>3. PICK m \in T : \A x \in T : x <= m
  <2> HIDE DEF T
  <2> QED
    BY <1>1, <1>2, HasGreatest
<1>4. m \in 1..Len(s) /\ s[m] = s[k]
  OBVIOUS
<1>5. m # Len(s) => s[m + 1] # s[m]
  <2> SUFFICES ASSUME m # Len(s), s[m + 1] = s[m] PROVE FALSE
    OBVIOUS
  <2>1. m + 1 \in T
    BY <1>1, <1>4
  <2> QED
    BY <1>3, <1>4, <2>1
<1> QED
  BY <1>4, <1>5 DEF Boundary

\* The records between two boundaries are those with a byte in between.
LEMMA RecordsBetween ==
    ASSUME NEW s, Numbered(s), NEW m \in 0..Len(s), NEW n \in 0..Len(s), m <= n,
           Boundary(s, m), Boundary(s, n), s # <<>>
    PROVE  /\ NextAt(s, m) \in Nat /\ NextAt(s, n) \in Nat /\ NextAt(s, m) <= NextAt(s, n)
           /\ \A i \in m + 1 .. n : s[i] \in NextAt(s, m) .. NextAt(s, n) - 1
           /\ \A r \in NextAt(s, m) .. NextAt(s, n) - 1 : \E i \in m + 1 .. n :
                 s[i] = r /\ Boundary(s, i)
<1>1. /\ s \in Seq(Nat) /\ Len(s) \in Nat /\ \A i \in 1..Len(s) : s[i] \in Nat
      /\ \A i, j \in 1..Len(s) : i <= j => s[i] <= s[j]
      /\ \A i \in 1..Len(s) : \A r \in s[1] .. s[i] : \E j \in 1..Len(s) : s[j] = r
  BY ElementOfSeq, LenProperties DEF Numbered
<1>2. 1 \in 1..Len(s)
  BY <1>1, EmptySeq
<1>3. \A k \in 0..Len(s) : NextAt(s, k) \in Nat /\ s[1] <= NextAt(s, k)
  <2> TAKE k \in 0..Len(s)
  <2>1. CASE k = 0
    BY <1>1, <1>2, <2>1 DEF NextAt
  <2>2. CASE k # 0
    <3>1. k \in 1..Len(s) /\ 1 <= k
      BY <2>2
    <3>2. s[k] \in Nat /\ s[1] \in Nat /\ s[1] <= s[k]
      BY <1>1, <1>2, <3>1
    <3> QED
      BY <2>2, <3>2 DEF NextAt
  <2> QED
    BY <2>1, <2>2
<1>4. ASSUME NEW i \in m + 1 .. n
      PROVE  s[i] \in NextAt(s, m) .. NextAt(s, n) - 1
  <2>1. m < Len(s) /\ m + 1 \in 1..Len(s) /\ i \in 1..Len(s) /\ m + 1 <= i /\ i <= n
        /\ n # 0 /\ n \in 1..Len(s)
    BY <1>1
  <2>2. s[m + 1] = NextAt(s, m)
    BY <2>1, BoundaryNext
  <2>3. s[m + 1] <= s[i] /\ s[i] <= s[n] /\ s[i] \in Nat /\ s[n] \in Nat
    BY <1>1, <2>1
  <2>4. NextAt(s, n) = s[n] + 1
    BY <2>1 DEF NextAt
  <2> QED
    BY <1>3, <2>2, <2>3, <2>4
<1>5. ASSUME NEW r \in NextAt(s, m) .. NextAt(s, n) - 1
      PROVE  \E i \in m + 1 .. n : s[i] = r /\ Boundary(s, i)
  <2>1. n # 0 /\ n \in 1..Len(s)
    <3>1. n = 0 => m = 0
      BY <1>1
    <3>2. NextAt(s, m) # NextAt(s, n)
      BY <1>3
    <3> QED
      BY <1>1, <3>1, <3>2
  <2>2. NextAt(s, n) = s[n] + 1 /\ s[n] \in Nat /\ s[1] \in Nat
    BY <1>1, <1>2, <2>1 DEF NextAt
  <2>3. r \in s[1] .. s[n]
    BY <1>3, <2>2
  <2>4. PICK k \in 1..Len(s) : s[k] = r
    BY <1>1, <2>1, <2>3
  <2>5. PICK i \in 1..Len(s) : s[i] = r /\ Boundary(s, i)
    BY <2>4, LastByte
  <2>6. i > m
    <3> SUFFICES ASSUME i <= m PROVE FALSE
      BY <1>1
    <3>1. m \in 1..Len(s)
      BY <1>1
    <3>2. s[i] <= s[m] /\ NextAt(s, m) = s[m] + 1 /\ s[m] \in Nat
      BY <1>1, <3>1 DEF NextAt
    <3> QED
      BY <2>3, <2>5, <3>2
  <2>7. i <= n
    <3> SUFFICES ASSUME n < i PROVE FALSE
      BY <1>1
    <3>1. n < Len(s) /\ n + 1 \in 1..Len(s) /\ n + 1 <= i
      BY <1>1, <2>1
    <3>2. s[n + 1] = NextAt(s, n)
      BY <3>1, BoundaryNext
    <3>3. s[n + 1] <= s[i]
      BY <1>1, <3>1
    <3> QED
      BY <2>2, <2>3, <2>5, <3>2, <3>3
  <2> QED
    BY <2>5, <2>6, <2>7, <1>1
<1>6. NextAt(s, m) <= NextAt(s, n)
  <2>1. CASE m = n
    BY <1>3, <2>1
  <2>2. CASE m # n
    <3>1. m + 1 \in m + 1 .. n
      BY <1>1, <2>2
    <3>2. s[m + 1] \in NextAt(s, m) .. NextAt(s, n) - 1
      BY <1>4, <3>1
    <3> QED
      BY <1>3, <3>2
  <2> QED
    BY <2>1, <2>2
<1> QED
  BY <1>3, <1>4, <1>5, <1>6

\* s is the beginning of t.
Begins(s, t) ==
    /\ s \in Seq(Nat) /\ t \in Seq(Nat) /\ Len(s) <= Len(t)
    /\ \A i \in 1..Len(s) : t[i] = s[i]

\* t is s and one record more.
OneMore(s, t) ==
    /\ Begins(s, t) /\ Len(s) < Len(t)
    /\ \A i \in Len(s) + 1 .. Len(t) : t[i] = t[Len(s) + 1]
    /\ s # <<>> => t[Len(s) + 1] = s[Len(s)] + 1

LEMMA OneMoreNumbered ==
    ASSUME NEW s, NEW t, Numbered(s), OneMore(s, t)
    PROVE  Numbered(t)
<1> DEFINE b == t[Len(s) + 1]
<1>1. /\ s \in Seq(Nat) /\ Len(s) \in Nat /\ \A i \in 1..Len(s) : s[i] \in Nat
      /\ \A i, j \in 1..Len(s) : i <= j => s[i] <= s[j]
      /\ \A i \in 1..Len(s) : \A r \in s[1] .. s[i] : \E j \in 1..Len(s) : s[j] = r
  BY ElementOfSeq, LenProperties DEF Numbered
<1>2. /\ t \in Seq(Nat) /\ Len(t) \in Nat /\ Len(s) < Len(t) /\ \A i \in 1..Len(t) : t[i] \in Nat
      /\ \A i \in 1..Len(s) : t[i] = s[i]
      /\ \A i \in Len(s) + 1 .. Len(t) : t[i] = b
      /\ s # <<>> => b = s[Len(s)] + 1
  BY ElementOfSeq, LenProperties DEF OneMore, Begins
<1>3. b \in Nat /\ Len(s) + 1 \in 1..Len(t)
  BY <1>1, <1>2
<1> HIDE DEF b
<1>33. Len(s) \in Nat /\ Len(t) \in Nat /\ Len(s) < Len(t)
  BY <1>1, <1>2
<1>4. \A i \in 1..Len(s) : s[i] < b
  <2> TAKE i \in 1..Len(s)
  <2>1. s # <<>> /\ Len(s) \in 1..Len(s) /\ i <= Len(s)
    BY <1>1, EmptySeq
  <2>2. s[i] <= s[Len(s)] /\ s[i] \in Nat /\ s[Len(s)] \in Nat
    BY <1>1, <2>1
  <2> QED
    BY <1>2, <2>1, <2>2
<1>5. ASSUME NEW i \in 1..Len(t), NEW j \in 1..Len(t), i <= j
      PROVE  t[i] <= t[j]
  <2>1. CASE j <= Len(s)
    <3>1. i \in 1..Len(s) /\ j \in 1..Len(s)
      BY <1>1, <1>2, <1>5, <2>1
    <3> QED
      BY <1>1, <1>2, <1>5, <3>1
  <2>2. CASE j > Len(s) /\ i <= Len(s)
    <3>1. i \in 1..Len(s) /\ j \in Len(s) + 1 .. Len(t)
      BY <1>1, <1>2, <2>2
    <3>2. t[i] = s[i] /\ t[j] = b /\ s[i] \in Nat /\ s[i] < b
      BY <1>1, <1>2, <1>4, <3>1
    <3> QED
      BY <1>3, <3>2
  <2>3. CASE i > Len(s)
    <3>1. i \in Len(s) + 1 .. Len(t) /\ j \in Len(s) + 1 .. Len(t)
      BY <1>1, <1>2, <1>5, <2>3
    <3>2. t[i] = b /\ t[j] = b
      BY <1>2, <3>1
    <3> QED
      BY <1>3, <3>2
  <2> QED
    BY <1>1, <1>2, <2>1, <2>2, <2>3
<1>6. ASSUME NEW i \in 1..Len(t), NEW r \in t[1] .. t[i]
      PROVE  \E j \in 1..Len(t) : t[j] = r
  <2>1. CASE i \in 1..Len(s)
    <3>1. 1 \in 1..Len(s)
      BY <1>1, <2>1
    <3>2. r \in s[1] .. s[i]
      BY <1>2, <2>1, <3>1
    <3>3. PICK j \in 1..Len(s) : s[j] = r
      BY <1>1, <2>1, <3>2
    <3>4. j \in 1..Len(t)
      BY ONLY <1>33, j \in 1..Len(s)
    <3>5. t[j] = r
      BY <1>2, <3>3
    <3> QED
      BY <3>4, <3>5
  <2>2. CASE i \notin 1..Len(s)
    <3>1. i \in Len(s) + 1 .. Len(t)
      BY <1>1, <1>2, <2>2
    <3>2. t[i] = b
      BY <1>2, <3>1
    <3>3. CASE r = b
      BY <3>2, <3>3
    <3>4. CASE r # b /\ s = <<>>
      <4>1. Len(s) = 0
        BY <3>4, EmptySeq
      <4>2. 1 \in Len(s) + 1 .. Len(t)
        BY <1>2, <4>1
      <4>3. t[1] = b
        BY <1>2, <4>2
      <4> QED
        BY <1>3, <3>2, <3>4, <4>3
    <3>5. CASE r # b /\ s # <<>>
      <4>1. 1 \in 1..Len(s) /\ Len(s) \in 1..Len(s)
        BY <1>1, <3>5, EmptySeq
      <4>2. t[1] = s[1] /\ s[1] \in Nat /\ s[Len(s)] \in Nat /\ b = s[Len(s)] + 1
        BY <1>1, <1>2, <3>5, <4>1
      <4>3. r \in s[1] .. s[Len(s)]
        BY <1>3, <3>2, <3>5, <4>2
      <4>4. PICK j \in 1..Len(s) : s[j] = r
        BY <1>1, <4>1, <4>3
      <4>5. j \in 1..Len(t)
        BY ONLY <1>33, j \in 1..Len(s)
      <4>6. t[j] = r
        BY <1>2, <4>4
      <4> QED
        BY <4>5, <4>6
    <3> QED
      BY <3>3, <3>4, <3>5
  <2> QED
    BY <2>1, <2>2
<1> QED
  BY <1>2, <1>5, <1>6 DEF Numbered

\* Where a record ended it still ends when one is added, and when one is taken back.
LEMMA BoundaryKept ==
    ASSUME NEW s, NEW t, OneMore(s, t), NEW n \in 0..Len(s)
    PROVE  /\ Boundary(s, n) <=> Boundary(t, n)
           /\ s # <<>> => NextAt(t, n) = NextAt(s, n)
<1>1. /\ s \in Seq(Nat) /\ t \in Seq(Nat) /\ Len(s) \in Nat /\ Len(t) \in Nat
      /\ Len(s) < Len(t) /\ \A i \in 1..Len(s) : t[i] = s[i] /\ s[i] \in Nat
      /\ s # <<>> => t[Len(s) + 1] = s[Len(s)] + 1
  BY ElementOfSeq, LenProperties DEF OneMore, Begins
<1>2. CASE n = 0
  <2>1. s # <<>> => 1 \in 1..Len(s)
    BY <1>1, EmptySeq
  <2> QED
    BY <1>1, <1>2, <2>1 DEF Boundary, NextAt
<1>3. CASE n # 0 /\ n < Len(s)
  <2>1. n \in 1..Len(s) /\ n + 1 \in 1..Len(s) /\ n # Len(s) /\ n # Len(t)
    BY <1>1, <1>3
  <2> QED
    BY <1>1, <1>3, <2>1 DEF Boundary, NextAt
<1>4. CASE n # 0 /\ n = Len(s)
  <2>1. n \in 1..Len(s) /\ s # <<>>
    BY <1>1, <1>4, EmptySeq
  <2>2. t[n] = s[n] /\ s[n] \in Nat /\ t[n + 1] = s[n] + 1
    BY <1>1, <1>4, <2>1
  <2>3. t[n] # t[n + 1]
    BY <2>2
  <2> QED
    BY <1>4, <2>2, <2>3 DEF Boundary, NextAt
<1> QED
  BY <1>1, <1>2, <1>3, <1>4

-----------------------------------------------------------------------------
(* What the decoder finds.                                                  *)

\* The n bytes at the front of the buffer are whole records, the rest is kept.
Decoded(s, data, from, n) ==
    /\ n \in 0..Len(data) /\ from + n <= Len(s) /\ Boundary(s, from + n)
    /\ \A m \in from + n + 1 .. from + Len(data) : ~Boundary(s, m)
    /\ Complete(s, data, from) = NextAt(s, from) .. NextAt(s, from + n) - 1
    /\ NextAt(s, from) \in Nat /\ NextAt(s, from + n) \in Nat
    /\ s[1] \in Nat /\ s[1] <= NextAt(s, from) /\ NextAt(s, from) <= NextAt(s, from + n)
    /\ Leftover(s, data, from) \in Seq(Nat) /\ Len(Leftover(s, data, from)) = Len(data) - n
    /\ \A i \in 1..Len(data) - n : Leftover(s, data, from)[i] = s[from + n + i]

LEMMA SoundDecodes ==
    ASSUME NEW s, Numbered(s), NEW data \in Seq(Nat), data # <<>>, NEW from \in Nat,
           Sound(s, data, from)
    PROVE  \E n \in 0..Len(data) : Decoded(s, data, from, n)
<1> DEFINE E == Ends(s, data, from)
           n == Max(E \cup {0})
<1>1. /\ s \in Seq(Nat) /\ Len(s) \in Nat /\ Len(data) \in Nat /\ DOMAIN data = 1..Len(data)
      /\ from + Len(data) <= Len(s) /\ \A i \in 1..Len(data) : data[i] = s[from + i]
      /\ Len(data) # 0
  BY LenProperties, EmptySeq DEF Numbered, Sound
<1>2. from \in 0..Len(s) /\ Boundary(s, from) /\ s # <<>>
  <2>1. Len(s) # 0
    BY <1>1
  <2> QED
    BY <1>1, <2>1, EmptySeq DEF Sound, Boundary
<1>3. \A i \in 1..Len(data) : i \in E <=> Boundary(s, from + i)
  <2> TAKE i \in 1..Len(data)
  <2>1. data[i] = s[from + i] /\ from + i # 0 /\ i \in DOMAIN data
    BY <1>1
  <2> QED
    BY <2>1 DEF Ends, Boundary
<1>4. E \in SUBSET (1..Len(data))
  BY <1>1 DEF Ends
<1> HIDE DEF E
<1>5. n \in E \cup {0} /\ \A i \in E \cup {0} : i <= n
  <2> DEFINE F == E \cup {0}
  <2>1. F \in SUBSET (0..Len(data)) /\ F # {}
    BY <1>1, <1>4
  <2> HIDE DEF F
  <2>2. Max(F) \in F /\ \A i \in F : i <= Max(F)
    BY <1>1, <2>1, MaxProps
  <2> QED
    BY <2>2 DEF F
<1> HIDE DEF n
<1>6. n \in 0..Len(data) /\ from + n \in 0..Len(s) /\ from <= from + n /\ from + n <= Len(s)
  BY <1>1, <1>4, <1>5
<1>7. Boundary(s, from + n)
  <2>1. CASE n = 0
    BY <1>2, <2>1
  <2>2. CASE n # 0
    BY <1>3, <1>4, <1>5, <2>2
  <2> QED
    BY <2>1, <2>2
<1>8. /\ NextAt(s, from) \in Nat /\ NextAt(s, from + n) \in Nat
      /\ NextAt(s, from) <= NextAt(s, from + n)
      /\ \A i \in from + 1 .. from + n : s[i] \in NextAt(s, from) .. NextAt(s, from + n) - 1
      /\ \A r \in NextAt(s, from) .. NextAt(s, from + n) - 1 : \E i \in from + 1 .. from + n :
            s[i] = r /\ Boundary(s, i)
  <2> DEFINE m == from + n
  <2>1. m \in 0..Len(s) /\ from <= m /\ Boundary(s, m)
    BY <1>6, <1>7
  <2> HIDE DEF m
  <2>2. /\ NextAt(s, from) \in Nat /\ NextAt(s, m) \in Nat /\ NextAt(s, from) <= NextAt(s, m)
        /\ \A i \in from + 1 .. m : s[i] \in NextAt(s, from) .. NextAt(s, m) - 1
        /\ \A r \in NextAt(s, from) .. NextAt(s, m) - 1 : \E i \in from + 1 .. m :
              s[i] = r /\ Boundary(s, i)
    BY <1>2, <2>1, RecordsBetween
  <2> QED
    BY <2>2 DEF m
<1>9. Complete(s, data, from) = NextAt(s, from) .. NextAt(s, from + n) - 1
  <2>1. ASSUME NEW i \in E
        PROVE  data[i] \in NextAt(s, from) .. NextAt(s, from + n) - 1
    <3>1. i \in 1..Len(data) /\ i <= n /\ from + i \in from + 1 .. from + n
      BY <1>1, <1>4, <1>5, <1>6
    <3> QED
      BY <1>1, <1>8, <3>1
  <2>2. ASSUME NEW r \in NextAt(s, from) .. NextAt(s, from + n) - 1
        PROVE  \E i \in E : data[i] = r
    <3>1. PICK j \in from + 1 .. from + n : s[j] = r /\ Boundary(s, j)
      BY <1>8
    <3>2. j - from \in 1..Len(data) /\ from + (j - from) = j
      BY <1>1, <1>6
    <3>3. j - from \in E /\ data[j - from] = r
      BY <1>1, <1>3, <3>1, <3>2
    <3> QED
      BY <3>3
  <2>3. Complete(s, data, from) = {data[i] : i \in E}
    BY DEF Complete, E
  <2> QED
    BY <2>1, <2>2, <2>3
<1>10. s[1] \in Nat /\ s[1] <= NextAt(s, from)
  <2>1. from < Len(s) /\ 1 \in 1..Len(s)
    BY <1>1
  <2>2. s[1] \in Nat
    BY <1>1, <2>1, ElementOfSeq
  <2> QED
    BY <1>2, <2>1, <2>2, BoundaryNext
<1> DEFINE rest == Leftover(s, data, from)
<1>11. rest = SubSeq(data, n + 1, Len(data))
  BY DEF Leftover, n, E
<1>12. rest \in Seq(Nat) /\ Len(rest) = Len(data) - n
       /\ \A i \in 1..Len(data) - n : rest[i] = data[n + i]
  <2> HIDE DEF rest
  <2>1. \A i \in n + 1 .. Len(data) : data[i] \in Nat
    BY <1>1, <1>6, ElementOfSeq
  <2>2. /\ SubSeq(data, n + 1, Len(data)) \in Seq(Nat)
        /\ Len(SubSeq(data, n + 1, Len(data))) =
             IF n + 1 <= Len(data) THEN Len(data) - (n + 1) + 1 ELSE 0
        /\ \A i \in 1..Len(data) - (n + 1) + 1 :
             SubSeq(data, n + 1, Len(data))[i] = data[n + 1 + i - 1]
    <3>1. n + 1 \in Int /\ Len(data) \in Int
      BY <1>1, <1>6
    <3> QED
      BY <2>1, <3>1, SubSeqProperties
  <2>3. Len(data) - (n + 1) + 1 = Len(data) - n /\ (~(n + 1 <= Len(data)) => Len(data) - n = 0)
        /\ \A i \in Int : n + 1 + i - 1 = n + i
    <3>1. n \in Int /\ Len(data) \in Int /\ n <= Len(data)
      BY <1>1, <1>6
    <3> QED
      BY ONLY <3>1
  <2>4. rest \in Seq(Nat) /\ Len(rest) = Len(data) - n
    BY <1>11, <2>2, <2>3
  <2>5. ASSUME NEW i \in 1..Len(data) - n
        PROVE  rest[i] = data[n + i]
    <3>1. i \in 1..Len(data) - (n + 1) + 1 /\ n + 1 + i - 1 = n + i
      BY <2>3
    <3> QED
      BY <1>11, <2>2, <3>1
  <2> QED
    BY <2>4, <2>5
<1>13. \A i \in 1..Len(data) - n : rest[i] = s[from + n + i]
  <2> HIDE DEF rest
  <2> TAKE i \in 1..Len(data) - n
  <2>1. n + i \in 1..Len(data) /\ from + (n + i) = from + n + i
    BY ONLY <1>1, <1>6
  <2> QED
    BY <1>1, <1>12, <2>1
<1>14. ASSUME NEW m \in from + n + 1 .. from + Len(data), Boundary(s, m)
       PROVE  FALSE
  <2> DEFINE i == m - from
  <2>1. i \in 1..Len(data) /\ from + i = m /\ i > n
    BY <1>1, <1>6
  <2> HIDE DEF i
  <2>2. i \in E
    BY <1>3, <1>14, <2>1
  <2> QED
    BY <1>5, <1>6, <2>1, <2>2
<1>15. Decoded(s, data, from, n)
  BY <1>6, <1>7, <1>8, <1>9, <1>10, <1>12, <1>13, <1>14 DEF Decoded
<1> QED
  BY <1>6, <1>15

-----------------------------------------------------------------------------
(* A reader that has taken in the first `off` bytes of a stream.             *)

\* The records after the header, up to the boundary n.
SentTo(s, n) == IF n = 0 THEN <<>> ELSE Run(s[1] + 1, NextAt(s, n) - s[1] - 1)

\* It holds the bytes behind the last boundary it decoded up to, has consumed the
\* header if it decoded anything, and handed over the records in between.
Position(s, off, rest, done, out) ==
    /\ off \in 0..Len(s) /\ rest \in Seq(Nat) /\ Len(rest) <= off /\ done \in BOOLEAN
    /\ Boundary(s, off - Len(rest))
    /\ \A i \in 1..Len(rest) : rest[i] = s[off - Len(rest) + i]
    /\ done <=> off # Len(rest)
    /\ out = SentTo(s, off - Len(rest))

LEMMA SentProps ==
    ASSUME NEW s, Numbered(s), NEW m \in 0..Len(s), NEW n \in 0..Len(s), m <= n,
           Boundary(s, m), Boundary(s, n)
    PROVE  /\ SentTo(s, m) \in Seq(Nat) /\ Len(SentTo(s, m)) \in Nat
           /\ Len(SentTo(s, m)) <= Len(SentTo(s, n))
           /\ SubSeq(SentTo(s, n), 1, Len(SentTo(s, m))) = SentTo(s, m)
<1>1. s \in Seq(Nat) /\ Len(s) \in Nat
  BY LenProperties DEF Numbered
<1>2. CASE m = 0
  <2>1. SentTo(s, m) = <<>> /\ Len(SentTo(s, m)) = 0
    BY <1>2, EmptySeq DEF SentTo
  <2>2. SentTo(s, n) \in Seq(Nat)
    <3>1. CASE n = 0
      BY <3>1, EmptySeq DEF SentTo
    <3>2. CASE n # 0
      <4>1. s # <<>> /\ n \in 1..Len(s) /\ 1 \in 1..Len(s)
        BY <1>1, <3>2, EmptySeq
      <4>2. s[1] \in Nat /\ s[n] \in Nat /\ s[1] <= s[n]
        BY <4>1, ElementOfSeq DEF Numbered
      <4>3. s[1] + 1 \in Nat /\ NextAt(s, n) - s[1] - 1 \in Nat
        BY <3>2, <4>2 DEF NextAt
      <4> QED
        BY <3>2, <4>3, RunProps DEF SentTo
    <3> QED
      BY <3>1, <3>2
  <2>3. SubSeq(SentTo(s, n), 1, 0) = <<>>
    BY <2>2, SubSeqEmpty
  <2> QED
    BY <2>1, <2>2, <2>3, EmptySeq, LenProperties
<1>3. CASE m # 0
  <2>1. s # <<>> /\ 1 \in 1..Len(s) /\ m \in 1..Len(s) /\ n \in 1..Len(s) /\ n # 0
    BY <1>1, <1>3, EmptySeq
  <2>2. s[1] \in Nat /\ s[m] \in Nat /\ s[n] \in Nat /\ s[1] <= s[m] /\ s[m] <= s[n]
    <3>1. \A i, j \in 1..Len(s) : i <= j => s[i] <= s[j]
      BY DEF Numbered
    <3>2. 1 <= m /\ m <= n
      BY <1>1, <1>3
    <3>3. s[1] \in Nat /\ s[m] \in Nat /\ s[n] \in Nat
      BY <1>1, <2>1, ElementOfSeq
    <3> QED
      BY ONLY <2>1, <3>1, <3>2, <3>3
  <2> DEFINE a == s[1] + 1
             k == s[m] - s[1]
             l == s[n] - s[1]
  <2>3. a \in Nat /\ l \in Nat /\ k \in 0..l /\ k \in Nat /\ k <= l
    BY <2>2
  <2>4. SentTo(s, m) = Run(a, k) /\ SentTo(s, n) = Run(a, l)
    <3>1. NextAt(s, m) - s[1] - 1 = k /\ NextAt(s, n) - s[1] - 1 = l
      BY <1>3, <2>1, <2>2 DEF NextAt
    <3> QED
      BY <1>3, <2>1, <3>1 DEF SentTo
  <2> HIDE DEF a, k, l
  <2>5. Run(a, k) \in Seq(Nat) /\ Len(Run(a, k)) = k /\ Len(Run(a, l)) = l
    BY <2>3, RunProps
  <2>6. SubSeq(Run(a, l), 1, k) = Run(a, k)
    BY <2>3, RunPrefix
  <2> QED
    BY <2>3, <2>4, <2>5, <2>6
<1> QED
  BY <1>2, <1>3

LEMMA SentKept ==
    ASSUME NEW s, NEW t, OneMore(s, t), NEW n \in 0..Len(s)
    PROVE  SentTo(t, n) = SentTo(s, n)
<1>1. CASE n = 0
  BY <1>1 DEF SentTo
<1>2. CASE n # 0
  <2>1. s # <<>> /\ 1 \in 1..Len(s)
    BY <1>2, EmptySeq, LenProperties DEF OneMore, Begins
  <2>2. t[1] = s[1]
    BY <2>1 DEF OneMore, Begins
  <2>3. NextAt(t, n) = NextAt(s, n)
    BY <2>1, BoundaryKept
  <2> QED
    BY <1>2, <2>2, <2>3 DEF SentTo
<1> QED
  BY <1>1, <1>2

\* A reader's position is one in the stream with a record more, and the other way
\* round if it has read nothing of that record.
LEMMA PositionKept ==
    ASSUME NEW s, NEW t, OneMore(s, t), NEW off \in 0..Len(s), NEW rest, NEW done, NEW out
    PROVE  Position(s, off, rest, done, out) <=> Position(t, off, rest, done, out)
<1>1. /\ s \in Seq(Nat) /\ t \in Seq(Nat) /\ Len(s) \in Nat /\ Len(t) \in Nat
      /\ Len(s) < Len(t) /\ \A i \in 1..Len(s) : t[i] = s[i]
  BY LenProperties DEF OneMore, Begins
<1> SUFFICES ASSUME rest \in Seq(Nat), Len(rest) <= off
             PROVE  Position(s, off, rest, done, out) <=> Position(t, off, rest, done, out)
  BY DEF Position
<1> DEFINE from == off - Len(rest)
<1>2. Len(rest) \in Nat /\ from \in 0..Len(s) /\ off \in 0..Len(t)
  BY <1>1, LenProperties
<1>3. \A i \in 1..Len(rest) : t[from + i] = s[from + i]
  <2> TAKE i \in 1..Len(rest)
  <2>1. from + i \in 1..Len(s)
    <3>1. from + Len(rest) = off /\ from \in Nat
      BY <1>2
    <3> HIDE DEF from
    <3> QED
      BY <1>1, <1>2, <3>1
  <2> QED
    BY <1>1, <2>1
<1> HIDE DEF from
<1>4. (Boundary(s, from) <=> Boundary(t, from)) /\ SentTo(t, from) = SentTo(s, from)
  BY <1>2, BoundaryKept, SentKept
<1> QED
  BY <1>2, <1>3, <1>4 DEF Position, from

\* The reader's buffer once it has read up to byte `to`: what it kept and what is new.
Buffered(s, off, rest, to, data, from) ==
    /\ from = off - Len(rest) /\ to \in 0..Len(s) /\ off < to
    /\ data \in Seq(Nat) /\ Len(data) = to - from
    /\ \A i \in 1..Len(data) : data[i] = s[from + i]

\* One turn of a reader (Consume, ReadMore).
Turn(s, data, from, done, out, ready, rest, handed) ==
    /\ ready = (done \/ s[1] \in Complete(s, data, from))
    /\ rest = IF ready THEN Leftover(s, data, from) ELSE data
    /\ handed = IF ready THEN out \o InOrder(Complete(s, data, from) \ {s[1]}) ELSE out

LEMMA BufferedProps ==
    ASSUME NEW s, Numbered(s), NEW off, NEW rest, NEW done, NEW out,
           Position(s, off, rest, done, out),
           NEW to, NEW data, NEW from, Buffered(s, off, rest, to, data, from)
    PROVE  /\ s \in Seq(Nat) /\ Len(s) \in Nat /\ from \in Nat /\ to \in Nat
           /\ from < to /\ to <= Len(s) /\ Boundary(s, from) /\ (done <=> from # 0)
           /\ done \in BOOLEAN /\ out = SentTo(s, from)
           /\ data \in Seq(Nat) /\ Len(data) = to - from /\ data # <<>>
           /\ \A i \in 1..Len(data) : data[i] = s[from + i]
           /\ Sound(s, data, from)
<1>1. /\ s \in Seq(Nat) /\ Len(s) \in Nat /\ off \in Nat /\ off <= Len(s)
      /\ rest \in Seq(Nat) /\ Len(rest) \in Nat /\ Len(rest) <= off
      /\ done \in BOOLEAN /\ (done <=> off # Len(rest)) /\ Boundary(s, off - Len(rest))
      /\ out = SentTo(s, off - Len(rest))
  BY LenProperties DEF Position, Numbered
<1>2. /\ from = off - Len(rest) /\ to \in Nat /\ to <= Len(s) /\ off < to
      /\ data \in Seq(Nat) /\ Len(data) = to - from /\ Len(data) \in Nat
      /\ DOMAIN data = 1..Len(data) /\ \A i \in 1..Len(data) : data[i] = s[from + i]
  BY <1>1, LenProperties DEF Buffered
<1>3. from \in Nat /\ from < to /\ from + Len(data) = to /\ from # Len(s) /\ Len(data) # 0
      /\ (off # Len(rest) <=> from # 0)
  <2>1. /\ off \in Nat /\ Len(rest) \in Nat /\ Len(rest) <= off /\ from = off - Len(rest)
        /\ to \in Nat /\ to <= Len(s) /\ Len(s) \in Nat /\ off < to /\ Len(data) = to - from
    BY <1>1, <1>2
  <2> QED
    BY ONLY <2>1
<1>4. data # <<>>
  BY <1>3, EmptySeq
<1>5. Boundary(s, from)
  BY <1>1, <1>2
<1>6. Sound(s, data, from)
  <2>1. from + Len(data) <= Len(s)
    BY <1>2, <1>3
  <2>2. from = 0 \/ s[from] # s[from + 1]
    BY <1>3, <1>5 DEF Boundary
  <2> QED
    BY <1>2, <2>1, <2>2 DEF Sound
<1> QED
  BY <1>1, <1>2, <1>3, <1>4, <1>5, <1>6

\* Where the decoder stopped, in terms of the stream.
Stopped(s, to, data, from, next) ==
    /\ next \in Nat /\ next <= to /\ next <= Len(s) /\ from <= next /\ Boundary(s, next)
    /\ \A m \in next + 1 .. to : ~Boundary(s, m)
    /\ Complete(s, data, from) = NextAt(s, from) .. NextAt(s, next) - 1
    /\ NextAt(s, from) \in Nat /\ NextAt(s, next) \in Nat /\ s[1] \in Nat
    /\ s[1] <= NextAt(s, from) /\ NextAt(s, from) <= NextAt(s, next)
    /\ (from = 0 => NextAt(s, from) = s[1]) /\ (from # 0 => s[1] + 1 <= NextAt(s, from))
    /\ (next = 0 => NextAt(s, next) = s[1]) /\ (next # 0 => s[1] + 1 <= NextAt(s, next))
    /\ Leftover(s, data, from) \in Seq(Nat) /\ Len(Leftover(s, data, from)) = to - next
    /\ \A i \in 1..to - next : Leftover(s, data, from)[i] = s[next + i]

LEMMA DecoderStops ==
    ASSUME NEW s, Numbered(s), NEW to \in 0..Len(s), NEW from \in Nat, from < to,
           NEW data \in Seq(Nat), data # <<>>, Len(data) = to - from, Sound(s, data, from)
    PROVE  \E next \in 0..Len(s) : Stopped(s, to, data, from, next)
<1>1. PICK n \in 0..Len(data) : Decoded(s, data, from, n)
  BY SoundDecodes
<1>2. s \in Seq(Nat) /\ Len(s) \in Nat
  BY LenProperties DEF Numbered
<1> DEFINE next == from + n
<1>3. /\ n \in Nat /\ next \in Nat /\ from <= next /\ next <= to /\ next <= Len(s)
      /\ Len(data) - n = to - next /\ from + Len(data) = to
  <2>1. /\ n \in Nat /\ n <= Len(data) /\ from \in Nat /\ to \in Nat /\ to <= Len(s)
        /\ Len(s) \in Nat /\ Len(data) = to - from
    BY <1>1, <1>2, LenProperties
  <2> QED
    BY ONLY <2>1
<1>4. /\ Boundary(s, next) /\ \A m \in next + 1 .. to : ~Boundary(s, m)
      /\ Complete(s, data, from) = NextAt(s, from) .. NextAt(s, next) - 1
      /\ NextAt(s, from) \in Nat /\ NextAt(s, next) \in Nat
      /\ s[1] \in Nat /\ s[1] <= NextAt(s, from) /\ NextAt(s, from) <= NextAt(s, next)
      /\ Leftover(s, data, from) \in Seq(Nat) /\ Len(Leftover(s, data, from)) = Len(data) - n
      /\ \A i \in 1..Len(data) - n : Leftover(s, data, from)[i] = s[next + i]
  BY <1>1, <1>3 DEF Decoded
<1> HIDE DEF next
<1>5. ASSUME NEW k \in 1..Len(s)
      PROVE  s[1] + 1 <= NextAt(s, k)
  <2>1. 1 \in 1..Len(s) /\ 1 <= k /\ k # 0
    BY <1>2
  <2>2. s[1] <= s[k] /\ s[k] \in Nat
    BY <2>1, ElementOfSeq DEF Numbered
  <2>3. s[1] \in Nat /\ NextAt(s, k) = s[k] + 1
    BY <1>4, <2>1 DEF NextAt
  <2> QED
    BY ONLY <2>2, <2>3
<1>6. (from # 0 => from \in 1..Len(s)) /\ (next # 0 => next \in 1..Len(s)) /\ next \in 0..Len(s)
  BY <1>2, <1>3
<1>7. (from = 0 => NextAt(s, from) = s[1]) /\ (next = 0 => NextAt(s, next) = s[1])
  BY DEF NextAt
<1>8. Stopped(s, to, data, from, next)
  BY <1>3, <1>4, <1>5, <1>6, <1>7 DEF Stopped
<1> QED
  BY <1>6, <1>8

\* The records of the run in between complete those handed over before.
LEMMA HandedOver ==
    ASSUME NEW s, NEW to, NEW data, NEW from \in Nat, NEW next,
           Stopped(s, to, data, from, next), next # 0
    PROVE  SentTo(s, from) \o InOrder(Complete(s, data, from) \ {s[1]}) = SentTo(s, next)
<1> DEFINE a == s[1] + 1
           b == NextAt(s, next)
           c == NextAt(s, from)
           whole == Complete(s, data, from)
<1>1. /\ a \in Nat /\ b \in Nat /\ c \in Nat /\ a <= b /\ c <= b /\ s[1] \in Nat
      /\ whole = c .. b - 1 /\ (from = 0 => c = s[1]) /\ (from # 0 => a <= c)
  BY DEF Stopped
<1>2. SentTo(s, next) = Run(a, b - a)
  <2>1. NextAt(s, next) - s[1] - 1 = b - a
    <3>1. s[1] \in Nat /\ NextAt(s, next) \in Nat
      BY DEF Stopped
    <3> QED
      BY ONLY <3>1
  <2> QED
    BY <2>1 DEF SentTo
<1>3. from # 0 => SentTo(s, from) = Run(a, c - a)
  <2>1. NextAt(s, from) - s[1] - 1 = c - a
    <3>1. s[1] \in Nat /\ NextAt(s, from) \in Nat
      BY DEF Stopped
    <3> QED
      BY ONLY <3>1
  <2> QED
    BY <2>1 DEF SentTo
<1>4. from = 0 => SentTo(s, from) = <<>>
  BY DEF SentTo
<1>5. a = s[1] + 1
  OBVIOUS
<1> HIDE DEF a, b, c, whole
<1>6. CASE from = 0
  <2>1. whole \ {s[1]} = a .. a + (b - a) - 1
    <3>1. whole = s[1] .. b - 1 /\ a + (b - a) - 1 = b - 1
      BY <1>1, <1>6
    <3>2. (s[1] .. b - 1) \ {s[1]} = a .. b - 1
      <4>1. s[1] \in Nat /\ b \in Nat /\ a = s[1] + 1
        BY <1>1, <1>5
      <4> QED
        BY ONLY <4>1
    <3> QED
      BY <3>1, <3>2
  <2>2. b - a \in Nat
    BY <1>1
  <2>3. InOrder(a .. a + (b - a) - 1) = Run(a, b - a) /\ Run(a, b - a) \in Seq(Nat)
    BY <1>1, <2>2, InOrderIsRun, RunProps
  <2>4. <<>> \o Run(a, b - a) = Run(a, b - a)
    BY <2>3, ConcatEmptySeq
  <2> QED
    BY <1>2, <1>4, <1>6, <2>1, <2>3, <2>4 DEF whole
<1>7. CASE from # 0
  <2> DEFINE d == c - a
             e == b - c
  <2>1. d \in Nat /\ e \in Nat /\ a + d = c /\ d + e = b - a
    BY <1>1, <1>7
  <2>2. whole \ {s[1]} = c .. c + e - 1
    <3>1. whole = c .. b - 1 /\ c + e - 1 = b - 1
      BY <1>1
    <3>2. s[1] \notin c .. b - 1
      BY <1>1, <1>5, <1>7
    <3> QED
      BY <3>1, <3>2
  <2> HIDE DEF d, e
  <2>3. InOrder(c .. c + e - 1) = Run(c, e)
    BY <1>1, <2>1, InOrderIsRun
  <2>4. Run(a, d) \o Run(a + d, e) = Run(a, d + e)
    <3>1. a \in Nat /\ d \in Nat /\ e \in Nat
      BY <1>1, <2>1
    <3> QED
      BY ONLY <3>1, RunsJoin
  <2>5. SentTo(s, from) = Run(a, d)
    BY <1>3, <1>7 DEF d
  <2> QED
    BY <1>2, <2>1, <2>2, <2>3, <2>4, <2>5 DEF whole
<1> QED
  BY <1>6, <1>7

\* After a turn the reader's position is right again.
LEMMA ReaderAdvances ==
    ASSUME NEW s, Numbered(s), NEW off, NEW rest, NEW done, NEW out,
           Position(s, off, rest, done, out),
           NEW to, NEW data, NEW from, Buffered(s, off, rest, to, data, from),
           NEW ready, NEW keep, NEW handed, Turn(s, data, from, done, out, ready, keep, handed)
    PROVE  Position(s, to, keep, ready, handed) /\ off - Len(rest) <= to - Len(keep)
<1>1. /\ s \in Seq(Nat) /\ Len(s) \in Nat /\ from \in Nat /\ to \in Nat
      /\ from < to /\ to <= Len(s) /\ Boundary(s, from) /\ (done <=> from # 0)
      /\ done \in BOOLEAN /\ out = SentTo(s, from)
      /\ data \in Seq(Nat) /\ Len(data) = to - from /\ data # <<>>
      /\ \A i \in 1..Len(data) : data[i] = s[from + i]
      /\ Sound(s, data, from)
  BY BufferedProps
<1>2. to \in 0..Len(s)
  BY <1>1
<1>3. PICK next \in 0..Len(s) : Stopped(s, to, data, from, next)
  BY <1>1, <1>2, DecoderStops
<1>4. ready = (done \/ s[1] \in Complete(s, data, from)) /\ ready \in BOOLEAN
  BY <1>1 DEF Turn
<1>5. ready <=> next # 0
  <2>1. CASE from # 0
    <3>1. next # 0
      BY <1>1, <1>3, <2>1 DEF Stopped
    <3> QED
      BY <1>1, <1>4, <2>1, <3>1
  <2>2. CASE from = 0
    <3>1. s[1] \in Complete(s, data, from) <=> s[1] + 1 <= NextAt(s, next)
      BY <1>3, <2>2 DEF Stopped
    <3>2. s[1] + 1 <= NextAt(s, next) <=> next # 0
      BY <1>3 DEF Stopped
    <3> QED
      BY <1>1, <1>4, <2>2, <3>1, <3>2
  <2> QED
    BY <2>1, <2>2
<1>6. CASE ~ready
  <2>1. ~done /\ from = 0 /\ keep = data /\ handed = out
    BY <1>1, <1>4, <1>6 DEF Turn
  <2>2. Len(data) = to /\ to - Len(data) = 0
    BY <1>1, <2>1
  <2>3. \A i \in 1..Len(data) : data[i] = s[to - Len(data) + i]
    BY <1>1, <2>1, <2>2
  <2>4. off - Len(rest) = 0
    BY <2>1 DEF Buffered
  <2> QED
    BY <1>1, <1>2, <1>4, <1>6, <2>1, <2>2, <2>3, <2>4 DEF Position, Boundary
<1>7. CASE ready
  <2>1. keep = Leftover(s, data, from)
        /\ handed = out \o InOrder(Complete(s, data, from) \ {s[1]})
    BY <1>7 DEF Turn
  <2>2. handed = SentTo(s, next)
    BY <1>1, <1>3, <1>5, <1>7, <2>1, HandedOver
  <2>3. /\ keep \in Seq(Nat) /\ Len(keep) = to - next /\ next \in Nat /\ next <= to
        /\ \A i \in 1..to - next : keep[i] = s[next + i] /\ Boundary(s, next)
    BY <1>3, <2>1 DEF Stopped
  <2>4. to - Len(keep) = next /\ Len(keep) <= to
    <3>1. to \in Nat /\ next \in Nat /\ next <= to /\ Len(keep) = to - next
      BY <1>1, <1>2, <2>3
    <3> QED
      BY ONLY <3>1
  <2>5. to # Len(keep)
    BY <1>1, <1>5, <1>7, <2>4
  <2>6. Boundary(s, next)
    BY <1>3 DEF Stopped
  <2>7. off - Len(rest) <= next
    BY <1>3 DEF Stopped, Buffered
  <2> QED
    BY <1>2, <1>4, <1>7, <2>2, <2>3, <2>4, <2>5, <2>6, <2>7 DEF Position
<1> QED
  BY <1>4, <1>6, <1>7

-----------------------------------------------------------------------------
(* What has been handed over.                                               *)

\* Of two sequences one of which begins the other, either is longer or both are one.
LEMMA PrefixGrows ==
    ASSUME NEW a, NEW b \in Seq(Nat), Len(a) <= Len(b), SubSeq(b, 1, Len(a)) = a,
           Len(a) \in Nat
    PROVE  a = b \/ Len(b) > Len(a)
<1> SUFFICES ASSUME Len(a) = Len(b) PROVE a = b
  BY LenProperties
<1>1. SubSeq(b, 1, Len(b)) = b
  BY SubSeqFull
<1> QED
  BY <1>1

\* The bytes behind a record's end belong to later records.
LEMMA BehindBoundary ==
    ASSUME NEW s, Numbered(s), NEW n \in 1..Len(s), Boundary(s, n), NEW i \in 1..Len(s)
    PROVE  /\ s[i] \in Nat /\ s[n] \in Nat /\ s[1] \in Nat /\ s[1] <= s[i]
           /\ i <= n => s[i] <= s[n]
           /\ i > n => s[i] > s[n]
<1>1. s \in Seq(Nat) /\ Len(s) \in Nat /\ 1 \in 1..Len(s)
  BY LenProperties DEF Numbered
<1>2. s[i] \in Nat /\ s[n] \in Nat /\ s[1] \in Nat /\ s[1] <= s[i]
      /\ (i <= n => s[i] <= s[n])
  BY <1>1, ElementOfSeq DEF Numbered
<1>3. ASSUME i > n PROVE s[i] > s[n]
  <2>1. n < Len(s) /\ n + 1 \in 1..Len(s) /\ n + 1 <= i /\ n \in 0..Len(s) /\ n # 0
    BY <1>1, <1>3
  <2>2. s[n + 1] = s[n] + 1
    BY <2>1, BoundaryNext DEF NextAt
  <2>3. s[n + 1] <= s[i]
    BY <2>1 DEF Numbered
  <2> QED
    BY <1>2, <2>2, <2>3
<1> QED
  BY <1>2, <1>3

\* The records in the first n bytes, the header aside, are what a reader gets of them.
LEMMA RecordsTo ==
    ASSUME NEW s, Numbered(s), NEW n \in 0..Len(s)
    PROVE  InOrder({r \in ToSet(SubSeq(s, 1, n)) : r # s[1]}) = SentTo(s, n)
<1> DEFINE front == SubSeq(s, 1, n)
           S == {r \in ToSet(front) : r # s[1]}
<1>1. /\ s \in Seq(Nat) /\ Len(s) \in Nat /\ \A i \in 1..Len(s) : s[i] \in Nat
      /\ \A i, j \in 1..Len(s) : i <= j => s[i] <= s[j]
      /\ \A i \in 1..Len(s) : \A r \in s[1] .. s[i] : \E j \in 1..Len(s) : s[j] = r
  BY ElementOfSeq, LenProperties DEF Numbered
<1>2. front = [i \in 1..n |-> s[i]] /\ n \in Nat
  BY <1>1
<1>3. ToSet(front) = {s[i] : i \in 1..n}
  BY <1>2 DEF ToSet
<1> HIDE DEF front
<1>4. CASE n = 0
  <2>1. S = 0 .. 0 + 0 - 1
    BY <1>3, <1>4
  <2>2. InOrder(0 .. 0 + 0 - 1) = Run(0, 0)
    BY InOrderIsRun
  <2>3. Run(0, 0) = <<>>
    BY DEF Run
  <2> QED
    BY <1>4, <2>1, <2>2, <2>3 DEF SentTo, front
<1>5. CASE n # 0
  <2>1. n \in 1..Len(s) /\ 1 \in 1..Len(s)
    BY <1>1, <1>5
  <2>2. s[1] \in Nat /\ s[n] \in Nat /\ s[1] <= s[n]
    BY <1>1, <2>1
  <2> DEFINE a == s[1] + 1
             k == s[n] - s[1]
  <2>3. a \in Nat /\ k \in Nat /\ a + k - 1 = s[n] /\ NextAt(s, n) - s[1] - 1 = k
    BY <1>5, <2>2 DEF NextAt
  <2>4. S = a .. s[n]
    <3>1. ASSUME NEW r \in S
          PROVE  r \in a .. s[n]
      <4>1. PICK i \in 1..n : r = s[i] /\ r # s[1]
        BY <1>3
      <4>2. i \in 1..Len(s) /\ i <= n /\ 1 <= i
        BY <1>1, <4>1
      <4>3. s[1] <= s[i] /\ s[i] <= s[n] /\ s[i] \in Nat
        BY <1>1, <2>1, <4>2
      <4> QED
        BY <2>2, <4>1, <4>3
    <3>2. ASSUME NEW r \in a .. s[n]
          PROVE  r \in S
      <4>1. r \in s[1] .. s[n] /\ r # s[1]
        BY <2>2
      <4>2. PICK j \in 1..Len(s) : s[j] = r
        BY <1>1, <2>1, <4>1
      <4>3. CASE j <= n
        BY <1>3, <4>1, <4>2, <4>3
      <4>4. CASE j > n
        <5>1. s[n] <= s[j]
          BY <1>1, <2>1, <4>4
        <5>2. r = s[n] /\ n \in 1..n
          BY <1>2, <1>5, <2>2, <4>1, <4>2, <5>1
        <5> QED
          BY <1>3, <4>1, <5>2
      <4> QED
        BY <1>1, <4>3, <4>4
    <3> QED
      BY <3>1, <3>2
  <2>5. SentTo(s, n) = Run(a, k)
    BY <1>5, <2>3 DEF SentTo
  <2> HIDE DEF a, k, S
  <2>6. InOrder(a .. a + k - 1) = Run(a, k)
    BY <2>3, InOrderIsRun
  <2>7. InOrder(S) = SentTo(s, n)
    BY <2>3, <2>4, <2>5, <2>6
  <2> QED
    BY <2>7 DEF S, front
<1> QED
  BY <1>4, <1>5

\* No byte read is lost and none is used twice.
LEMMA TakenOnce ==
    ASSUME NEW s, Numbered(s), NEW off, NEW rest, NEW out,
           Position(s, off, rest, TRUE, out), NEW i \in 1..off
    PROVE  \/ s[i] = s[1]
           \/ s[i] \in ToSet(out) /\ s[i] \notin ToSet(rest)
           \/ s[i] \notin ToSet(out) /\ s[i] \in ToSet(rest)
<1> DEFINE n == off - Len(rest)
<1>1. /\ s \in Seq(Nat) /\ Len(s) \in Nat /\ off \in Nat /\ off <= Len(s)
      /\ rest \in Seq(Nat) /\ Len(rest) \in Nat /\ Len(rest) <= off /\ n # 0
      /\ Boundary(s, n) /\ out = SentTo(s, n)
      /\ \A j \in 1..Len(rest) : rest[j] = s[n + j]
  BY LenProperties DEF Numbered, Position
<1>2. n \in 1..Len(s) /\ n \in Nat /\ n + Len(rest) = off
  BY <1>1
<1> HIDE DEF n
<1>3. ToSet(rest) = {s[n + j] : j \in 1..Len(rest)}
  <2>1. ToSet(rest) = {rest[j] : j \in 1..Len(rest)}
    BY <1>1 DEF ToSet
  <2> QED
    BY <1>1, <2>1
<1>4. i \in 1..Len(s) /\ i \in Nat
  BY <1>1
<1>5. /\ s[i] \in Nat /\ s[n] \in Nat /\ s[1] \in Nat /\ s[1] <= s[i]
      /\ (i <= n => s[i] <= s[n]) /\ (i > n => s[i] > s[n])
  BY <1>1, <1>2, <1>4, BehindBoundary
<1>6. s[1] <= s[n]
  BY <1>1, <1>2, BehindBoundary
<1>7. ToSet(out) = s[1] + 1 .. s[n]
  <2> DEFINE a == s[1] + 1
             k == s[n] - s[1]
  <2>1. a \in Nat /\ k \in Nat /\ a + k - 1 = s[n] /\ NextAt(s, n) - s[1] - 1 = k
    <3>1. s[1] \in Nat /\ s[n] \in Nat /\ s[1] <= s[n] /\ NextAt(s, n) = s[n] + 1
      BY <1>1, <1>5, <1>6 DEF NextAt
    <3> QED
      BY ONLY <3>1
  <2>2. out = Run(a, k)
    <3>1. out = SentTo(s, n) /\ n # 0
      BY <1>1
    <3> QED
      BY <2>1, <3>1 DEF SentTo
  <2> HIDE DEF a, k
  <2>3. ToSet(Run(a, k)) = {a + j - 1 : j \in 1..k}
    BY <2>1 DEF ToSet, Run
  <2>4. {a + j - 1 : j \in 1..k} = a .. a + k - 1
    <3>1. ASSUME NEW r \in a .. a + k - 1
          PROVE  \E j \in 1..k : r = a + j - 1
      <4>1. r - a + 1 \in 1..k /\ r = a + (r - a + 1) - 1
        BY <2>1
      <4> QED
        BY <4>1
    <3>2. \A j \in 1..k : a + j - 1 \in a .. a + k - 1
      BY <2>1
    <3> QED
      BY <3>1, <3>2
  <2> QED
    BY <2>1, <2>2, <2>3, <2>4 DEF a
<1>8. CASE i <= n
  <2>1. s[i] = s[1] \/ s[i] \in ToSet(out)
    BY <1>5, <1>7, <1>8
  <2>2. s[i] \notin ToSet(rest)
    <3> SUFFICES ASSUME NEW j \in 1..Len(rest), s[i] = s[n + j] PROVE FALSE
      BY <1>3
    <3>1. n + j \in 1..Len(s) /\ n + j > n
      BY <1>1, <1>2
    <3> DEFINE m == n + j
    <3>2. m \in 1..Len(s) /\ m > n
      BY <3>1
    <3> HIDE DEF m
    <3>3. s[m] \in Nat /\ s[m] > s[n]
      BY <1>1, <1>2, <3>2, BehindBoundary
    <3> QED
      BY <1>5, <1>8, <3>3 DEF m
  <2> QED
    BY <2>1, <2>2
<1>9. CASE i > n
  <2>1. s[i] \notin ToSet(out)
    BY <1>5, <1>7, <1>9
  <2>2. i - n \in 1..Len(rest) /\ n + (i - n) = i
    BY <1>1, <1>2, <1>4, <1>9
  <2> QED
    BY <1>3, <2>1, <2>2
<1> QED
  BY <1>2, <1>4, <1>8, <1>9

-----------------------------------------------------------------------------
(* What a file holds that is the beginning of a stream.                      *)

\* The last place in the first `to` bytes of a stream where a record ends.
LastBoundary(s, to, n) ==
    /\ n \in 0..Len(s) /\ n <= to /\ Boundary(s, n)
    /\ \A m \in n + 1 .. to : ~Boundary(s, m)

\* In a longer beginning it is no earlier.
LEMMA LastIsLater ==
    ASSUME NEW s, NEW to \in Nat, NEW n, LastBoundary(s, to, n),
           NEW m \in Nat, m <= to, Boundary(s, m)
    PROVE  m <= n
<1>1. n \in Nat
  BY DEF LastBoundary
<1>2. ~(m > n)
  <2> SUFFICES ASSUME m > n PROVE FALSE
    OBVIOUS
  <2>1. m \in n + 1 .. to
    BY <1>1
  <2> QED
    BY <2>1 DEF LastBoundary
<1> QED
  BY <1>1, <1>2

\* It does not depend on records added behind, or taken back there.
LEMMA LastKept ==
    ASSUME NEW s, NEW t, OneMore(s, t), NEW to \in 0..Len(s), NEW n
    PROVE  LastBoundary(s, to, n) <=> LastBoundary(t, to, n)
<1>1. Len(s) \in Nat /\ Len(t) \in Nat /\ Len(s) < Len(t)
  BY LenProperties DEF OneMore, Begins
<1>2. n \in 0..Len(t) /\ n <= to => n \in 0..Len(s)
  BY <1>1
<1>3. \A m \in 0..to : Boundary(s, m) <=> Boundary(t, m)
  BY <1>1, BoundaryKept
<1>4. n \in 0..Len(s) => \A m \in n + 1 .. to : m \in 0..to
  BY <1>1
<1>5. n \in 0..Len(s) => n \in 0..Len(t)
  BY <1>1
<1>6. n \in 0..Len(s) /\ n <= to => n \in 0..to
  BY <1>1
<1> QED
  BY <1>2, <1>3, <1>4, <1>5, <1>6 DEF LastBoundary

\* The records that are complete in the file.
LEMMA WholeRecords ==
    ASSUME NEW s, Numbered(s), NEW f, Begins(f, s), NEW h, s # <<>> => h = s[1]
    PROVE  \E n \in Nat : /\ LastBoundary(s, Len(f), n)
                          /\ InOrder(Complete(s, f, 0) \ {h}) = SentTo(s, n)
<1>1. /\ s \in Seq(Nat) /\ f \in Seq(Nat) /\ Len(s) \in Nat /\ Len(f) \in Nat /\ Len(f) <= Len(s)
      /\ \A i \in 1..Len(f) : f[i] = s[i] /\ DOMAIN f = 1..Len(f)
  BY LenProperties DEF Begins
<1>2. InOrder({}) = <<>>
  <2>1. InOrder(0 .. 0 + 0 - 1) = Run(0, 0)
    BY InOrderIsRun
  <2>2. Run(0, 0) = <<>> /\ 0 .. 0 + 0 - 1 = {}
    BY DEF Run
  <2> QED
    BY <2>1, <2>2
<1>3. CASE f = <<>>
  <2>1. Len(f) = 0 /\ DOMAIN f = {}
    BY <1>3, EmptySeq
  <2>2. Complete(s, f, 0) \ {h} = {}
    BY <2>1 DEF Complete, Ends
  <2>3. LastBoundary(s, Len(f), 0) /\ SentTo(s, 0) = <<>>
    BY <1>1, <2>1 DEF LastBoundary, Boundary, SentTo
  <2> QED
    BY <1>2, <2>2, <2>3
<1>4. CASE f # <<>>
  <2>1. Len(f) # 0 /\ Len(f) \in 0..Len(s) /\ s # <<>> /\ h = s[1]
    BY <1>1, <1>4, EmptySeq
  <2>2. Sound(s, f, 0)
    <3>1. \A i \in DOMAIN f : f[i] = s[0 + i]
      BY <1>1
    <3> QED
      BY <1>1, <3>1 DEF Sound
  <2>3. 0 < Len(f) /\ Len(f) = Len(f) - 0
    BY <1>1, <2>1
  <2>4. PICK n \in 0..Len(s) : Stopped(s, Len(f), f, 0, n)
    BY <1>1, <1>4, <2>1, <2>2, <2>3, DecoderStops
  <2>5. LastBoundary(s, Len(f), n)
    BY <2>4 DEF Stopped, LastBoundary
  <2>6. CASE n = 0
    <3>1. Complete(s, f, 0) = NextAt(s, 0) .. NextAt(s, 0) - 1 /\ NextAt(s, 0) \in Nat
      BY <2>4, <2>6 DEF Stopped
    <3>2. Complete(s, f, 0) \ {h} = {}
      BY <3>1
    <3>3. SentTo(s, n) = <<>>
      BY <2>6 DEF SentTo
    <3> QED
      BY <1>2, <2>5, <2>6, <3>2, <3>3
  <2>7. CASE n # 0
    <3> DEFINE got == InOrder(Complete(s, f, 0) \ {s[1]})
    <3>1. SentTo(s, 0) \o got = SentTo(s, n)
      BY <2>4, <2>7, HandedOver
    <3>2. SentTo(s, 0) = <<>>
      BY DEF SentTo
    <3>3. got \in Seq(Nat)
      <4> DEFINE c == NextAt(s, 0)
                 b == NextAt(s, n)
                 e == b - c - 1
      <4>1. /\ c \in Nat /\ b \in Nat /\ s[1] \in Nat /\ c = s[1] /\ s[1] + 1 <= b
            /\ Complete(s, f, 0) = c .. b - 1
        BY <2>4, <2>7 DEF Stopped
      <4>2. e \in Nat /\ (c .. b - 1) \ {c} = c + 1 .. c + 1 + e - 1 /\ c + 1 \in Nat
        <5>1. c \in Nat /\ b \in Nat /\ c + 1 <= b
          BY <4>1
        <5> HIDE DEF c, b
        <5> QED
          BY <5>1
      <4> HIDE DEF c, b, e
      <4>3. InOrder(c + 1 .. c + 1 + e - 1) = Run(c + 1, e) /\ Run(c + 1, e) \in Seq(Nat)
        <5> DEFINE a == c + 1
        <5>1. a \in Nat
          BY <4>2
        <5> HIDE DEF a
        <5>2. InOrder(a .. a + e - 1) = Run(a, e) /\ Run(a, e) \in Seq(Nat)
          BY <4>2, <5>1, InOrderIsRun, RunProps
        <5> QED
          BY <5>2 DEF a
      <4> QED
        BY <4>1, <4>2, <4>3
    <3> HIDE DEF got
    <3>4. got = SentTo(s, n)
      BY <3>1, <3>2, <3>3, ConcatEmptySeq
    <3> QED
      BY <2>1, <2>5, <3>4 DEF got
  <2> QED
    BY <2>6, <2>7
<1> QED
  BY <1>3, <1>4

\* More of a stream has been sent, or the same.
LEMMA SentGrows ==
    ASSUME NEW s, Numbered(s), NEW m \in 0..Len(s), NEW n \in 0..Len(s), m <= n,
           Boundary(s, m), Boundary(s, n), NEW a, NEW b, a = SentTo(s, m), b = SentTo(s, n)
    PROVE  /\ a \in Seq(Nat) /\ b \in Seq(Nat) /\ Len(a) \in Nat /\ Len(b) \in Nat
           /\ Len(a) <= Len(b) /\ SubSeq(b, 1, Len(a)) = a
           /\ a = b \/ Len(b) > Len(a)
<1>1. /\ a \in Seq(Nat) /\ Len(a) \in Nat /\ Len(a) <= Len(b) /\ SubSeq(b, 1, Len(a)) = a
  BY SentProps
<1>2. b \in Seq(Nat) /\ Len(b) \in Nat
  <2>1. n <= n
    BY LenProperties DEF Numbered
  <2> QED
    BY <2>1, SentProps
<1> QED
  BY <1>1, <1>2, PrefixGrows
=============================================================================
