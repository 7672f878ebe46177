------------------------ MODULE MeasurementTail_proofs ------------------------
(***************************************************************************)
(* Proofs about MmapDestination and about MeasurementTail, which follows it,  *)
(* for any growth step, any record sizes and any number of opens, failed      *)
(* calls and crashes.                                                         *)
(*                                                                         *)
(* The destination: type correctness, that an acknowledged record stays       *)
(* published and a flushed one on the disk, and that the published length     *)
(* never runs ahead of the bytes while the machine keeps its power.           *)
(*                                                                         *)
(* The tail, for any length of the stream and any cut of the reads: the       *)
(* reader never decodes bytes that are not the stream's, loses none, and      *)
(* hands the published records over in order, each once.  There the path is   *)
(* opened once, as every process names its own, the two stores of write()     *)
(* are seen in order, and the machine does not lose power (the writing        *)
(* process may die at any point).                                             *)
(***************************************************************************)
EXTENDS MeasurementTail, RecordDecoding_proofs, SequenceTheorems, TLAPS

-----------------------------------------------------------------------------
(* The operators on files.                                                 *)

\* A truncated or extended file: its length, and what it keeps.
LEMMA TruncatedProps ==
    ASSUME NEW f \in Seq(Nat), NEW n \in Nat
    PROVE  /\ Truncated(f, n) \in Seq(Nat)
           /\ Len(Truncated(f, n)) = n
           /\ \A i \in 1..n : Truncated(f, n)[i] = IF i <= Len(f) THEN f[i] ELSE 0
  BY DEF Truncated

\* A copy changes only the range it writes.
LEMMA CopiedProps ==
    ASSUME NEW f \in Seq(Nat), NEW from \in Nat, NEW to \in Nat, NEW b \in Nat
    PROVE  /\ Copied(f, from, to, b) \in Seq(Nat)
           /\ Len(Copied(f, from, to, b)) = Len(f)
           /\ \A i \in 1..Len(f) :
                 Copied(f, from, to, b)[i] = IF from < i /\ i <= to THEN b ELSE f[i]
  BY DEF Copied

\* The stream with one more record.
LEMMA ExtendedProps ==
    ASSUME NEW s \in Seq(Nat), NEW to \in Nat, NEW b \in Nat
    PROVE  /\ Extended(s, to, b) \in Seq(Nat)
           /\ Len(Extended(s, to, b)) = to
           /\ \A i \in 1..to : i <= Len(s) => Extended(s, to, b)[i] = s[i]
           /\ \A i \in 1..to : i > Len(s) => Extended(s, to, b)[i] = b
  BY DEF Extended

\* Two sequences agree up to n.
Agree(f, s, n) == \A i \in 1..n : f[i] = s[i]

\* A record stored right after a stream that is in place leaves the longer
\* stream in place.
LEMMA CopyInPlace ==
    ASSUME NEW f \in Seq(Nat), NEW s \in Seq(Nat), NEW from \in Nat, NEW to \in Nat, NEW b \in Nat,
           from = Len(s), from <= to, to <= Len(f), Agree(f, s, from)
    PROVE  /\ Len(Copied(f, from, to, b)) = Len(f)
           /\ Len(Extended(s, to, b)) = to
           /\ Agree(Copied(f, from, to, b), Extended(s, to, b), to)
<1>1. /\ Len(Copied(f, from, to, b)) = Len(f)
      /\ \A i \in 1..Len(f) :
            Copied(f, from, to, b)[i] = IF from < i /\ i <= to THEN b ELSE f[i]
  BY ONLY CopiedProps, f \in Seq(Nat), from \in Nat, to \in Nat, b \in Nat
<1>2. /\ Len(Extended(s, to, b)) = to
      /\ \A i \in 1..to : i <= Len(s) => Extended(s, to, b)[i] = s[i]
      /\ \A i \in 1..to : i > Len(s) => Extended(s, to, b)[i] = b
  BY ExtendedProps
<1>3. ASSUME NEW i \in 1..to
      PROVE  Copied(f, from, to, b)[i] = Extended(s, to, b)[i]
  <2>1. i \in 1..Len(f)
    BY LenProperties
  <2>2. CASE i <= from
    BY <1>1, <1>2, <2>1, <2>2 DEF Agree
  <2>3. CASE i > from
    BY <1>1, <1>2, <2>1, <2>3
  <2>4. QED
    BY <2>2, <2>3
<1>4. QED
  BY <1>1, <1>2, <1>3 DEF Agree

\* The copy of a write() does so.
LEMMA BytesCopied ==
    ASSUME log \in Seq(Nat), stream \in Seq(Nat), committed \in Nat, need \in Nat, writes \in Nat,
           committed = Len(stream), committed <= need, need <= Len(log),
           \A i \in 1..committed : log[i] = stream[i],
           log' = Copied(log, committed, need, writes + 1),
           stream' = Extended(stream, need, writes + 1)
    PROVE  /\ Len(log') = Len(log) /\ Len(stream') = need
           /\ \A i \in 1..need : log'[i] = stream'[i]
<1>1. PICK b \in Nat : b = writes + 1
  OBVIOUS
<1>2. Agree(log, stream, committed)
  BY DEF Agree
<1>3. /\ log' = Copied(log, committed, need, b)
      /\ stream' = Extended(stream, need, b)
  BY <1>1
<1>4. /\ log \in Seq(Nat) /\ stream \in Seq(Nat) /\ committed \in Nat /\ need \in Nat
      /\ committed = Len(stream) /\ committed <= need /\ need <= Len(log)
  OBVIOUS
<1>5. /\ Len(Copied(log, committed, need, b)) = Len(log)
      /\ Len(Extended(stream, need, b)) = need
      /\ Agree(Copied(log, committed, need, b), Extended(stream, need, b), need)
  BY ONLY <1>2, <1>4, CopyInPlace
<1> QED
  BY <1>3, <1>5 DEF Agree

\* The loop of _grow ends with a size that fits and is no smaller than before.
LEMMA GrownSizeProps ==
    ASSUME ConstantsOK, size \in Nat, NEW n \in Nat, n > size
    PROVE  GrownSize(n) \in Nat /\ GrownSize(n) >= n
<1> DEFINE x == n - size + Chunk - 1
           q == x \div Chunk
<1>1. Chunk \in Nat /\ Chunk > 0 /\ x \in Nat /\ x >= Chunk
  BY DEF ConstantsOK
<1>2. q \in Int /\ x % Chunk \in Int /\ 0 <= x % Chunk /\ x % Chunk < Chunk /\ x = Chunk * q + (x % Chunk)
  BY <1>1
<1>3. Chunk * q \in Int
  BY <1>1, <1>2
<1> HIDE DEF q
<1>4. Chunk * q >= n - size
  BY <1>1, <1>2, <1>3
<1>5. QED
  BY <1>3, <1>4 DEF GrownSize, q

-----------------------------------------------------------------------------
(* Type correctness.                                                       *)

USE DEF own, sidecar, file, diskSidecar, disk, bounds, history

\* Types hold initially.
LEMMA TypeInit == ConstantsOK /\ Init => TypeOK /\ NeedInv
<1> SUFFICES ASSUME ConstantsOK, Init
             PROVE  TypeOK /\ NeedInv
  OBVIOUS
<1> USE DEF Init
<1>1. pc \in PCs /\ NeedInv
  BY DEF PCs, Idle, Live, NeedInv
<1>2. log \in Seq(Nat) /\ diskLog \in Seq(Nat) /\ stream \in Seq(Nat)
  BY EmptySeq
<1>3. opens \in 0..MaxOpens /\ fails \in 0..MaxFails
  BY DEF ConstantsOK
<1>4. lenOf \in 0..opens /\ diskLenOf \in 0..opens
  OBVIOUS
<1>5. QED
  BY <1>1, <1>2, <1>3, <1>4 DEF TypeOK

\* Every step keeps the types.
LEMMA TypeStep ==
    ASSUME ConstantsOK, TypeOK, NeedInv, [Next]_vars
    PROVE  TypeOK' /\ NeedInv'
<1> USE DEF TypeOK, NeedInv, PCs, Idle, Opening, Live, Writing, Flushing, Closing
<1>1. CASE OpenLog
  <2>1. log' \in Seq(Nat) /\ stream' \in Seq(Nat)
    BY <1>1, EmptySeq DEF OpenLog
  <2>2. /\ opens' \in 0..MaxOpens
        /\ lenOf' \in 0..opens' /\ diskLenOf' \in 0..opens'
    BY <1>1 DEF OpenLog, ConstantsOK
  <2>3. QED
    BY <1>1, <2>1, <2>2 DEF OpenLog
<1>2. CASE SizeLog
  <2>1. Truncated(log, Chunk) \in Seq(Nat)
    BY TruncatedProps DEF ConstantsOK
  <2>2. QED
    BY <1>2, <2>1 DEF SizeLog, ConstantsOK
<1>3. CASE OpenLen
  BY <1>3 DEF OpenLen
<1>4. ASSUME NEW n \in Sizes, Write(n)
      PROVE  TypeOK' /\ NeedInv'
  BY <1>4 DEF Write, ConstantsOK
<1>5. CASE GrowFile
  <2>1. GrownSize(need) \in Nat
    BY <1>5, GrownSizeProps DEF GrowFile
  <2>2. Truncated(log, GrownSize(need)) \in Seq(Nat)
    BY <2>1, TruncatedProps
  <2>3. QED
    BY <1>5, <2>2 DEF GrowFile
<1>6. CASE Remap
  <2>1. GrownSize(need) \in Nat
    BY <1>6, GrownSizeProps DEF Remap
  <2>2. QED
    BY <1>6, <2>1 DEF Remap
<1>7. ASSUME CopyBytes
      PROVE  log' \in Seq(Nat) /\ stream' \in Seq(Nat) /\ writes' \in Nat
  <2>1. /\ writes' \in Nat
        /\ log' = Copied(log, committed, need, writes')
        /\ stream' = Extended(stream, need, writes')
    BY <1>7 DEF CopyBytes
  <2>2. Copied(log, committed, need, writes') \in Seq(Nat)
    BY <2>1, CopiedProps
  <2>3. Extended(stream, need, writes') \in Seq(Nat)
    BY <2>1, ExtendedProps
  <2>4. QED
    BY <2>1, <2>2, <2>3
<1>8. CASE Copy
  BY <1>7, <1>8 DEF Copy
<1>9. CASE PublishLength
  BY <1>9 DEF PublishLength, Publish
<1>10. CASE PublishEarly
  BY <1>10 DEF PublishEarly
<1>11. CASE CopyLate
  BY <1>7, <1>11 DEF CopyLate
<1>12. CASE Flush
  BY <1>12 DEF Flush
<1>13. CASE Close
  BY <1>13 DEF Close
<1>14. CASE SyncLog
  BY <1>14 DEF SyncLog
<1>15. CASE SyncLen
  BY <1>15 DEF SyncLen
<1>16. CASE Trim
  <2>1. Truncated(log, committed) \in Seq(Nat)
    BY TruncatedProps
  <2>2. QED
    BY <1>16, <2>1 DEF Trim
<1>17. CASE Fail
  <2>1. pc' \in PCs /\ NeedInv'
    BY <1>17 DEF Fail
  <2>2. /\ fails < MaxFails /\ fails' = fails + 1
        /\ UNCHANGED <<own, log, disk, opens, history>>
        /\ UNCHANGED sidecar \/ (published' = 0 /\ lenOf' = opens)
    BY <1>17 DEF Fail
  <2>3. fails' \in 0..MaxFails
    BY <2>2 DEF ConstantsOK
  <2>4. published' \in Nat /\ lenOf' \in 0..opens'
    BY <2>2
  <2>5. QED
    BY <2>1, <2>2, <2>3, <2>4
<1>18. CASE Environment
  BY <1>18 DEF Environment, WritebackLog, WritebackLen, ProcessCrash, MachineCrash
<1>19. CASE UNCHANGED vars
  BY <1>19 DEF vars
<1>20. QED
  BY <1>1, <1>2, <1>3, <1>4, <1>5, <1>6, <1>8, <1>9, <1>10, <1>11, <1>12, <1>13,
     <1>14, <1>15, <1>16, <1>17, <1>18, <1>19 DEF Next, Writer

-----------------------------------------------------------------------------
(* The page cache: WriterInv and PublishedInPlace.                          *)

\* Initially no length is published and no byte written.
LEMMA FileInit == ConstantsOK /\ Init => WriterInv /\ PublishedInPlace
<1> SUFFICES ASSUME ConstantsOK, Init
             PROVE  WriterInv /\ PublishedInPlace
  OBVIOUS
<1>1. pc = "none" /\ published = 0
  BY DEF Init
<1>2. Len(log) = 0 /\ Len(stream) = 0
  BY EmptySeq DEF Init
<1>3. QED
  BY <1>1, <1>2 DEF WriterInv, PublishedInPlace, InPlace, Opening, Live, Writing, Flushing, Closing

\* A step other than a machine crash keeps writer, file and published length in
\* agreement, when the two stores are seen in order.
LEMMA FileStep ==
    ASSUME ConstantsOK, StoresInOrder, TypeOK, NeedInv, WriterInv, PublishedInPlace,
           Writer \/ WritebackLog \/ WritebackLen \/ ProcessCrash
    PROVE  WriterInv' /\ PublishedInPlace'
<1> USE DEF WriterInv, PublishedInPlace, InPlace, Idle, Opening, Live, Writing, Flushing, Closing
<1>0. /\ size \in Nat /\ committed \in Nat /\ need \in Nat /\ published \in Nat
      /\ log \in Seq(Nat) /\ stream \in Seq(Nat) /\ writes \in Nat
      /\ Len(log) \in Nat /\ Len(stream) \in Nat
      /\ opens \in Nat /\ lenOf \in 0..opens /\ diskLenOf \in 0..opens
  BY LenProperties DEF TypeOK
<1>1. CASE OpenLog
  <2>1. Len(log') = 0
    BY <1>1, EmptySeq DEF OpenLog
  <2>2. QED
    BY <1>0, <1>1, <2>1 DEF OpenLog
<1>2. CASE SizeLog
  <2>1. Len(log') = Chunk
    BY <1>0, <1>2, TruncatedProps DEF SizeLog, ConstantsOK
  <2>2. QED
    BY <1>0, <1>2, <2>1 DEF SizeLog, ConstantsOK
<1>3. CASE OpenLen
  <2>1. Len(stream) = 0 /\ committed = 0 /\ size <= Len(log)
    BY <1>3, EmptySeq DEF OpenLen
  <2>2. QED
    BY <1>0, <1>3, <2>1 DEF OpenLen
<1>4. ASSUME NEW n \in Sizes, Write(n)
      PROVE  WriterInv' /\ PublishedInPlace'
  BY <1>0, <1>4 DEF Write, ConstantsOK
<1>5. CASE GrowFile
  <2> DEFINE m == GrownSize(need)
  <2>1. m \in Nat /\ m >= need
    BY <1>0, <1>5, GrownSizeProps DEF GrowFile, NeedInv
  <2>2. need > size
    BY <1>5 DEF GrowFile, NeedInv
  <2>3. m = GrownSize(need)' /\ log' = Truncated(log, m)
    BY <1>5 DEF GrowFile, GrownSize
  <2> HIDE DEF m
  <2>4. /\ Len(log') = m
        /\ \A i \in 1..m : log'[i] = IF i <= Len(log) THEN log[i] ELSE 0
    BY <1>0, <2>1, <2>3, TruncatedProps
  <2>5. /\ pc = "grow" /\ pc' = "remap"
        /\ UNCHANGED <<own, sidecar, disk, bounds, history>>
    BY <1>5 DEF GrowFile
  <2>6. InPlace(log', Len(stream))
    <3>1. /\ Len(stream) = committed /\ committed <= size /\ size <= Len(log)
          /\ \A i \in 1..Len(stream) : log[i] = stream[i]
      BY <2>5
    <3>2. Len(stream) <= Len(log')
      BY <1>0, <2>1, <2>2, <2>4, <3>1
    <3>3. ASSUME NEW i \in 1..Len(stream)
          PROVE  log'[i] = stream[i]
      <4>1. i \in 1..m /\ i <= Len(log)
        BY <1>0, <2>1, <2>2, <3>1
      <4>2. QED
        BY <2>4, <3>1, <4>1
    <3>4. QED
      BY <1>0, <3>2, <3>3
  <2>7. WriterInv'
    BY <1>0, <2>1, <2>2, <2>3, <2>4, <2>5, <2>6, SMTT(30)
  <2>8. PublishedInPlace'
    BY <1>0, <2>4, <2>5, <2>6, SMTT(30)
  <2>9. QED
    BY <2>7, <2>8
<1>6. CASE Remap
  <2>1. need > size /\ need \in Nat /\ size \in Nat
    BY <1>0, <1>6 DEF Remap, NeedInv
  <2>2. GrownSize(need) \in Nat /\ GrownSize(need) >= need
    BY <2>1, GrownSizeProps
  <2>3. QED
    BY <1>0, <1>6, <2>1, <2>2 DEF Remap
<1>7. CASE Copy
  <2>1. /\ committed < need /\ need <= size /\ size <= Len(log)
        /\ Len(stream) = committed /\ committed = published /\ lenOf = opens
        /\ \A i \in 1..committed : log[i] = stream[i]
    BY <1>7 DEF Copy
  <2>2. /\ log' = Copied(log, committed, need, writes + 1)
        /\ stream' = Extended(stream, need, writes + 1)
        /\ pc' = "publish"
        /\ UNCHANGED <<own, sidecar, disk, bounds, acked, flushed>>
    BY <1>7 DEF Copy, CopyBytes
  <2>3. /\ Len(log') = Len(log) /\ Len(stream') = need
        /\ \A i \in 1..need : log'[i] = stream'[i]
    BY <1>0, <2>1, <2>2, BytesCopied
  <2>4. QED
    BY <1>0, <2>1, <2>2, <2>3
<1>8. CASE PublishLength
  BY <1>0, <1>8 DEF PublishLength, Publish
<1>9. CASE PublishEarly
  BY <1>9 DEF PublishEarly
<1>10. CASE CopyLate
  BY <1>10 DEF CopyLate
<1>11. CASE Flush
  BY <1>0, <1>11 DEF Flush
<1>12. CASE Close
  BY <1>0, <1>12 DEF Close
<1>13. CASE SyncLog
  BY <1>0, <1>13 DEF SyncLog
<1>14. CASE SyncLen
  BY <1>0, <1>14 DEF SyncLen
<1>15. CASE Trim
  <2>1. /\ Len(log') = committed
        /\ \A i \in 1..committed : log'[i] = IF i <= Len(log) THEN log[i] ELSE 0
    BY <1>0, <1>15, TruncatedProps DEF Trim
  <2>2. pc = "trim" /\ pc' = "closed" /\ UNCHANGED <<own, sidecar, disk, bounds, history>>
    BY <1>15 DEF Trim
  <2>3. /\ committed = published /\ Len(stream) = committed
        /\ committed <= Len(log) /\ \A i \in 1..committed : log[i] = stream[i]
    BY <1>0, <2>2
  <2>4. PublishedInPlace'
    BY <1>0, <2>1, <2>2, <2>3
  <2>5. WriterInv'
    BY <2>2
  <2>6. QED
    BY <2>4, <2>5
<1>16. CASE Fail
  <2>1. /\ pc \in Opening \cup Flushing \cup Closing \cup {"grow", "remap"}
        /\ UNCHANGED <<own, log, disk, opens, history>>
        /\ UNCHANGED sidecar \/ (pc \in Opening /\ published' = 0 /\ lenOf' = opens)
    BY <1>16 DEF Fail
  <2>2. CASE pc \in Opening
    <3>1. pc' = "none"
      BY <1>16, <2>2 DEF Fail
    <3>2. QED
      BY <1>0, <2>1, <2>2, <3>1
  <2>3. CASE pc \notin Opening
    <3>1. pc' = "ready"
      BY <1>16, <2>3 DEF Fail
    <3>2. UNCHANGED sidecar /\ pc \in Live /\ pc # "publish"
      BY <2>1, <2>3
    <3>3. QED
      BY <1>0, <2>1, <2>3, <3>1, <3>2
  <2>4. QED
    BY <2>2, <2>3
<1>17. CASE WritebackLog \/ WritebackLen
  <2>1. UNCHANGED <<pc, own, file, opens, history>>
    BY <1>17 DEF WritebackLog, WritebackLen
  <2>2. diskLenOf' \in {diskLenOf, lenOf}
    BY <1>17 DEF WritebackLog, WritebackLen
  <2>3. QED
    BY <1>0, <2>1, <2>2 DEF GrownSize
<1>18. CASE ProcessCrash
  BY <1>0, <1>18 DEF ProcessCrash
<1>19. QED
  BY <1>1, <1>2, <1>3, <1>4, <1>5, <1>6, <1>7, <1>8, <1>9, <1>10, <1>11, <1>12, <1>13,
     <1>14, <1>15, <1>16, <1>17, <1>18 DEF Writer

-----------------------------------------------------------------------------
(* Acknowledged and flushed bytes.                                         *)

\* Every step keeps the acknowledged bytes published and the flushed ones on the disk.
LEMMA AckStep ==
    ASSUME ConstantsOK, TypeOK, NeedInv, AckInv, [Next]_vars
    PROVE  AckInv'
<1> USE DEF AckInv, Idle, Opening, Live, Writing, Flushing, Closing
<1>0. /\ committed \in Nat /\ need \in Nat /\ published \in Nat /\ diskLen \in Nat
      /\ acked \in Nat /\ flushed \in Nat
      /\ opens \in Nat /\ lenOf \in 0..opens /\ diskLenOf \in 0..opens
  BY DEF TypeOK
<1>1. CASE OpenLog
  BY <1>0, <1>1 DEF OpenLog
<1>2. CASE SizeLog \/ OpenLen
  BY <1>0, <1>2 DEF SizeLog, OpenLen
<1>3. ASSUME NEW n \in Sizes, Write(n)
      PROVE  AckInv'
  BY <1>0, <1>3 DEF Write, ConstantsOK
<1>4. CASE GrowFile \/ Remap
  BY <1>0, <1>4 DEF GrowFile, Remap
<1>5. CASE Copy
  BY <1>0, <1>5 DEF Copy, CopyBytes
<1>6. CASE PublishLength
  BY <1>0, <1>6 DEF PublishLength, Publish
<1>7. CASE PublishEarly
  BY <1>0, <1>7 DEF PublishEarly
<1>8. CASE CopyLate
  BY <1>0, <1>8 DEF CopyLate, CopyBytes
<1>9. CASE Flush \/ Close \/ SyncLog \/ Trim
  BY <1>0, <1>9 DEF Flush, Close, SyncLog, Trim
<1>10. CASE SyncLen
  BY <1>0, <1>10 DEF SyncLen
<1>11. CASE Fail
  BY <1>0, <1>11 DEF Fail
<1>12. CASE Environment
  BY <1>0, <1>12 DEF Environment, WritebackLog, WritebackLen, ProcessCrash, MachineCrash
<1>13. CASE UNCHANGED vars
  BY <1>13 DEF vars
<1>14. QED
  BY <1>1, <1>2, <1>3, <1>4, <1>5, <1>6, <1>7, <1>8, <1>9, <1>10, <1>11, <1>12, <1>13
     DEF Next, Writer

-----------------------------------------------------------------------------
(* The theorems.                                                           *)

\* Every variable keeps its type in every run of the destination, and a growing
\* write() never computes a length below the one it needs.
THEOREM TypeCorrect == Spec => [](TypeOK /\ NeedInv)
<1>1. Init => TypeOK /\ NeedInv
  BY ConstantsOK, TypeInit
<1>2. (TypeOK /\ NeedInv) /\ [Next]_vars => (TypeOK /\ NeedInv)'
  BY ConstantsOK, TypeStep
<1>3. QED
  BY <1>1, <1>2, PTL DEF Spec

\* Where the machine does not lose power, an open destination and its files agree.
LEMMA WriterAlways ==
    ASSUME StoresInOrder, ~MachineCrashes
    PROVE  Spec => [](WriterInv /\ PublishedInPlace)
<1> DEFINE Inv == WriterInv /\ PublishedInPlace
<1>1. Init => Inv
  BY ConstantsOK, FileInit
<1>2. ASSUME TypeOK, NeedInv, Inv, [Next]_vars
      PROVE  Inv'
  <2>1. CASE Writer \/ WritebackLog \/ WritebackLen \/ ProcessCrash
    BY <1>2, <2>1, ConstantsOK, FileStep
  <2>2. CASE MachineCrash
    BY <2>2 DEF MachineCrash
  <2>3. CASE UNCHANGED vars
    BY <1>2, <2>3 DEF vars, WriterInv, PublishedInPlace, InPlace, GrownSize
  <2>4. QED
    BY <1>2, <2>1, <2>2, <2>3 DEF Next, Environment
<1>3. (TypeOK /\ NeedInv) /\ Inv /\ [Next]_vars => Inv'
  BY <1>2
<1> HIDE DEF Inv
<1>4. Spec => []Inv
  BY <1>1, <1>3, TypeCorrect, PTL DEF Spec
<1>5. QED
  BY <1>4 DEF Inv

\* The kernel may write back what it likes then: a reader never finds the
\* committed length ahead of the bytes.
THEOREM ReadersSeeWrittenBytes ==
    ASSUME StoresInOrder, ~MachineCrashes
    PROVE  Spec => []PublishedInPlace
<1>1. Spec => [](WriterInv /\ PublishedInPlace)
  BY WriterAlways
<1> QED
  BY <1>1, PTL

-----------------------------------------------------------------------------
(* Between two write() calls the bytes are in place in whichever order the    *)
(* two stores are seen, and close() leaves the plain stream.                  *)

\* WriterInv without an order of the stores: a length seen early covers a copy
\* that is still to come, and the file of a close() that did not raise is trimmed.
PlacedInv ==
    /\ pc \in Opening => committed = 0 /\ stream = <<>> /\ size <= Len(log)
    /\ pc \in Live => /\ committed <= size /\ size <= Len(log)
                      /\ Len(stream) = IF pc = "publish" THEN need ELSE committed
                      /\ InPlace(log, Len(stream))
                      /\ pc # "late" => published = committed
    /\ pc \in {"copy", "publish", "late"} => committed < need /\ need <= size
    /\ pc = "late" => published = need
    /\ pc = "remap" => Len(log) = GrownSize(need)
    /\ pc = "closed" => log = stream /\ published = Len(log)

\* A copied record, before or after its length is seen, is in place in the file.
LEMMA CopyBytesPlaced ==
    ASSUME TypeOK, PlacedInv, CopyBytes, pc \in {"copy", "late"}
    PROVE  /\ Len(log') = Len(log) /\ Len(stream') = need
           /\ \A i \in 1..need : log'[i] = stream'[i]
<1>1. /\ log \in Seq(Nat) /\ stream \in Seq(Nat) /\ need \in Nat /\ writes \in Nat
      /\ committed \in Nat /\ size \in Nat /\ Len(log) \in Nat
  BY LenProperties DEF TypeOK
<1>2. /\ committed = Len(stream) /\ committed <= need /\ need <= Len(log)
      /\ \A i \in 1..committed : log[i] = stream[i]
  BY <1>1 DEF PlacedInv, InPlace, Live, Writing
<1>3. /\ log' = Copied(log, committed, need, writes + 1)
      /\ stream' = Extended(stream, need, writes + 1)
  BY DEF CopyBytes
<1> QED
  BY <1>1, <1>2, <1>3, BytesCopied

\* A truncation that cuts nothing of the stream leaves the stream in place.
LEMMA TruncatedPlaced ==
    ASSUME TypeOK, NEW n \in Nat, Len(stream) <= n, Len(stream) <= Len(log),
           \A i \in 1..Len(stream) : log[i] = stream[i], log' = Truncated(log, n)
    PROVE  Len(log') = n /\ \A i \in 1..Len(stream) : log'[i] = stream[i]
<1>1. log \in Seq(Nat) /\ Len(log) \in Nat /\ stream \in Seq(Nat) /\ Len(stream) \in Nat
  BY LenProperties DEF TypeOK
<1>2. /\ Len(log') = n
      /\ \A i \in 1..n : log'[i] = IF i <= Len(log) THEN log[i] ELSE 0
  BY <1>1, TruncatedProps
<1>3. \A i \in 1..Len(stream) : i \in 1..n /\ i <= Len(log)
  BY <1>1
<1> QED
  BY <1>2, <1>3

\* Every step, in any order of the two stores.
LEMMA PlacedStep ==
    ASSUME ConstantsOK, TypeOK, NeedInv, PlacedInv, [Next]_vars
    PROVE  PlacedInv'
<1> USE DEF PlacedInv, InPlace, Idle, Opening, Live, Writing, Flushing, Closing
<1>0. /\ size \in Nat /\ committed \in Nat /\ need \in Nat /\ published \in Nat
      /\ log \in Seq(Nat) /\ stream \in Seq(Nat) /\ writes \in Nat
      /\ Len(log) \in Nat /\ Len(stream) \in Nat
  BY LenProperties DEF TypeOK
<1>1. CASE OpenLog
  <2>1. Len(log') = 0
    BY <1>1, EmptySeq DEF OpenLog
  <2> QED
    BY <1>0, <1>1, <2>1 DEF OpenLog
<1>2. CASE SizeLog
  <2>1. Len(log') = Chunk
    BY <1>0, <1>2, TruncatedProps DEF SizeLog, ConstantsOK
  <2> QED
    BY <1>0, <1>2, <2>1 DEF SizeLog, ConstantsOK
<1>3. CASE OpenLen
  <2>1. Len(stream) = 0 /\ committed = 0 /\ size <= Len(log)
    BY <1>3, EmptySeq DEF OpenLen
  <2> QED
    BY <1>0, <1>3, <2>1 DEF OpenLen
<1>4. ASSUME NEW n \in Sizes, Write(n)
      PROVE  PlacedInv'
  BY <1>0, <1>4 DEF Write, ConstantsOK
<1>5. CASE GrowFile
  <2> DEFINE m == GrownSize(need)
  <2>1. m \in Nat /\ m >= need /\ need > size
    BY <1>0, <1>5, GrownSizeProps DEF GrowFile, NeedInv
  <2>2. m = GrownSize(need)' /\ log' = Truncated(log, m)
    BY <1>5 DEF GrowFile, GrownSize
  <2> HIDE DEF m
  <2>3. /\ pc = "grow" /\ pc' = "remap"
        /\ UNCHANGED <<own, sidecar, disk, bounds, history>>
    BY <1>5 DEF GrowFile
  <2>4. /\ Len(stream) = committed /\ committed <= size /\ size <= Len(log)
        /\ \A i \in 1..Len(stream) : log[i] = stream[i]
        /\ published = committed
    BY <2>3
  <2>5. Len(stream) <= m /\ Len(stream) <= Len(log) /\ size <= m
    BY <1>0, <2>1, <2>4
  <2>6. Len(log') = m /\ \A i \in 1..Len(stream) : log'[i] = stream[i]
    BY <2>1, <2>2, <2>4, <2>5, TruncatedPlaced
  <2> QED
    BY <1>0, <2>1, <2>2, <2>3, <2>4, <2>5, <2>6, SMTT(30)
<1>6. CASE Remap
  <2>1. need > size /\ need \in Nat /\ size \in Nat
    BY <1>0, <1>6 DEF Remap, NeedInv
  <2>2. GrownSize(need) \in Nat /\ GrownSize(need) >= need
    BY <2>1, GrownSizeProps
  <2> QED
    BY <1>0, <1>6, <2>1, <2>2 DEF Remap
<1>7. CASE Copy \/ CopyLate
  <2>1. /\ pc \in {"copy", "late"} /\ CopyBytes
        /\ UNCHANGED <<size, closed, need, sidecar, fails>>
        /\ \/ pc = "copy" /\ pc' = "publish" /\ committed' = committed
           \/ pc = "late" /\ pc' = "ready" /\ committed' = need
    BY <1>7 DEF Copy, CopyLate
  <2>2. /\ Len(log') = Len(log) /\ Len(stream') = need
        /\ \A i \in 1..need : log'[i] = stream'[i]
    BY <2>1, CopyBytesPlaced
  <2>3. /\ committed < need /\ need <= size /\ size <= Len(log)
        /\ pc = "late" => published = need
        /\ pc = "copy" => published = committed
    BY <2>1
  <2> QED
    BY <1>0, <2>1, <2>2, <2>3
<1>8. CASE PublishLength \/ PublishEarly
  BY <1>0, <1>8 DEF PublishLength, Publish, PublishEarly
<1>9. CASE Flush \/ Close \/ SyncLog \/ SyncLen
  BY <1>0, <1>9 DEF Flush, Close, SyncLog, SyncLen
<1>10. CASE Trim
  <2>1. /\ pc = "trim" /\ pc' = "closed" /\ log' = Truncated(log, committed)
        /\ Len(stream) = committed /\ committed <= size /\ size <= Len(log)
        /\ \A i \in 1..Len(stream) : log[i] = stream[i]
        /\ published = committed
        /\ UNCHANGED <<stream, published>>
    BY <1>10 DEF Trim
  <2>2. Len(stream) <= Len(log)
    BY <1>0, <2>1
  <2>3. Len(log') = Len(stream) /\ \A i \in 1..Len(stream) : log'[i] = stream[i]
    BY <1>0, <2>1, <2>2, TruncatedPlaced
  <2>4. log' \in Seq(Nat)
    BY <1>0, <2>1, TruncatedProps
  <2>5. log' = stream
    BY <1>0, <2>3, <2>4, SeqEqual
  <2> QED
    BY <2>1, <2>3, <2>5
<1>11. CASE Fail
  <2>1. /\ UNCHANGED <<own, log, history>>
        /\ pc' = "none" \/ (pc' = "ready" /\ UNCHANGED sidecar)
        /\ pc' = "ready" => pc \in Live /\ pc \notin {"publish", "late"}
    BY <1>11 DEF Fail
  <2> QED
    BY <1>0, <2>1
<1>12. CASE Environment
  BY <1>0, <1>12 DEF Environment, WritebackLog, WritebackLen, ProcessCrash, MachineCrash, GrownSize
<1>13. CASE UNCHANGED vars
  BY <1>13 DEF vars, GrownSize
<1> QED
  BY <1>1, <1>2, <1>3, <1>4, <1>5, <1>6, <1>7, <1>8, <1>9, <1>10, <1>11, <1>12, <1>13
     DEF Next, Writer

\* The bytes in place between two write() calls, an invariant of every run.
LEMMA PlacedAlways == Spec => []PlacedInv
<1>1. Init => PlacedInv
  <2>1. Init => pc = "none"
    BY DEF Init
  <2> QED
    BY <2>1 DEF PlacedInv, Opening, Live, Writing, Flushing, Closing
<1>2. (TypeOK /\ NeedInv) /\ PlacedInv /\ [Next]_vars => PlacedInv'
  BY ConstantsOK, PlacedStep
<1> QED
  BY <1>1, <1>2, TypeCorrect, PTL DEF Spec

\* A length read while no write() is running covers only bytes that are in place,
\* also where the length may be seen before the bytes it points at.
THEOREM QuiescentInPlaceAlways == Spec => []QuiescentInPlace
<1>1. TypeOK /\ PlacedInv => QuiescentInPlace
  BY LenProperties DEF TypeOK, PlacedInv, QuiescentInPlace, InPlace, Live, Writing
<1> QED
  BY <1>1, PlacedAlways, TypeCorrect, PTL

\* A close() that did not raise leaves exactly the written stream and its length,
\* whatever raised before it.
THEOREM ClosedIsPlainStreamAlways == Spec => []ClosedIsPlainStream
<1>1. PlacedInv => ClosedIsPlainStream
  BY DEF PlacedInv, ClosedIsPlainStream
<1> QED
  BY <1>1, PlacedAlways, PTL

-----------------------------------------------------------------------------
(* Where the acknowledged and the flushed bytes are, in any order of the       *)
(* stores and whatever the kernel writes back.                                *)

\* Within one life of the file the stream is only extended.
LEMMA StreamExtends ==
    ASSUME TypeOK, [Next]_vars, opens' = opens
    PROVE  /\ stream' \in Seq(Nat)
           /\ \A i \in 1..Len(stream) : i <= Len(stream') => stream'[i] = stream[i]
<1>1. stream \in Seq(Nat) /\ need \in Nat /\ writes + 1 \in Nat /\ opens \in Nat
  BY DEF TypeOK
<1>2. CASE stream' = stream
  BY <1>1, <1>2
<1>3. CASE stream' = Extended(stream, need, writes + 1)
  <2>1. /\ Extended(stream, need, writes + 1) \in Seq(Nat)
        /\ Len(Extended(stream, need, writes + 1)) = need
        /\ \A i \in 1..need : i <= Len(stream)
                                => Extended(stream, need, writes + 1)[i] = stream[i]
    BY ONLY <1>1, ExtendedProps
  <2>2. \A i \in 1..Len(stream) : i <= need => i \in 1..need /\ i <= Len(stream)
    BY <1>1, LenProperties
  <2> QED
    BY <1>3, <2>1, <2>2
<1>4. ~OpenLog
  BY <1>1 DEF OpenLog
<1>5. stream' = stream \/ stream' = Extended(stream, need, writes + 1)
  BY <1>4 DEF Next, Writer, Environment, vars, SizeLog, OpenLen, Write, GrowFile, Remap, Copy,
     CopyBytes, PublishLength, PublishEarly, CopyLate, Flush, Close, SyncLog, SyncLen, Trim, Fail,
     WritebackLog, WritebackLen, ProcessCrash, MachineCrash
<1> QED
  BY <1>2, <1>3, <1>5

\* A file that is not touched keeps its first n bytes in place while the stream grows.
LEMMA StillInPlace ==
    ASSUME TypeOK, [Next]_vars, opens' = opens, NEW f, NEW n \in Nat,
           InPlace(f, n), n <= Len(stream')
    PROVE  InPlace(f, n)'
<1>1. \A i \in 1..Len(stream) : i <= Len(stream') => stream'[i] = stream[i]
  BY StreamExtends
<1>2. stream \in Seq(Nat) /\ Len(stream) \in Nat /\ stream' \in Seq(Nat) /\ Len(stream') \in Nat
  BY StreamExtends, LenProperties DEF TypeOK
<1>3. n <= Len(f) /\ n <= Len(stream) /\ \A i \in 1..n : f[i] = stream[i]
  BY DEF InPlace
<1>4. \A i \in 1..n : i \in 1..Len(stream) /\ i <= Len(stream')
  BY <1>2, <1>3
<1> QED
  BY <1>1, <1>3, <1>4 DEF InPlace

\* Every step keeps them there.
LEMMA BytesStep ==
    ASSUME ConstantsOK, TypeOK, NeedInv, PlacedInv, AckInv, BytesInv, [Next]_vars,
           TypeOK', NeedInv', PlacedInv', AckInv'
    PROVE  BytesInv'
<1> USE DEF Idle, Opening, Live, Writing, Flushing, Closing
<1>0. /\ committed \in Nat /\ need \in Nat /\ published \in Nat
      /\ acked \in Nat /\ flushed \in Nat /\ acked' \in Nat /\ flushed' \in Nat
      /\ log \in Seq(Nat) /\ diskLog \in Seq(Nat) /\ stream \in Seq(Nat)
      /\ Len(log) \in Nat /\ Len(diskLog) \in Nat /\ Len(stream) \in Nat
      /\ log' \in Seq(Nat) /\ diskLog' \in Seq(Nat) /\ stream' \in Seq(Nat)
      /\ Len(log') \in Nat /\ Len(diskLog') \in Nat /\ Len(stream') \in Nat
      /\ opens \in Nat
  BY LenProperties DEF TypeOK
<1>1. /\ InPlace(log, acked) /\ InPlace(diskLog, flushed) /\ flushed <= acked
      /\ pc \in {"sync_len", "close_len"} => InPlace(diskLog, acked)
  BY DEF BytesInv, AckInv
<1>2. InPlace(log, flushed)
  <2>1. acked <= Len(log) /\ acked <= Len(stream) /\ flushed <= acked
        /\ \A i \in 1..acked : log[i] = stream[i]
    BY <1>1 DEF InPlace
  <2>2. \A i \in 1..flushed : i \in 1..acked
    BY ONLY <1>0, <2>1
  <2> QED
    BY <1>0, <2>1, <2>2 DEF InPlace
<1>3. ASSUME pc' \in Live PROVE InPlace(log, acked)'
  <2>1. committed' \in Nat /\ need' \in Nat
    BY DEF TypeOK
  <2>2. acked' <= committed'
    BY <1>3 DEF AckInv
  <2>3. /\ Len(stream') = IF pc' = "publish" THEN need' ELSE committed'
        /\ pc' = "publish" => committed' < need'
    BY <1>3 DEF PlacedInv
  <2>4. Len(stream') <= Len(log') /\ \A i \in 1..Len(stream') : log'[i] = stream'[i]
    BY <1>3 DEF PlacedInv, InPlace
  <2>5. acked' <= Len(stream')
    BY <1>0, <2>1, <2>2, <2>3
  <2>6. acked' <= Len(log') /\ \A i \in 1..acked' : i \in 1..Len(stream')
    BY <1>0, <2>4, <2>5
  <2> QED
    BY <2>4, <2>5, <2>6 DEF InPlace
<1>4. ASSUME pc' \in Opening PROVE InPlace(log, acked)'
  <2>1. acked' = 0
    BY <1>4 DEF AckInv
  <2> QED
    BY <1>0, <2>1 DEF InPlace
<1>5. CASE OpenLog
  <2>1. /\ acked' = 0 /\ flushed' = 0 /\ pc' = "created"
    BY <1>5 DEF OpenLog
  <2> QED
    BY <1>0, <2>1 DEF BytesInv, InPlace
<1>6. CASE Copy \/ CopyLate
  <2>1. /\ pc \in {"copy", "late"} /\ pc' \in {"publish", "ready"}
        /\ UNCHANGED <<opens, diskLog, flushed>>
        /\ stream' = Extended(stream, need, writes + 1)
    BY <1>6 DEF Copy, CopyLate, CopyBytes
  <2>2. committed <= need /\ acked <= committed /\ Len(stream) = committed
    BY <2>1 DEF PlacedInv, AckInv
  <2>3. Len(stream') = need
    <3>1. writes + 1 \in Nat
      BY DEF TypeOK
    <3> QED
      BY ONLY <1>0, <2>1, <3>1, ExtendedProps
  <2>4. flushed <= Len(stream')
    BY <1>0, <1>1, <2>2, <2>3
  <2>5. InPlace(diskLog, flushed)'
    BY <1>0, <1>1, <2>1, <2>4, StillInPlace DEF InPlace
  <2> QED
    BY <1>3, <2>1, <2>5 DEF BytesInv
<1>7. CASE SizeLog \/ OpenLen \/ GrowFile \/ Remap \/ PublishLength \/ PublishEarly \/ Flush \/ Close
           \/ \E n \in Sizes : Write(n)
  <2>1. /\ pc' \in Live \cup Opening /\ pc' \notin {"sync_len", "close_len"}
        /\ UNCHANGED <<diskLog, flushed, stream>>
    BY <1>7 DEF SizeLog, OpenLen, GrowFile, Remap, PublishLength, Publish, PublishEarly, Flush, Close,
       Write
  <2> QED
    BY <1>1, <1>3, <1>4, <2>1 DEF BytesInv, InPlace
<1>8. CASE SyncLog
  <2>1. diskLog' = log /\ UNCHANGED <<log, stream, acked, flushed>>
    BY <1>8 DEF SyncLog
  <2> QED
    BY <1>1, <1>2, <2>1 DEF BytesInv, InPlace
<1>9. CASE SyncLen
  <2>1. /\ pc \in {"sync_len", "close_len"} /\ pc' \notin {"sync_len", "close_len"}
        /\ UNCHANGED <<log, diskLog, stream, acked>> /\ flushed' = acked
    BY <1>9 DEF SyncLen
  <2> QED
    BY <1>1, <2>1 DEF BytesInv, InPlace
<1>10. CASE Trim
  <2>1. /\ pc = "trim" /\ pc' = "closed" /\ UNCHANGED <<diskLog, stream, acked, flushed, published>>
    BY <1>10 DEF Trim
  <2>2. log' = stream /\ published' = Len(log') /\ (acked' > 0 => acked' <= published')
    BY <2>1 DEF PlacedInv, AckInv
  <2>3. InPlace(log, acked)'
    BY <1>0, <2>1, <2>2 DEF InPlace
  <2> QED
    BY <1>1, <2>1, <2>3 DEF BytesInv, InPlace
<1>11. CASE Fail \/ ProcessCrash \/ WritebackLen
  <2>1. /\ UNCHANGED <<log, diskLog, stream, acked, flushed>>
        /\ pc' = pc \/ pc' \notin {"sync_len", "close_len"}
    BY <1>11 DEF Fail, ProcessCrash, WritebackLen
  <2> QED
    BY <1>1, <2>1 DEF BytesInv, InPlace
<1>12. CASE WritebackLog
  <2>1. diskLog' = log /\ UNCHANGED <<log, stream, acked, flushed>>
    BY <1>12 DEF WritebackLog
  <2> QED
    BY <1>1, <1>2, <2>1 DEF BytesInv, InPlace
<1>13. CASE MachineCrash
  <2>1. /\ pc' = "dead" /\ log' = diskLog /\ acked' = flushed
        /\ UNCHANGED <<diskLog, stream, flushed>>
    BY <1>13 DEF MachineCrash
  <2> QED
    BY <1>1, <2>1 DEF BytesInv, InPlace
<1>14. CASE UNCHANGED vars
  BY <1>1, <1>14 DEF vars, BytesInv, InPlace
<1> QED
  BY <1>5, <1>6, <1>7, <1>8, <1>9, <1>10, <1>11, <1>12, <1>13, <1>14
     DEF Next, Writer, Environment

LEMMA BytesAlways == Spec => [](AckInv /\ BytesInv)
<1>1. Init => AckInv
  BY DEF Init, AckInv, Opening, Live, Writing, Flushing, Closing
<1>2. (TypeOK /\ NeedInv) /\ AckInv /\ [Next]_vars => AckInv'
  BY ConstantsOK, AckStep
<1>3. Spec => []AckInv
  BY <1>1, <1>2, TypeCorrect, PTL DEF Spec
<1>4. Init => BytesInv
  BY EmptySeq DEF Init, BytesInv, InPlace
<1>5. /\ (TypeOK /\ NeedInv) /\ PlacedInv /\ AckInv
      /\ (TypeOK /\ NeedInv)' /\ PlacedInv' /\ AckInv'
      /\ BytesInv /\ [Next]_vars
      => BytesInv'
  BY ConstantsOK, BytesStep
<1>6. Spec => []BytesInv
  BY <1>3, <1>4, <1>5, PlacedAlways, TypeCorrect, PTL DEF Spec
<1> QED
  BY <1>3, <1>6, PTL

\* A write() that returned stays published and its bytes in the file, through growth,
\* failed calls, the death of the process and, once flushed, that of the machine,
\* whatever the kernel writes back and in whatever order the stores are seen.
THEOREM AckedSafe == Spec => []AckedIsPublished
<1>1. AckInv /\ BytesInv => AckedIsPublished
  BY DEF AckInv, BytesInv, AckedIsPublished
<1> QED
  BY <1>1, BytesAlways, PTL

\* What a completed flush() covered is on the disk, in place and below the length on
\* the disk, and stays there: through writeback of either file, calls that raise and
\* crashes, until the path is opened anew.
THEOREM FlushedIsDurableAlways == Spec => []FlushedIsDurable
<1>1. AckInv /\ BytesInv => FlushedIsDurable
  BY DEF AckInv, BytesInv, FlushedIsDurable
<1> QED
  BY <1>1, BytesAlways, PTL

-----------------------------------------------------------------------------
(* Published bytes never change.                                            *)

\* The first n bytes of a file.
LEMMA PrefixProps ==
    ASSUME NEW f \in Seq(Nat), NEW n \in Nat, n <= Len(f)
    PROVE  /\ SubSeq(f, 1, n) \in Seq(Nat) /\ Len(SubSeq(f, 1, n)) = n
           /\ \A i \in 1..n : SubSeq(f, 1, n)[i] = f[i]
<1>1. \A i \in 1..n : f[i] \in Nat
  BY ElementOfSeq, LenProperties
<1>2. /\ SubSeq(f, 1, n) \in Seq(Nat)
      /\ Len(SubSeq(f, 1, n)) = IF 1 <= n THEN n - 1 + 1 ELSE 0
      /\ \A i \in 1..(n - 1 + 1) : SubSeq(f, 1, n)[i] = f[1 + i - 1]
  BY <1>1, SubSeqProperties
<1>3. n - 1 + 1 = n /\ (~(1 <= n) => n = 0) /\ \A i \in 1..n : 1 + i - 1 = i
  OBVIOUS
<1> QED
  BY <1>2, <1>3

\* Where the bytes are in place before and after a step, the published ones are
\* the same: they are those of the stream.
LEMMA PublishedKept ==
    ASSUME TypeOK, TypeOK', PublishedInPlace, PublishedInPlace', [Next]_vars,
           opens' = opens, lenOf = opens, lenOf' = opens,
           NEW n, n = IF published <= published' THEN published ELSE published'
    PROVE  n <= Len(log') /\ SubSeq(log', 1, n) = SubSeq(log, 1, n)
<1>1. /\ n \in Nat /\ n <= published /\ n <= published'
      /\ published \in Nat /\ published' \in Nat
      /\ log \in Seq(Nat) /\ log' \in Seq(Nat) /\ stream \in Seq(Nat)
      /\ Len(log) \in Nat /\ Len(log') \in Nat /\ Len(stream) \in Nat /\ Len(stream') \in Nat
  BY LenProperties DEF TypeOK
<1>2. /\ published <= Len(log) /\ published <= Len(stream)
      /\ \A i \in 1..published : log[i] = stream[i]
      /\ published' <= Len(log') /\ published' <= Len(stream')
      /\ \A i \in 1..published' : log'[i] = stream'[i]
  BY DEF PublishedInPlace, InPlace
<1>3. \A i \in 1..Len(stream) : i <= Len(stream') => stream'[i] = stream[i]
  BY StreamExtends
<1>4. ASSUME NEW i \in 1..n
      PROVE  log'[i] = log[i]
  <2>0. published <= Len(stream) /\ published' <= Len(stream')
    BY <1>2
  <2>1. i \in 1..published /\ i \in 1..published' /\ i \in 1..Len(stream) /\ i <= Len(stream')
    BY ONLY <1>1, <2>0, i \in 1..n
  <2> QED
    BY <1>2, <1>3, <2>1
<1>5. n <= Len(log) /\ n <= Len(log')
  BY <1>1, <1>2
<1>6. SubSeq(log', 1, n) = SubSeq(log, 1, n)
  <2>1. /\ SubSeq(log, 1, n) \in Seq(Nat) /\ Len(SubSeq(log, 1, n)) = n
        /\ \A i \in 1..n : SubSeq(log, 1, n)[i] = log[i]
    BY <1>1, <1>5, PrefixProps
  <2>2. /\ SubSeq(log', 1, n) \in Seq(Nat) /\ Len(SubSeq(log', 1, n)) = n
        /\ \A i \in 1..n : SubSeq(log', 1, n)[i] = log'[i]
    BY <1>1, <1>5, PrefixProps
  <2> QED
    BY <1>4, <2>1, <2>2, SeqEqual
<1> QED
  BY <1>5, <1>6

\* Growth, flush, close and the death of the writer never move or change a published
\* byte: two readers that read the same range at different times read the same bytes.
THEOREM PublishedBytesNeverChange ==
    ASSUME StoresInOrder, ~MachineCrashes
    PROVE  Spec => PublishedBytesStable
<1>1. Spec => []PublishedInPlace
  BY ReadersSeeWrittenBytes
<1>2. /\ TypeOK /\ TypeOK' /\ PublishedInPlace /\ PublishedInPlace' /\ [Next]_vars
      => [(opens' = opens /\ lenOf = opens /\ lenOf' = opens)
            => LET n == IF published <= published' THEN published ELSE published'
               IN  /\ n <= Len(log')
                   /\ SubSeq(log', 1, n) = SubSeq(log, 1, n)]_vars
  <2> SUFFICES ASSUME TypeOK, TypeOK', PublishedInPlace, PublishedInPlace', [Next]_vars,
                      opens' = opens, lenOf = opens, lenOf' = opens
               PROVE  LET n == IF published <= published' THEN published ELSE published'
                      IN  /\ n <= Len(log')
                          /\ SubSeq(log', 1, n) = SubSeq(log, 1, n)
    OBVIOUS
  <2> DEFINE m == IF published <= published' THEN published ELSE published'
  <2>1. m = IF published <= published' THEN published ELSE published'
    OBVIOUS
  <2> HIDE DEF m
  <2>2. m <= Len(log') /\ SubSeq(log', 1, m) = SubSeq(log, 1, m)
    BY <2>1, PublishedKept
  <2> QED
    BY <2>2 DEF m
<1> QED
  BY <1>1, <1>2, TypeCorrect, PTL DEF Spec, PublishedBytesStable


-----------------------------------------------------------------------------
(* The writer, as the reader sees it.                                        *)

\* Records are numbered one after the other and the published length is where one
\* ends; before the only open there is nothing.
StreamInv ==
    /\ Numbered(stream)
    /\ stream # <<>> => stream[Len(stream)] = writes
    /\ published \in 0..Len(stream) /\ Boundary(stream, published)
    /\ published <= MaxOffset /\ need <= MaxOffset
    /\ lenOf = 0 => published = 0
    /\ opens = 0 => pc = "none" /\ stream = <<>>

\* The reader stands where it has read up to, never past the published length.
ReaderInv ==
    /\ followed \in BOOLEAN /\ garbled = FALSE
    /\ offset <= published /\ sampled \in 0..published
    /\ sampled > 0 => offset < sampled
    /\ Position(stream, offset, pending, started, delivered)


\* The reader's steps leave the writer's variables alone.
LEMMA TailStep == TailNext => [Next]_vars
BY DEF TailNext, Reader, Discover, SampleLength, ReadChunk

\* So the destination is the one of MmapDestination, whoever follows it.
LEMMA TailImplies == TailSpec => Spec
<1>1. TailInit => Init
  BY DEF TailInit
<1>2. [TailNext]_tailVars => [Next]_vars
  <2>1. UNCHANGED tailVars => UNCHANGED vars
    BY DEF tailVars
  <2> QED
    BY <2>1, TailStep
<1> QED
  BY <1>1, <1>2, PTL DEF TailSpec, Spec

LEMMA StreamInit == ConstantsOK /\ Init => StreamInv
<1> SUFFICES ASSUME ConstantsOK, Init PROVE StreamInv
  OBVIOUS
<1>1. stream = <<>> /\ stream \in Seq(Nat) /\ Len(stream) = 0
  BY EmptySeq DEF Init
<1>2. Numbered(stream)
  BY <1>1 DEF Numbered
<1>3. Boundary(stream, published)
  BY DEF Init, Boundary
<1> QED
  BY <1>1, <1>2, <1>3 DEF StreamInv, Init, ConstantsOK

\* A copy adds one record to the stream.
LEMMA CopyAdds ==
    ASSUME TypeOK, WriterInv, StreamInv, Copy
    PROVE  /\ OneMore(stream, stream') /\ writes' = writes + 1
           /\ stream' \in Seq(Nat) /\ Len(stream') = need
           /\ stream'[Len(stream')] = writes'
<1> DEFINE b == writes + 1
<1>1. /\ stream \in Seq(Nat) /\ need \in Nat /\ writes \in Nat /\ Len(stream) \in Nat
      /\ stream' = Extended(stream, need, b) /\ writes' = b
      /\ stream # <<>> => stream[Len(stream)] = writes
  BY LenProperties DEF TypeOK, StreamInv, Copy, CopyBytes
<1>2. b \in Nat
  BY <1>1
<1>3. Len(stream) < need
  BY <1>1 DEF Copy, WriterInv, Live, Writing
<1> HIDE DEF b
<1>4. /\ Extended(stream, need, b) \in Seq(Nat) /\ Len(Extended(stream, need, b)) = need
      /\ \A i \in 1..need : i <= Len(stream) => Extended(stream, need, b)[i] = stream[i]
      /\ \A i \in 1..need : i > Len(stream) => Extended(stream, need, b)[i] = b
  BY <1>1, <1>2, ExtendedProps
<1>5. /\ stream' \in Seq(Nat) /\ Len(stream') = need
      /\ \A i \in 1..Len(stream) : stream'[i] = stream[i]
      /\ \A i \in Len(stream) + 1 .. need : stream'[i] = b
      /\ need \in Len(stream) + 1 .. need /\ Len(stream) + 1 \in Len(stream) + 1 .. need
  BY <1>1, <1>3, <1>4
<1>6. stream # <<>> => b = stream[Len(stream)] + 1
  BY <1>1 DEF b
<1>7. OneMore(stream, stream')
  BY <1>1, <1>3, <1>5, <1>6 DEF OneMore, Begins
<1> QED
  BY <1>1, <1>5, <1>7 DEF b

\* Every step of the writer keeps the stream's records whole and in order.
LEMMA StreamStep ==
    ASSUME ConstantsOK, StoresInOrder, ~MachineCrashes, MaxOpens <= 1,
           TypeOK, NeedInv, WriterInv, StreamInv, [Next]_vars
    PROVE  StreamInv'
<1>1. CASE OpenLog
  <2>1. opens = 0 /\ lenOf = 0 /\ opens' = 1
    BY <1>1 DEF OpenLog, TypeOK, ConstantsOK
  <2>2. stream' = <<>> /\ stream' = stream /\ published' = published /\ lenOf' = lenOf
        /\ need' = 0 /\ writes' = writes
    BY <1>1, <2>1 DEF OpenLog, StreamInv
  <2> QED
    BY <2>1, <2>2 DEF StreamInv, ConstantsOK
<1>2. CASE OpenLen \/ Fail
  <2>1. /\ stream' = stream /\ writes' = writes /\ opens' = opens /\ need' = need
        /\ opens # 0
        /\ \/ published' = published /\ lenOf' = lenOf
           \/ published' = 0 /\ lenOf' = opens
    BY <1>2 DEF OpenLen, Fail, StreamInv, Opening, Flushing, Closing
  <2>2. 0 \in 0..Len(stream) /\ Boundary(stream, 0) /\ 0 <= MaxOffset
    BY LenProperties DEF StreamInv, Numbered, Boundary, ConstantsOK
  <2> QED
    BY <2>1, <2>2 DEF StreamInv
<1>3. ASSUME NEW n \in Sizes, Write(n)
      PROVE  StreamInv'
  <2>1. /\ UNCHANGED <<stream, writes, opens, published, lenOf>> /\ need' <= MaxOffset
        /\ opens # 0
    BY <1>3 DEF Write, StreamInv
  <2> QED
    BY <2>1 DEF StreamInv
<1>4. CASE Copy
  <2>1. /\ OneMore(stream, stream') /\ stream' \in Seq(Nat) /\ Len(stream') = need
        /\ stream'[Len(stream')] = writes'
    BY <1>4, CopyAdds
  <2>2. Numbered(stream) /\ published \in 0..Len(stream) /\ Boundary(stream, published)
        /\ Len(stream) \in Nat
    BY LenProperties DEF StreamInv, Numbered
  <2>3. Numbered(stream') /\ Boundary(stream', published)
    BY <2>1, <2>2, OneMoreNumbered, BoundaryKept
  <2>4. published \in 0..Len(stream')
    BY <2>1, <2>2 DEF OneMore
  <2>5. UNCHANGED <<published, lenOf, opens, need>> /\ opens # 0
    BY <1>4 DEF Copy, StreamInv
  <2> QED
    BY <2>1, <2>3, <2>4, <2>5 DEF StreamInv
<1>5. CASE PublishLength
  <2>1. /\ UNCHANGED <<stream, writes, opens, need>> /\ published' = need /\ lenOf' = opens
        /\ opens # 0 /\ Len(stream) = need
    BY <1>5 DEF PublishLength, Publish, StreamInv, WriterInv, Live, Writing
  <2>2. need \in 0..Len(stream) /\ Boundary(stream, need)
    BY <2>1 DEF TypeOK, Boundary
  <2> QED
    BY <2>1, <2>2 DEF StreamInv
<1>6. CASE PublishEarly \/ CopyLate \/ MachineCrash
  BY <1>6 DEF PublishEarly, CopyLate, MachineCrash, WriterInv
<1>7. CASE SizeLog \/ GrowFile \/ Remap \/ Flush \/ Close \/ SyncLog \/ SyncLen \/ Trim
           \/ WritebackLog \/ WritebackLen \/ ProcessCrash \/ UNCHANGED vars
  <2>1. UNCHANGED <<stream, writes, opens, published, lenOf, need>> /\ (opens = 0 => pc' = pc)
    BY <1>7 DEF SizeLog, GrowFile, Remap, Flush, Close, SyncLog, SyncLen, Trim,
                WritebackLog, WritebackLen, ProcessCrash, vars, StreamInv, Idle
  <2> QED
    BY <2>1 DEF StreamInv
<1> QED
  BY <1>1, <1>2, <1>3, <1>4, <1>5, <1>6, <1>7 DEF Next, Writer, Environment

\* What a reader sees of the writer's steps: the length grows over a stream that
\* stays, or a record is added behind the length.
LEMMA StreamGrows ==
    ASSUME ConstantsOK, StoresInOrder, ~MachineCrashes, MaxOpens <= 1,
           TypeOK, NeedInv, WriterInv, StreamInv, [Next]_vars
    PROVE  \/ stream' = stream /\ published' \in Nat /\ published <= published'
           \/ OneMore(stream, stream') /\ published' = published
<1>1. CASE Copy
  <2>1. OneMore(stream, stream')
    BY <1>1, CopyAdds
  <2> QED
    BY <1>1, <2>1 DEF Copy
<1>2. CASE OpenLog
  BY <1>2 DEF OpenLog, StreamInv, TypeOK, ConstantsOK
<1>3. CASE OpenLen \/ Fail
  <2>1. stream' = stream /\ (published' = published \/ published' = 0)
    BY <1>3 DEF OpenLen, Fail
  <2>2. CASE published' = published
    BY <2>1, <2>2 DEF TypeOK
  <2>3. CASE published' # published
    <3>1. pc \in Opening
      BY <1>3, <2>3 DEF OpenLen, Fail, Opening
    <3>2. lenOf = 0
      BY <3>1 DEF WriterInv, TypeOK, ConstantsOK
    <3> QED
      BY <2>1, <3>2 DEF StreamInv
  <2> QED
    BY <2>2, <2>3
<1>4. CASE PublishLength
  BY <1>4 DEF PublishLength, Publish, WriterInv, Live, Writing, TypeOK
<1>5. CASE PublishEarly \/ CopyLate \/ MachineCrash
  BY <1>5 DEF PublishEarly, CopyLate, MachineCrash, WriterInv
<1>6. ASSUME NEW n \in Sizes, Write(n)
      PROVE  stream' = stream /\ published' \in Nat /\ published <= published'
  BY <1>6 DEF Write, TypeOK
<1>7. CASE SizeLog \/ GrowFile \/ Remap \/ Flush \/ Close \/ SyncLog \/ SyncLen \/ Trim
           \/ WritebackLog \/ WritebackLen \/ ProcessCrash \/ UNCHANGED vars
  BY <1>7 DEF SizeLog, GrowFile, Remap, Flush, Close, SyncLog, SyncLen, Trim,
              WritebackLog, WritebackLen, ProcessCrash, vars, TypeOK
<1> QED
  BY <1>1, <1>2, <1>3, <1>4, <1>5, <1>6, <1>7 DEF Next, Writer, Environment

-----------------------------------------------------------------------------
(* The reader.                                                               *)

LEMMA ReaderInit == ConstantsOK /\ TailInit => ReaderInv
<1> SUFFICES ASSUME ConstantsOK, TailInit PROVE ReaderInv
  OBVIOUS
<1>1. /\ stream = <<>> /\ pending = <<>> /\ <<>> \in Seq(Nat) /\ Len(stream) = 0 /\ Len(pending) = 0
      /\ offset = 0 /\ published = 0 /\ sampled = 0 /\ followed = FALSE /\ garbled = FALSE
      /\ started = FALSE /\ delivered = <<>>
  BY EmptySeq DEF TailInit, Init
<1>2. /\ offset \in 0..Len(stream) /\ Len(pending) <= offset /\ offset - Len(pending) = 0
      /\ ~(offset # Len(pending))
  <2>1. offset = 0 /\ Len(stream) = 0 /\ Len(pending) = 0
    BY <1>1
  <2> QED
    BY ONLY <2>1
<1>3. Position(stream, offset, pending, started, delivered)
  <2>1. Boundary(stream, 0) /\ SentTo(stream, 0) = <<>>
    BY DEF Boundary, SentTo
  <2>2. pending \in Seq(Nat) /\ \A i \in 1..Len(pending) : FALSE
    BY <1>1
  <2>3. ~started /\ started \in BOOLEAN
    BY <1>1
  <2> QED
    BY <1>1, <1>2, <2>1, <2>2, <2>3 DEF Position
<1>4. offset <= published /\ sampled \in 0..published /\ (sampled > 0 => offset < sampled)
  BY <1>1
<1>5. followed \in BOOLEAN /\ garbled = FALSE
  BY <1>1
<1> QED
  BY <1>3, <1>4, <1>5 DEF ReaderInv

\* The buffer of a read: what was pending and the log up to where the read ended.
LEMMA ChunkBuffered ==
    ASSUME TypeOK, PublishedInPlace, StreamInv, ReaderInv, MaxOpens <= 1, ConstantsOK,
           NEW end \in offset + 1 .. sampled, sampled > 0
    PROVE  Buffered(stream, offset, pending, end, pending \o SubSeq(log, offset + 1, end),
                    offset - Len(pending))
<1> DEFINE new == SubSeq(log, offset + 1, end)
           from == offset - Len(pending)
           data == pending \o new
<1>1. /\ stream \in Seq(Nat) /\ Len(stream) \in Nat /\ log \in Seq(Nat) /\ Len(log) \in Nat
      /\ pending \in Seq(Nat) /\ Len(pending) \in Nat /\ offset \in Nat /\ Len(pending) <= offset
      /\ sampled \in Nat /\ published \in Nat /\ sampled <= published
      /\ end \in Nat /\ offset < end /\ end <= sampled
      /\ \A i \in 1..Len(pending) : pending[i] = stream[from + i]
  BY LenProperties DEF TypeOK, StreamInv, ReaderInv, Position
<1>2. published # 0
  BY <1>1
<1>3. lenOf = opens
  BY <1>2 DEF StreamInv, TypeOK, ConstantsOK
<1>4. /\ published <= Len(log) /\ published <= Len(stream)
      /\ \A i \in 1..published : log[i] = stream[i]
  BY <1>3 DEF PublishedInPlace, InPlace
<1> DEFINE d == end - offset
<1>5. /\ from \in Nat /\ from + Len(pending) = offset /\ d \in Nat /\ end - from = Len(pending) + d
      /\ end - (offset + 1) + 1 = d /\ offset + 1 <= end
  <2>1. offset \in Nat /\ end \in Nat /\ Len(pending) \in Nat /\ Len(pending) <= offset /\ offset < end
    BY <1>1
  <2> QED
    BY ONLY <2>1
<1>6. \A i \in offset + 1 .. end : i \in 1..published /\ log[i] \in Nat /\ log[i] = stream[i]
  <2> TAKE i \in offset + 1 .. end
  <2>1. i \in 1..published /\ i \in 1..Len(log)
    BY <1>1, <1>4
  <2> QED
    BY <1>1, <1>4, <2>1, ElementOfSeq
<1>7. /\ new \in Seq(Nat) /\ Len(new) = end - (offset + 1) + 1
      /\ \A i \in 1..end - (offset + 1) + 1 : new[i] = log[offset + 1 + i - 1]
  <2> DEFINE m == offset + 1
  <2>1. /\ m \in Int /\ end \in Int /\ m <= end /\ log \in Seq(Nat)
        /\ \A i \in m .. end : log[i] \in Nat
    BY <1>1, <1>5, <1>6
  <2> HIDE DEF m
  <2>2. /\ SubSeq(log, m, end) \in Seq(Nat)
        /\ Len(SubSeq(log, m, end)) = IF m <= end THEN end - m + 1 ELSE 0
        /\ \A i \in 1..end - m + 1 : SubSeq(log, m, end)[i] = log[m + i - 1]
    BY <2>1, SubSeqProperties
  <2>3. Len(SubSeq(log, m, end)) = end - m + 1
    BY <2>1, <2>2
  <2> QED
    BY <2>2, <2>3 DEF m
<1> HIDE DEF new, from, d
<1>8. new \in Seq(Nat) /\ Len(new) = d /\ \A i \in 1..d : new[i] = stream[offset + i]
  <2>1. ASSUME NEW i \in 1..d
        PROVE  new[i] = stream[offset + i]
    <3>1. i \in 1..end - (offset + 1) + 1 /\ offset + 1 + i - 1 = offset + i
          /\ offset + i \in offset + 1 .. end
      BY <1>1, <1>5
    <3> QED
      BY <1>6, <1>7, <3>1
  <2> QED
    BY <1>5, <1>7, <2>1
<1>9. /\ data \in Seq(Nat) /\ Len(data) = Len(pending) + d
      /\ \A i \in 1..Len(pending) + d :
            data[i] = IF i <= Len(pending) THEN pending[i] ELSE new[i - Len(pending)]
  <2>1. data \in Seq(Nat)
    BY <1>1, <1>8, ConcatProperties
  <2>2. Len(data) = Len(pending) + d
    BY <1>1, <1>8, ConcatProperties
  <2>3. \A i \in 1..Len(pending) + d :
            data[i] = IF i <= Len(pending) THEN pending[i] ELSE new[i - Len(pending)]
    BY <1>1, <1>8, ConcatProperties
  <2> QED
    BY <2>1, <2>2, <2>3
<1>10. Len(pending) + d = end - from
  BY <1>5
<1> HIDE DEF data
<1>11. ASSUME NEW i \in 1..Len(data)
       PROVE  data[i] = stream[from + i]
  <2>1. i \in Nat /\ i \in 1..Len(pending) + d
    BY <1>1, <1>5, <1>9
  <2>2. CASE i <= Len(pending)
    <3>1. i \in 1..Len(pending)
      BY <1>1, <2>1, <2>2
    <3> QED
      BY <1>1, <1>9, <2>1, <2>2, <3>1 DEF from
  <2>3. CASE i > Len(pending)
    <3>1. i - Len(pending) \in 1..d /\ offset + (i - Len(pending)) = from + i
          /\ ~(i <= Len(pending))
      <4>1. /\ i \in Nat /\ i \in 1..Len(pending) + d /\ i > Len(pending) /\ Len(pending) \in Nat
            /\ d \in Nat /\ from \in Nat /\ from + Len(pending) = offset /\ offset \in Nat
        BY <1>1, <1>5, <2>1, <2>3
      <4> QED
        BY ONLY <4>1
    <3>2. data[i] = new[i - Len(pending)]
      BY <1>9, <2>1, <3>1
    <3>3. new[i - Len(pending)] = stream[offset + (i - Len(pending))]
      BY <1>8, <3>1
    <3> QED
      BY <3>1, <3>2, <3>3
  <2> QED
    BY <1>1, <2>1, <2>2, <2>3
<1>12. end \in 0..Len(stream)
  BY <1>1, <1>4
<1>13. Buffered(stream, offset, pending, end, data, from)
  BY <1>1, <1>9, <1>10, <1>11, <1>12 DEF Buffered, from
<1> QED
  BY <1>13 DEF data, from, new

\* A read that returns bytes: they are the stream's, and the position is kept.
LEMMA ReadStep ==
    ASSUME ConstantsOK, MaxOpens <= 1, TypeOK, PublishedInPlace, StreamInv, ReaderInv, ReadChunk
    PROVE  ReaderInv' /\ offset - Len(pending) <= offset' - Len(pending')
<1>1. /\ sampled > 0 /\ sampled' = 0 /\ followed' = followed /\ stream' = stream
      /\ published' = published
  BY DEF ReadChunk, vars
<1>2. CASE UNCHANGED <<offset, pending, started, delivered, garbled>>
  BY <1>1, <1>2, LenProperties DEF ReaderInv, Position, StreamInv, Numbered
<1>3. ASSUME NEW end \in offset + 1 .. sampled, offset' = end,
             LET data == pending \o SubSeq(log, offset + 1, end)
                 from == offset - Len(pending)
             IN  IF Sound(stream, data, from)
                 THEN Consume(data, from) /\ UNCHANGED garbled
                 ELSE garbled' = TRUE /\ UNCHANGED <<pending, started, delivered>>
      PROVE  ReaderInv' /\ offset - Len(pending) <= offset' - Len(pending')
  <2> DEFINE data == pending \o SubSeq(log, offset + 1, end)
             from == offset - Len(pending)
  <2>1. Buffered(stream, offset, pending, end, data, from)
    BY <1>1, ChunkBuffered
  <2>2. IF Sound(stream, data, from)
        THEN Consume(data, from) /\ UNCHANGED garbled
        ELSE garbled' = TRUE /\ UNCHANGED <<pending, started, delivered>>
    BY <1>3
  <2> HIDE DEF data, from
  <2>3. Numbered(stream) /\ Position(stream, offset, pending, started, delivered)
    BY DEF StreamInv, ReaderInv
  <2>4. Sound(stream, data, from)
    BY <2>1, <2>3, BufferedProps
  <2>5. PICK ready, keep, handed :
           /\ started' = ready /\ pending' = keep /\ delivered' = handed
           /\ Turn(stream, data, from, started, delivered, ready, keep, handed)
    BY <2>2, <2>4 DEF Consume, Turn, HeaderRecord
  <2>6. Position(stream, end, keep, ready, handed) /\ offset - Len(pending) <= end - Len(keep)
    BY <2>1, <2>3, <2>5, ReaderAdvances
  <2>7. garbled' = FALSE
    BY <2>2, <2>4 DEF ReaderInv
  <2>8. end <= published /\ 0 \in 0..published
    BY DEF ReaderInv, Position, TypeOK
  <2>9. Position(stream', offset', pending', started', delivered')
    BY <1>1, <1>3, <2>5, <2>6
  <2>10. ReaderInv'
    BY <1>1, <1>3, <2>7, <2>8, <2>9 DEF ReaderInv
  <2> QED
    BY <1>3, <2>5, <2>6, <2>10
<1> QED
  BY <1>2, <1>3 DEF ReadChunk

\* Every step of the reader or the writer keeps the reader's position.
LEMMA ReaderStep ==
    ASSUME ConstantsOK, StoresInOrder, ~MachineCrashes, MaxOpens <= 1,
           TypeOK, NeedInv, WriterInv, PublishedInPlace, StreamInv, ReaderInv, [TailNext]_tailVars
    PROVE  ReaderInv'
<1>1. CASE Discover \/ SampleLength
  <2>1. /\ UNCHANGED <<stream, published, offset, pending, started, delivered, garbled>>
        /\ followed' = TRUE \/ followed' = followed
        /\ sampled' = sampled \/ (sampled' = published /\ published > offset)
    BY <1>1 DEF Discover, SampleLength, vars
  <2>2. published \in Nat /\ offset <= published /\ sampled \in 0..published
        /\ (sampled > 0 => offset < sampled)
    BY DEF TypeOK, ReaderInv
  <2>3. followed' \in BOOLEAN
    BY <2>1 DEF ReaderInv
  <2>4. sampled' \in 0..published' /\ (sampled' > 0 => offset' < sampled') /\ offset' <= published'
    BY <2>1, <2>2
  <2>5. Position(stream', offset', pending', started', delivered')
    BY <2>1 DEF ReaderInv
  <2>6. garbled' = FALSE
    BY <2>1 DEF ReaderInv
  <2> QED
    BY <2>3, <2>4, <2>5, <2>6 DEF ReaderInv
<1>2. CASE ReadChunk
  BY <1>2, ReadStep
<1>3. CASE (Next \/ UNCHANGED vars) /\ UNCHANGED reader
  <2>1. \/ stream' = stream /\ published' \in Nat /\ published <= published'
        \/ OneMore(stream, stream') /\ published' = published
    BY <1>3, StreamGrows
  <2>2. /\ UNCHANGED <<followed, sampled, offset, pending, started, delivered, garbled>>
        /\ offset \in Nat /\ published \in Nat /\ published <= Len(stream)
    BY <1>3 DEF reader, TypeOK, ReaderInv, Position, StreamInv
  <2>3. Position(stream', offset, pending, started, delivered)
    <3>1. CASE stream' = stream
      BY <3>1 DEF ReaderInv
    <3>2. CASE OneMore(stream, stream')
      <4>1. offset \in 0..Len(stream)
        BY DEF ReaderInv, Position
      <4> QED
        BY <3>2, <4>1, PositionKept DEF ReaderInv
    <3> QED
      BY <2>1, <3>1, <3>2
  <2> QED
    BY <2>1, <2>2, <2>3 DEF ReaderInv
<1> QED
  BY <1>1, <1>2, <1>3 DEF TailNext, Reader, tailVars, reader

-----------------------------------------------------------------------------
(* The theorems.                                                             *)

TailInv == TypeOK /\ NeedInv /\ WriterInv /\ PublishedInPlace /\ StreamInv /\ ReaderInv

LEMMA TailInvariant ==
    ASSUME StoresInOrder, ~MachineCrashes, MaxOpens <= 1
    PROVE  TailSpec => []TailInv
<1>1. Spec => [](TypeOK /\ NeedInv)
  BY TypeCorrect
<1>2. Spec => [](WriterInv /\ PublishedInPlace)
  BY WriterAlways
<1>3. TailInit => StreamInv /\ ReaderInv
  BY ConstantsOK, StreamInit, ReaderInit DEF TailInit
<1>4. (TypeOK /\ NeedInv) /\ (WriterInv /\ PublishedInPlace)
        /\ (StreamInv /\ ReaderInv) /\ [TailNext]_tailVars => (StreamInv /\ ReaderInv)'
  <2> SUFFICES ASSUME TypeOK, NeedInv, WriterInv, PublishedInPlace, StreamInv, ReaderInv,
                      [TailNext]_tailVars
               PROVE  StreamInv' /\ ReaderInv'
    OBVIOUS
  <2>1. [Next]_vars
    BY TailStep DEF tailVars
  <2> QED
    BY <2>1, ConstantsOK, StreamStep, ReaderStep
<1>5. TailSpec => [](StreamInv /\ ReaderInv)
  BY <1>1, <1>2, <1>3, <1>4, TailImplies, PTL DEF TailSpec
<1> QED
  BY <1>1, <1>2, <1>5, TailImplies, PTL DEF TailInv

\* The reader's variables keep their types, its offset within the bytes written.
THEOREM TailTypeCorrect ==
    ASSUME StoresInOrder, ~MachineCrashes, MaxOpens <= 1
    PROVE  TailSpec => []TailTypeOK
<1>1. TailSpec => []TailInv
  BY TailInvariant
<1>2. TailInv => TailTypeOK
  <2> SUFFICES ASSUME TailInv PROVE TailTypeOK
    OBVIOUS
  <2>1. /\ Numbered(stream) /\ published \in 0..Len(stream) /\ Len(stream) \in Nat
        /\ published \in Nat /\ published <= MaxOffset /\ MaxOffset \in Nat
    BY ConstantsOK, LenProperties DEF TailInv, TypeOK, StreamInv, Numbered, ConstantsOK
  <2>2. /\ offset \in 0..Len(stream) /\ pending \in Seq(Nat) /\ Len(pending) <= offset
        /\ Len(pending) \in Nat /\ Boundary(stream, offset - Len(pending))
        /\ delivered = SentTo(stream, offset - Len(pending))
        /\ offset <= published /\ sampled \in 0..published
    BY LenProperties DEF TailInv, ReaderInv, Position
  <2>3. offset - Len(pending) \in 0..Len(stream)
    BY <2>1, <2>2
  <2>4. delivered \in Seq(Nat)
    BY <2>1, <2>2, <2>3, SentProps
  <2>5. sampled \in 0..MaxOffset /\ offset \in 0..MaxOffset
    BY <2>1, <2>2
  <2>6. followed \in BOOLEAN /\ garbled \in BOOLEAN
    BY DEF TailInv, ReaderInv
  <2>7. started \in BOOLEAN
    BY DEF TailInv, ReaderInv, Position
  <2> QED
    BY <2>2, <2>4, <2>5, <2>6, <2>7 DEF TailTypeOK
<1> QED
  BY <1>1, <1>2, PTL

\* The bytes a pread() returns are the stream's, and every turn of the reader starts
\* to decode where a record starts, however the reads are cut.
THEOREM NeverGarbledAlways ==
    ASSUME StoresInOrder, ~MachineCrashes, MaxOpens <= 1
    PROVE  TailSpec => []NeverGarbled
<1>1. TailSpec => []TailInv
  BY TailInvariant
<1>2. TailInv => NeverGarbled
  BY DEF TailInv, ReaderInv, NeverGarbled
<1> QED
  BY <1>1, <1>2, PTL

\* Every byte up to the offset is the header's, delivered or pending, one of them only.
THEOREM EveryByteOnceAlways ==
    ASSUME StoresInOrder, ~MachineCrashes, MaxOpens <= 1
    PROVE  TailSpec => []EveryByteOnce
<1>1. TailSpec => []TailInv
  BY TailInvariant
<1>2. TailInv => EveryByteOnce
  <2> SUFFICES ASSUME TailInv, started, NEW i \in 1..offset
               PROVE  \/ stream[i] = HeaderRecord
                      \/ stream[i] \in ToSet(delivered) /\ stream[i] \notin ToSet(pending)
                      \/ stream[i] \notin ToSet(delivered) /\ stream[i] \in ToSet(pending)
    BY DEF EveryByteOnce
  <2>1. Numbered(stream) /\ Position(stream, offset, pending, started, delivered)
    BY DEF TailInv, StreamInv, ReaderInv
  <2>2. started = TRUE
    BY <2>1 DEF Position
  <2>3. Position(stream, offset, pending, TRUE, delivered)
    BY <2>1, <2>2
  <2> QED
    BY <2>1, <2>3, TakenOnce DEF HeaderRecord
<1> QED
  BY <1>1, <1>2, PTL

-----------------------------------------------------------------------------
(* The channel.                                                              *)

\* The records published are what a reader of the published bytes hands over.
LEMMA PublishedIsSent == StreamInv => PublishedRecords = SentTo(stream, published)
BY RecordsTo DEF StreamInv, PublishedRecords, HeaderRecord

\* A step of the writer sends records or none.
LEMMA WriterSends ==
    ASSUME StreamInv, StreamInv', UNCHANGED delivered,
           \/ stream' = stream /\ published' \in Nat /\ published <= published'
           \/ OneMore(stream, stream') /\ published' = published
    PROVE  Channel!Send \/ UNCHANGED <<PublishedRecords, delivered>>
<1> DEFINE a == PublishedRecords
           b == PublishedRecords'
<1>1. a = SentTo(stream, published)
  BY PublishedIsSent
<1>2. /\ Numbered(stream) /\ published \in 0..Len(stream) /\ Boundary(stream, published)
      /\ Numbered(stream') /\ published' \in 0..Len(stream') /\ Boundary(stream', published')
  BY DEF StreamInv
<1>3. b = SentTo(stream', published')
  BY <1>2, RecordsTo DEF PublishedRecords, HeaderRecord
<1>4. published \in 0..Len(stream') /\ Boundary(stream', published) /\ published <= published'
      /\ SentTo(stream', published) = a
  <2>1. CASE stream' = stream
    BY <1>1, <1>2, <2>1
  <2>2. CASE OneMore(stream, stream')
    <3>1. published \in 0..Len(stream') /\ published <= published'
      BY <1>2, <2>2, LenProperties DEF OneMore, Begins
    <3> QED
      BY <1>1, <1>2, <2>2, <3>1, BoundaryKept, SentKept
  <2> QED
    BY <2>1, <2>2
<1> HIDE DEF a, b
<1>5. SubSeq(b, 1, Len(a)) = a /\ (a = b \/ Len(b) > Len(a))
  BY <1>2, <1>3, <1>4, SentGrows
<1> QED
  BY <1>5 DEF a, b, Channel!Send

\* A read delivers records that were published, behind those it delivered before.
LEMMA ReadDelivers ==
    ASSUME StreamInv, ReaderInv, ReaderInv', UNCHANGED <<stream, published>>,
           offset - Len(pending) <= offset' - Len(pending')
    PROVE  Channel!Deliver \/ UNCHANGED <<PublishedRecords, delivered>>
<1> DEFINE m == offset - Len(pending)
           n == offset' - Len(pending')
<1>1. /\ Numbered(stream) /\ published \in 0..Len(stream) /\ Boundary(stream, published)
      /\ Len(stream) \in Nat
  BY LenProperties DEF StreamInv, Numbered
<1>2. /\ m \in 0..Len(stream) /\ Boundary(stream, m) /\ delivered = SentTo(stream, m)
  BY LenProperties DEF ReaderInv, Position
<1>3. /\ n \in 0..Len(stream) /\ Boundary(stream, n) /\ delivered' = SentTo(stream, n)
      /\ n <= published
  <2>1. /\ Position(stream', offset', pending', started', delivered') /\ offset' <= published'
    BY DEF ReaderInv
  <2>2. PICK off, rest, done, out : /\ off = offset' /\ rest = pending' /\ done = started'
                                   /\ out = delivered'
    OBVIOUS
  <2>3. Position(stream, off, rest, done, out) /\ off <= published
    BY <2>1, <2>2
  <2>4. /\ off \in 0..Len(stream) /\ Len(rest) \in Nat /\ Len(rest) <= off
        /\ Boundary(stream, off - Len(rest)) /\ out = SentTo(stream, off - Len(rest))
    BY <2>3, LenProperties DEF Position
  <2>5. off - Len(rest) \in 0..Len(stream) /\ off - Len(rest) <= published
    BY <1>1, <2>3, <2>4
  <2> QED
    BY <2>2, <2>4, <2>5
<1>4. m <= n
  OBVIOUS
<1>5. PublishedRecords = SentTo(stream, published) /\ PublishedRecords' = PublishedRecords
  <2>1. PublishedRecords' = PublishedRecords
    BY DEF PublishedRecords, HeaderRecord
  <2> QED
    BY <2>1, PublishedIsSent
<1> HIDE DEF m, n
<1> DEFINE a == SentTo(stream, n)
           k == Len(a)
<1>6. Len(delivered) \in Nat /\ (delivered = a \/ k > Len(delivered))
  BY <1>1, <1>2, <1>3, <1>4, SentGrows
<1>7. /\ k \in Nat /\ Len(PublishedRecords) \in Nat /\ k <= Len(PublishedRecords)
      /\ SubSeq(PublishedRecords, 1, k) = a
  BY <1>1, <1>3, <1>5, SentGrows
<1> HIDE DEF a, k
<1>8. CASE delivered = a
  BY <1>3, <1>5, <1>8 DEF a
<1>9. CASE k > Len(delivered)
  <2>1. k \in 1..Len(PublishedRecords) /\ delivered' = SubSeq(PublishedRecords, 1, k)
    BY <1>3, <1>6, <1>7, <1>9 DEF a
  <2> QED
    BY <1>5, <1>9, <2>1 DEF Channel!Deliver
<1> QED
  BY <1>6, <1>8, <1>9

\* The two files and the reader's offset implement the channel of RecordChannel: the
\* records arrive in the order of the write() calls, none twice and none left out.
\* (That each arrives in the end is liveness, which the run checks.)
THEOREM TailImplementsChannel ==
    ASSUME StoresInOrder, ~MachineCrashes, MaxOpens <= 1
    PROVE  TailSpec => Channel!Safety
<1>1. TailSpec => []TailInv
  BY TailInvariant
<1>2. TailInit => Channel!Init
  <2> SUFFICES ASSUME TailInit PROVE Channel!Init
    OBVIOUS
  <2>1. StreamInv /\ published = 0 /\ delivered = <<>>
    BY ConstantsOK, StreamInit DEF TailInit, Init
  <2>2. PublishedRecords = <<>>
    BY <2>1, PublishedIsSent DEF SentTo
  <2> QED
    BY <2>1, <2>2 DEF Channel!Init
<1>3. TailInv /\ TailInv' /\ [TailNext]_tailVars
        => [Channel!Next]_<<PublishedRecords, delivered>>
  <2> SUFFICES ASSUME TailInv, TailInv', [TailNext]_tailVars
               PROVE  Channel!Send \/ Channel!Deliver \/ UNCHANGED <<PublishedRecords, delivered>>
    BY DEF Channel!Next
  <2> USE DEF TailInv
  <2>1. CASE ReadChunk
    <3>1. offset - Len(pending) <= offset' - Len(pending')
      BY <2>1, ConstantsOK, ReadStep
    <3>2. UNCHANGED <<stream, published>>
      BY <2>1 DEF ReadChunk, vars
    <3> QED
      BY <3>1, <3>2, ReadDelivers
  <2>2. CASE Discover \/ SampleLength
    <3>1. UNCHANGED <<stream, published, delivered>>
      BY <2>2 DEF Discover, SampleLength, vars
    <3> QED
      BY <3>1 DEF PublishedRecords, HeaderRecord
  <2>3. CASE (Next \/ UNCHANGED vars) /\ UNCHANGED reader
    <3>1. \/ stream' = stream /\ published' \in Nat /\ published <= published'
          \/ OneMore(stream, stream') /\ published' = published
      BY <2>3, ConstantsOK, StreamGrows
    <3>2. UNCHANGED delivered
      BY <2>3 DEF reader
    <3> QED
      BY <3>1, <3>2, WriterSends
  <2> QED
    BY <2>1, <2>2, <2>3 DEF TailNext, Reader, tailVars, reader
<1> QED
  BY <1>1, <1>2, <1>3, PTL DEF TailSpec, Channel!Safety
=============================================================================
