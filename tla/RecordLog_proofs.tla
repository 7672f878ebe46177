--------------------------- MODULE RecordLog_proofs ---------------------------
(***************************************************************************)
(* Proofs about RecordLog, for any record sizes, buffer capacity and number    *)
(* of records and failures: where the bytes are, that the flag covers the       *)
(* buffer, that a worker that left its loop left nothing, and, unless a call     *)
(* that raises tears the file, that the reader gets every record in the file.     *)
(***************************************************************************)
EXTENDS RecordLog, RecordDecoding_proofs

-----------------------------------------------------------------------------
(* Sequences.                                                              *)

\* Cutting a sequence anywhere and joining the parts gives it back.
LEMMA CutAndJoin ==
    ASSUME NEW s \in Seq(Nat), NEW n \in 1..Len(s)
    PROVE  /\ SubSeq(s, 1, n) \in Seq(Nat) /\ SubSeq(s, n + 1, Len(s)) \in Seq(Nat)
           /\ SubSeq(s, 1, n) \o SubSeq(s, n + 1, Len(s)) = s
<1>1. Len(s) \in Nat /\ \A i \in 1..Len(s) : s[i] \in Nat
  BY LenProperties, ElementOfSeq
<1>2. SubSeq(s, 1, n) \in Seq(Nat)
  BY <1>1, SubSeqProperties
<1>3. SubSeq(s, n + 1, Len(s)) \in Seq(Nat)
  BY <1>1, SubSeqProperties
<1>4. SubSeq(s, 1, n) \o SubSeq(s, n + 1, Len(s)) = SubSeq(s, 1, Len(s))
  BY <1>1, ConcatAdjacentSubSeq
<1> QED
  BY <1>2, <1>3, <1>4, SubSeqFull

LEMMA Associative ==
    ASSUME NEW s \in Seq(Nat), NEW t \in Seq(Nat), NEW u \in Seq(Nat)
    PROVE  (s \o t) \o u = s \o (t \o u)
OBVIOUS

LEMMA CancelRight ==
    ASSUME NEW s \in Seq(Nat), NEW t \in Seq(Nat), NEW u \in Seq(Nat), s \o u = t \o u
    PROVE  s = t
<1>1. Len(s) \in Nat /\ Len(t) \in Nat /\ Len(u) \in Nat
  BY LenProperties
<1>2. Len(s \o u) = Len(s) + Len(u) /\ Len(t \o u) = Len(t) + Len(u)
  BY ConcatProperties
<1>3. Len(s) = Len(t)
  BY <1>1, <1>2
<1>4. \A i \in 1..Len(s) : s[i] = (s \o u)[i] /\ t[i] = (t \o u)[i]
  BY <1>1, <1>3, ConcatProperties
<1>5. \A i \in 1..Len(s) : s[i] = t[i]
  BY <1>4
<1> QED
  BY <1>3, <1>5, SeqEqual

\* The first part of a joined sequence is a prefix of it, and stays one when more
\* is appended.
LEMMA JoinedHasPrefix ==
    ASSUME NEW s \in Seq(Nat), NEW t \in Seq(Nat), NEW u \in Seq(Nat)
    PROVE  IsPrefix(s, (s \o t) \o u)
<1> DEFINE w == t \o u
<1>1. w \in Seq(Nat)
  BY ConcatProperties
<1>2. (s \o t) \o u = s \o w
  BY Associative
<1>3. /\ Len(s) \in Nat /\ Len(w) \in Nat /\ Len(s \o w) = Len(s) + Len(w)
      /\ s \o w \in Seq(Nat)
  BY <1>1, ConcatProperties, LenProperties
<1>4. SubSeq(s \o w, 1, Len(s)) = SubSeq(s, 1, Len(s))
  <2>1. CASE Len(s) = 0
    BY <2>1, SubSeqEmpty
  <2>2. CASE Len(s) > 0
    BY <2>2, <1>1, <1>3, SubSeqOfConcat1
  <2> QED
    BY <1>3, <2>1, <2>2
<1> QED
  BY <1>2, <1>3, <1>4 DEF IsPrefix

-----------------------------------------------------------------------------
(* The inductive invariant.                                                 *)

\* What BytesInPlace does not say: there are bytes under way only inside a call, a
\* large record goes to the file when the buffer is empty, and the header comes first.
Quiet ==
    /\ pc \notin Writing => out = <<>>
    /\ pc \in {"unopened", "loop", "check", "flush", "idle", "exit", "stopped"} => new = <<>>
    /\ pc = "direct" => buffer = <<>>
    /\ pc = "unopened" => buffer = <<>> /\ stream = <<>> /\ file = <<>> /\ ~pending
    /\ pc \notin {"unopened", "stopped", "dead"} => stream # <<>>

WorkerInv == WorkerTypeOK /\ Quiet /\ BytesInPlace /\ PendingCovers /\ ExitDrains

LEMMA HeaderIsSeq ==
    HeaderBytes \in Seq(Nat) /\ Len(HeaderBytes) = 2 /\ HeaderBytes # <<>>
BY DEF HeaderBytes, Header

LEMMA InitInv == Init => WorkerInv
<1> SUFFICES ASSUME Init PROVE WorkerInv
  OBVIOUS
<1>1. <<>> \in Seq(Nat) /\ Len(<<>>) = 0 /\ <<>> \o <<>> = <<>>
  BY EmptySeq, ConcatEmptySeq
<1>2. WorkerTypeOK
  <2>1. 0 <= Capacity /\ 0 \in 0..MaxFails
    BY LogConstants, HeaderIsSeq
  <2> QED
    BY <1>1, <2>1 DEF Init, WorkerTypeOK
<1>3. Quiet
  BY DEF Init, Quiet
<1>4. BytesInPlace
  BY <1>1 DEF Init, BytesInPlace, Writing
<1>5. PendingCovers /\ ExitDrains
  BY DEF Init, PendingCovers, ExitDrains
<1> QED
  BY <1>2, <1>3, <1>4, <1>5 DEF WorkerInv

-----------------------------------------------------------------------------
(* Every action preserves it.                                               *)

LEMMA AppendRecordInv == WorkerInv /\ AppendRecord => WorkerInv'
<1> SUFFICES ASSUME WorkerInv, AppendRecord PROVE WorkerInv'
  OBVIOUS
<1> DEFINE opened == IF pc = "unopened" THEN HeaderBytes ELSE stream
<1> USE DEF WorkerInv
<1>1. opened \in Seq(Nat) /\ opened # <<>>
  BY HeaderIsSeq DEF AppendRecord, WorkerTypeOK, Quiet
<1>2. Len(opened) \in 1..Len(opened)
  BY <1>1, EmptySeq
<1>3. opened[Len(opened)] + 1 \in Nat
  BY <1>1, <1>2, ElementOfSeq
<1>4. PICK n \in Sizes : new' = [i \in 1..n |-> opened[Len(opened)] + 1]
  BY DEF AppendRecord
<1>5. n \in Nat
  BY LogConstants
<1>6. new' \in Seq(Nat)
  <2> DEFINE next == opened[Len(opened)] + 1
  <2>1. next \in Nat
    BY <1>3
  <2> HIDE DEF next
  <2>2. [i \in 1..n |-> next] \in Seq(Nat)
    BY <1>5, <2>1
  <2> QED
    BY <1>4, <2>2 DEF next
<1>7. WorkerTypeOK'
  BY <1>1, <1>6, HeaderIsSeq, LogConstants DEF AppendRecord, WorkerTypeOK
<1>8. Quiet'
  BY <1>1 DEF AppendRecord, Quiet, Writing
<1>9. BytesInPlace'
  <2>1. CASE pc = "unopened"
    BY <2>1, HeaderIsSeq, ConcatEmptySeq DEF AppendRecord, BytesInPlace, Quiet, Writing
  <2>2. CASE pc = "loop"
    BY <2>2 DEF AppendRecord, BytesInPlace, Writing
  <2> QED
    BY <2>1, <2>2 DEF AppendRecord
<1>10. PendingCovers' /\ ExitDrains'
  BY DEF AppendRecord, PendingCovers, ExitDrains
<1> QED
  BY <1>7, <1>8, <1>9, <1>10

LEMMA BufferInv == WorkerInv /\ Buffer => WorkerInv'
<1> SUFFICES ASSUME WorkerInv, Buffer PROVE WorkerInv'
  OBVIOUS
<1> USE DEF WorkerInv
<1>1. /\ buffer \o new \in Seq(Nat) /\ Len(buffer \o new) = Len(buffer) + Len(new)
      /\ stream \o new \in Seq(Nat) /\ <<>> \in Seq(Nat)
      /\ file \o (buffer \o new) = (file \o buffer) \o new
  <2>1. buffer \in Seq(Nat) /\ new \in Seq(Nat) /\ stream \in Seq(Nat) /\ file \in Seq(Nat)
    BY DEF WorkerTypeOK
  <2>2. file \o (buffer \o new) = (file \o buffer) \o new
    BY <2>1, Associative
  <2> QED
    BY <2>1, <2>2, ConcatProperties, EmptySeq
<1>2. stream # <<>> /\ stream \o new # <<>>
  BY ConcatEqualIffEmpty DEF Buffer, Quiet, WorkerTypeOK
<1>3. WorkerTypeOK'
  BY <1>1 DEF Buffer, Fits, WorkerTypeOK
<1>4. Quiet'
  BY <1>2 DEF Buffer, Quiet, Writing
<1>5. BytesInPlace'
  BY <1>1 DEF Buffer, BytesInPlace, Writing
<1>6. PendingCovers' /\ ExitDrains'
  BY DEF Buffer, PendingCovers, ExitDrains
<1> QED
  BY <1>3, <1>4, <1>5, <1>6

\* The four steps that start to write the buffer.
LEMMA StartWriteInv == WorkerInv /\ (TooLong \/ Check \/ NoProgress \/ Exit) => WorkerInv'
<1> SUFFICES ASSUME WorkerInv, TooLong \/ Check \/ NoProgress \/ Exit PROVE WorkerInv'
  OBVIOUS
<1> USE DEF WorkerInv
<1>1. WorkerTypeOK'
  BY DEF TooLong, Check, NoProgress, Exit, WorkerTypeOK, Writing
<1>2. Quiet'
  BY DEF TooLong, Check, NoProgress, Exit, Quiet, Writing
<1>3. BytesInPlace'
  BY DEF TooLong, Check, NoProgress, Exit, BytesInPlace, Writing
<1>4. PendingCovers'
  BY DEF TooLong, Check, NoProgress, Exit, PendingCovers
<1>5. ExitDrains'
  <2>1. CASE Exit /\ ~pending
    <3>1. (~lapsed /\ (~Tears \/ fails = 0)) => buffer = <<>> /\ file \o buffer = stream
      BY <2>1 DEF Exit, PendingCovers, BytesInPlace, Quiet, Writing
    <3>2. file \o <<>> = file
      BY ConcatEmptySeq DEF WorkerTypeOK
    <3> QED
      BY <2>1, <3>1, <3>2 DEF Exit, ExitDrains
  <2>2. CASE ~(Exit /\ ~pending)
    BY <2>2 DEF TooLong, Check, NoProgress, Exit, ExitDrains
  <2> QED
    BY <2>1, <2>2
<1> QED
  BY <1>1, <1>2, <1>3, <1>4, <1>5

LEMMA WriteSomeInv == WorkerInv /\ WriteSome => WorkerInv'
<1> SUFFICES ASSUME WorkerInv, WriteSome PROVE WorkerInv'
  OBVIOUS
<1> USE DEF WorkerInv
<1>1. PICK n \in 1..Len(out) : /\ file' = file \o SubSeq(out, 1, n)
                               /\ out' = SubSeq(out, n + 1, Len(out))
  BY DEF WriteSome
<1>2. file \in Seq(Nat) /\ out \in Seq(Nat)
  BY DEF WorkerTypeOK
<1> DEFINE head == SubSeq(out, 1, n)
           last == SubSeq(out, n + 1, Len(out))
<1>3. head \in Seq(Nat) /\ last \in Seq(Nat) /\ head \o last = out
  BY <1>2, CutAndJoin
<1>4. file' \in Seq(Nat) /\ out' \in Seq(Nat) /\ file' \o out' = file \o out
  <2> HIDE DEF head, last
  <2>1. file' = file \o head /\ out' = last
    BY <1>1 DEF head, last
  <2>2. file \o head \in Seq(Nat)
    BY <1>2, <1>3, ConcatProperties
  <2>3. (file \o head) \o last = file \o (head \o last)
    BY <1>2, <1>3, Associative
  <2> QED
    BY <1>3, <2>1, <2>2, <2>3
<1>5. WorkerTypeOK'
  BY <1>4 DEF WriteSome, WorkerTypeOK
<1>6. Quiet'
  BY DEF WriteSome, Quiet, Writing
<1>7. BytesInPlace'
  BY <1>4 DEF WriteSome, BytesInPlace, Writing, Given
<1>8. PendingCovers' /\ ExitDrains'
  BY DEF WriteSome, PendingCovers, ExitDrains, Writing
<1> QED
  BY <1>5, <1>6, <1>7, <1>8

\* A call that raised wrote nothing, or (Tears) nothing is claimed any more.
LEMMA WriteFailsInv == WorkerInv /\ WriteFails => WorkerInv'
<1> SUFFICES ASSUME WorkerInv, WriteFails PROVE WorkerInv'
  OBVIOUS
<1> USE DEF WorkerInv
<1>1. /\ fails \in Nat /\ fails' = fails + 1 /\ fails' \in 0..MaxFails /\ fails' # 0
      /\ <<>> \in Seq(Nat)
  BY LogConstants, EmptySeq DEF WriteFails, WorkerTypeOK
<1>2. WorkerTypeOK'
  BY <1>1 DEF WriteFails, WorkerTypeOK
<1>3. Quiet'
  BY DEF WriteFails, Quiet, Writing
<1>4. BytesInPlace'
  <2> SUFFICES ASSUME ~Tears PROVE BytesInPlace'
    BY <1>1 DEF BytesInPlace
  <2>1. file \o buffer = stream
    <3>1. CASE pc = "direct"
      <4>1. file \o new = stream \o new /\ buffer = <<>>
        BY <3>1 DEF WriteFails, BytesInPlace, Given, Quiet
      <4>2. file = stream
        BY <4>1, CancelRight DEF WorkerTypeOK
      <4> QED
        BY <4>1, <4>2, ConcatEmptySeq DEF WorkerTypeOK
    <3>2. CASE pc # "direct"
      BY <3>2 DEF WriteFails, BytesInPlace, Writing
    <3> QED
      BY <3>1, <3>2
  <2> QED
    BY <2>1 DEF WriteFails, BytesInPlace, Writing
<1>5. PendingCovers' /\ ExitDrains'
  BY DEF WriteFails, PendingCovers, ExitDrains
<1> QED
  BY <1>2, <1>3, <1>4, <1>5

LEMMA DrainedInv == WorkerInv /\ Drained => WorkerInv'
<1> SUFFICES ASSUME WorkerInv, Drained PROVE WorkerInv'
  OBVIOUS
<1> USE DEF WorkerInv
<1>1. new \in Seq(Nat) /\ stream \in Seq(Nat) /\ file \in Seq(Nat) /\ <<>> \in Seq(Nat)
  BY EmptySeq DEF WorkerTypeOK
<1>2. stream \o new \in Seq(Nat) /\ stream \o new # <<>> /\ file \o <<>> = file
  BY <1>1, ConcatProperties, ConcatEqualIffEmpty, ConcatEmptySeq DEF Drained, Quiet
<1>3. Len(<<>>) = 0 /\ Len(new) \in Nat /\ Capacity \in Nat
  BY <1>1, LenProperties, LogConstants
<1>4. WorkerTypeOK'
  <2>1. CASE Len(new) >= Capacity
    BY <1>1, <1>3, <2>1, HeaderIsSeq, LogConstants DEF Drained, WorkerTypeOK, Writing
  <2>2. CASE ~(Len(new) >= Capacity)
    <3>1. Len(new) <= Capacity
      BY <1>3, <2>2
    <3> QED
      BY <1>1, <1>2, <2>2, <3>1 DEF Drained, WorkerTypeOK
  <2> QED
    BY <2>1, <2>2
<1>5. Quiet'
  BY <1>2 DEF Drained, Quiet, Writing
<1>6. BytesInPlace'
  BY <1>2 DEF Drained, BytesInPlace, Writing, Given
<1>7. PendingCovers' /\ ExitDrains'
  BY DEF Drained, PendingCovers, ExitDrains
<1> QED
  BY <1>4, <1>5, <1>6, <1>7

LEMMA WrittenThroughInv == WorkerInv /\ WrittenThrough => WorkerInv'
<1> SUFFICES ASSUME WorkerInv, WrittenThrough PROVE WorkerInv'
  OBVIOUS
<1> USE DEF WorkerInv
<1>1. new \in Seq(Nat) /\ stream \in Seq(Nat) /\ file \in Seq(Nat) /\ <<>> \in Seq(Nat)
  BY EmptySeq DEF WorkerTypeOK
<1>2. stream \o new \in Seq(Nat) /\ stream \o new # <<>> /\ file \o <<>> = file
  BY <1>1, ConcatProperties, ConcatEqualIffEmpty, ConcatEmptySeq DEF WrittenThrough, Quiet
<1>3. WorkerTypeOK'
  BY <1>1, <1>2 DEF WrittenThrough, WorkerTypeOK
<1>4. Quiet'
  BY <1>2 DEF WrittenThrough, Quiet, Writing
<1>5. BytesInPlace'
  BY <1>2 DEF WrittenThrough, BytesInPlace, Writing, Given, Quiet
<1>6. PendingCovers' /\ ExitDrains'
  BY DEF WrittenThrough, PendingCovers, ExitDrains
<1> QED
  BY <1>3, <1>4, <1>5, <1>6

LEMMA FlushedInv == WorkerInv /\ Flushed => WorkerInv'
<1> SUFFICES ASSUME WorkerInv, Flushed PROVE WorkerInv'
  OBVIOUS
<1> USE DEF WorkerInv
<1>1. <<>> \in Seq(Nat) /\ Len(<<>>) = 0 /\ 0 <= Capacity /\ file \o <<>> = file
  BY EmptySeq, ConcatEmptySeq, LogConstants, HeaderIsSeq DEF WorkerTypeOK
<1>2. WorkerTypeOK'
  BY <1>1 DEF Flushed, WorkerTypeOK
<1>3. Quiet'
  BY DEF Flushed, Quiet, Writing
<1>4. BytesInPlace'
  BY <1>1 DEF Flushed, BytesInPlace, Writing
<1>5. PendingCovers'
  BY DEF Flushed, PendingCovers
<1>6. ExitDrains'
  BY <1>1 DEF Flushed, ExitDrains, BytesInPlace, Writing
<1> QED
  BY <1>2, <1>3, <1>4, <1>5, <1>6

\* Whatever the worker was doing, the file is the beginning of what it was given.
LEMMA CrashInv == WorkerInv /\ Crash => WorkerInv'
<1> SUFFICES ASSUME WorkerInv, Crash PROVE WorkerInv'
  OBVIOUS
<1> USE DEF WorkerInv
<1>1. /\ buffer \in Seq(Nat) /\ new \in Seq(Nat) /\ out \in Seq(Nat)
      /\ stream \in Seq(Nat) /\ file \in Seq(Nat) /\ <<>> \in Seq(Nat)
  BY EmptySeq DEF WorkerTypeOK
<1>2. Len(<<>>) = 0 /\ 0 <= Capacity
  BY LogConstants, HeaderIsSeq
<1>3. WorkerTypeOK'
  BY <1>1, <1>2 DEF Crash, WorkerTypeOK
<1>4. Quiet'
  BY DEF Crash, Quiet, Writing
<1>5. BytesInPlace'
  <2> SUFFICES ASSUME ~Tears \/ fails = 0 PROVE IsPrefix(file, Given)
    BY DEF Crash, BytesInPlace, Writing, Given
  <2>1. CASE pc = "direct"
    <3>1. Given = (file \o out) \o <<>>
      BY <1>1, <2>1, ConcatEmptySeq, ConcatProperties DEF BytesInPlace
    <3> QED
      BY <1>1, <3>1, JoinedHasPrefix
  <2>2. CASE pc \in Writing \ {"direct"}
    <3>1. Given = (file \o out) \o new
      BY <2>2 DEF BytesInPlace, Given
    <3> QED
      BY <1>1, <3>1, JoinedHasPrefix
  <2>3. CASE pc \notin Writing
    <3>1. Given = (file \o buffer) \o new
      BY <2>3 DEF Crash, BytesInPlace, Given
    <3> QED
      BY <1>1, <3>1, JoinedHasPrefix
  <2> QED
    BY <2>1, <2>2, <2>3
<1>6. PendingCovers' /\ ExitDrains'
  BY DEF Crash, PendingCovers, ExitDrains
<1> QED
  BY <1>3, <1>4, <1>5, <1>6

\* Time and the reader touch nothing the invariant speaks of.
LEMMA OthersInv == WorkerInv /\ (Tick \/ ReadMore \/ UNCHANGED vars) => WorkerInv'
<1> SUFFICES ASSUME WorkerInv, Tick \/ ReadMore \/ UNCHANGED vars PROVE WorkerInv'
  OBVIOUS
<1>1. UNCHANGED <<pc, buffer, new, out, pending, fails, lapsed, stream, file>> /\ due' \in BOOLEAN
  BY DEF Tick, ReadMore, vars, worker, WorkerInv, WorkerTypeOK
<1> QED
  BY <1>1 DEF WorkerInv, WorkerTypeOK, Quiet, BytesInPlace, Given, PendingCovers, ExitDrains

-----------------------------------------------------------------------------
(* Theorems.                                                                *)

THEOREM WorkerInvariant == Spec => []WorkerInv
<1>1. WorkerInv /\ [Next]_vars => WorkerInv'
  BY AppendRecordInv, BufferInv, StartWriteInv, WriteSomeInv, WriteFailsInv, DrainedInv,
     WrittenThroughInv, FlushedInv, CrashInv, OthersInv
  DEF Next, WorkerStep
<1> QED
  BY InitInv, <1>1, PTL DEF Spec

\* Buffer and file together hold every accepted byte once and in order
\* (BufferedFileDestination.write, _drain, flush), also after calls that raised
\* before they wrote anything, and a worker that dies leaves a prefix in the file.
THEOREM BytesInPlaceAlways == Spec => []BytesInPlace
<1>1. WorkerInv => BytesInPlace
  BY DEF WorkerInv
<1> QED
  BY WorkerInvariant, <1>1, PTL

\* A worker in its loop with bytes in the buffer has the flag set that its next idle
\* iteration or its exit looks at (_REC_PENDING), also after calls that raised, from the
\* next append on.
THEOREM PendingCoversAlways == Spec => []PendingCovers
<1>1. WorkerInv => PendingCovers
  BY DEF WorkerInv
<1> QED
  BY WorkerInvariant, <1>1, PTL

\* A worker that left its loop has written every record it accepted (_rec_shutdown),
\* unless its last call raised, or one that raised tore the file.
THEOREM ExitDrainsAlways == Spec => []ExitDrains
<1>1. WorkerInv => ExitDrains
  BY DEF WorkerInv
<1> QED
  BY WorkerInvariant, <1>1, PTL

-----------------------------------------------------------------------------
(* The stream, as the reader sees it.                                        *)

\* The records accepted are numbered from the header on, and the one in the call
\* that is under way follows them.
StreamInv ==
    /\ Numbered(stream)
    /\ stream # <<>> => stream[1] = Header
    /\ new = <<>> \/ (stream # <<>> /\ OneMore(stream, Given))

\* The reader has read so much of the file and stands where that leaves it.
ReaderInv ==
    /\ garbled = FALSE /\ offset <= Len(file)
    /\ Position(Given, offset, rest, headerDone, published)

LEMMA GivenNumbered ==
    ASSUME WorkerInv, StreamInv
    PROVE  Numbered(Given) /\ (Given # <<>> => Given[1] = Header)
<1>1. stream \in Seq(Nat) /\ new \in Seq(Nat)
  BY DEF WorkerInv, WorkerTypeOK
<1>2. CASE new = <<>>
  <2>1. Given = stream
    BY <1>1, <1>2, ConcatEmptySeq DEF Given
  <2> QED
    BY <2>1 DEF StreamInv
<1>3. CASE new # <<>>
  <2>1. Numbered(stream) /\ OneMore(stream, Given) /\ stream # <<>> /\ stream[1] = Header
    BY <1>3 DEF StreamInv
  <2>2. 1 \in 1..Len(stream)
    BY <1>1, <2>1, EmptySeq, LenProperties
  <2> QED
    BY <2>1, <2>2, OneMoreNumbered DEF OneMore, Begins
<1> QED
  BY <1>2, <1>3

\* What is in the file is the beginning of what the log was given.
LEMMA FileBegins ==
    ASSUME WorkerInv, ~Tears
    PROVE  Begins(file, Given)
<1>1. /\ buffer \in Seq(Nat) /\ new \in Seq(Nat) /\ out \in Seq(Nat)
      /\ stream \in Seq(Nat) /\ file \in Seq(Nat) /\ Given \in Seq(Nat)
      /\ Len(file) \in Nat /\ Len(Given) \in Nat
  BY ConcatProperties, LenProperties DEF WorkerInv, WorkerTypeOK, Given
<1>2. IsPrefix(file, Given)
  <2>1. CASE pc = "direct"
    <3>1. Given = (file \o out) \o <<>> /\ <<>> \in Seq(Nat)
      BY <1>1, <2>1, ConcatEmptySeq, ConcatProperties, EmptySeq DEF WorkerInv, BytesInPlace
    <3> QED
      BY <1>1, <3>1, JoinedHasPrefix
  <2>2. CASE pc \in Writing \ {"direct"}
    <3>1. Given = (file \o out) \o new
      BY <2>2 DEF WorkerInv, BytesInPlace, Given
    <3> QED
      BY <1>1, <3>1, JoinedHasPrefix
  <2>3. CASE pc = "dead"
    BY <2>3 DEF WorkerInv, BytesInPlace
  <2>4. CASE pc \notin Writing \cup {"dead"}
    <3>1. Given = (file \o buffer) \o new
      BY <2>4 DEF WorkerInv, BytesInPlace, Given
    <3> QED
      BY <1>1, <3>1, JoinedHasPrefix
  <2> QED
    BY <2>1, <2>2, <2>3, <2>4
<1>3. Len(file) <= Len(Given) /\ file = SubSeq(Given, 1, Len(file))
  BY <1>1, <1>2, SubSeqFull DEF IsPrefix
<1>4. \A i \in 1..Len(file) : SubSeq(Given, 1, Len(file))[i] = Given[i]
  BY <1>1, <1>3
<1>5. \A i \in 1..Len(file) : file[i] = Given[i]
  BY <1>3, <1>4
<1> QED
  BY <1>1, <1>3, <1>5 DEF Begins

LEMMA HeaderNumbered == Numbered(HeaderBytes) /\ HeaderBytes[1] = Header
<1>1. HeaderBytes \in Seq(Nat) /\ Len(HeaderBytes) = 2
  BY HeaderIsSeq
<1>2. HeaderBytes[1] = 0 /\ HeaderBytes[2] = 0
  BY DEF HeaderBytes, Header
<1>3. \A i \in 1..Len(HeaderBytes) : HeaderBytes[i] = 0
  BY <1>1, <1>2
<1> QED
  BY <1>1, <1>3 DEF Numbered, Header

\* _rec_append hands over one record more, behind the header if it opens the log.
LEMMA AppendAdds ==
    ASSUME WorkerInv, StreamInv, AppendRecord
    PROVE  /\ StreamInv' /\ OneMore(stream', Given') /\ file' = file
           /\ \/ pc = "unopened" /\ Given = <<>> /\ file = <<>>
              \/ pc = "loop" /\ Given = stream /\ stream' = stream
<1> DEFINE opened == IF pc = "unopened" THEN HeaderBytes ELSE stream
           next == opened[Len(opened)] + 1
<1>1. /\ stream' = opened /\ file' = file /\ pc \in {"unopened", "loop"}
      /\ \E n \in Sizes : new' = [i \in 1..n |-> next]
  BY DEF AppendRecord
<1>2. /\ stream \in Seq(Nat) /\ new = <<>> /\ (pc = "unopened" => stream = <<>> /\ file = <<>>)
      /\ (pc = "loop" => stream # <<>>)
  BY <1>1 DEF WorkerInv, WorkerTypeOK, Quiet
<1>3. Given = stream
  BY <1>2, ConcatEmptySeq DEF Given
<1>4. /\ Numbered(opened) /\ opened[1] = Header /\ opened \in Seq(Nat) /\ opened # <<>>
      /\ Len(opened) \in Nat /\ Len(opened) # 0
  <2>1. Numbered(opened) /\ opened[1] = Header /\ opened # <<>>
    BY <1>1, <1>2, HeaderNumbered, HeaderIsSeq DEF StreamInv
  <2> QED
    BY <2>1, EmptySeq, LenProperties DEF Numbered
<1>5. next \in Nat
  BY <1>4, ElementOfSeq
<1>6. PICK n \in Sizes : new' = [i \in 1..n |-> next]
  BY <1>1
<1>7. n \in Nat /\ n # 0
  BY LogConstants
<1> HIDE DEF next
<1>8. new' \in Seq(Nat) /\ Len(new') = n /\ \A i \in 1..n : new'[i] = next
  BY <1>5, <1>6, <1>7
<1> DEFINE g == opened \o new'
<1>9. /\ g \in Seq(Nat) /\ Len(g) = Len(opened) + n
      /\ \A i \in 1..Len(opened) + n :
            g[i] = IF i <= Len(opened) THEN opened[i] ELSE new'[i - Len(opened)]
  <2>1. g \in Seq(Nat)
    BY <1>4, <1>8, ConcatProperties
  <2>2. Len(g) = Len(opened) + n
    BY <1>4, <1>8, ConcatProperties
  <2>3. \A i \in 1..Len(opened) + n :
            g[i] = IF i <= Len(opened) THEN opened[i] ELSE new'[i - Len(opened)]
    BY <1>4, <1>8, ConcatProperties
  <2> QED
    BY <2>1, <2>2, <2>3
<1>10. Given' = g
  BY <1>1 DEF Given
<1>11. next = opened[Len(opened)] + 1
  BY DEF next
<1> HIDE DEF g, opened
<1>12. \A i \in 1..Len(opened) : g[i] = opened[i]
  BY <1>4, <1>7, <1>9
<1>13. \A i \in Len(opened) + 1 .. Len(g) : g[i] = next
  <2> TAKE i \in Len(opened) + 1 .. Len(g)
  <2>1. /\ i \in 1..Len(opened) + n /\ ~(i <= Len(opened)) /\ i - Len(opened) \in 1..n
    <3>1. Len(opened) \in Nat /\ n \in Nat /\ Len(g) = Len(opened) + n
      BY <1>4, <1>7, <1>9
    <3> QED
      BY ONLY <3>1
  <2> QED
    BY <1>8, <1>9, <2>1
<1>14. Len(opened) + 1 \in Len(opened) + 1 .. Len(g) /\ Len(opened) < Len(g)
  <2>1. Len(opened) \in Nat /\ n \in Nat /\ n # 0 /\ Len(g) = Len(opened) + n
    BY <1>4, <1>7, <1>9
  <2> QED
    BY ONLY <2>1
<1>15. OneMore(opened, g)
  <2>1. g[Len(opened) + 1] = next
    BY <1>13, <1>14
  <2>2. opened \in Seq(Nat) /\ g \in Seq(Nat) /\ Len(opened) <= Len(g)
    BY <1>4, <1>7, <1>9
  <2>3. Begins(opened, g)
    BY <1>12, <2>2 DEF Begins
  <2> QED
    BY <1>11, <1>13, <1>14, <2>1, <2>3 DEF OneMore
<1>16. StreamInv' /\ OneMore(stream', Given')
  BY <1>1, <1>4, <1>10, <1>15 DEF StreamInv
<1> QED
  BY <1>1, <1>2, <1>3, <1>16 DEF opened

\* What the reader sees of the other steps: the log has been given the same and more
\* of it may be in the file, or the record of a call that raised is taken back.
LEMMA WorkerMoves ==
    ASSUME WorkerInv, StreamInv, ~Tears,
           WorkerStep \/ WriteFails \/ NoProgress \/ Exit \/ Tick \/ Crash \/ ReadMore
             \/ UNCHANGED vars
    PROVE  /\ StreamInv'
           /\ \/ Given' = Given /\ Len(file) \in Nat /\ Len(file') \in Nat /\ Len(file) <= Len(file')
              \/ OneMore(Given', Given) /\ file' = file /\ Begins(file, Given')
<1>1. /\ stream \in Seq(Nat) /\ new \in Seq(Nat) /\ file \in Seq(Nat) /\ out \in Seq(Nat)
      /\ buffer \in Seq(Nat) /\ Len(file) \in Nat
  BY LenProperties DEF WorkerInv, WorkerTypeOK
<1>2. (stream \o new) \o <<>> = stream \o new /\ stream \o <<>> = stream /\ <<>> \in Seq(Nat)
  BY <1>1, ConcatEmptySeq, ConcatProperties, EmptySeq
<1>3. Numbered(Given) /\ (Given # <<>> => Given[1] = Header)
  BY GivenNumbered
<1>4. CASE stream' = stream \o new /\ new' = <<>> /\ file' = file
  <2>1. Given' = Given /\ stream' = Given
    BY <1>2, <1>4 DEF Given
  <2> QED
    BY <1>1, <1>3, <1>4, <2>1 DEF StreamInv
<1>5. CASE stream' = stream /\ new' = new /\ file' = file
  BY <1>1, <1>5 DEF StreamInv, Given
<1>6. CASE WriteSome
  <2>1. PICK n \in 1..Len(out) : file' = file \o SubSeq(out, 1, n)
    BY <1>6 DEF WriteSome
  <2> DEFINE head == SubSeq(out, 1, n)
  <2>2. head \in Seq(Nat)
    BY <1>1, CutAndJoin
  <2> HIDE DEF head
  <2>3. Len(file \o head) = Len(file) + Len(head) /\ Len(head) \in Nat
    BY <1>1, <2>2, ConcatProperties, LenProperties
  <2>4. Len(file') \in Nat /\ Len(file) <= Len(file')
    BY <1>1, <2>1, <2>3 DEF head
  <2>5. stream' = stream /\ new' = new
    BY <1>6 DEF WriteSome
  <2> QED
    BY <1>1, <2>4, <2>5 DEF StreamInv, Given
<1>7. CASE WriteFails
  <2>1. stream' = stream /\ new' = <<>> /\ file' = file
    BY <1>7 DEF WriteFails
  <2>2. Given' = stream
    BY <1>2, <2>1 DEF Given
  <2>3. StreamInv'
    BY <2>1 DEF StreamInv
  <2>4. CASE new = <<>>
    BY <1>1, <2>1, <2>3, <2>4 DEF Given
  <2>5. CASE new # <<>>
    <3>1. OneMore(Given', Given)
      BY <2>2, <2>5 DEF StreamInv
    <3>2. IsPrefix(file, stream)
      <4>1. CASE pc = "direct"
        <5>1. file \o new = stream \o new
          BY <1>7, <4>1 DEF WriteFails, WorkerInv, BytesInPlace, Given
        <5>2. file = stream
          BY <1>1, <5>1, CancelRight
        <5>3. (file \o <<>>) \o <<>> = file
          BY <1>1, ConcatEmptySeq
        <5> QED
          BY <1>1, <1>2, <5>2, <5>3, JoinedHasPrefix
      <4>2. CASE pc # "direct"
        <5>1. file \o out = stream
          BY <1>7, <4>2 DEF WriteFails, WorkerInv, BytesInPlace, Writing
        <5>2. (file \o out) \o <<>> = stream
          BY <1>1, <1>2, <5>1
        <5> QED
          BY <1>1, <1>2, <5>2, JoinedHasPrefix
      <4> QED
        BY <4>1, <4>2
    <3>3. Begins(file, stream)
      <4>1. Len(stream) \in Nat
        BY <1>1, LenProperties
      <4>2. Len(file) <= Len(stream) /\ file = SubSeq(stream, 1, Len(file))
        BY <1>1, <3>2, SubSeqFull DEF IsPrefix
      <4>3. \A i \in 1..Len(file) : SubSeq(stream, 1, Len(file))[i] = stream[i]
        BY <1>1, <4>1, <4>2
      <4>4. \A i \in 1..Len(file) : file[i] = stream[i]
        BY <4>2, <4>3
      <4> QED
        BY <1>1, <4>2, <4>4 DEF Begins
    <3> QED
      BY <2>1, <2>2, <2>3, <3>1, <3>3
  <2> QED
    BY <2>4, <2>5
<1>8. \/ stream' = stream \o new /\ new' = <<>> /\ file' = file
      \/ stream' = stream /\ new' = new /\ file' = file
      \/ WriteSome \/ WriteFails
  BY DEF WorkerStep, Buffer, TooLong, Drained, WrittenThrough, Check, Flushed, NoProgress, Exit,
         Tick, Crash, ReadMore, vars, worker
<1> QED
  BY <1>4, <1>5, <1>6, <1>7, <1>8

-----------------------------------------------------------------------------
(* The reader.                                                               *)

LEMMA ReaderInit == Init => StreamInv /\ ReaderInv
<1> SUFFICES ASSUME Init PROVE StreamInv /\ ReaderInv
  OBVIOUS
<1>1. /\ stream = <<>> /\ new = <<>> /\ rest = <<>> /\ file = <<>> /\ <<>> \in Seq(Nat)
      /\ Len(stream) = 0 /\ Len(rest) = 0 /\ Len(file) = 0 /\ offset = 0
      /\ headerDone = FALSE /\ published = <<>> /\ garbled = FALSE
  BY EmptySeq DEF Init
<1>2. StreamInv
  BY <1>1 DEF StreamInv, Numbered
<1>3. Given = <<>> /\ Len(Given) = 0
  BY <1>1, ConcatEmptySeq DEF Given
<1>4. /\ offset \in 0..Len(Given) /\ Len(rest) <= offset /\ offset - Len(rest) = 0
      /\ ~(offset # Len(rest)) /\ offset <= Len(file)
  <2>1. offset = 0 /\ Len(Given) = 0 /\ Len(rest) = 0 /\ Len(file) = 0
    BY <1>1, <1>3
  <2> QED
    BY ONLY <2>1
<1>5. Position(Given, offset, rest, headerDone, published)
  <2>1. Boundary(Given, 0) /\ SentTo(Given, 0) = <<>>
    BY DEF Boundary, SentTo
  <2>2. rest \in Seq(Nat) /\ \A i \in 1..Len(rest) : FALSE
    BY <1>1
  <2>3. ~headerDone /\ headerDone \in BOOLEAN
    BY <1>1
  <2> QED
    BY <1>1, <1>4, <2>1, <2>2, <2>3 DEF Position
<1> QED
  BY <1>1, <1>2, <1>4, <1>5 DEF ReaderInv

\* The buffer of a turn: what was pending and the file from the offset to its end.
LEMMA FileBuffered ==
    ASSUME WorkerInv, StreamInv, ReaderInv, ~Tears, Len(file) > offset
    PROVE  Buffered(Given, offset, rest, Len(file), rest \o SubSeq(file, offset + 1, Len(file)),
                    offset - Len(rest))
<1> DEFINE to == Len(file)
           fresh == SubSeq(file, offset + 1, to)
           from == offset - Len(rest)
           data == rest \o fresh
           d == to - offset
<1>1. /\ file \in Seq(Nat) /\ to \in Nat /\ Len(Given) \in Nat /\ to <= Len(Given)
      /\ \A i \in 1..to : file[i] = Given[i]
  BY FileBegins, LenProperties DEF Begins
<1>2. /\ rest \in Seq(Nat) /\ Len(rest) \in Nat /\ offset \in Nat /\ Len(rest) <= offset
      /\ offset < to /\ \A i \in 1..Len(rest) : rest[i] = Given[from + i]
  BY <1>1, LenProperties DEF ReaderInv, Position
<1>3. /\ from \in Nat /\ from + Len(rest) = offset /\ d \in Nat /\ to - from = Len(rest) + d
      /\ to - (offset + 1) + 1 = d /\ offset + 1 <= to
  <2>1. offset \in Nat /\ to \in Nat /\ Len(rest) \in Nat /\ Len(rest) <= offset /\ offset < to
    BY <1>1, <1>2
  <2> HIDE DEF to
  <2> QED
    BY ONLY <2>1
<1>4. /\ fresh \in Seq(Nat) /\ Len(fresh) = to - (offset + 1) + 1
      /\ \A i \in 1..to - (offset + 1) + 1 : fresh[i] = file[offset + 1 + i - 1]
  <2> DEFINE m == offset + 1
  <2> HIDE DEF to
  <2>1. m \in Int /\ to \in Int /\ m <= to /\ m \in Nat /\ m > 0
    BY <1>1, <1>2, <1>3
  <2>2. \A i \in m .. to : file[i] \in Nat
    BY <1>1, <2>1, ElementOfSeq DEF to
  <2> HIDE DEF m
  <2>3. /\ SubSeq(file, m, to) \in Seq(Nat)
        /\ Len(SubSeq(file, m, to)) = IF m <= to THEN to - m + 1 ELSE 0
        /\ \A i \in 1..to - m + 1 : SubSeq(file, m, to)[i] = file[m + i - 1]
    BY <1>1, <2>1, <2>2, SubSeqProperties
  <2>4. Len(SubSeq(file, m, to)) = to - m + 1
    BY <2>1, <2>3
  <2> QED
    BY <2>3, <2>4 DEF m
<1> HIDE DEF to, fresh, from, d
<1>5. fresh \in Seq(Nat) /\ Len(fresh) = d /\ \A i \in 1..d : fresh[i] = Given[offset + i]
  <2>1. ASSUME NEW i \in 1..d
        PROVE  fresh[i] = Given[offset + i]
    <3>1. i \in 1..to - (offset + 1) + 1 /\ offset + 1 + i - 1 = offset + i /\ offset + i \in 1..to
      <4>1. offset \in Nat /\ to \in Nat /\ d \in Nat /\ to - (offset + 1) + 1 = d /\ i \in 1..d
        BY <1>1, <1>2, <1>3
      <4> QED
        BY ONLY <4>1
    <3> QED
      BY <1>1, <1>4, <3>1
  <2> QED
    BY <1>3, <1>4, <2>1
<1>6. data \in Seq(Nat)
  BY <1>2, <1>5, ConcatProperties
<1>7. Len(data) = Len(rest) + d
  BY <1>2, <1>5, ConcatProperties
<1>8. \A i \in 1..Len(rest) + d :
            data[i] = IF i <= Len(rest) THEN rest[i] ELSE fresh[i - Len(rest)]
  BY <1>2, <1>5, ConcatProperties
<1> HIDE DEF data
<1>9. ASSUME NEW i \in 1..Len(data)
      PROVE  data[i] = Given[from + i]
  <2>1. i \in Nat /\ i \in 1..Len(rest) + d
    BY <1>2, <1>3, <1>7
  <2>2. CASE i <= Len(rest)
    <3>1. i \in 1..Len(rest)
      BY <1>2, <2>1, <2>2
    <3> QED
      BY <1>2, <1>8, <2>1, <2>2, <3>1 DEF from
  <2>3. CASE i > Len(rest)
    <3>1. i - Len(rest) \in 1..d /\ offset + (i - Len(rest)) = from + i /\ ~(i <= Len(rest))
      <4>1. /\ i \in Nat /\ i \in 1..Len(rest) + d /\ i > Len(rest) /\ Len(rest) \in Nat
            /\ d \in Nat /\ from \in Nat /\ from + Len(rest) = offset /\ offset \in Nat
        BY <1>2, <1>3, <2>1, <2>3
      <4> QED
        BY ONLY <4>1
    <3>2. data[i] = fresh[i - Len(rest)]
      BY <1>8, <2>1, <3>1
    <3>3. fresh[i - Len(rest)] = Given[offset + (i - Len(rest))]
      BY <1>5, <3>1
    <3> QED
      BY <3>1, <3>2, <3>3
  <2> QED
    BY <1>2, <2>1, <2>2, <2>3
<1>10. to \in 0..Len(Given)
  BY <1>1 DEF to
<1>11. Buffered(Given, offset, rest, to, data, from)
  BY <1>2, <1>3, <1>6, <1>7, <1>9, <1>10 DEF Buffered, from
<1> QED
  BY <1>11 DEF data, from, fresh, to

\* A turn of the reader decodes the stream's bytes and keeps its position.
LEMMA ReadMoreStep ==
    ASSUME WorkerInv, StreamInv, ReaderInv, ~Tears, ReadMore
    PROVE  ReaderInv' /\ offset - Len(rest) <= offset' - Len(rest')
<1> DEFINE to == Len(file)
           data == rest \o SubSeq(file, offset + 1, Len(file))
           from == offset - Len(rest)
<1>1. /\ Len(file) > offset /\ offset' = to /\ file' = file /\ Given' = Given
  BY DEF ReadMore, worker, Given
<1>2. Buffered(Given, offset, rest, to, data, from)
  BY <1>1, FileBuffered
<1>3. IF ~Sound(Given, data, from)
      THEN garbled' = TRUE /\ UNCHANGED <<rest, headerDone, published>>
      ELSE LET whole == Complete(Given, data, from)
               ready == headerDone \/ Header \in whole
           IN  /\ UNCHANGED garbled
               /\ headerDone' = ready
               /\ rest' = IF ready THEN Leftover(Given, data, from) ELSE AwaitHeader(data)
               /\ published' = IF ready THEN published \o InOrder(whole \ {Header})
                                         ELSE published
  BY DEF ReadMore
<1>4. Numbered(Given) /\ Position(Given, offset, rest, headerDone, published)
  BY GivenNumbered DEF ReaderInv
<1>5. Header = Given[1]
  <2>1. Len(file) <= Len(Given) /\ Len(file) \in Nat /\ Len(Given) \in Nat /\ offset \in Nat
    BY FileBegins, LenProperties DEF Begins, ReaderInv, Position
  <2>2. Given # <<>>
    BY <1>1, <2>1, EmptySeq
  <2> QED
    BY <2>2, GivenNumbered
<1> HIDE DEF to, data, from
<1>6. Sound(Given, data, from)
  BY <1>2, <1>4, BufferedProps
<1>7. PICK ready, keep, handed :
         /\ headerDone' = ready /\ rest' = keep /\ published' = handed
         /\ Turn(Given, data, from, headerDone, published, ready, keep, handed)
  BY <1>3, <1>5, <1>6 DEF Turn, AwaitHeader
<1>8. Position(Given, to, keep, ready, handed) /\ offset - Len(rest) <= to - Len(keep)
  BY <1>2, <1>4, <1>7, ReaderAdvances
<1>9. garbled' = FALSE
  BY <1>3, <1>6 DEF ReaderInv
<1>10. Position(Given', offset', rest', headerDone', published')
  BY <1>1, <1>7, <1>8
<1>11. offset' <= Len(file')
  BY <1>1, FileBegins, LenProperties DEF to, Begins
<1>12. ReaderInv'
  BY <1>9, <1>10, <1>11 DEF ReaderInv
<1> QED
  BY <1>1, <1>7, <1>8, <1>12

\* The worker's steps leave the reader where it is in the stream.
LEMMA ReaderStep ==
    ASSUME WorkerInv, StreamInv, ReaderInv, ~Tears, [Next]_vars
    PROVE  StreamInv' /\ ReaderInv'
<1>1. /\ offset \in Nat /\ Len(file) \in Nat /\ offset <= Len(file) /\ Len(file) <= Len(Given)
      /\ garbled = FALSE /\ Position(Given, offset, rest, headerDone, published)
      /\ Len(Given) \in Nat
  BY FileBegins, LenProperties DEF ReaderInv, Position, Begins
<1>2. CASE ReadMore
  BY <1>2, WorkerMoves, ReadMoreStep
<1>3. CASE AppendRecord
  <2>1. /\ StreamInv' /\ OneMore(stream', Given') /\ file' = file
        /\ \/ pc = "unopened" /\ Given = <<>> /\ file = <<>>
           \/ pc = "loop" /\ Given = stream /\ stream' = stream
    BY <1>3, AppendAdds
  <2>2. UNCHANGED reader
    BY <1>3 DEF AppendRecord
  <2>3. CASE pc = "loop"
    <3>1. OneMore(Given, Given') /\ offset \in 0..Len(Given)
      BY <1>1, <2>1, <2>3
    <3>2. Position(Given', offset, rest, headerDone, published)
      BY <1>1, <3>1, PositionKept
    <3> QED
      BY <1>1, <2>1, <2>2, <3>2 DEF ReaderInv, reader
  <2>4. CASE pc = "unopened"
    <3>1. Len(file) = 0 /\ offset = 0
      BY <1>1, <2>1, <2>4, EmptySeq
    <3>2. /\ rest \in Seq(Nat) /\ Len(rest) = 0 /\ headerDone = FALSE /\ published = <<>>
      <4>1. /\ rest \in Seq(Nat) /\ Len(rest) \in Nat /\ Len(rest) <= 0 /\ headerDone \in BOOLEAN
            /\ (headerDone <=> 0 # Len(rest)) /\ published = SentTo(Given, 0 - Len(rest))
        BY <1>1, <3>1, LenProperties DEF Position
      <4>2. Len(rest) = 0
        BY <4>1
      <4> QED
        BY <4>1, <4>2 DEF SentTo
    <3>3. OneMore(HeaderBytes, Given')
      BY <2>1, <2>4, <1>3 DEF AppendRecord
    <3>4. 0 \in 0..Len(Given')
      BY <3>3, LenProperties DEF OneMore, Begins
    <3>5. Position(Given', 0, rest, headerDone, published)
      <4>1. Boundary(Given', 0) /\ SentTo(Given', 0) = <<>>
        BY DEF Boundary, SentTo
      <4>2. 0 - Len(rest) = 0 /\ Len(rest) <= 0 /\ ~(0 # Len(rest)) /\ \A i \in 1..Len(rest) : FALSE
        BY <3>2
      <4> QED
        BY <3>2, <3>4, <4>1, <4>2 DEF Position
    <3> QED
      BY <1>1, <2>1, <2>2, <3>1, <3>5 DEF ReaderInv, reader
  <2> QED
    BY <2>1, <2>3, <2>4
<1>4. CASE WorkerStep \/ WriteFails \/ NoProgress \/ Exit \/ Tick \/ Crash \/ UNCHANGED vars
  <2>1. /\ StreamInv'
        /\ \/ Given' = Given /\ Len(file) \in Nat /\ Len(file') \in Nat /\ Len(file) <= Len(file')
           \/ OneMore(Given', Given) /\ file' = file /\ Begins(file, Given')
    BY <1>4, WorkerMoves
  <2>2. UNCHANGED reader
    BY <1>4 DEF WorkerStep, WriteFails, NoProgress, Exit, Tick, Crash, Buffer, TooLong, WriteSome,
                Drained, WrittenThrough, Check, Flushed, vars, reader
  <2>3. CASE Given' = Given /\ Len(file') \in Nat /\ Len(file) <= Len(file')
    BY <1>1, <2>1, <2>2, <2>3 DEF ReaderInv, reader
  <2>4. CASE OneMore(Given', Given) /\ file' = file /\ Begins(file, Given')
    <3>1. offset \in 0..Len(Given')
      BY <1>1, <2>4, LenProperties DEF Begins
    <3>2. PICK s : s = Given'
      OBVIOUS
    <3>3. Position(s, offset, rest, headerDone, published)
      BY <1>1, <2>4, <3>1, <3>2, PositionKept
    <3> QED
      BY <1>1, <2>1, <2>2, <2>4, <3>2, <3>3 DEF ReaderInv, reader
  <2> QED
    BY <2>1, <2>3, <2>4
<1> QED
  BY <1>2, <1>3, <1>4 DEF Next

-----------------------------------------------------------------------------
(* The channel.                                                              *)

\* The records that are complete in the file.
InFile == InOrder(Complete(Given, file, 0) \ {Header})

\* They are those up to the last place in the file where a record ends.
InFileUpTo(n) == LastBoundary(Given, Len(file), n) /\ InFile = SentTo(Given, n)

LEMMA InFileIsSent ==
    ASSUME WorkerInv, StreamInv, ~Tears
    PROVE  \E n \in Nat : InFileUpTo(n)
<1> DEFINE h == Header
<1>1. Begins(file, Given) /\ Numbered(Given) /\ (Given # <<>> => h = Given[1])
  BY FileBegins, GivenNumbered
<1> HIDE DEF h
<1>2. \E n \in Nat : /\ LastBoundary(Given, Len(file), n)
                    /\ InOrder(Complete(Given, file, 0) \ {h}) = SentTo(Given, n)
  BY <1>1, WholeRecords
<1> QED
  BY <1>2 DEF InFile, InFileUpTo, h

\* The worker's steps send records or none: a call that is taken back had none in the file.
LEMMA WorkerSends ==
    ASSUME WorkerInv, StreamInv, ~Tears, UNCHANGED published, \E n \in Nat : InFileUpTo(n)',
           \/ Given' = Given /\ Len(file) \in Nat /\ Len(file') \in Nat /\ Len(file) <= Len(file')
           \/ OneMore(Given', Given) /\ file' = file /\ Begins(file, Given')
           \/ OneMore(Given, Given') /\ file' = file
    PROVE  Channel!Send \/ UNCHANGED <<InFile, published>>
<1>1. PICK m \in Nat : LastBoundary(Given, Len(file), m) /\ InFile = SentTo(Given, m)
  BY InFileIsSent DEF InFileUpTo
<1>2. Numbered(Given) /\ Begins(file, Given)
  BY GivenNumbered, FileBegins
<1>3. PICK n \in Nat : InFileUpTo(n)'
  OBVIOUS
<1>4. LastBoundary(Given', Len(file'), n) /\ InFile' = SentTo(Given', n)
  BY <1>3 DEF InFileUpTo
<1>5. CASE Given' = Given /\ Len(file) \in Nat /\ Len(file') \in Nat /\ Len(file) <= Len(file')
  <2> DEFINE a == InFile
             b == InFile'
  <2>1. /\ m \in 0..Len(Given) /\ n \in 0..Len(Given) /\ Boundary(Given, m) /\ Boundary(Given, n)
        /\ m <= Len(file) /\ LastBoundary(Given, Len(file'), n)
    BY <1>1, <1>4, <1>5 DEF LastBoundary
  <2>2. m <= Len(file')
    BY <1>5, <2>1
  <2>3. m <= n
    BY <1>5, <2>1, <2>2, LastIsLater
  <2>4. a = SentTo(Given, m) /\ b = SentTo(Given, n)
    BY <1>1, <1>4, <1>5
  <2> HIDE DEF a, b
  <2>5. SubSeq(b, 1, Len(a)) = a /\ (a = b \/ Len(b) > Len(a))
    BY <1>2, <2>1, <2>3, <2>4, SentGrows
  <2> QED
    BY <2>5 DEF a, b, InFile, Channel!Send
<1>6. ASSUME NEW s, NEW t, OneMore(s, t), file' = file, Len(file) \in 0..Len(s),
             \/ s = Given /\ t = Given'
             \/ s = Given' /\ t = Given
      PROVE  InFile' = InFile
  <2>1. LastBoundary(s, Len(file), m) /\ LastBoundary(s, Len(file), n)
    BY <1>1, <1>4, <1>6, LastKept
  <2>2. m <= n /\ n <= m
    <3>1. /\ Boundary(s, m) /\ Boundary(s, n) /\ m <= Len(file) /\ n <= Len(file)
          /\ Len(file) \in Nat
      BY <1>6, <2>1 DEF LastBoundary
    <3> QED
      BY <2>1, <3>1, LastIsLater
  <2>3. m = n
    BY <2>2
  <2>4. m \in 0..Len(s)
    BY <2>1 DEF LastBoundary
  <2>5. SentTo(t, m) = SentTo(s, m)
    BY <1>6, <2>4, SentKept
  <2> QED
    BY <1>1, <1>4, <1>6, <2>3, <2>5
<1>7. CASE OneMore(Given', Given) /\ file' = file /\ Begins(file, Given')
  <2>1. PICK s : s = Given'
    OBVIOUS
  <2>2. Len(file) \in 0..Len(s)
    BY <1>7, <2>1, LenProperties DEF Begins
  <2>3. InFile' = InFile
    BY <1>6, <1>7, <2>1, <2>2
  <2> QED
    BY <2>3
<1>8. CASE OneMore(Given, Given') /\ file' = file
  <2>1. PICK t : t = Given'
    OBVIOUS
  <2>2. Len(file) \in 0..Len(Given)
    BY <1>2, LenProperties DEF Begins
  <2>3. InFile' = InFile
    BY <1>6, <1>8, <2>1, <2>2
  <2> QED
    BY <2>3
<1> QED
  BY <1>5, <1>7, <1>8

\* A turn of the reader delivers records of the file, behind those it delivered before.
LEMMA ReadDelivers ==
    ASSUME WorkerInv, StreamInv, ReaderInv, ReaderInv', ~Tears,
           UNCHANGED <<Given, file>>, offset - Len(rest) <= offset' - Len(rest')
    PROVE  Channel!Deliver \/ UNCHANGED <<InFile, published>>
<1>1. PICK last \in Nat : LastBoundary(Given, Len(file), last) /\ InFile = SentTo(Given, last)
  BY InFileIsSent DEF InFileUpTo
<1>2. Numbered(Given) /\ Len(Given) \in Nat /\ Len(file) \in Nat /\ Len(file) <= Len(Given)
  BY GivenNumbered, FileBegins, LenProperties DEF Begins
<1>3. last \in 0..Len(Given) /\ Boundary(Given, last)
  BY <1>1 DEF LastBoundary
<1> DEFINE m == offset - Len(rest)
           n == offset' - Len(rest')
<1>4. m \in 0..Len(Given) /\ Boundary(Given, m) /\ published = SentTo(Given, m)
  BY LenProperties DEF ReaderInv, Position
<1>5. /\ n \in 0..Len(Given) /\ Boundary(Given, n) /\ published' = SentTo(Given, n)
      /\ n <= Len(file)
  <2>1. Position(Given', offset', rest', headerDone', published') /\ offset' <= Len(file')
    BY DEF ReaderInv
  <2>2. PICK off, keep, done, handed : /\ off = offset' /\ keep = rest' /\ done = headerDone'
                                      /\ handed = published'
    OBVIOUS
  <2>3. Position(Given, off, keep, done, handed) /\ off <= Len(file)
    BY <2>1, <2>2
  <2>4. /\ off \in 0..Len(Given) /\ Len(keep) \in Nat /\ Len(keep) <= off
        /\ Boundary(Given, off - Len(keep)) /\ handed = SentTo(Given, off - Len(keep))
    BY <2>3, LenProperties DEF Position
  <2>5. off - Len(keep) \in 0..Len(Given) /\ off - Len(keep) <= Len(file)
    BY <1>2, <2>3, <2>4
  <2> QED
    BY <2>2, <2>4, <2>5
<1>6. m <= n
  OBVIOUS
<1>7. InFile' = InFile
  BY DEF InFile
<1> HIDE DEF m, n
<1>8. n <= last
  <2>1. n \in Nat
    BY <1>5
  <2> QED
    BY <1>1, <1>2, <1>5, <2>1, LastIsLater
<1> DEFINE a == SentTo(Given, n)
           k == Len(a)
<1>9. Len(published) \in Nat /\ (published = a \/ k > Len(published))
  BY <1>2, <1>4, <1>5, <1>6, SentGrows
<1>10. k \in Nat /\ Len(InFile) \in Nat /\ k <= Len(InFile) /\ SubSeq(InFile, 1, k) = a
  BY <1>1, <1>2, <1>3, <1>5, <1>8, SentGrows
<1> HIDE DEF a, k
<1>11. CASE published = a
  BY <1>5, <1>7, <1>11 DEF a
<1>12. CASE k > Len(published)
  <2>1. k \in 1..Len(InFile) /\ published' = SubSeq(InFile, 1, k)
    BY <1>5, <1>9, <1>10, <1>12 DEF a
  <2> QED
    BY <1>7, <1>12, <2>1 DEF Channel!Deliver, InFile
<1> QED
  BY <1>9, <1>11, <1>12

-----------------------------------------------------------------------------
(* Theorems about the reader.                                                *)

LogInv == WorkerInv /\ StreamInv /\ ReaderInv

THEOREM LogInvariant ==
    ASSUME ~Tears
    PROVE  Spec => []LogInv
<1>1. (StreamInv /\ ReaderInv) /\ WorkerInv /\ [Next]_vars => (StreamInv /\ ReaderInv)'
  BY ReaderStep
<1>2. Spec => [](StreamInv /\ ReaderInv)
  BY ReaderInit, <1>1, WorkerInvariant, PTL DEF Spec
<1> QED
  BY <1>2, WorkerInvariant, PTL DEF LogInv

\* Worker and reader keep their types; the reader is never past the end of the file.
THEOREM LogTypeCorrect ==
    ASSUME ~Tears
    PROVE  Spec => []TypeOK
<1>1. LogInv => TypeOK
  <2> SUFFICES ASSUME LogInv PROVE TypeOK
    OBVIOUS
  <2>1. Numbered(Given) /\ Len(file) \in Nat /\ Len(Given) \in Nat /\ Len(file) <= Len(Given)
    BY GivenNumbered, FileBegins, LenProperties DEF LogInv, Begins
  <2>2. /\ offset \in 0..Len(Given) /\ rest \in Seq(Nat) /\ Len(rest) \in Nat
        /\ Len(rest) <= offset /\ Boundary(Given, offset - Len(rest))
        /\ published = SentTo(Given, offset - Len(rest)) /\ offset <= Len(file)
    BY LenProperties DEF LogInv, ReaderInv, Position
  <2>3. offset - Len(rest) \in 0..Len(Given) /\ offset \in 0..Len(file)
    BY <2>1, <2>2
  <2>4. published \in Seq(Nat)
    BY <2>1, <2>2, <2>3, SentProps
  <2>5. headerDone \in BOOLEAN
    BY DEF LogInv, ReaderInv, Position
  <2>6. garbled \in BOOLEAN
    BY DEF LogInv, ReaderInv
  <2>7. ReaderTypeOK
    BY <2>2, <2>3, <2>4, <2>5, <2>6 DEF ReaderTypeOK
  <2> QED
    BY <2>7 DEF LogInv, WorkerInv, TypeOK
<1> QED
  BY LogInvariant, <1>1, PTL

\* The file and the reader's offset implement the channel: tail_and_publish gets the
\* records in the order of the steps, none twice and none left out, also when the
\* worker dies inside a write(2) or a write_bytes raises before it wrote anything.
\* (That each arrives in the end is liveness, which the run checks.)
THEOREM LogImplementsChannel ==
    ASSUME ~Tears
    PROVE  Spec => Channel!Safety
<1>1. Init => Channel!Init
  <2> SUFFICES ASSUME Init PROVE Channel!Init
    OBVIOUS
  <2>1. WorkerInv /\ StreamInv /\ file = <<>> /\ published = <<>> /\ Len(file) = 0
    BY InitInv, ReaderInit, EmptySeq DEF Init
  <2>2. PICK n \in Nat : LastBoundary(Given, Len(file), n) /\ InFile = SentTo(Given, n)
    BY <2>1, InFileIsSent DEF InFileUpTo
  <2>3. n = 0
    BY <2>1, <2>2 DEF LastBoundary
  <2>4. InFile = <<>>
    BY <2>2, <2>3 DEF SentTo
  <2> QED
    BY <2>1, <2>4 DEF Channel!Init, InFile
<1>2. LogInv => \E n \in Nat : InFileUpTo(n)
  BY InFileIsSent DEF LogInv
<1>3. LogInv /\ (\E n \in Nat : InFileUpTo(n))' /\ [Next]_vars
        => [Channel!Next]_<<InFile, published>>
  <2> SUFFICES ASSUME LogInv, \E n \in Nat : InFileUpTo(n)', [Next]_vars
               PROVE  Channel!Send \/ Channel!Deliver \/ UNCHANGED <<InFile, published>>
    BY DEF Channel!Next
  <2> USE DEF LogInv
  <2>1. CASE ReadMore
    <3>1. offset - Len(rest) <= offset' - Len(rest')
      BY <2>1, ReadMoreStep
    <3>2. UNCHANGED <<Given, file>>
      BY <2>1 DEF ReadMore, worker, Given
    <3> QED
      BY <2>1, <3>1, <3>2, ReadMoreStep, ReadDelivers
  <2>2. CASE AppendRecord
    <3>1. /\ OneMore(stream', Given') /\ file' = file
          /\ \/ pc = "unopened" /\ Given = <<>> /\ file = <<>>
             \/ pc = "loop" /\ Given = stream /\ stream' = stream
      BY <2>2, AppendAdds
    <3>2. UNCHANGED published
      BY <2>2 DEF AppendRecord, reader
    <3>3. CASE pc = "loop"
      <4>1. OneMore(Given, Given')
        BY <3>1, <3>3
      <4> QED
        BY <3>1, <3>2, <4>1, WorkerSends
    <3>4. CASE pc = "unopened"
      <4>1. Complete(Given, file, 0) = {} /\ Complete(Given', file, 0) = {}
        BY <3>1, <3>4 DEF Complete, Ends
      <4>2. InFile' = InFile
        BY <3>1, <4>1 DEF InFile
      <4> QED
        BY <3>2, <4>2
    <3> QED
      BY <3>1, <3>3, <3>4
  <2>3. CASE WorkerStep \/ WriteFails \/ NoProgress \/ Exit \/ Tick \/ Crash \/ UNCHANGED vars
    <3>1. \/ Given' = Given /\ Len(file) \in Nat /\ Len(file') \in Nat /\ Len(file) <= Len(file')
          \/ OneMore(Given', Given) /\ file' = file /\ Begins(file, Given')
      BY <2>3, WorkerMoves
    <3>2. UNCHANGED published
      BY <2>3 DEF WorkerStep, WriteFails, NoProgress, Exit, Tick, Crash, Buffer, TooLong, WriteSome,
                  Drained, WrittenThrough, Check, Flushed, vars, reader
    <3> QED
      BY <3>1, <3>2, WorkerSends
  <2> QED
    BY <2>1, <2>2, <2>3 DEF Next
<1> QED
  BY <1>1, <1>2, <1>3, LogInvariant, PTL DEF Spec, Channel!Safety, InFile
===============================================================================
