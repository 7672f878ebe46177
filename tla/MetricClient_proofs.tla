------------------------- MODULE MetricClient_proofs -------------------------
(***************************************************************************)
(* Proofs about MetricClient for any set of threads, names, dicts and        *)
(* attribute sets, any batch size and any number of failures and reopenings:  *)
(* type correctness, mutual exclusion, and that no measurement is mislabelled. *)
(* Then what becomes of an accepted measurement: order and the batch bound     *)
(* hold whatever fails, races or is reopened; that nothing is lost, that        *)
(* close() drains the buffer and that every row decodes are proved where the     *)
(* code can promise them: no extension call raises and close() has the senders    *)
(* stopped; there the buffer and the file implement the channel.                  *)
(***************************************************************************)
EXTENDS MetricClient, RecordDecoding_proofs, SequenceTheorems, FiniteSetTheorems, TLAPS

-----------------------------------------------------------------------------
(* Sequences.                                                              *)

\* A sequence over a set is one over any larger set.
LEMMA SeqWider ==
    ASSUME NEW S, NEW T, S \subseteq T, NEW s \in Seq(S)
    PROVE  s \in Seq(T)
BY SeqDef

\* A call that writes `recs` keeps the file a sequence over what both consist of.
LEMMA WriteLogKeeps ==
    ASSUME NEW S, file \in Seq(S), NEW recs \in Seq(S), WriteLog(recs)
    PROVE  file' \in Seq(S)
<1>1. file \o recs \in Seq(S)
  BY ConcatProperties
<1> QED
  BY <1>1 DEF WriteLog

\* So does a call that raises on the way.
LEMMA WriteFailsKeeps ==
    ASSUME NEW S, file \in Seq(S), NEW recs \in Seq(S), NEW most \in 0..Len(recs),
           WriteFails(recs, most)
    PROVE  file' \in Seq(S)
<1>1. CASE \E n \in 0..most : WriteLog(SubSeq(recs, 1, n))
  <2>1. PICK n \in 0..most : WriteLog(SubSeq(recs, 1, n))
    BY <1>1
  <2>2. n \in Nat /\ n <= Len(recs) /\ Len(recs) \in Nat
    BY LenProperties
  <2>3. SubSeq(recs, 1, n) \in Seq(S)
    BY <2>2
  <2> QED
    BY <2>1, <2>3, WriteLogKeeps
<1>2. CASE file' \in {file, <<>>}
  BY <1>2, EmptySeq
<1> QED
  BY <1>1, <1>2 DEF WriteFails

\* Neither leaves the types of the log's other variables.
LEMMA WriteTyped ==
    ASSUME ClientConstants, TypeOK, NEW recs,
           \/ WriteLog(recs) /\ UNCHANGED fails
           \/ \E most \in Nat : WriteFails(recs, most)
    PROVE  /\ log' \in {"none", "open", "closed"}
           /\ opens' \in 0..MaxOpens /\ fails' \in 0..MaxFails
<1>1. opens \in 0..MaxOpens /\ fails \in 0..MaxFails /\ log \in {"none", "open", "closed"}
      /\ MaxOpens \in Nat /\ MaxFails \in Nat
  BY DEF TypeOK, ClientConstants
<1>2. ASSUME NEW r, WriteLog(r)
      PROVE  log' \in {"none", "open", "closed"} /\ opens' \in 0..MaxOpens
  BY <1>1, <1>2 DEF WriteLog
<1>3. CASE WriteLog(recs) /\ UNCHANGED fails
  BY <1>1, <1>2, <1>3
<1>4. ASSUME NEW most \in Nat, WriteFails(recs, most)
      PROVE  /\ log' \in {"none", "open", "closed"}
             /\ opens' \in 0..MaxOpens /\ fails' \in 0..MaxFails
  <2>1. fails' \in 0..MaxFails
    BY <1>1, <1>4 DEF WriteFails
  <2>2. CASE \E n \in 0..most : WriteLog(SubSeq(recs, 1, n))
    BY <1>2, <2>1, <2>2
  <2>3. CASE UNCHANGED <<log, opens>>
    BY <1>1, <2>1, <2>3
  <2> QED
    BY <1>4, <2>2, <2>3 DEF WriteFails
<1> QED
  BY <1>3, <1>4

-----------------------------------------------------------------------------
(* Tables that only grow keep every record that agrees with them.           *)

\* The records that agree with the tables still do when the tables have grown.
LEMMA FitKept ==
    ASSUME \A i \in DOMAIN names : i \in DOMAIN names' /\ names'[i] = names[i],
           \A i \in DOMAIN attrs : i \in DOMAIN attrs' /\ attrs'[i] = attrs[i],
           \A i \in DOMAIN meant : i \in DOMAIN meant' /\ meant'[i] = meant[i]
    PROVE  /\ NameDefs \subseteq NameDefs'
           /\ AttrDefs \subseteq AttrDefs'
           /\ FitRows \subseteq FitRows'
<1>1. NameDefs \subseteq NameDefs'
  BY DEF NameDefs
<1>2. AttrDefs \subseteq AttrDefs'
  BY DEF AttrDefs
<1>3. FitRows \subseteq FitRows'
  BY DEF FitRows
<1> QED
  BY <1>1, <1>2, <1>3

\* An appended entry leaves the others where they are and is found.
LEMMA Appended ==
    ASSUME NEW S, NEW s \in Seq(S), NEW x \in S
    PROVE  /\ Append(s, x) \in Seq(S)
           /\ Len(Append(s, x)) = Len(s) + 1 /\ Len(s) \in Nat
           /\ Len(Append(s, x)) \in DOMAIN Append(s, x)
           /\ Append(s, x)[Len(Append(s, x))] = x
           /\ Append(s, x)[Len(s) + 1] = x
           /\ \A i \in DOMAIN s : i \in DOMAIN Append(s, x) /\ Append(s, x)[i] = s[i]
BY AppendProperties

\* Looking up what is interned yields its position.
LEMMA LookUp ==
    ASSUME NEW table, NEW x, Interned(table, x)
    PROVE  IdOf(table, x) \in DOMAIN table /\ table[IdOf(table, x)] = x
BY DEF Interned, IdOf, Ids

-----------------------------------------------------------------------------
(* Mutual exclusion: how a step of thread t changes pc and lock together.    *)

\* The forms a step may have: stay on its side of the lock, take it, release it.
LEMMA LockStep ==
    ASSUME ClientConstants, pc \in [Threads -> PCs], LockHeld,
           NEW t \in Threads, NEW x, pc' = [pc EXCEPT ![t] = x],
           \/ lock' = lock /\ (x \in Locked <=> pc[t] \in Locked)
           \/ lock = "nobody" /\ lock' = t /\ x \in Locked
           \/ pc[t] \in Locked /\ lock' = "nobody" /\ x \notin Locked
    PROVE  LockHeld'
<1>1. "nobody" \notin Threads
  BY DEF ClientConstants, Threads
<1>2. \A u \in Threads : pc'[u] = IF u = t THEN x ELSE pc[u]
  OBVIOUS
<1> QED
  BY <1>1, <1>2 DEF LockHeld, Holds

-----------------------------------------------------------------------------
(* The initial state.                                                      *)

\* No thread holds the lock, and nothing is interned, cached, buffered or written.
LEMMA InitInv ==
    ASSUME ClientConstants, Init
    PROVE  TypeOK /\ ClientInv
<1>1. \A S : <<>> \in Seq(S)
  BY EmptySeq
<1>2. TypeOK
  <2>1. pc \in [Threads -> PCs]
    BY DEF Init, PCs, Locked
  <2>2. 0 \in 0..MaxOpens /\ 0 \in 0..MaxFails
    BY DEF ClientConstants
  <2>3. held \in [Dicts -> SUBSET Contents]
    BY DEF Init
  <2> QED
    BY <1>1, <2>1, <2>2, <2>3 DEF Init, TypeOK
<1>3. LockHeld
  <2>1. "nobody" \notin Threads
    BY DEF ClientConstants, Threads
  <2> QED
    BY <2>1 DEF Init, LockHeld, Holds, Locked
<1>4. DepthCounts
  BY FS_EmptySet DEF Init, DepthCounts
<1>5. LookedUp
  BY DEF Init, LookedUp
<1>6. CacheFits
  BY DEF Init, CacheFits
<1> QED
  BY <1>1, <1>2, <1>3, <1>4, <1>5, <1>6 DEF Init, ClientInv

-----------------------------------------------------------------------------
(* The steps.                                                              *)

\* What a step that leaves tables, history and records alone has to show.
LEMMA Calm ==
    ASSUME ClientInv, UNCHANGED <<names, attrs, byId, callers, meant, rows, file>>
    PROVE  /\ CacheFits'
           /\ rows' \in Seq(FitRows')
           /\ file' \in Seq(NameDefs' \cup AttrDefs' \cup FitRows')
BY DEF ClientInv, CacheFits, NameDefs, AttrDefs, FitRows, callers

\* The lookups of a thread are unaffected by a step after which no thread is in
\* one, or that moves no thread into one and leaves the tables alone.
LEMMA CalmLookups ==
    ASSUME pc \in [Threads -> PCs], LookedUp, NEW t \in Threads, NEW x,
           pc' = [pc EXCEPT ![t] = x], x \notin {"name", "attrs"},
           UNCHANGED <<cur, names>>
    PROVE  LookedUp'
<1>1. \A u \in Threads : pc'[u] = IF u = t THEN x ELSE pc[u]
  OBVIOUS
<1> QED
  BY <1>1 DEF LookedUp, Interned, Ids

\* A locked block starts the lookups of a measurement.
LEMMA SendStep ==
    ASSUME ClientConstants, TypeOK, ClientInv, NEW t \in Senders, NEW n \in Names,
           NEW d \in Dicts, Send(t, n, d)
    PROVE  TypeOK' /\ ClientInv'
<1>1. t \in Threads
  BY DEF Threads
<1>2. TypeOK'
  <2>1. "name" \in PCs
    BY DEF PCs, Locked
  <2> QED
    BY <1>1, <2>1 DEF TypeOK, Send, tables, tx, callers, bounds
<1>3. LockHeld'
  <2>1. "name" \in Locked
    BY DEF Locked
  <2> QED
    BY <1>1, <2>1, LockStep DEF TypeOK, ClientInv, Send
<1>4. LookedUp'
  <2>1. \A u \in Threads : pc[u] \notin Locked
    BY DEF ClientInv, LockHeld, Holds, Send, ClientConstants, Threads
  <2>2. \A u \in Threads : pc'[u] = IF u = t THEN "name" ELSE pc[u]
    BY <1>1 DEF Send, TypeOK
  <2> QED
    BY <2>1, <2>2 DEF LookedUp, Send, Locked
<1>5. DepthCounts'
  BY DEF ClientInv, DepthCounts, Send, tx
<1>6. UNCHANGED <<names, attrs, byId, callers, meant, rows, file>>
  BY DEF Send, tables
<1> QED
  BY <1>2, <1>3, <1>4, <1>5, <1>6, Calm DEF ClientInv

\* The lock's holder is the only thread in a lookup.
LEMMA OnlyHolder ==
    ASSUME ClientConstants, TypeOK, ClientInv, NEW t \in Threads, pc[t] \in Locked
    PROVE  lock = t /\ \A u \in Threads : u # t => pc[u] \notin Locked
BY DEF ClientInv, LockHeld, Holds

\* After a step that leaves all records in agreement with the tables, rows and file
\* have their types.
LEMMA RecordsTyped ==
    ASSUME names' \in Seq(Names), attrs' \in Seq(Contents),
           meant' \in Seq([name : Names, held : SUBSET Contents]),
           rows' \in Seq(FitRows'), file' \in Seq(NameDefs' \cup AttrDefs' \cup FitRows')
    PROVE  /\ rows' \in Seq([tag : {"row"}, k : Nat, name : Nat, attrs : Nat])
           /\ file' \in Seq([tag : {"name"}, id : Nat, of : Names]
                           \cup [tag : {"attrs"}, id : Nat, of : Contents]
                           \cup [tag : {"row"}, k : Nat, name : Nat, attrs : Nat])
<1> DEFINE R == [tag : {"row"}, k : Nat, name : Nat, attrs : Nat]
           N == [tag : {"name"}, id : Nat, of : Names]
           A == [tag : {"attrs"}, id : Nat, of : Contents]
<1>1. DOMAIN names' \subseteq Nat /\ DOMAIN attrs' \subseteq Nat /\ DOMAIN meant' \subseteq Nat
  OBVIOUS
<1>2. FitRows' \subseteq R /\ NameDefs' \subseteq N /\ AttrDefs' \subseteq A
  BY <1>1 DEF FitRows, NameDefs, AttrDefs
<1>3. NameDefs' \cup AttrDefs' \cup FitRows' \subseteq N \cup A \cup R
  BY <1>2
<1> HIDE DEF R, N, A
<1>4. rows' \in Seq(R)
  BY <1>2, SeqWider
<1>5. file' \in Seq(N \cup A \cup R)
  BY <1>3, SeqWider
<1> QED
  BY <1>4, <1>5 DEF R, N, A

\* The first lookup.
LEMMA InternNameStep ==
    ASSUME ClientConstants, TypeOK, ClientInv, NEW t \in Senders, InternName(t)
    PROVE  TypeOK' /\ ClientInv'
<1> DEFINE n == cur[1]
<1>1. t \in Threads /\ pc[t] = "name" /\ "name" \in Locked /\ "attrs" \in Locked
      /\ "idle" \notin Locked /\ "attrs" \in PCs /\ "idle" \in PCs
  BY DEF Threads, InternName, Locked, PCs
<1>2. cur \in Names \X Dicts /\ n \in Names
  BY <1>1 DEF ClientInv, LookedUp
<1>3. \A u \in Threads : u # t => pc[u] \notin Locked
  BY <1>1, OnlyHolder
<1> HIDE DEF n
<1>4. UNCHANGED <<rows, attrs, byId, depth, inTx, due, stop, content, held, meant>>
  BY DEF InternName, tx, callers
<1>5. names \in Seq(Names) /\ attrs \in Seq(Contents) /\ file \in Seq(NameDefs \cup AttrDefs \cup FitRows)
      /\ rows \in Seq(FitRows) /\ meant \in Seq([name : Names, held : SUBSET Contents])
      /\ pc \in [Threads -> PCs]
  BY DEF TypeOK, ClientInv
<1>6. CASE Interned(names, n) /\ pc' = [pc EXCEPT ![t] = "attrs"]
           /\ UNCHANGED <<lock, cur, names, log, file, bounds>>
  <2>1. TypeOK'
    BY <1>1, <1>4, <1>6 DEF TypeOK, bounds
  <2>2. LockHeld'
    BY <1>1, <1>5, <1>6, LockStep DEF ClientInv
  <2>3. LookedUp'
    <3>1. \A u \in Threads : pc'[u] = IF u = t THEN "attrs" ELSE pc[u]
      BY <1>5, <1>6
    <3>2. ASSUME NEW u \in Threads, pc'[u] \in {"name", "attrs"}
          PROVE  cur' \in Names \X Dicts /\ Interned(names', cur'[1])
      BY <1>2, <1>3, <1>6, <3>1, <3>2 DEF Locked, n
    <3> QED
      BY <3>2 DEF LookedUp
  <2>4. DepthCounts'
    BY <1>4 DEF ClientInv, DepthCounts
  <2>5. UNCHANGED <<names, attrs, byId, callers, meant, rows, file>>
    BY <1>4, <1>6 DEF callers
  <2> QED
    BY <2>1, <2>2, <2>3, <2>4, <2>5, Calm DEF ClientInv
<1>7. CASE names' = Append(names, n)
           /\ \/ /\ WriteLog(<<NameRec(Len(names'), n)>>)
                 /\ pc' = [pc EXCEPT ![t] = "attrs"]
                 /\ UNCHANGED <<lock, cur, fails>>
              \/ /\ WriteFails(<<NameRec(Len(names'), n)>>, 0)
                 /\ cur' = <<>>
                 /\ pc' = [pc EXCEPT ![t] = "idle"]
                 /\ Release
  <2>1. /\ names' \in Seq(Names) /\ Len(names') \in DOMAIN names' /\ names'[Len(names')] = n
        /\ \A i \in DOMAIN names : i \in DOMAIN names' /\ names'[i] = names[i]
    BY <1>2, <1>5, <1>7, Appended
  <2>2. /\ NameDefs \subseteq NameDefs' /\ AttrDefs \subseteq AttrDefs'
        /\ FitRows \subseteq FitRows'
    BY <1>4, <2>1, FitKept
  <2> DEFINE S == NameDefs' \cup AttrDefs' \cup FitRows'
             rec == <<NameRec(Len(names'), n)>>
  <2>3. NameRec(Len(names'), n) \in NameDefs'
    BY <1>2, <2>1 DEF NameDefs, NameRec
  <2>4. rec \in Seq(S) /\ Len(rec) = 1
    BY <2>3
  <2>5. file \in Seq(S)
    <3>1. NameDefs \cup AttrDefs \cup FitRows \subseteq S
      BY <2>2
    <3> QED
      BY <1>5, <3>1, SeqWider
  <2>6. rows' \in Seq(FitRows')
    BY <1>4, <1>5, <2>2, SeqWider
  <2> HIDE DEF S, rec
  <2>7. file' \in Seq(S)
    <3>1. CASE WriteLog(rec)
      BY <2>4, <2>5, <3>1, WriteLogKeeps
    <3>2. CASE WriteFails(rec, 0)
      <4>1. 0 \in 0..Len(rec)
        BY <2>4
      <4> QED
        BY <2>4, <2>5, <3>2, <4>1, WriteFailsKeeps
    <3> QED
      BY <1>7, <3>1, <3>2 DEF rec
  <2>8. log' \in {"none", "open", "closed"} /\ opens' \in 0..MaxOpens /\ fails' \in 0..MaxFails
    <3>1. \/ WriteLog(rec) /\ UNCHANGED fails
          \/ \E most \in Nat : WriteFails(rec, most)
      BY <1>7 DEF rec
    <3> QED
      BY <3>1, WriteTyped
  <2>9. LockHeld'
    BY <1>1, <1>5, <1>7, LockStep DEF ClientInv, Release
  <2>10. LookedUp'
    <3>1. CASE pc' = [pc EXCEPT ![t] = "attrs"] /\ cur' = cur
      <4>1. \A u \in Threads : pc'[u] = IF u = t THEN "attrs" ELSE pc[u]
        BY <1>5, <3>1
      <4>2. Interned(names', cur'[1])
        BY <2>1, <3>1 DEF Interned, Ids, n
      <4>3. ASSUME NEW u \in Threads, pc'[u] \in {"name", "attrs"}
            PROVE  cur' \in Names \X Dicts /\ Interned(names', cur'[1])
        BY <1>2, <1>3, <3>1, <4>1, <4>2, <4>3 DEF Locked
      <4> QED
        BY <4>3 DEF LookedUp
    <3>2. CASE pc' = [pc EXCEPT ![t] = "idle"]
      <4>1. \A u \in Threads : pc'[u] = IF u = t THEN "idle" ELSE pc[u]
        BY <1>5, <3>2
      <4> QED
        BY <1>3, <4>1 DEF LookedUp, Locked
    <3> QED
      BY <1>7, <3>1, <3>2
  <2>11. DepthCounts'
    BY <1>4 DEF ClientInv, DepthCounts
  <2>12. CacheFits'
    BY <1>4 DEF ClientInv, CacheFits
  <2>13. ClientInv'
    BY <2>6, <2>7, <2>9, <2>10, <2>11, <2>12 DEF ClientInv, S
  <2>14. TypeOK'
    <3>1. pc' \in [Threads -> PCs] /\ lock' \in Threads \cup {"nobody"}
          /\ cur' \in {<<>>} \cup (Names \X Dicts)
      BY <1>1, <1>2, <1>7 DEF TypeOK, Release
    <3>2. /\ attrs' \in Seq(Contents) /\ meant' \in Seq([name : Names, held : SUBSET Contents])
      BY <1>4, <1>5
    <3>3. file' \in Seq(NameDefs' \cup AttrDefs' \cup FitRows')
      BY <2>7 DEF S
    <3>4. /\ rows' \in Seq([tag : {"row"}, k : Nat, name : Nat, attrs : Nat])
          /\ file' \in Seq([tag : {"name"}, id : Nat, of : Names]
                          \cup [tag : {"attrs"}, id : Nat, of : Contents]
                          \cup [tag : {"row"}, k : Nat, name : Nat, attrs : Nat])
      BY <2>1, <2>6, <3>2, <3>3, RecordsTyped
    <3> QED
      BY <1>4, <2>1, <2>8, <3>1, <3>2, <3>4 DEF TypeOK
  <2> QED
    BY <2>13, <2>14
<1> QED
  BY <1>1, <1>6, <1>7 DEF InternName, n

\* The end of send_measurement: the new row agrees with the tables, and the thread
\* leaves its lookups, to flush with the lock or without it.
LEMMA BufferStep ==
    ASSUME ClientConstants, TypeOK, ClientInv, NEW t \in Senders, pc[t] = "attrs",
           NEW aid \in DOMAIN attrs', attrs'[aid] \in held[cur[2]],
           names' = names, NEW d, d = cur[2],
           \A i \in DOMAIN attrs : i \in DOMAIN attrs' /\ attrs'[i] = attrs[i],
           Buffer(t, aid)
    PROVE  /\ rows' \in Seq(FitRows')
           /\ meant' \in Seq([name : Names, held : SUBSET Contents])
           /\ \A i \in DOMAIN meant : i \in DOMAIN meant' /\ meant'[i] = meant[i]
           /\ LockHeld' /\ lock' \in Threads \cup {"nobody"}
           /\ pc' \in [Threads -> PCs]
           /\ \A u \in Threads : pc'[u] \notin {"name", "attrs"}
<1> DEFINE n == cur[1]
           m == [name |-> n, held |-> held[d]]
           row == Row(Len(meant) + 1, IdOf(names, n), aid)
<1>1. t \in Threads /\ "attrs" \in Locked /\ "idle" \notin Locked /\ "flush" \in Locked
      /\ "idle" \in PCs /\ "flush" \in PCs
  BY DEF Threads, Locked, PCs
<1>2. cur \in Names \X Dicts /\ Interned(names, n)
  BY <1>1 DEF ClientInv, LookedUp
<1>3. IdOf(names, n) \in DOMAIN names /\ names[IdOf(names, n)] = n
  BY <1>2, LookUp
<1>4. m \in [name : Names, held : SUBSET Contents]
  BY <1>2 DEF TypeOK
<1>5. /\ meant' = Append(meant, m) /\ rows' = Append(rows, row)
  BY DEF Buffer
<1>6. meant \in Seq([name : Names, held : SUBSET Contents])
  BY DEF TypeOK
<1>7. /\ meant' \in Seq([name : Names, held : SUBSET Contents])
      /\ Len(meant) + 1 \in DOMAIN meant' /\ meant'[Len(meant) + 1] = m
      /\ \A i \in DOMAIN meant : i \in DOMAIN meant' /\ meant'[i] = meant[i]
  <2> HIDE DEF m
  <2> DEFINE M == [name : Names, held : SUBSET Contents]
  <2>1. meant \in Seq(M) /\ m \in M
    BY <1>4, <1>6
  <2> HIDE DEF M
  <2>2. Len(Append(meant, m)) = Len(meant) + 1
    BY <2>1, Appended
  <2>3. /\ meant' \in Seq(M) /\ Len(meant') \in DOMAIN meant' /\ meant'[Len(meant')] = m
        /\ \A i \in DOMAIN meant : i \in DOMAIN meant' /\ meant'[i] = meant[i]
    BY <1>5, <2>1, Appended
  <2> QED
    BY <1>5, <2>2, <2>3 DEF M
<1>8. row \in FitRows'
  BY <1>3, <1>7 DEF FitRows, Row
<1>9. rows' \in Seq(FitRows')
  <2>1. FitRows \subseteq FitRows'
    BY <1>7, FitKept
  <2>2. rows \in Seq(FitRows')
    BY <2>1, SeqWider DEF ClientInv
  <2> HIDE DEF row
  <2> QED
    BY <1>5, <1>8, <2>2, Appended
<1>10. \/ pc' = [pc EXCEPT ![t] = "flush"] /\ UNCHANGED lock
       \/ pc' = [pc EXCEPT ![t] = "idle"] /\ lock' = "nobody"
  BY DEF Buffer, Release
<1>11. pc \in [Threads -> PCs] /\ lock \in Threads \cup {"nobody"}
  BY DEF TypeOK
<1>12. LockHeld'
  BY <1>1, <1>10, <1>11, LockStep DEF ClientInv
<1>13. pc' \in [Threads -> PCs] /\ lock' \in Threads \cup {"nobody"}
  BY <1>1, <1>10, <1>11
<1>14. \A u \in Threads : pc'[u] \notin {"name", "attrs"}
  <2>1. \A u \in Threads : u # t => pc[u] \notin Locked
    BY <1>1, OnlyHolder
  <2> QED
    BY <1>1, <1>10, <1>11, <2>1 DEF Locked
<1> QED
  BY <1>7, <1>9, <1>12, <1>13, <1>14

\* The second lookup.
LEMMA InternAttrsStep ==
    ASSUME ClientConstants, TypeOK, ClientInv, NEW t \in Senders, InternAttrs(t)
    PROVE  TypeOK' /\ ClientInv'
<1> DEFINE d == cur[2]
           c == content[d]
           S == NameDefs' \cup AttrDefs' \cup FitRows'
           rec == <<AttrRec(Len(attrs'), c)>>
<1>1. t \in Threads /\ pc[t] = "attrs" /\ "attrs" \in Locked
      /\ "idle" \notin Locked /\ "idle" \in PCs
  BY DEF Threads, InternAttrs, Locked, PCs
<1>2. cur \in Names \X Dicts /\ d \in Dicts /\ c \in Contents
  BY <1>1 DEF ClientInv, LookedUp, TypeOK
<1>3. \A u \in Threads : u # t => pc[u] \notin Locked
  BY <1>1, OnlyHolder
<1>4. /\ c \in held[d] /\ byId \in [Dicts -> Nat]
      /\ byId[d] # 0 => byId[d] \in DOMAIN attrs /\ attrs[byId[d]] \in held[d]
  BY <1>2 DEF ClientInv, CacheFits, TypeOK
<1>5. names \in Seq(Names) /\ attrs \in Seq(Contents)
      /\ file \in Seq(NameDefs \cup AttrDefs \cup FitRows)
      /\ rows \in Seq(FitRows) /\ meant \in Seq([name : Names, held : SUBSET Contents])
      /\ pc \in [Threads -> PCs] /\ lock \in Threads \cup {"nobody"}
  BY DEF TypeOK, ClientInv
<1>6. UNCHANGED <<names, depth, inTx, due, stop, content, held>> /\ cur' = <<>>
  BY DEF InternAttrs, tx, callers
\* Either way the table only grows, by what is written to the file.
<1>7. \/ attrs' = attrs /\ UNCHANGED <<log, file, bounds>>
      \/ /\ attrs' = Append(attrs, c)
         /\ (WriteLog(rec) /\ UNCHANGED fails) \/ WriteFails(rec, 0)
  BY DEF InternAttrs
<1>8. /\ attrs' \in Seq(Contents)
      /\ \A i \in DOMAIN attrs : i \in DOMAIN attrs' /\ attrs'[i] = attrs[i]
      /\ attrs' = Append(attrs, c) => Len(attrs') \in DOMAIN attrs' /\ attrs'[Len(attrs')] = c
  <2>1. CASE attrs' = attrs /\ attrs' # Append(attrs, c)
    BY <1>5, <2>1
  <2>2. CASE attrs' = Append(attrs, c)
    <3> HIDE DEF c
    <3> QED
      BY <1>2, <1>5, <2>2, Appended
  <2> QED
    BY <1>7, <2>1, <2>2
\* Either way the row gets an id that stands for something its dict has contained.
<1>9. \/ \E aid \in DOMAIN attrs' : attrs'[aid] \in held[d] /\ Buffer(t, aid)
      \/ pc' = [pc EXCEPT ![t] = "idle"] /\ Release /\ UNCHANGED <<rows, meant>>
  <2>1. CASE c # NoAttrs /\ byId[d] # 0 /\ Buffer(t, byId[d]) /\ UNCHANGED attrs
    BY <1>4, <2>1
  <2>2. CASE Interned(attrs, c) /\ Buffer(t, IdOf(attrs, c)) /\ UNCHANGED attrs
    <3>1. IdOf(attrs, c) \in DOMAIN attrs /\ attrs[IdOf(attrs, c)] = c
      BY <2>2, LookUp
    <3> QED
      BY <1>4, <2>2, <3>1
  <2>3. CASE attrs' = Append(attrs, c) /\ Buffer(t, Len(attrs'))
    BY <1>4, <1>8, <2>3
  <2> QED
    BY <2>1, <2>2, <2>3 DEF InternAttrs
\* The cache is filled with the id the row gets.
<1>10. \/ byId' = byId
       \/ /\ byId' = [byId EXCEPT ![d] = IdOf(attrs, c)] /\ attrs' = attrs
          /\ Interned(attrs, c)
       \/ byId' = [byId EXCEPT ![d] = Len(attrs')] /\ attrs' = Append(attrs, c)
  BY DEF InternAttrs, CacheId
<1>11. byId' \in [Dicts -> Nat] /\ CacheFits'
  <2>1. \A x \in Dicts : /\ content[x] \in held[x]
                         /\ byId[x] # 0 => byId[x] \in DOMAIN attrs /\ attrs[byId[x]] \in held[x]
    BY DEF ClientInv, CacheFits
  <2>2. CASE byId' = byId
    BY <1>4, <1>6, <1>8, <2>1, <2>2 DEF CacheFits
  <2>3. ASSUME NEW id \in DOMAIN attrs', attrs'[id] = c, byId' = [byId EXCEPT ![d] = id]
        PROVE  byId' \in [Dicts -> Nat] /\ CacheFits'
    <3>1. id \in Nat
      BY <1>8, <2>3
    <3>2. \A x \in Dicts : byId'[x] = IF x = d THEN id ELSE byId[x]
      BY <1>2, <1>4, <2>3
    <3>3. ASSUME NEW x \in Dicts
          PROVE  /\ content'[x] \in held'[x]
                 /\ byId'[x] # 0 => byId'[x] \in DOMAIN attrs' /\ attrs'[byId'[x]] \in held'[x]
      BY <1>4, <1>6, <1>8, <2>1, <2>3, <3>2, <3>3
    <3>4. byId' \in [Dicts -> Nat]
      BY <1>4, <2>3, <3>1
    <3> QED
      BY <3>3, <3>4 DEF CacheFits
  <2>4. CASE byId' = [byId EXCEPT ![d] = IdOf(attrs, c)] /\ attrs' = attrs /\ Interned(attrs, c)
    <3>1. IdOf(attrs, c) \in DOMAIN attrs /\ attrs[IdOf(attrs, c)] = c
      BY <2>4, LookUp
    <3> QED
      BY <2>3, <2>4, <3>1
  <2>5. CASE byId' = [byId EXCEPT ![d] = Len(attrs')] /\ attrs' = Append(attrs, c)
    BY <1>8, <2>3, <2>5
  <2> QED
    BY <1>10, <2>2, <2>4, <2>5
<1>12. /\ rows' \in Seq(FitRows')
       /\ meant' \in Seq([name : Names, held : SUBSET Contents])
       /\ \A i \in DOMAIN meant : i \in DOMAIN meant' /\ meant'[i] = meant[i]
       /\ LockHeld' /\ lock' \in Threads \cup {"nobody"}
       /\ pc' \in [Threads -> PCs]
       /\ \A u \in Threads : pc'[u] \notin {"name", "attrs"}
  <2>1. ASSUME NEW aid \in DOMAIN attrs', attrs'[aid] \in held[d], Buffer(t, aid)
        PROVE  <1>12!1 /\ <1>12!2 /\ <1>12!3 /\ <1>12!4 /\ <1>12!5 /\ <1>12!6
    BY <1>1, <1>6, <1>8, <2>1, BufferStep
  <2>2. CASE pc' = [pc EXCEPT ![t] = "idle"] /\ Release /\ UNCHANGED <<rows, meant>>
    <3>1. FitRows \subseteq FitRows'
      BY <1>6, <1>8, <2>2, FitKept
    <3>2. rows' \in Seq(FitRows')
      BY <1>5, <2>2, <3>1, SeqWider
    <3>3. LockHeld'
      BY <1>1, <1>5, <2>2, LockStep DEF ClientInv, Release
    <3>4. pc' \in [Threads -> PCs] /\ \A u \in Threads : pc'[u] \notin {"name", "attrs"}
      BY <1>1, <1>3, <1>5, <2>2 DEF Locked
    <3> QED
      BY <1>5, <2>2, <3>2, <3>3, <3>4 DEF Release
  <2> QED
    BY <1>9, <2>1, <2>2
<1>13. /\ NameDefs \subseteq NameDefs' /\ AttrDefs \subseteq AttrDefs'
       /\ FitRows \subseteq FitRows'
  BY <1>6, <1>8, <1>12, FitKept
<1>14. attrs' = Append(attrs, c) => rec \in Seq(S) /\ Len(rec) = 1
  <2>1. attrs' = Append(attrs, c) => AttrRec(Len(attrs'), c) \in AttrDefs'
    BY <1>2, <1>8 DEF AttrDefs, AttrRec
  <2> QED
    BY <2>1
<1>15. file \in Seq(S)
  <2>1. NameDefs \cup AttrDefs \cup FitRows \subseteq S
    BY <1>13
  <2> QED
    BY <1>5, <2>1, SeqWider
<1> HIDE DEF S, rec, c, d
<1>16. file' \in Seq(S)
  <2>1. CASE file' = file
    BY <1>15, <2>1
  <2>2. CASE attrs' = Append(attrs, c) /\ WriteLog(rec)
    BY <1>14, <1>15, <2>2, WriteLogKeeps
  <2>3. CASE attrs' = Append(attrs, c) /\ WriteFails(rec, 0)
    <3>1. 0 \in 0..Len(rec)
      BY <1>14, <2>3
    <3> QED
      BY <1>14, <1>15, <2>3, <3>1, WriteFailsKeeps
  <2> QED
    BY <1>7, <2>1, <2>2, <2>3
<1>17. log' \in {"none", "open", "closed"} /\ opens' \in 0..MaxOpens /\ fails' \in 0..MaxFails
  <2>1. CASE UNCHANGED <<log, file, bounds>>
    BY <2>1 DEF TypeOK, bounds
  <2>2. CASE (WriteLog(rec) /\ UNCHANGED fails) \/ WriteFails(rec, 0)
    <3>1. \/ WriteLog(rec) /\ UNCHANGED fails
          \/ \E most \in Nat : WriteFails(rec, most)
      BY <2>2
    <3> QED
      BY <3>1, WriteTyped
  <2> QED
    BY <1>7, <2>1, <2>2
<1>18. LookedUp'
  BY <1>12 DEF LookedUp
<1>19. DepthCounts'
  BY <1>6 DEF ClientInv, DepthCounts
<1>20. ClientInv'
  BY <1>11, <1>12, <1>16, <1>18, <1>19 DEF ClientInv, S
<1>21. TypeOK'
  <2>1. names' \in Seq(Names) /\ file' \in Seq(NameDefs' \cup AttrDefs' \cup FitRows')
    BY <1>5, <1>6, <1>16 DEF S
  <2>2. /\ rows' \in Seq([tag : {"row"}, k : Nat, name : Nat, attrs : Nat])
        /\ file' \in Seq([tag : {"name"}, id : Nat, of : Names]
                        \cup [tag : {"attrs"}, id : Nat, of : Contents]
                        \cup [tag : {"row"}, k : Nat, name : Nat, attrs : Nat])
    BY <1>8, <1>12, <2>1, RecordsTyped
  <2>3. depth' \in Nat /\ inTx' \subseteq Senders /\ due' \in BOOLEAN /\ stop' \in BOOLEAN
        /\ content' \in [Dicts -> Contents] /\ held' \in [Dicts -> SUBSET Contents]
    BY <1>6 DEF TypeOK
  <2> QED
    BY <1>6, <1>8, <1>11, <1>12, <1>17, <2>1, <2>2, <2>3 DEF TypeOK
<1> QED
  BY <1>20, <1>21

\* The batch goes to the file, whole or in part, and the lock is released.
LEMMA FlushStep ==
    ASSUME ClientConstants, TypeOK, ClientInv, NEW t \in Threads, Flush(t)
    PROVE  TypeOK' /\ ClientInv'
<1> DEFINE S == NameDefs \cup AttrDefs \cup FitRows
<1>1. /\ AfterFlush(t) \in PCs \ Locked /\ AfterRaise(t) \in PCs \ Locked
      /\ pc[t] = "flush" /\ "flush" \in Locked
  BY DEF AfterFlush, AfterRaise, Flush, Locked, PCs
<1>2. PICK x \in PCs \ Locked : pc' = [pc EXCEPT ![t] = x]
  BY <1>1 DEF Flush
<1>3. /\ UNCHANGED <<cur, names, attrs, byId, depth, inTx, stop, content, held, meant>>
      /\ rows' = <<>> /\ lock' = "nobody" /\ due' \in BOOLEAN
  BY DEF Flush, tables, tx, callers, Release, TypeOK
<1>4. rows \in Seq(S) /\ Len(rows) \in 0..Len(rows) /\ file \in Seq(S)
  <2>1. rows \in Seq(FitRows) /\ FitRows \subseteq S /\ file \in Seq(S)
    BY DEF ClientInv
  <2> HIDE DEF S
  <2>2. rows \in Seq(S)
    BY <2>1, SeqWider
  <2> QED
    BY <2>1, <2>2
<1>5. NameDefs' = NameDefs /\ AttrDefs' = AttrDefs /\ FitRows' = FitRows
  BY <1>3 DEF NameDefs, AttrDefs, FitRows
<1> HIDE DEF S
<1>6. file' \in Seq(S)
  <2>1. CASE WriteLog(rows)
    BY <1>4, <2>1, WriteLogKeeps
  <2>2. CASE WriteFails(rows, Len(rows))
    BY <1>4, <2>2, WriteFailsKeeps
  <2> QED
    BY <2>1, <2>2 DEF Flush
<1>7. log' \in {"none", "open", "closed"} /\ opens' \in 0..MaxOpens /\ fails' \in 0..MaxFails
  <2>1. \/ WriteLog(rows) /\ UNCHANGED fails
        \/ \E most \in Nat : WriteFails(rows, most)
    BY <1>4 DEF Flush
  <2> QED
    BY <2>1, WriteTyped
<1>8. pc \in [Threads -> PCs]
  BY DEF TypeOK
<1>9. LockHeld'
  BY <1>1, <1>2, <1>3, <1>8, LockStep DEF ClientInv
<1>10. LookedUp'
  <2>1. x \notin {"name", "attrs"}
    BY <1>2 DEF Locked
  <2> QED
    BY <1>2, <1>3, <1>8, <2>1, CalmLookups DEF ClientInv
<1>11. CacheFits' /\ DepthCounts'
  BY <1>3 DEF ClientInv, CacheFits, DepthCounts
<1>12. rows' \in Seq(FitRows') /\ file' \in Seq(NameDefs' \cup AttrDefs' \cup FitRows')
  BY <1>3, <1>5, <1>6, EmptySeq DEF S
<1>13. ClientInv'
  BY <1>9, <1>10, <1>11, <1>12 DEF ClientInv
<1>14. TypeOK'
  <2>1. /\ names' \in Seq(Names) /\ attrs' \in Seq(Contents)
        /\ meant' \in Seq([name : Names, held : SUBSET Contents])
    BY <1>3 DEF TypeOK
  <2>2. /\ rows' \in Seq([tag : {"row"}, k : Nat, name : Nat, attrs : Nat])
        /\ file' \in Seq([tag : {"name"}, id : Nat, of : Names]
                        \cup [tag : {"attrs"}, id : Nat, of : Contents]
                        \cup [tag : {"row"}, k : Nat, name : Nat, attrs : Nat])
    BY <1>12, <2>1, RecordsTyped
  <2>3. pc' \in [Threads -> PCs] /\ lock' \in Threads \cup {"nobody"}
    BY <1>2, <1>3, <1>8
  <2>4. cur' \in {<<>>} \cup (Names \X Dicts) /\ byId' \in [Dicts -> Nat] /\ depth' \in Nat
        /\ inTx' \subseteq Senders /\ stop' \in BOOLEAN
        /\ content' \in [Dicts -> Contents] /\ held' \in [Dicts -> SUBSET Contents]
    BY <1>3 DEF TypeOK
  <2> QED
    BY <1>3, <1>7, <2>1, <2>2, <2>3, <2>4 DEF TypeOK
<1> QED
  BY <1>13, <1>14

\* A step of thread t that leaves the records, the tables and the callers alone
\* and does not move it into a lookup.
LEMMA QuietStep ==
    ASSUME ClientConstants, TypeOK, ClientInv, NEW t \in Threads, NEW x \in PCs,
           x \notin {"name", "attrs"}, pc' = [pc EXCEPT ![t] = x],
           \/ lock' = lock /\ (x \in Locked <=> pc[t] \in Locked)
           \/ lock = "nobody" /\ lock' = t /\ x \in Locked
           \/ pc[t] \in Locked /\ lock' = "nobody" /\ x \notin Locked,
           UNCHANGED <<cur, rows, names, attrs, byId, file, content, held, meant>>,
           depth' \in Nat, inTx' \subseteq Senders, due' \in BOOLEAN, stop' \in BOOLEAN,
           log' \in {"none", "open", "closed"}, opens' \in 0..MaxOpens,
           fails' \in 0..MaxFails, DepthCounts'
    PROVE  TypeOK' /\ ClientInv'
<1>1. pc \in [Threads -> PCs] /\ lock \in Threads \cup {"nobody"}
  BY DEF TypeOK
<1>2. LockHeld'
  BY <1>1, LockStep DEF ClientInv
<1>3. LookedUp'
  BY <1>1, CalmLookups DEF ClientInv
<1>4. /\ CacheFits'
      /\ rows' \in Seq(FitRows')
      /\ file' \in Seq(NameDefs' \cup AttrDefs' \cup FitRows')
  BY Calm DEF callers
<1>5. pc' \in [Threads -> PCs] /\ lock' \in Threads \cup {"nobody"}
  BY <1>1
<1>6. TypeOK'
  BY <1>5 DEF TypeOK
<1> QED
  BY <1>2, <1>3, <1>4, <1>6 DEF ClientInv

\* A `with` block of a thread outside the lock that flushes or does not.
LEMMA FlushIfStep ==
    ASSUME ClientConstants, TypeOK, ClientInv, NEW t \in Threads, pc[t] \notin Locked,
           NEW cond, NEW next \in PCs \ Locked, FlushIf(t, cond, next),
           UNCHANGED <<cur, rows, names, attrs, byId, file, content, held, meant>>,
           UNCHANGED <<due, stop, log, opens, fails>>,
           depth' \in Nat, inTx' \subseteq Senders, DepthCounts'
    PROVE  TypeOK' /\ ClientInv'
<1>1. "flush" \in PCs /\ "flush" \in Locked /\ "flush" \notin {"name", "attrs"}
  BY DEF PCs, Locked
<1>2. next \notin {"name", "attrs"}
  BY DEF Locked
<1>3. due' \in BOOLEAN /\ stop' \in BOOLEAN /\ log' \in {"none", "open", "closed"}
      /\ opens' \in 0..MaxOpens /\ fails' \in 0..MaxFails
  BY DEF TypeOK
<1>4. CASE lock = "nobody" /\ lock' = t /\ pc' = [pc EXCEPT ![t] = "flush"]
  BY <1>1, <1>3, <1>4, QuietStep
<1>5. CASE lock' = lock /\ pc' = [pc EXCEPT ![t] = next]
  BY <1>2, <1>3, <1>5, QuietStep
<1> QED
  BY <1>4, <1>5 DEF FlushIf

\* A thread opens a transaction.
LEMMA EnterStep ==
    ASSUME ClientConstants, TypeOK, ClientInv, NEW t \in Senders, Enter(t)
    PROVE  TypeOK' /\ ClientInv'
<1>1. /\ UNCHANGED <<pc, lock, cur, rows, names, attrs, byId, due, stop, log, file>>
      /\ UNCHANGED <<content, held, opens, fails, meant>>
      /\ inTx' = inTx \cup {t} /\ depth' = depth + 1 /\ t \notin inTx
  BY DEF Enter, tables, callers, bounds
<1>2. DepthCounts' /\ depth' \in Nat
  <2>1. IsFiniteSet(inTx) /\ depth = Cardinality(inTx) /\ depth \in Nat
    BY DEF ClientInv, DepthCounts, TypeOK
  <2>2. IsFiniteSet(inTx \cup {t}) /\ Cardinality(inTx \cup {t}) = Cardinality(inTx) + 1
    BY <1>1, <2>1, FS_AddElement
  <2> QED
    BY <1>1, <2>1, <2>2 DEF DepthCounts
<1>3. LockHeld' /\ LookedUp'
  BY <1>1 DEF ClientInv, LockHeld, Holds, LookedUp, Interned, Ids
<1>4. /\ CacheFits' /\ rows' \in Seq(FitRows')
      /\ file' \in Seq(NameDefs' \cup AttrDefs' \cup FitRows')
  BY <1>1, Calm DEF callers
<1>5. inTx' \subseteq Senders
  BY <1>1 DEF TypeOK
<1>6. TypeOK'
  BY <1>1, <1>2, <1>5, SMTT(30) DEF TypeOK
<1> QED
  BY <1>2, <1>3, <1>4, <1>6 DEF ClientInv

\* A thread leaves its transaction.
LEMMA ExitStep ==
    ASSUME ClientConstants, TypeOK, ClientInv, NEW t \in Senders, Exit(t)
    PROVE  TypeOK' /\ ClientInv'
<1>1. /\ UNCHANGED <<cur, rows, names, attrs, byId, file, content, held, meant>>
      /\ UNCHANGED <<due, stop, log, opens, fails>>
      /\ inTx' = inTx \ {t} /\ depth' = depth - 1 /\ t \in inTx
      /\ pc[t] = "idle" /\ FlushIf(t, depth' = 0 /\ rows # <<>>, "idle")
  BY DEF Exit, tables, callers, bounds
<1>2. DepthCounts' /\ depth' \in Nat
  <2>1. IsFiniteSet(inTx) /\ depth = Cardinality(inTx)
    BY DEF ClientInv, DepthCounts
  <2>2. IsFiniteSet(inTx \ {t}) /\ Cardinality(inTx \ {t}) = Cardinality(inTx) - 1
    BY <1>1, <2>1, FS_RemoveElement
  <2>3. Cardinality(inTx \ {t}) \in Nat
    BY <2>2, FS_CardinalityType
  <2> QED
    BY <1>1, <2>1, <2>2, <2>3 DEF DepthCounts
<1>3. t \in Threads /\ "idle" \in PCs \ Locked /\ inTx' \subseteq Senders
  BY <1>1 DEF Threads, PCs, Locked, TypeOK
<1> QED
  BY <1>1, <1>2, <1>3, FlushIfStep

\* The flusher wakes and looks at the buffer.
LEMMA FlusherStep ==
    ASSUME ClientConstants, TypeOK, ClientInv, Flusher
    PROVE  TypeOK' /\ ClientInv'
<1>1. "flusher" \in Threads /\ {"done", "wake", "wait"} \in SUBSET (PCs \ Locked)
  BY DEF Threads, PCs, Locked
<1>2. CASE Wake
  <2>1. /\ UNCHANGED <<cur, rows, names, attrs, byId, file, content, held, meant>>
        /\ UNCHANGED <<lock, depth, inTx, due, stop, log, opens, fails>>
        /\ pc["flusher"] = "wait"
    BY <1>2 DEF Wake, tables, tx, callers, bounds
  <2>2. PICK x \in PCs \ Locked : pc' = [pc EXCEPT !["flusher"] = x]
    BY <1>1, <1>2 DEF Wake
  <2>3. x \notin {"name", "attrs"}
    BY <2>2 DEF Locked
  <2>4. DepthCounts'
    BY <2>1 DEF ClientInv, DepthCounts
  <2>5. depth' \in Nat /\ inTx' \subseteq Senders /\ due' \in BOOLEAN /\ stop' \in BOOLEAN
        /\ log' \in {"none", "open", "closed"} /\ opens' \in 0..MaxOpens /\ fails' \in 0..MaxFails
    BY <2>1 DEF TypeOK
  <2>6. lock' = lock /\ (x \in Locked <=> pc["flusher"] \in Locked)
    BY <1>1, <2>1, <2>2
  <2> QED
    BY <1>1, <2>1, <2>2, <2>3, <2>4, <2>5, <2>6, QuietStep
<1>3. CASE CheckDelay
  <2>1. /\ UNCHANGED <<cur, rows, names, attrs, byId, file, content, held, meant>>
        /\ UNCHANGED <<due, stop, log, opens, fails>>
        /\ UNCHANGED <<depth, inTx>> /\ pc["flusher"] \notin Locked
        /\ FlushIf("flusher", rows # <<>> /\ due, "wait")
    BY <1>1, <1>3 DEF CheckDelay, tables, tx, callers, bounds
  <2>2. DepthCounts' /\ depth' \in Nat /\ inTx' \subseteq Senders
    BY <2>1 DEF ClientInv, DepthCounts, TypeOK
  <2> QED
    BY <1>1, <2>1, <2>2, FlushIfStep
<1>4. CASE Flush("flusher")
  BY <1>1, <1>4, FlushStep
<1> QED
  BY <1>2, <1>3, <1>4 DEF Flusher

\* The steps of close().
LEMMA CloserStep ==
    ASSUME ClientConstants, TypeOK, ClientInv, Closer
    PROVE  TypeOK' /\ ClientInv'
<1>1. "closer" \in Threads
      /\ {"idle", "done", "dead", "close_flush", "close_log", "close_clear"} \in SUBSET (PCs \ Locked)
  BY DEF Threads, PCs, Locked
<1>2. CASE CloseBegin \/ CloseLog \/ CloseClear
  <2>1. /\ UNCHANGED <<cur, rows, names, attrs, byId, file, content, held, meant>>
        /\ UNCHANGED <<lock, depth, inTx, due, opens>>
        /\ pc["closer"] \notin Locked
    BY <1>1, <1>2 DEF CloseBegin, CloseLog, CloseClear, tables, tx, callers, bounds
  <2>2. PICK x \in PCs \ Locked : pc' = [pc EXCEPT !["closer"] = x]
    BY <1>1, <1>2 DEF CloseBegin, CloseLog, CloseClear
  <2>3. x \notin {"name", "attrs"}
    BY <2>2 DEF Locked
  <2>4. DepthCounts'
    BY <2>1 DEF ClientInv, DepthCounts
  <2>5. depth' \in Nat /\ inTx' \subseteq Senders /\ due' \in BOOLEAN /\ opens' \in 0..MaxOpens
    BY <2>1 DEF TypeOK
  <2>6. stop' \in BOOLEAN /\ log' \in {"none", "open", "closed"}
    BY <1>2 DEF CloseBegin, CloseLog, CloseClear, TypeOK
  <2>7. fails' \in 0..MaxFails
    <3>1. fails \in 0..MaxFails /\ MaxFails \in Nat
      BY DEF TypeOK, ClientConstants
    <3> QED
      BY <1>2, <3>1 DEF CloseBegin, CloseLog, CloseClear, bounds
  <2>8. lock' = lock /\ (x \in Locked <=> pc["closer"] \in Locked)
    BY <2>1, <2>2
  <2> QED
    BY <1>1, <2>1, <2>2, <2>3, <2>4, <2>5, <2>6, <2>7, <2>8, QuietStep
<1>3. CASE CloseFlush
  <2>1. /\ UNCHANGED <<cur, rows, names, attrs, byId, file, content, held, meant>>
        /\ UNCHANGED <<due, stop, log, opens, fails>>
        /\ UNCHANGED <<depth, inTx>> /\ pc["closer"] \notin Locked
        /\ FlushIf("closer", rows # <<>>, "close_log")
    BY <1>1, <1>3 DEF CloseFlush, tables, tx, callers, bounds
  <2>2. DepthCounts' /\ depth' \in Nat /\ inTx' \subseteq Senders
    BY <2>1 DEF ClientInv, DepthCounts, TypeOK
  <2> QED
    BY <1>1, <2>1, <2>2, FlushIfStep
<1>4. CASE Flush("closer")
  BY <1>1, <1>4, FlushStep
<1> QED
  BY <1>2, <1>3, <1>4 DEF Closer

\* A caller changes a dict: what its cached id stands for it has contained before.
LEMMA MutateStep ==
    ASSUME TypeOK, ClientInv, NEW d \in Dicts, NEW c \in Contents, Mutate(d, c)
    PROVE  TypeOK' /\ ClientInv'
<1>1. /\ UNCHANGED <<pc, lock, cur, rows, names, attrs, byId, depth, inTx, due, stop>>
      /\ UNCHANGED <<log, file, opens, fails, meant>>
      /\ content' = [content EXCEPT ![d] = c] /\ held' = [held EXCEPT ![d] = @ \cup {c}]
  BY DEF Mutate, tables, tx, bounds
<1>2. content \in [Dicts -> Contents] /\ held \in [Dicts -> SUBSET Contents]
  BY DEF TypeOK
<1>3. CacheFits'
  <2>1. \A x \in Dicts : /\ content'[x] = IF x = d THEN c ELSE content[x]
                         /\ held'[x] = IF x = d THEN held[x] \cup {c} ELSE held[x]
    BY <1>1, <1>2
  <2>2. ASSUME NEW x \in Dicts
        PROVE  /\ content'[x] \in held'[x]
               /\ byId'[x] # 0 => byId'[x] \in DOMAIN attrs' /\ attrs'[byId'[x]] \in held'[x]
    <3>1. /\ content[x] \in held[x]
          /\ byId[x] # 0 => byId[x] \in DOMAIN attrs /\ attrs[byId[x]] \in held[x]
      BY DEF ClientInv, CacheFits
    <3> QED
      BY <1>1, <2>1, <3>1
  <2> QED
    BY <2>2 DEF CacheFits
<1>4. LockHeld' /\ LookedUp' /\ DepthCounts'
  BY <1>1 DEF ClientInv, LockHeld, Holds, LookedUp, DepthCounts, Interned, Ids
<1>5. rows' \in Seq(FitRows') /\ file' \in Seq(NameDefs' \cup AttrDefs' \cup FitRows')
  BY <1>1 DEF ClientInv, FitRows, NameDefs, AttrDefs
<1>6. TypeOK'
  <2>1. content' \in [Dicts -> Contents] /\ held' \in [Dicts -> SUBSET Contents]
    BY <1>1, <1>2
  <2> QED
    BY <1>1, <2>1 DEF TypeOK
<1> QED
  BY <1>3, <1>4, <1>5, <1>6 DEF ClientInv

\* Every step, and a stutter, keeps types and strengthening.
LEMMA InvStep ==
    ASSUME ClientConstants, TypeOK, ClientInv, [Next]_vars
    PROVE  TypeOK' /\ ClientInv'
<1>1. ASSUME NEW t \in Senders, Sender(t)
      PROVE  TypeOK' /\ ClientInv'
  <2>1. t \in Threads
    BY DEF Threads
  <2> QED
    BY <1>1, <2>1, SendStep, InternNameStep, InternAttrsStep, FlushStep, EnterStep,
       ExitStep DEF Sender
<1>2. CASE Tick
  <2>1. /\ UNCHANGED <<pc, lock, cur, rows, names, attrs, byId, depth, inTx, stop>>
        /\ UNCHANGED <<log, file, content, held, opens, fails, meant>> /\ due' \in BOOLEAN
    BY <1>2 DEF Tick, tables, tx, callers, bounds
  <2>2. LockHeld' /\ LookedUp' /\ DepthCounts'
    BY <2>1 DEF ClientInv, LockHeld, Holds, LookedUp, DepthCounts, Interned, Ids
  <2>3. /\ CacheFits' /\ rows' \in Seq(FitRows')
        /\ file' \in Seq(NameDefs' \cup AttrDefs' \cup FitRows')
    BY <2>1, Calm DEF callers
  <2>4. TypeOK'
    BY <2>1 DEF TypeOK
  <2> QED
    BY <2>2, <2>3, <2>4 DEF ClientInv
<1>3. CASE UNCHANGED vars
  <2>1. /\ UNCHANGED <<pc, lock, cur, rows, names, attrs, byId, depth, inTx, due, stop>>
        /\ UNCHANGED <<log, file, content, held, opens, fails, meant>>
    BY <1>3 DEF vars, tables, tx, callers, bounds
  <2>2. LockHeld' /\ LookedUp' /\ DepthCounts'
    BY <2>1 DEF ClientInv, LockHeld, Holds, LookedUp, DepthCounts, Interned, Ids
  <2>3. /\ CacheFits' /\ rows' \in Seq(FitRows')
        /\ file' \in Seq(NameDefs' \cup AttrDefs' \cup FitRows')
    BY <2>1, Calm DEF callers
  <2>4. TypeOK'
    BY <2>1 DEF TypeOK
  <2> QED
    BY <2>2, <2>3, <2>4 DEF ClientInv
<1> QED
  BY <1>1, <1>2, <1>3, FlusherStep, CloserStep, MutateStep DEF Next

-----------------------------------------------------------------------------
(* The theorems.                                                           *)

\* Every variable keeps its type, in particular _depth never goes below zero, and
\* the strengthening is an invariant.
THEOREM TypeCorrect == Spec => [](TypeOK /\ ClientInv)
<1>1. Init => TypeOK /\ ClientInv
  BY InitInv, ClientConstants
<1>2. TypeOK /\ ClientInv /\ [Next]_vars => (TypeOK /\ ClientInv)'
  BY InvStep, ClientConstants
<1> QED
  BY <1>1, <1>2, PTL DEF Spec

\* No two threads are inside the lock at once, however sends, transactions, the
\* flusher and close() interleave and whichever of them raise.
THEOREM OneThreadInside == Spec => []LockHeld
<1>1. ClientInv => LockHeld
  BY DEF ClientInv
<1> QED
  BY <1>1, TypeCorrect, PTL

\* The definitions a reader finds for a row never give it the name of another
\* measurement or the attributes of another dict: any number of failures,
\* reopenings, races with close() and dicts changed by their owners.
THEOREM NeverMislabelledAlways == Spec => []NeverMislabelled
<1>1. TypeOK /\ ClientInv => NeverMislabelled
  <2> SUFFICES ASSUME TypeOK, ClientInv, NEW i \in RowsAt
               PROVE  LET m == meant[file[i].k]
                      IN  /\ \A j \in DefsBefore(i, "name", file[i].name) : file[j].of = m.name
                          /\ \A j \in DefsBefore(i, "attrs", file[i].attrs) : file[j].of \in m.held
    BY DEF NeverMislabelled
  <2> DEFINE S == NameDefs \cup AttrDefs \cup FitRows
  <2>1. file \in Seq(S) /\ i \in DOMAIN file /\ file[i].tag = "row"
    BY DEF ClientInv, RowsAt
  <2>2. \A j \in 1..i - 1 : j \in DOMAIN file
    BY <2>1
  <2> HIDE DEF S
  <2>3. \A j \in DOMAIN file : file[j] \in S
    BY <2>1
  <2>4. file[i] \in FitRows
    BY <2>1, <2>3 DEF S, NameDefs, AttrDefs
  <2>5. names[file[i].name] = meant[file[i].k].name
        /\ attrs[file[i].attrs] \in meant[file[i].k].held
    BY <2>4 DEF FitRows
  <2>6. ASSUME NEW j \in DefsBefore(i, "name", file[i].name)
        PROVE  file[j].of = meant[file[i].k].name
    <3>1. j \in DOMAIN file /\ file[j].tag = "name" /\ file[j].id = file[i].name
      BY <2>2 DEF DefsBefore
    <3>2. file[j] \in NameDefs
      BY <2>3, <3>1 DEF S, FitRows, AttrDefs
    <3> QED
      BY <2>5, <3>1, <3>2 DEF NameDefs
  <2>7. ASSUME NEW j \in DefsBefore(i, "attrs", file[i].attrs)
        PROVE  file[j].of \in meant[file[i].k].held
    <3>1. j \in DOMAIN file /\ file[j].tag = "attrs" /\ file[j].id = file[i].attrs
      BY <2>2 DEF DefsBefore
    <3>2. file[j] \in AttrDefs
      BY <2>3, <3>1 DEF S, FitRows, NameDefs
    <3> QED
      BY <2>5, <3>1, <3>2 DEF AttrDefs
  <2> QED
    BY <2>6, <2>7
<1> QED
  BY <1>1, TypeCorrect, PTL
-----------------------------------------------------------------------------
(* What becomes of an accepted measurement.                                *)

Reliable == ~Races /\ MaxFails = 0

-----------------------------------------------------------------------------
(* The inductive invariants.                                               *)

IsRow(r) == r.tag = "row"

Ascending(recs) ==
    \A i, j \in DOMAIN recs :
        (IsRow(recs[i]) /\ IsRow(recs[j]) /\ i < j) => recs[i].k < recs[j].k

Precedes(recs, later) ==
    \A i \in DOMAIN recs, j \in DOMAIN later :
        (IsRow(recs[i]) /\ IsRow(later[j])) => recs[i].k < later[j].k

\* The rows of the file and then those of the buffer are in the order of acceptance.
OrderInv == Ascending(file) /\ Ascending(rows) /\ Precedes(file, rows)

\* A full buffer outside transactions has a thread that is about to flush it.
BatchInv == (depth = 0 /\ \A t \in Threads : pc[t] # "flush") => Len(rows) < Batch

\* Where close() stands, and with it the log and the buffer.
ClosePhase ==
    /\ stop <=> pc["closer"] # "idle"
    /\ stop => \A t \in Senders : pc[t] \notin {"name", "attrs"}
    /\ log = "closed" <=> pc["closer"] = "close_clear"
    /\ pc["closer"] \in {"close_flush", "flush", "close_log"} => log = "open"
    /\ pc["closer"] \in {"close_log", "close_clear", "done"} => rows = <<>>
    /\ \A t \in Threads : pc[t] = "flush" => rows # <<>>
    /\ (log = "none" /\ pc["closer"] # "done") =>
          names = <<>> /\ attrs = <<>> /\ rows = <<>> /\ meant = <<>>

\* What is interned is defined in the file.
Defined(recs, tag, id) == \E j \in DOMAIN recs : recs[j].tag = tag /\ recs[j].id = id
TablesInFile == /\ \A i \in DOMAIN names : Defined(file, "name", i)
                /\ \A i \in DOMAIN attrs : Defined(file, "attrs", i)

Recorded == TablesInFile /\ EveryRowDecodes /\ NothingLost

-----------------------------------------------------------------------------
(* Order: sequences.                                                       *)

\* A prefix is as ordered as the whole.
LEMMA PrefixAscends ==
    ASSUME NEW S, NEW recs \in Seq(S), NEW n \in 0..Len(recs), Ascending(recs),
           NEW before, Precedes(before, recs)
    PROVE  /\ SubSeq(recs, 1, n) \in Seq(S)
           /\ Ascending(SubSeq(recs, 1, n)) /\ Precedes(before, SubSeq(recs, 1, n))
<1> DEFINE p == SubSeq(recs, 1, n)
<1>1. n \in Nat /\ n <= Len(recs) /\ Len(recs) \in Nat /\ DOMAIN recs = 1..Len(recs)
  BY LenProperties
<1>2. p \in Seq(S) /\ DOMAIN p = 1..n /\ \A i \in 1..n : p[i] = recs[i]
  BY <1>1
<1>3. DOMAIN p \subseteq DOMAIN recs
  BY <1>1, <1>2
<1> HIDE DEF p
<1>4. Ascending(p) /\ Precedes(before, p)
  BY <1>2, <1>3 DEF Ascending, Precedes
<1> QED
  BY <1>2, <1>4 DEF p

\* Two ordered sequences, one before the other, are ordered together.
LEMMA JoinAscends ==
    ASSUME NEW S, NEW first \in Seq(S), NEW second \in Seq(S),
           Ascending(first), Ascending(second), Precedes(first, second)
    PROVE  Ascending(first \o second)
<1> DEFINE w == first \o second
           m == Len(first)
<1>1. /\ m \in Nat /\ Len(second) \in Nat
      /\ DOMAIN first = 1..m /\ DOMAIN second = 1..Len(second)
  BY LenProperties
<1>2. /\ DOMAIN w = 1..(m + Len(second))
      /\ \A i \in DOMAIN w : w[i] = IF i <= m THEN first[i] ELSE second[i - m]
  BY <1>1, ConcatProperties
<1>3. \A i \in DOMAIN w : IF i <= m THEN i \in DOMAIN first ELSE i - m \in DOMAIN second
  BY <1>1, <1>2
<1> HIDE DEF w, m
<1>4. ASSUME NEW i \in DOMAIN w, NEW j \in DOMAIN w, IsRow(w[i]), IsRow(w[j]), i < j
      PROVE  w[i].k < w[j].k
  <2>1. i \in Nat /\ j \in Nat /\ m \in Nat
    BY <1>1, <1>2
  <2>2. CASE j <= m
    <3>1. i <= m
      BY <1>4, <2>1, <2>2
    <3> QED
      BY <1>2, <1>3, <1>4, <2>2, <3>1 DEF Ascending
  <2>3. CASE i <= m /\ ~(j <= m)
    BY <1>2, <1>3, <1>4, <2>3 DEF Precedes
  <2>4. CASE ~(i <= m) /\ ~(j <= m)
    <3>1. i - m < j - m
      BY <1>4, <2>1
    <3> QED
      BY <1>2, <1>3, <1>4, <2>4, <3>1 DEF Ascending
  <2>5. ~(i <= m) => ~(j <= m)
    BY <1>4, <2>1
  <2> QED
    BY <2>2, <2>3, <2>4, <2>5
<1> QED
  BY <1>4 DEF Ascending, w

\* A call of the extension, whether it raises or not, keeps the file in order if
\* what it writes is in order and later than the file.
LEMMA WriteAscends ==
    ASSUME NEW S, file \in Seq(S), NEW recs \in Seq(S),
           Ascending(file), Ascending(recs), Precedes(file, recs),
           WriteLog(recs) \/ WriteFails(recs, Len(recs))
    PROVE  Ascending(file')
<1>1. ASSUME NEW r \in Seq(S), Ascending(r), Precedes(file, r), WriteLog(r)
      PROVE  Ascending(file')
  <2>1. Ascending(file \o r)
    BY <1>1, JoinAscends
  <2> QED
    BY <1>1, <2>1 DEF WriteLog
<1>2. ASSUME NEW n \in 0..Len(recs), WriteLog(SubSeq(recs, 1, n))
      PROVE  Ascending(file')
  <2>1. /\ SubSeq(recs, 1, n) \in Seq(S) /\ Ascending(SubSeq(recs, 1, n))
        /\ Precedes(file, SubSeq(recs, 1, n))
    BY PrefixAscends
  <2> QED
    BY <1>1, <1>2, <2>1
<1>3. CASE file' \in {file, <<>>}
  <2>1. Ascending(<<>>)
    BY DEF Ascending
  <2> QED
    BY <1>3, <2>1
<1> QED
  BY <1>1, <1>2, <1>3 DEF WriteFails

\* A definition is not a row: the rows of the file stay where they were, or go
\* with the file when it is opened.
LEMMA DefinitionKeepsRows ==
    ASSUME NEW S, file \in Seq(S), NEW r \in S, ~IsRow(r),
           WriteLog(<<r>>) \/ WriteFails(<<r>>, 0)
    PROVE  \A i \in DOMAIN file' : IsRow(file'[i]) => i \in DOMAIN file /\ file'[i] = file[i]
<1>1. ASSUME NEW recs, recs = <<r>> \/ recs = <<>>, WriteLog(recs)
      PROVE  \A i \in DOMAIN file' : IsRow(file'[i]) => i \in DOMAIN file /\ file'[i] = file[i]
  <2>1. CASE file' = recs
    BY <1>1, <2>1
  <2>2. CASE file' = file \o recs
    <3>1. recs \in Seq(S) /\ \A j \in DOMAIN recs : ~IsRow(recs[j])
      <4>1. CASE recs = <<r>>
        <5>1. recs \in Seq(S) /\ DOMAIN recs = {1} /\ recs[1] = r
          BY <4>1
        <5> QED
          BY <5>1
      <4>2. CASE recs = <<>>
        <5>1. recs \in Seq(S) /\ DOMAIN recs = {}
          BY <4>2, EmptySeq
        <5> QED
          BY <5>1
      <4> QED
        BY <1>1, <4>1, <4>2
    <3>2. /\ Len(file) \in Nat /\ Len(recs) \in Nat
          /\ DOMAIN file = 1..Len(file) /\ DOMAIN recs = 1..Len(recs)
      BY <3>1, LenProperties
    <3>3. /\ DOMAIN file' = 1..(Len(file) + Len(recs))
          /\ \A i \in DOMAIN file' : file'[i] = IF i <= Len(file) THEN file[i]
                                                ELSE recs[i - Len(file)]
      BY <2>2, <3>1, <3>2, ConcatProperties
    <3>4. \A i \in DOMAIN file' : IF i <= Len(file) THEN i \in DOMAIN file
                                  ELSE i - Len(file) \in DOMAIN recs
      BY <3>2, <3>3
    <3> QED
      BY <3>1, <3>3, <3>4
  <2>3. CASE file' = file
    BY <2>3
  <2> QED
    BY <1>1, <2>1, <2>2, <2>3 DEF WriteLog
<1>2. ASSUME NEW n \in 0..0, WriteLog(SubSeq(<<r>>, 1, n))
      PROVE  \A i \in DOMAIN file' : IsRow(file'[i]) => i \in DOMAIN file /\ file'[i] = file[i]
  <2>1. n = 0
    BY <1>2
  <2>2. SubSeq(<<r>>, 1, n) = <<>>
    BY <2>1, SubSeqProperties
  <2> QED
    BY <1>1, <1>2, <2>2
<1>3. CASE file' \in {file, <<>>}
  BY <1>3
<1> QED
  BY <1>1, <1>2, <1>3 DEF WriteFails

\* With its rows in place the file is as ordered as before.
LEMMA RowsInPlace ==
    ASSUME \A i \in DOMAIN file' : IsRow(file'[i]) => i \in DOMAIN file /\ file'[i] = file[i],
           Ascending(file), NEW later, Precedes(file, later)
    PROVE  Ascending(file') /\ Precedes(file', later)
BY DEF Ascending, Precedes

\* The row of the measurement just accepted comes after all others.
LEMMA NewRowAscends ==
    ASSUME TypeOK, ClientInv, NEW t, NEW aid, Buffer(t, aid),
           Ascending(rows), NEW before, Precedes(before, rows),
           \A i \in DOMAIN before : IsRow(before[i]) => before[i].k \in DOMAIN meant
    PROVE  Ascending(rows') /\ Precedes(before, rows')
<1> DEFINE row == Row(Len(meant) + 1, IdOf(names, cur[1]), aid)
<1>1. rows' = Append(rows, row) /\ row.k = Len(meant) + 1
  BY DEF Buffer, Row
<1> HIDE DEF row
<1>2. rows \in Seq(FitRows) /\ DOMAIN meant = 1..Len(meant) /\ Len(meant) \in Nat
  BY DEF TypeOK, ClientInv
<1>3. /\ DOMAIN rows = 1..Len(rows) /\ Len(rows) \in Nat
      /\ DOMAIN rows' = 1..(Len(rows) + 1)
      /\ \A j \in DOMAIN rows : rows'[j] = rows[j]
      /\ rows'[Len(rows) + 1] = row
  BY <1>1, <1>2, AppendProperties
<1>4. \A j \in DOMAIN rows : rows[j].k \in DOMAIN meant
  BY <1>2 DEF FitRows
<1>5. \A k \in DOMAIN meant : k < row.k
  BY <1>1, <1>2
<1>6. \A j \in DOMAIN rows' : j \in DOMAIN rows \/ j = Len(rows) + 1
  BY <1>3
<1>7. Precedes(before, rows')
  BY <1>3, <1>5, <1>6 DEF Precedes
<1>8. Ascending(rows')
  <2>1. ASSUME NEW i \in DOMAIN rows', NEW j \in DOMAIN rows', IsRow(rows'[i]), IsRow(rows'[j]), i < j
        PROVE  rows'[i].k < rows'[j].k
    <3>1. i \in DOMAIN rows
      BY <1>3, <2>1
    <3>2. CASE j \in DOMAIN rows
      BY <1>3, <2>1, <3>1, <3>2 DEF Ascending
    <3>3. CASE j = Len(rows) + 1
      BY <1>3, <1>4, <1>5, <3>1, <3>3
    <3> QED
      BY <1>6, <3>2, <3>3
  <2> QED
    BY <2>1 DEF Ascending
<1> QED
  BY <1>7, <1>8

-----------------------------------------------------------------------------
(* Order: the steps.                                                       *)

\* What the file is made of.
LEMMA FileRecords ==
    ASSUME ClientInv
    PROVE  /\ \A i \in DOMAIN file : /\ IsRow(file[i]) => file[i] \in FitRows
                                     /\ file[i].tag = "name" => file[i] \in NameDefs
                                     /\ file[i].tag = "attrs" => file[i] \in AttrDefs
           /\ rows \in Seq(FitRows) /\ \A i \in DOMAIN rows : IsRow(rows[i])
<1> DEFINE S == NameDefs \cup AttrDefs \cup FitRows
<1>1. file \in Seq(S) /\ rows \in Seq(FitRows)
  BY DEF ClientInv
<1> HIDE DEF S
<1>2. \A i \in DOMAIN file : file[i] \in S
  BY <1>1
<1>3. \A r \in S : /\ IsRow(r) => r \in FitRows
                   /\ r.tag = "name" => r \in NameDefs
                   /\ r.tag = "attrs" => r \in AttrDefs
  BY DEF S, FitRows, NameDefs, AttrDefs, IsRow
<1>4. \A i \in DOMAIN rows : IsRow(rows[i])
  BY <1>1 DEF FitRows, IsRow
<1> QED
  BY <1>1, <1>2, <1>3, <1>4

\* Interning a name writes at most its definition.
LEMMA InternNameOrder ==
    ASSUME ClientInv, OrderInv, NEW t \in Senders, InternName(t)
    PROVE  OrderInv'
<1> DEFINE r == NameRec(Len(names'), cur[1])
           S == NameDefs \cup AttrDefs \cup FitRows \cup {r}
<1>1. rows' = rows /\ (file' = file \/ WriteLog(<<r>>) \/ WriteFails(<<r>>, 0))
  BY DEF InternName
<1>2. file \in Seq(S) /\ r \in S /\ ~IsRow(r)
  <2>1. file \in Seq(NameDefs \cup AttrDefs \cup FitRows) /\ ~IsRow(r)
    BY DEF ClientInv, NameRec, IsRow
  <2> QED
    BY <2>1, SeqWider
<1> HIDE DEF r, S
<1>3. CASE file' = file
  BY <1>1, <1>3 DEF OrderInv, Ascending, Precedes
<1>4. CASE WriteLog(<<r>>) \/ WriteFails(<<r>>, 0)
  <2>1. \A i \in DOMAIN file' : IsRow(file'[i]) => i \in DOMAIN file /\ file'[i] = file[i]
    BY <1>2, <1>4, DefinitionKeepsRows
  <2> QED
    BY <1>1, <2>1, RowsInPlace DEF OrderInv
<1> QED
  BY <1>1, <1>3, <1>4

\* So does interning an attribute set, after which the measurement gets its row.
LEMMA InternAttrsOrder ==
    ASSUME TypeOK, ClientInv, OrderInv, NEW t \in Senders, InternAttrs(t)
    PROVE  OrderInv'
<1> DEFINE r == AttrRec(Len(attrs'), content[cur[2]])
           S == NameDefs \cup AttrDefs \cup FitRows \cup {r}
<1>1. /\ file' = file \/ WriteLog(<<r>>) \/ WriteFails(<<r>>, 0)
      /\ rows' = rows \/ \E aid : Buffer(t, aid)
  BY DEF InternAttrs
<1>2. file \in Seq(S) /\ r \in S /\ ~IsRow(r)
  <2>1. file \in Seq(NameDefs \cup AttrDefs \cup FitRows) /\ ~IsRow(r)
    BY DEF ClientInv, AttrRec, IsRow
  <2> QED
    BY <2>1, SeqWider
<1> HIDE DEF r, S
<1>3. \A i \in DOMAIN file' : IsRow(file'[i]) => i \in DOMAIN file /\ file'[i] = file[i]
  <2>1. CASE file' = file
    BY <2>1
  <2>2. CASE WriteLog(<<r>>) \/ WriteFails(<<r>>, 0)
    BY <1>2, <2>2, DefinitionKeepsRows
  <2> QED
    BY <1>1, <2>1, <2>2
<1>4. Ascending(file') /\ Precedes(file', rows)
  BY <1>3, RowsInPlace DEF OrderInv
<1>5. \A i \in DOMAIN file' : IsRow(file'[i]) => file'[i].k \in DOMAIN meant
  BY <1>3, FileRecords DEF FitRows
<1>6. Ascending(rows') /\ Precedes(file', rows')
  <2>1. CASE rows' = rows
    BY <1>4, <2>1 DEF OrderInv
  <2>2. ASSUME NEW aid, Buffer(t, aid)
        PROVE  Ascending(rows') /\ Precedes(file', rows')
    BY <1>4, <1>5, <2>2, NewRowAscends DEF OrderInv
  <2> QED
    BY <1>1, <2>1, <2>2
<1> QED
  BY <1>4, <1>6 DEF OrderInv

\* A flush moves the buffer behind the file.
LEMMA FlushOrder ==
    ASSUME ClientInv, OrderInv, NEW t \in Threads, Flush(t)
    PROVE  OrderInv'
<1> DEFINE S == NameDefs \cup AttrDefs \cup FitRows
<1>1. rows' = <<>> /\ (WriteLog(rows) \/ WriteFails(rows, Len(rows)))
  BY DEF Flush
<1>2. file \in Seq(S) /\ rows \in Seq(S)
  BY SeqWider DEF ClientInv
<1> HIDE DEF S
<1>3. Ascending(file')
  BY <1>1, <1>2, WriteAscends DEF OrderInv
<1> QED
  BY <1>1, <1>3 DEF OrderInv, Ascending, Precedes

\* Steps that write nothing leave the order as it is.
LEMMA OrderStep ==
    ASSUME TypeOK, ClientInv, OrderInv, [Next]_vars
    PROVE  OrderInv'
<1>1. ASSUME UNCHANGED <<rows, file>>
      PROVE  OrderInv'
  BY <1>1 DEF OrderInv, Ascending, Precedes
<1>2. ASSUME NEW t \in Senders, Sender(t)
      PROVE  OrderInv'
  <2>1. CASE InternName(t)
    BY <2>1, InternNameOrder
  <2>2. CASE InternAttrs(t)
    BY <2>2, InternAttrsOrder
  <2>3. CASE Flush(t)
    BY <2>3, FlushOrder DEF Threads
  <2>4. CASE (\E n \in Names, d \in Dicts : Send(t, n, d)) \/ Enter(t) \/ Exit(t)
    BY <1>1, <2>4 DEF Send, Enter, Exit
  <2> QED
    BY <1>2, <2>1, <2>2, <2>3, <2>4 DEF Sender
<1>3. CASE Flush("flusher") \/ Flush("closer")
  BY <1>3, FlushOrder DEF Threads
<1>4. CASE Wake \/ CheckDelay \/ CloseBegin \/ CloseFlush \/ CloseLog \/ CloseClear
  BY <1>1, <1>4 DEF Wake, CheckDelay, CloseBegin, CloseFlush, CloseLog, CloseClear
<1>5. CASE (\E d \in Dicts, c \in Contents : Mutate(d, c)) \/ Tick \/ UNCHANGED vars
  BY <1>1, <1>5 DEF Mutate, Tick, vars
<1> QED
  BY <1>2, <1>3, <1>4, <1>5 DEF Next, Flusher, Closer

\* Measurements reach the file in the order they were accepted and none twice,
\* whichever calls raise, whoever races with close(), however often it is reopened.
THEOREM InOrderOnceAlways == Spec => []InOrderOnce
<1>1. Init => OrderInv
  BY DEF Init, OrderInv, Ascending, Precedes
<1>2. TypeOK /\ ClientInv /\ OrderInv /\ [Next]_vars => OrderInv'
  BY OrderStep
<1>3. OrderInv => InOrderOnce
  BY DEF OrderInv, Ascending, InOrderOnce, RowsAt, IsRow
<1> QED
  BY <1>1, <1>2, <1>3, TypeCorrect, PTL DEF Spec

-----------------------------------------------------------------------------
(* The batch bound.                                                        *)

\* A locked block leaves a full buffer only inside transactions.
LEMMA FlushIfBatch ==
    ASSUME pc \in [Threads -> PCs], NEW t \in Threads, NEW cond, NEW next, FlushIf(t, cond, next),
           rows' = rows, next # "flush", (~cond /\ depth' = 0) => Len(rows) < Batch
    PROVE  BatchInv'
<1>1. CASE pc' = [pc EXCEPT ![t] = "flush"]
  <2>1. pc'[t] = "flush"
    BY <1>1
  <2> QED
    BY <2>1 DEF BatchInv
<1>2. CASE ~cond
  BY <1>2 DEF BatchInv
<1> QED
  BY <1>1, <1>2 DEF FlushIf

\* So does the end of send_measurement.
LEMMA BufferBatch ==
    ASSUME ClientConstants, TypeOK, NEW t \in Senders, NEW aid, Buffer(t, aid), depth' = depth
    PROVE  BatchInv'
<1>1. CASE pc' = [pc EXCEPT ![t] = "flush"]
  <2>1. t \in Threads /\ pc'[t] = "flush"
    BY <1>1 DEF TypeOK, Threads
  <2> QED
    BY <2>1 DEF BatchInv
<1>2. CASE ~(depth = 0 /\ (Len(rows') >= Batch \/ due))
  <2>1. rows' = Append(rows, Row(Len(meant) + 1, IdOf(names, cur[1]), aid))
    BY DEF Buffer
  <2>2. Len(rows') \in Nat /\ Batch \in Nat
    <3>1. rows \in Seq([tag : {"row"}, k : Nat, name : Nat, attrs : Nat]) /\ Batch \in Nat
      BY DEF TypeOK, ClientConstants
    <3>2. Len(rows') = Len(rows) + 1 /\ Len(rows) \in Nat
      BY <2>1, <3>1, AppendProperties
    <3> QED
      BY <3>1, <3>2
  <2>3. depth' = 0 => Len(rows') < Batch
    BY <1>2, <2>2
  <2> QED
    BY <2>3 DEF BatchInv
<1> QED
  BY <1>1, <1>2 DEF Buffer

\* A step of thread t, at or to neither of which it flushes, on the same buffer and depth.
LEMMA QuietBatch ==
    ASSUME pc \in [Threads -> PCs], BatchInv, NEW t \in Threads, NEW x,
           pc' = [pc EXCEPT ![t] = x], pc[t] # "flush",
           rows' = rows, depth' = depth
    PROVE  BatchInv'
<1>1. \A u \in Threads : pc'[u] = IF u = t THEN x ELSE pc[u]
  OBVIOUS
<1>2. (\A u \in Threads : pc'[u] # "flush") => \A u \in Threads : pc[u] # "flush"
  BY <1>1
<1> QED
  BY <1>2 DEF BatchInv

\* Every step leaves a full buffer only inside transactions or about to be flushed.
LEMMA BatchStep ==
    ASSUME ClientConstants, TypeOK, ClientInv, BatchInv, [Next]_vars
    PROVE  BatchInv'
<1>1. pc \in [Threads -> PCs] /\ depth \in Nat /\ Batch \in Nat \ {0}
      /\ "flusher" \in Threads /\ "closer" \in Threads
  BY DEF TypeOK, ClientConstants, Threads
<1>2. ASSUME NEW t \in Threads, Flush(t)
      PROVE  BatchInv'
  <2>1. rows' = <<>> /\ Len(rows') = 0
    BY <1>2 DEF Flush
  <2> QED
    BY <1>1, <2>1 DEF BatchInv
<1>3. (lock = "nobody" /\ depth = 0) => Len(rows) < Batch
  <2>1. "nobody" \notin Threads /\ "flush" \in Locked
    BY DEF ClientConstants, Threads, Locked
  <2> QED
    BY <2>1 DEF ClientInv, LockHeld, Holds, BatchInv
<1>4. ASSUME NEW t \in Senders, Sender(t)
      PROVE  BatchInv'
  <2>1. t \in Threads
    BY DEF Threads
  <2>2. ASSUME NEW n \in Names, NEW d \in Dicts, Send(t, n, d)
        PROVE  BatchInv'
    BY <1>1, <2>1, <2>2, QuietBatch DEF Send, tx
  <2>3. CASE InternName(t)
    <3>1. /\ rows' = rows /\ depth' = depth /\ pc[t] = "name"
          /\ \E x : pc' = [pc EXCEPT ![t] = x]
      BY <2>3 DEF InternName, tx
    <3> QED
      BY <1>1, <2>1, <3>1, QuietBatch
  <2>4. CASE InternAttrs(t)
    <3>1. /\ depth' = depth /\ pc[t] = "attrs"
          /\ \/ \E aid : Buffer(t, aid)
             \/ pc' = [pc EXCEPT ![t] = "idle"] /\ rows' = rows
      BY <2>4 DEF InternAttrs, tx
    <3> QED
      BY <1>1, <2>1, <3>1, BufferBatch, QuietBatch
  <2>5. CASE Enter(t)
    <3>1. depth' = depth + 1
      BY <2>5 DEF Enter
    <3>2. depth' # 0
      BY <1>1, <3>1
    <3> QED
      BY <3>2 DEF BatchInv
  <2>6. CASE Exit(t)
    <3>1. /\ rows' = rows /\ FlushIf(t, depth' = 0 /\ rows # <<>>, "idle")
      BY <2>6 DEF Exit
    <3>2. (~(depth' = 0 /\ rows # <<>>) /\ depth' = 0) => Len(rows) < Batch
      <4>1. Len(<<>>) = 0 /\ 0 < Batch
        BY <1>1
      <4> QED
        BY <4>1
    <3> QED
      BY <1>1, <2>1, <3>1, <3>2, FlushIfBatch
  <2> QED
    BY <1>2, <1>4, <2>1, <2>2, <2>3, <2>4, <2>5, <2>6 DEF Sender
<1>5. CASE Wake \/ CloseBegin \/ CloseLog \/ CloseClear
  <2>1. /\ rows' = rows /\ depth' = depth
        /\ \E t \in {"flusher", "closer"} : \E x : pc[t] # "flush" /\ pc' = [pc EXCEPT ![t] = x]
    BY <1>5 DEF Wake, CloseBegin, CloseLog, CloseClear, tx
  <2> QED
    BY <1>1, <2>1, QuietBatch
<1>6. CASE CheckDelay \/ CloseFlush
  <2>1. /\ rows' = rows /\ depth' = depth /\ lock = "nobody"
        /\ \E t \in {"flusher", "closer"} : \E cond, next : FlushIf(t, cond, next) /\ next # "flush"
    BY <1>6 DEF CheckDelay, CloseFlush, FlushIf, tx
  <2> QED
    BY <1>1, <1>3, <2>1, FlushIfBatch
<1>7. CASE (\E d \in Dicts, c \in Contents : Mutate(d, c)) \/ Tick \/ UNCHANGED vars
  BY <1>7 DEF Mutate, Tick, vars, tx, BatchInv
<1> QED
  BY <1>1, <1>2, <1>4, <1>5, <1>6, <1>7 DEF Next, Flusher, Closer

\* Outside transactions, whenever the lock is free, the buffer is below the batch
\* size: no order of transactions, sends and failed flushes lets it pile up.
THEOREM BatchBoundAlways == Spec => []BatchBound
<1>1. Init => BatchInv
  <2>1. Len(<<>>) = 0
    OBVIOUS
  <2> QED
    BY <2>1, ClientConstants DEF Init, BatchInv, ClientConstants
<1>2. TypeOK /\ ClientInv /\ BatchInv /\ [Next]_vars => BatchInv'
  BY BatchStep, ClientConstants
<1>3. TypeOK /\ ClientInv /\ BatchInv => BatchBound
  <2>1. "nobody" \notin Threads /\ "flush" \in Locked
    BY ClientConstants DEF ClientConstants, Threads, Locked
  <2> QED
    BY <2>1 DEF ClientInv, LockHeld, Holds, BatchInv, BatchBound
<1> QED
  BY <1>1, <1>2, <1>3, TypeCorrect, PTL DEF Spec

-----------------------------------------------------------------------------
(* close() and the senders where nothing fails or races: the control.       *)

\* No call raises, so a write happens as a whole.
LEMMA NoCallRaises ==
    ASSUME TypeOK, Reliable
    PROVE  ~(fails < MaxFails) /\ \A recs, most : ~WriteFails(recs, most)
<1>1. ~(fails < MaxFails)
  BY DEF TypeOK, Reliable
<1> QED
  BY <1>1 DEF WriteFails

\* The threads that the constants' assumption tells apart.
LEMMA ThreadsApart ==
    ASSUME ClientConstants
    PROVE  /\ "closer" \in Threads \ Senders /\ "flusher" \in Threads \ Senders
           /\ \A t \in Senders : t \in Threads /\ t # "closer" /\ t # "flusher"
BY DEF ClientConstants, Threads

\* A step of another thread than the closer's that touches neither log nor buffer.
LEMMA ElsewherePhase ==
    ASSUME ClientConstants, pc \in [Threads -> PCs], ClosePhase,
           NEW t \in Threads, t # "closer", NEW x, pc' = [pc EXCEPT ![t] = x],
           x = "flush" => rows # <<>>,
           (x \in {"name", "attrs"} /\ t \in Senders) => ~stop,
           UNCHANGED <<stop, log, rows, names, attrs, meant>>
    PROVE  ClosePhase'
<1>1. \A u \in Threads : pc'[u] = IF u = t THEN x ELSE pc[u]
  OBVIOUS
<1>2. pc'["closer"] = pc["closer"] /\ \A u \in Senders : u \in Threads
  BY <1>1, ThreadsApart
<1> QED
  BY <1>1, <1>2 DEF ClosePhase

\* A sender in a lookup finds the log open or not yet opened; in the second lookup
\* it is open.
LEMMA LookupPhase ==
    ASSUME ClientConstants, TypeOK, ClientInv, ClosePhase, NEW t \in Senders,
           pc[t] \in {"name", "attrs"}
    PROVE  /\ pc["closer"] = "idle" /\ ~stop
           /\ log = "none" \/ log = "open"
           /\ pc[t] = "attrs" => log = "open"
           /\ log = "none" => names = <<>> /\ attrs = <<>> /\ rows = <<>> /\ meant = <<>>
<1>1. t \in Threads /\ log \in {"none", "open", "closed"}
  BY ThreadsApart DEF TypeOK
<1>2. pc["closer"] = "idle" /\ ~stop
  BY DEF ClosePhase
<1>3. log # "closed" /\ (log = "none" => names = <<>> /\ attrs = <<>> /\ rows = <<>> /\ meant = <<>>)
  BY <1>2 DEF ClosePhase
<1>4. pc[t] = "attrs" => names # <<>>
  BY <1>1 DEF ClientInv, LookedUp, Interned, Ids
<1> QED
  BY <1>1, <1>2, <1>3, <1>4

\* A thread that flushes finds the log open.
LEMMA FlushPhase ==
    ASSUME ClientConstants, TypeOK, ClosePhase, NEW t \in Threads, pc[t] = "flush"
    PROVE  rows # <<>> /\ log = "open"
<1>1. log \in {"none", "open", "closed"} /\ rows # <<>>
  BY DEF TypeOK, ClosePhase
<1>2. pc["closer"] \notin {"close_clear", "done"}
  BY <1>1 DEF ClosePhase
<1> QED
  BY <1>1, <1>2 DEF ClosePhase

\* Interning a name opens the log at the latest.
LEMMA InternNamePhase ==
    ASSUME ClientConstants, TypeOK, ClientInv, ClosePhase, Reliable, NEW t \in Senders,
           InternName(t)
    PROVE  ClosePhase'
<1>1. /\ pc \in [Threads -> PCs] /\ t \in Threads /\ t # "closer" /\ pc[t] = "name"
      /\ UNCHANGED <<stop, rows, attrs, meant>>
  BY ThreadsApart DEF InternName, TypeOK
<1>2. /\ pc["closer"] = "idle" /\ ~stop /\ log # "closed"
  BY <1>1, LookupPhase
<1>3. pc' = [pc EXCEPT ![t] = "attrs"] /\ (UNCHANGED <<names, log>> \/ \E recs : WriteLog(recs))
  BY NoCallRaises DEF InternName
<1>4. CASE UNCHANGED <<names, log>>
  BY <1>1, <1>2, <1>3, <1>4, ElsewherePhase
<1>5. CASE \E recs : WriteLog(recs)
  <2>1. log' = "open"
    BY <1>2, <1>5 DEF WriteLog
  <2>2. \A u \in Threads : pc'[u] = IF u = t THEN "attrs" ELSE pc[u]
    BY <1>1, <1>3
  <2>3. pc'["closer"] = "idle" /\ ~stop'
    BY <1>1, <1>2, <2>2, ThreadsApart
  <2>4. \A u \in Threads : pc'[u] = "flush" => rows' # <<>>
    BY <1>1, <2>2 DEF ClosePhase
  <2> QED
    BY <2>1, <2>3, <2>4 DEF ClosePhase
<1> QED
  BY <1>3, <1>4, <1>5

\* The second lookup ends with the row in the buffer, where a flush may follow.
LEMMA InternAttrsPhase ==
    ASSUME ClientConstants, TypeOK, ClientInv, ClosePhase, Reliable, NEW t \in Senders,
           InternAttrs(t)
    PROVE  ClosePhase' /\ log = "open" /\ log' = "open"
<1>1. /\ pc \in [Threads -> PCs] /\ t \in Threads /\ t # "closer" /\ pc[t] = "attrs"
      /\ UNCHANGED stop
  BY ThreadsApart DEF InternAttrs, TypeOK
<1>2. pc["closer"] = "idle" /\ ~stop /\ log = "open"
  BY <1>1, LookupPhase
<1>3. (\E aid : Buffer(t, aid)) /\ (log' = log \/ \E recs : WriteLog(recs))
  BY NoCallRaises DEF InternAttrs
<1>4. log' = "open"
  BY <1>2, <1>3 DEF WriteLog
<1>5. rows' # <<>>
  <2>1. \E r : rows' = Append(rows, r)
    BY <1>3 DEF Buffer
  <2>2. rows \in Seq([tag : {"row"}, k : Nat, name : Nat, attrs : Nat])
    BY DEF TypeOK
  <2>3. Len(rows') = Len(rows) + 1 /\ Len(rows) \in Nat
    BY <2>1, <2>2, AppendProperties
  <2> QED
    BY <2>3
<1>6. PICK x : pc' = [pc EXCEPT ![t] = x]
  BY <1>3 DEF Buffer
<1>7. pc'["closer"] = "idle" /\ ~stop'
  BY <1>1, <1>2, <1>6, ThreadsApart
<1> QED
  BY <1>2, <1>4, <1>5, <1>7 DEF ClosePhase

\* A flush leaves the buffer empty and the log open; close() goes on to its log.
LEMMA FlushKeepsPhase ==
    ASSUME ClientConstants, TypeOK, ClientInv, ClosePhase, Reliable, NEW t \in Threads, Flush(t)
    PROVE  ClosePhase'
<1>1. /\ pc \in [Threads -> PCs] /\ pc[t] = "flush" /\ rows' = <<>>
      /\ pc' = [pc EXCEPT ![t] = AfterFlush(t)] /\ WriteLog(rows)
      /\ UNCHANGED <<stop, names, attrs, meant>>
  BY NoCallRaises DEF Flush, TypeOK, tables
<1>2. log = "open" /\ log' = "open" /\ rows # <<>>
  <2>1. log = "open" /\ rows # <<>>
    BY <1>1, FlushPhase
  <2> QED
    BY <1>1, <2>1 DEF WriteLog
<1>3. \A u \in Threads : pc'[u] = IF u = t THEN AfterFlush(t) ELSE pc[u]
  BY <1>1
<1>4. \A u \in Threads : pc'[u] # "flush"
  <2>1. \A u \in Threads : u # t => pc[u] # "flush"
    BY <1>1, OnlyHolder DEF Locked
  <2> QED
    BY <1>3, <2>1 DEF AfterFlush
<1>5. \A u \in Senders : pc'[u] \in {"name", "attrs"} => pc[u] \in {"name", "attrs"}
  BY <1>3, ThreadsApart DEF AfterFlush
<1>6. pc["closer"] \notin {"close_log", "close_clear", "done"}
  BY <1>2 DEF ClosePhase
<1>7. CASE t = "closer"
  <2>1. pc["closer"] = "flush" /\ pc'["closer"] = "close_log" /\ stop
    BY <1>1, <1>3, <1>7, ThreadsApart DEF ClosePhase, AfterFlush
  <2> QED
    BY <1>1, <1>2, <1>4, <1>5, <2>1 DEF ClosePhase
<1>8. CASE t # "closer"
  <2>1. pc'["closer"] = pc["closer"]
    BY <1>3, <1>8, ThreadsApart
  <2> QED
    BY <1>1, <1>2, <1>4, <1>5, <1>6, <2>1 DEF ClosePhase
<1> QED
  BY <1>7, <1>8

\* The steps of close() itself.
LEMMA CloserPhase ==
    ASSUME ClientConstants, TypeOK, ClosePhase, Reliable,
           CloseBegin \/ CloseFlush \/ CloseLog \/ CloseClear
    PROVE  ClosePhase'
<1>1. /\ pc \in [Threads -> PCs] /\ log \in {"none", "open", "closed"}
      /\ UNCHANGED <<rows, names, attrs, meant>>
  BY DEF TypeOK, CloseBegin, CloseFlush, CloseLog, CloseClear, tables
<1>2. ASSUME NEW x, pc' = [pc EXCEPT !["closer"] = x]
      PROVE  /\ pc'["closer"] = x
             /\ \A u \in Threads : u # "closer" => pc'[u] = pc[u]
             /\ \A u \in Senders : pc'[u] = pc[u] /\ u \in Threads
  BY <1>1, <1>2, ThreadsApart
<1>3. CASE CloseBegin
  <2>1. /\ pc["closer"] = "idle" /\ log # "closed" /\ stop' = TRUE /\ log' = log
        /\ \A u \in Senders : pc[u] = "idle"
        /\ pc' = [pc EXCEPT !["closer"] = IF log = "none" THEN "done" ELSE "close_flush"]
    BY <1>3 DEF CloseBegin, ClosePhase, Reliable
  <2>2. CASE log = "none"
    BY <1>1, <1>2, <2>1, <2>2 DEF ClosePhase
  <2>3. CASE log = "open"
    BY <1>1, <1>2, <2>1, <2>3 DEF ClosePhase
  <2> QED
    BY <1>1, <2>1, <2>2, <2>3
<1>4. CASE CloseFlush
  <2>1. pc["closer"] = "close_flush" /\ UNCHANGED <<stop, log>> /\ stop /\ log = "open"
    BY <1>4 DEF CloseFlush, ClosePhase
  <2>2. CASE rows # <<>> /\ pc' = [pc EXCEPT !["closer"] = "flush"]
    BY <1>1, <1>2, <2>1, <2>2 DEF ClosePhase
  <2>3. CASE rows = <<>> /\ pc' = [pc EXCEPT !["closer"] = "close_log"]
    BY <1>1, <1>2, <2>1, <2>3 DEF ClosePhase
  <2> QED
    BY <1>4, <2>2, <2>3 DEF CloseFlush, FlushIf
<1>5. CASE CloseLog
  <2>1. /\ pc["closer"] = "close_log" /\ UNCHANGED stop /\ stop /\ rows = <<>>
        /\ log' = "closed" /\ pc' = [pc EXCEPT !["closer"] = "close_clear"]
    BY <1>5, NoCallRaises DEF CloseLog, ClosePhase
  <2> QED
    BY <1>1, <1>2, <2>1 DEF ClosePhase
<1>6. CASE CloseClear
  <2>1. /\ pc["closer"] = "close_clear" /\ UNCHANGED stop /\ stop /\ rows = <<>>
        /\ log' = "none" /\ pc' = [pc EXCEPT !["closer"] = "done"]
    BY <1>6 DEF CloseClear, ClosePhase
  <2> QED
    BY <1>1, <1>2, <2>1 DEF ClosePhase
<1> QED
  BY <1>3, <1>4, <1>5, <1>6

\* Every step keeps the phases of close(), of the log and of the buffer together.
LEMMA PhaseStep ==
    ASSUME ClientConstants, TypeOK, ClientInv, ClosePhase, Reliable, [Next]_vars
    PROVE  ClosePhase'
<1>1. pc \in [Threads -> PCs] /\ "flusher" \in Threads
  BY ThreadsApart DEF TypeOK
<1>2. ASSUME NEW t \in Threads, t # "closer", NEW cond, NEW next, FlushIf(t, cond, next),
             cond => rows # <<>>, next \notin {"name", "attrs", "flush"},
             UNCHANGED <<stop, log, rows, names, attrs, meant>>
      PROVE  ClosePhase'
  <2>1. CASE cond /\ pc' = [pc EXCEPT ![t] = "flush"]
    BY <1>1, <1>2, <2>1, ElsewherePhase
  <2>2. CASE pc' = [pc EXCEPT ![t] = next]
    BY <1>1, <1>2, <2>2, ElsewherePhase
  <2> QED
    BY <1>2, <2>1, <2>2 DEF FlushIf
<1>3. ASSUME NEW t \in Senders, Sender(t)
      PROVE  ClosePhase'
  <2>1. t \in Threads /\ t # "closer"
    BY ThreadsApart
  <2>2. ASSUME NEW n \in Names, NEW d \in Dicts, Send(t, n, d)
        PROVE  ClosePhase'
    <3>1. pc' = [pc EXCEPT ![t] = "name"] /\ ~stop
          /\ UNCHANGED <<stop, log, rows, names, attrs, meant>>
      BY <2>2 DEF Send, tables, Reliable
    <3> QED
      BY <1>1, <2>1, <3>1, ElsewherePhase
  <2>3. CASE Enter(t)
    BY <2>3 DEF Enter, tables, ClosePhase
  <2>4. CASE Exit(t)
    <3>1. FlushIf(t, depth' = 0 /\ rows # <<>>, "idle")
          /\ UNCHANGED <<stop, log, rows, names, attrs, meant>>
      BY <2>4 DEF Exit, tables
    <3> QED
      BY <1>2, <2>1, <3>1
  <2> QED
    BY <1>3, <2>1, <2>2, <2>3, <2>4, InternNamePhase, InternAttrsPhase, FlushKeepsPhase DEF Sender
<1>4. CASE Wake
  <2>1. /\ UNCHANGED <<stop, log, rows, names, attrs, meant>>
        /\ \E x \in {"done", "wake"} : pc' = [pc EXCEPT !["flusher"] = x]
    BY <1>4 DEF Wake, tables
  <2> QED
    BY <1>1, <2>1, ElsewherePhase
<1>5. CASE CheckDelay
  <2>1. FlushIf("flusher", rows # <<>> /\ due, "wait")
        /\ UNCHANGED <<stop, log, rows, names, attrs, meant>>
    BY <1>5 DEF CheckDelay, tables
  <2> QED
    BY <1>1, <1>2, <2>1
<1>6. CASE Flush("flusher") \/ Flush("closer")
  BY <1>6, FlushKeepsPhase, ThreadsApart
<1>7. CASE (\E d \in Dicts, c \in Contents : Mutate(d, c)) \/ Tick \/ UNCHANGED vars
  <2>1. UNCHANGED <<pc, stop, log, rows, names, attrs, meant>>
    BY <1>7 DEF Mutate, Tick, vars, tables
  <2> QED
    BY <2>1 DEF ClosePhase
<1> QED
  BY <1>3, <1>4, <1>5, <1>6, <1>7, CloserPhase DEF Next, Flusher, Closer

-----------------------------------------------------------------------------
(* What the file and the buffer hold where nothing fails or races.           *)

\* Appending to the file leaves its records in place and adds the new ones.
LEMMA FileExtends ==
    ASSUME NEW S, file \in Seq(S), NEW recs \in Seq(S), file' = file \o recs
    PROVE  /\ \A i \in DOMAIN file : i \in DOMAIN file' /\ file'[i] = file[i]
           /\ \A j \in DOMAIN recs : /\ Len(file) + j \in DOMAIN file'
                                     /\ file'[Len(file) + j] = recs[j]
           /\ \A i \in DOMAIN file' :
                 \/ i \in DOMAIN file
                 \/ \E j \in DOMAIN recs : i = Len(file) + j
           /\ DOMAIN file = 1..Len(file) /\ Len(file) \in Nat
           /\ DOMAIN recs = 1..Len(recs) /\ Len(recs) \in Nat
<1>1. /\ Len(file) \in Nat /\ Len(recs) \in Nat
      /\ DOMAIN file = 1..Len(file) /\ DOMAIN recs = 1..Len(recs)
  BY LenProperties
<1>2. /\ DOMAIN file' = 1..(Len(file) + Len(recs))
      /\ \A i \in DOMAIN file' : file'[i] = IF i <= Len(file) THEN file[i]
                                            ELSE recs[i - Len(file)]
  BY <1>1, ConcatProperties
<1>3. \A i \in DOMAIN file : i \in DOMAIN file' /\ file'[i] = file[i]
  BY <1>1, <1>2
<1>4. ASSUME NEW j \in DOMAIN recs
      PROVE  Len(file) + j \in DOMAIN file' /\ file'[Len(file) + j] = recs[j]
  <2>1. Len(file) + j \in DOMAIN file' /\ ~(Len(file) + j <= Len(file))
        /\ (Len(file) + j) - Len(file) = j
    BY <1>1, <1>2
  <2> QED
    BY <1>2, <2>1
<1>5. ASSUME NEW i \in DOMAIN file', i \notin DOMAIN file
      PROVE  \E j \in DOMAIN recs : i = Len(file) + j
  <2>1. i - Len(file) \in DOMAIN recs /\ i = Len(file) + (i - Len(file))
    BY <1>1, <1>2, <1>5
  <2> QED
    BY <2>1
<1> QED
  BY <1>1, <1>3, <1>4, <1>5

\* Records appended to a file whose rows decode: what was defined stays defined,
\* and every row decodes if the new ones find their definitions in the old file.
LEMMA ExtendedDecodes ==
    ASSUME NEW S, file \in Seq(S), NEW recs \in Seq(S), file' = file \o recs,
           EveryRowDecodes,
           \A j \in DOMAIN recs : IsRow(recs[j]) =>
               Defined(file, "name", recs[j].name) /\ Defined(file, "attrs", recs[j].attrs)
    PROVE  /\ EveryRowDecodes'
           /\ \A tag, id : Defined(file, tag, id) => Defined(file', tag, id)
           /\ \A k : InFile(k) => InFile(k)'
<1>1. /\ \A i \in DOMAIN file : i \in DOMAIN file' /\ file'[i] = file[i]
      /\ \A j \in DOMAIN recs : Len(file) + j \in DOMAIN file' /\ file'[Len(file) + j] = recs[j]
      /\ \A i \in DOMAIN file' : i \in DOMAIN file \/ \E j \in DOMAIN recs : i = Len(file) + j
      /\ DOMAIN file = 1..Len(file) /\ Len(file) \in Nat
      /\ DOMAIN recs = 1..Len(recs) /\ Len(recs) \in Nat
  BY FileExtends
<1>2. \A tag, id : Defined(file, tag, id) => Defined(file', tag, id)
  BY <1>1 DEF Defined
<1>3. \A k : InFile(k) => InFile(k)'
  BY <1>1 DEF InFile, RowsAt
<1>4. ASSUME NEW i \in DOMAIN file', IsRow(file'[i])
      PROVE  /\ \E j \in 1..i - 1 : file'[j].tag = "name" /\ file'[j].id = file'[i].name
             /\ \E j \in 1..i - 1 : file'[j].tag = "attrs" /\ file'[j].id = file'[i].attrs
  <2>1. CASE i \in DOMAIN file
    <3>1. i \in RowsAt /\ file'[i] = file[i]
      BY <1>1, <1>4, <2>1 DEF RowsAt, IsRow
    <3>2. /\ \E j \in 1..i - 1 : file[j].tag = "name" /\ file[j].id = file[i].name
          /\ \E j \in 1..i - 1 : file[j].tag = "attrs" /\ file[j].id = file[i].attrs
      BY <3>1 DEF EveryRowDecodes, DefsBefore
    <3>3. \A j \in 1..i - 1 : j \in DOMAIN file
      BY <1>1, <2>1
    <3> QED
      BY <1>1, <3>1, <3>2, <3>3
  <2>2. ASSUME NEW n \in DOMAIN recs, i = Len(file) + n
        PROVE  /\ \E j \in 1..i - 1 : file'[j].tag = "name" /\ file'[j].id = file'[i].name
               /\ \E j \in 1..i - 1 : file'[j].tag = "attrs" /\ file'[j].id = file'[i].attrs
    <3>1. Defined(file, "name", file'[i].name) /\ Defined(file, "attrs", file'[i].attrs)
      BY <1>1, <1>4, <2>2
    <3>2. \A j \in DOMAIN file : j \in 1..i - 1 /\ file'[j] = file[j]
      BY <1>1, <2>2
    <3> QED
      BY <3>1, <3>2 DEF Defined
  <2> QED
    BY <1>1, <2>1, <2>2
<1>5. EveryRowDecodes'
  <2>1. ASSUME NEW i \in RowsAt'
        PROVE  /\ {j \in 1..i - 1 : file'[j].tag = "name" /\ file'[j].id = file'[i].name} # {}
               /\ {j \in 1..i - 1 : file'[j].tag = "attrs" /\ file'[j].id = file'[i].attrs} # {}
    <3>1. i \in DOMAIN file' /\ IsRow(file'[i])
      BY <2>1 DEF RowsAt, IsRow
    <3>2. PICK j \in 1..i - 1 : file'[j].tag = "name" /\ file'[j].id = file'[i].name
      BY <1>4, <3>1
    <3>3. PICK l \in 1..i - 1 : file'[l].tag = "attrs" /\ file'[l].id = file'[i].attrs
      BY <1>4, <3>1
    <3> QED
      BY <3>2, <3>3
  <2> QED
    BY <2>1 DEF EveryRowDecodes, DefsBefore
<1> QED
  BY <1>2, <1>3, <1>5

\* Interning a name writes its definition.
LEMMA InternNameRecorded ==
    ASSUME ClientConstants, TypeOK, ClientInv, ClosePhase, Reliable, Recorded, NEW t \in Senders,
           InternName(t)
    PROVE  Recorded'
<1> DEFINE n == cur[1]
           r == NameRec(Len(names'), n)
           S == NameDefs \cup AttrDefs \cup FitRows \cup {r}
<1>1. /\ pc[t] = "name" /\ UNCHANGED <<rows, attrs, meant>>
      /\ \/ UNCHANGED <<names, file>>
         \/ names' = Append(names, n) /\ WriteLog(<<r>>)
  BY NoCallRaises DEF InternName
<1>2. n \in Names /\ t \in Threads
  BY <1>1, ThreadsApart DEF ClientInv, LookedUp
<1>3. CASE UNCHANGED <<names, file>>
  BY <1>1, <1>3 DEF Recorded, TablesInFile, Defined, EveryRowDecodes, NothingLost, RowsAt,
     DefsBefore, InFile, InBuffer
<1>4. CASE names' = Append(names, n) /\ WriteLog(<<r>>)
  <2>1. /\ r.tag = "name" /\ r.id = Len(names')
        /\ names \in Seq(Names) /\ Len(names) \in Nat /\ Len(names') = Len(names) + 1
        /\ DOMAIN names = 1..Len(names) /\ DOMAIN names' = 1..Len(names')
    <3>1. names \in Seq(Names)
      BY DEF TypeOK
    <3> HIDE DEF n
    <3>2. Len(names') = Len(names) + 1 /\ names' \in Seq(Names)
      BY <1>2, <1>4, <3>1, AppendProperties
    <3> QED
      BY <3>1, <3>2, LenProperties DEF NameRec
  <2>2. file \in Seq(S) /\ <<r>> \in Seq(S) /\ DOMAIN <<r>> = {1} /\ <<r>>[1] = r /\ ~IsRow(r)
    <3>1. file \in Seq(NameDefs \cup AttrDefs \cup FitRows) /\ r \in S /\ ~IsRow(r)
      BY <2>1 DEF ClientInv, IsRow
    <3> HIDE DEF r
    <3> QED
      BY <3>1, SeqWider
  <2>3. \A id \in DOMAIN names' : id \in DOMAIN names \/ id = Len(names')
    BY <2>1
  <2> HIDE DEF r, S
  <2>4. CASE log = "open" /\ file' = file \o <<r>>
    <3>1. /\ EveryRowDecodes'
          /\ \A tag, id : Defined(file, tag, id) => Defined(file', tag, id)
          /\ \A k : InFile(k) => InFile(k)'
      BY <2>2, <2>4, ExtendedDecodes DEF Recorded
    <3>2. Defined(file', "name", Len(names'))
      <4>1. Len(file) + 1 \in DOMAIN file' /\ file'[Len(file) + 1] = r
        BY <2>2, <2>4, FileExtends
      <4> QED
        BY <2>1, <4>1 DEF Defined
    <3>3. TablesInFile'
      BY <1>1, <2>3, <3>1, <3>2 DEF Recorded, TablesInFile
    <3>4. NothingLost'
      BY <1>1, <3>1 DEF Recorded, NothingLost, InBuffer
    <3> QED
      BY <3>1, <3>3, <3>4 DEF Recorded
  <2>5. CASE log = "none" /\ file' = <<r>>
    <3>1. names = <<>> /\ attrs' = <<>> /\ meant' = <<>>
      BY <1>1, <2>5, LookupPhase
    <3>2. DOMAIN names = {} /\ DOMAIN attrs' = {} /\ DOMAIN meant' = {}
      BY <3>1
    <3>3. TablesInFile'
      BY <2>1, <2>2, <2>3, <2>5, <3>2 DEF TablesInFile, Defined
    <3>4. EveryRowDecodes' /\ NothingLost'
      BY <2>2, <2>5, <3>2 DEF EveryRowDecodes, NothingLost, RowsAt, IsRow
    <3> QED
      BY <3>3, <3>4 DEF Recorded
  <2>6. log = "open" \/ log = "none"
    BY <1>1, LookupPhase
  <2> QED
    BY <1>4, <2>4, <2>5, <2>6 DEF WriteLog
<1> QED
  BY <1>1, <1>3, <1>4

\* The end of send_measurement puts the measurement it accepts into the buffer.
LEMMA BufferRecorded ==
    ASSUME TypeOK, NEW t, NEW aid, Buffer(t, aid),
           \A k \in DOMAIN meant : InFile(k) \/ InBuffer(k),
           \A k : InFile(k) => InFile(k)'
    PROVE  NothingLost'
<1> DEFINE row == Row(Len(meant) + 1, IdOf(names, cur[1]), aid)
<1>1. /\ rows' = Append(rows, row) /\ row.k = Len(meant) + 1
      /\ \E m : meant' = Append(meant, m)
  BY DEF Buffer, Row
<1> HIDE DEF row
<1>2. /\ rows \in Seq([tag : {"row"}, k : Nat, name : Nat, attrs : Nat])
      /\ meant \in Seq([name : Names, held : SUBSET Contents])
  BY DEF TypeOK
<1>3. /\ DOMAIN rows' = 1..(Len(rows) + 1) /\ Len(rows) \in Nat /\ DOMAIN rows = 1..Len(rows)
      /\ \A j \in DOMAIN rows : rows'[j] = rows[j]
      /\ rows'[Len(rows) + 1] = row
  BY <1>1, <1>2, AppendProperties
<1>4. DOMAIN meant' = 1..(Len(meant) + 1) /\ Len(meant) \in Nat /\ DOMAIN meant = 1..Len(meant)
  BY <1>1, <1>2, AppendProperties
<1>5. \A k : InBuffer(k) => InBuffer(k)'
  BY <1>3 DEF InBuffer
<1>6. \A k \in DOMAIN meant' : k \in DOMAIN meant \/ k = Len(meant) + 1
  BY <1>4
<1>7. ASSUME NEW k \in DOMAIN meant'
      PROVE  (InFile(k) \/ InBuffer(k))'
  <2>1. CASE k \in DOMAIN meant
    BY <1>5, <2>1
  <2>2. CASE k = Len(meant) + 1
    <3>1. Len(rows) + 1 \in DOMAIN rows' /\ rows'[Len(rows) + 1].k = k
      BY <1>1, <1>3, <2>2
    <3> QED
      BY <3>1 DEF InBuffer
  <2> QED
    BY <1>6, <1>7, <2>1, <2>2
<1> QED
  BY <1>7 DEF NothingLost

\* Interning an attribute set writes its definition, and the row is buffered.
LEMMA InternAttrsRecorded ==
    ASSUME ClientConstants, TypeOK, ClientInv, ClosePhase, Reliable, Recorded, NEW t \in Senders,
           InternAttrs(t)
    PROVE  Recorded'
<1> DEFINE c == content[cur[2]]
           r == AttrRec(Len(attrs'), c)
           S == NameDefs \cup AttrDefs \cup FitRows \cup {r}
<1>1. /\ pc[t] = "attrs" /\ UNCHANGED names /\ \E aid : Buffer(t, aid)
      /\ \/ UNCHANGED <<attrs, file>>
         \/ attrs' = Append(attrs, c) /\ WriteLog(<<r>>)
  BY NoCallRaises DEF InternAttrs
<1>2. log = "open" /\ c \in Contents
  <2>1. cur \in Names \X Dicts
    BY <1>1, ThreadsApart DEF ClientInv, LookedUp
  <2> QED
    BY <2>1, InternAttrsPhase DEF TypeOK
<1>3. \A k \in DOMAIN meant : InFile(k) \/ InBuffer(k)
  BY DEF Recorded, NothingLost
<1>4. CASE UNCHANGED <<attrs, file>>
  <2>1. TablesInFile' /\ EveryRowDecodes'
    BY <1>1, <1>4 DEF Recorded, TablesInFile, EveryRowDecodes, RowsAt, DefsBefore
  <2>2. \A k : InFile(k) => InFile(k)'
    BY <1>4 DEF InFile, RowsAt
  <2> QED
    BY <1>1, <1>3, <2>1, <2>2, BufferRecorded DEF Recorded
<1>5. CASE attrs' = Append(attrs, c) /\ WriteLog(<<r>>)
  <2>1. /\ r.tag = "attrs" /\ r.id = Len(attrs')
        /\ attrs \in Seq(Contents) /\ Len(attrs) \in Nat /\ Len(attrs') = Len(attrs) + 1
        /\ DOMAIN attrs = 1..Len(attrs) /\ DOMAIN attrs' = 1..Len(attrs')
    <3>1. attrs \in Seq(Contents)
      BY DEF TypeOK
    <3> HIDE DEF c
    <3>2. Len(attrs') = Len(attrs) + 1 /\ attrs' \in Seq(Contents)
      BY <1>2, <1>5, <3>1, AppendProperties
    <3> QED
      BY <3>1, <3>2, LenProperties DEF AttrRec
  <2>2. file \in Seq(S) /\ <<r>> \in Seq(S) /\ DOMAIN <<r>> = {1} /\ <<r>>[1] = r /\ ~IsRow(r)
    <3>1. file \in Seq(NameDefs \cup AttrDefs \cup FitRows) /\ r \in S /\ ~IsRow(r)
      BY <2>1 DEF ClientInv, IsRow
    <3> HIDE DEF r
    <3> QED
      BY <3>1, SeqWider
  <2>3. \A id \in DOMAIN attrs' : id \in DOMAIN attrs \/ id = Len(attrs')
    BY <2>1
  <2> HIDE DEF r, S
  <2>4. file' = file \o <<r>>
    BY <1>2, <1>5 DEF WriteLog
  <2>5. /\ EveryRowDecodes'
        /\ \A tag, id : Defined(file, tag, id) => Defined(file', tag, id)
        /\ \A k : InFile(k) => InFile(k)'
    BY <2>2, <2>4, ExtendedDecodes DEF Recorded
  <2>6. Defined(file', "attrs", Len(attrs'))
    <3>1. Len(file) + 1 \in DOMAIN file' /\ file'[Len(file) + 1] = r
      BY <2>2, <2>4, FileExtends
    <3> QED
      BY <2>1, <3>1 DEF Defined
  <2>7. TablesInFile'
    BY <1>1, <2>3, <2>5, <2>6 DEF Recorded, TablesInFile
  <2>8. NothingLost'
    BY <1>1, <1>3, <2>5, BufferRecorded
  <2> QED
    BY <2>5, <2>7, <2>8 DEF Recorded
<1> QED
  BY <1>1, <1>4, <1>5

\* A flush writes every row of the buffer behind the definitions it needs.
LEMMA FlushRecorded ==
    ASSUME ClientConstants, TypeOK, ClientInv, ClosePhase, Reliable, Recorded, NEW t \in Threads,
           Flush(t)
    PROVE  Recorded'
<1> DEFINE S == NameDefs \cup AttrDefs \cup FitRows
<1>1. pc[t] = "flush" /\ WriteLog(rows) /\ UNCHANGED <<names, attrs, meant>>
  BY NoCallRaises DEF Flush, tables
<1>2. file' = file \o rows
  <2>1. log = "open"
    BY <1>1, FlushPhase
  <2> QED
    BY <1>1, <2>1 DEF WriteLog
<1>3. file \in Seq(S) /\ rows \in Seq(S)
  BY SeqWider DEF ClientInv
<1> HIDE DEF S
<1>4. \A j \in DOMAIN rows : Defined(file, "name", rows[j].name) /\ Defined(file, "attrs", rows[j].attrs)
  <2>1. \A j \in DOMAIN rows : rows[j] \in FitRows
    BY FileRecords
  <2>2. \A j \in DOMAIN rows : rows[j].name \in DOMAIN names /\ rows[j].attrs \in DOMAIN attrs
    BY <2>1 DEF FitRows
  <2> QED
    BY <2>2 DEF Recorded, TablesInFile
<1>5. /\ EveryRowDecodes'
      /\ \A tag, id : Defined(file, tag, id) => Defined(file', tag, id)
      /\ \A k : InFile(k) => InFile(k)'
  BY <1>2, <1>3, <1>4, ExtendedDecodes DEF Recorded
<1>6. TablesInFile'
  BY <1>1, <1>5 DEF Recorded, TablesInFile
<1>7. \A k : InBuffer(k) => InFile(k)'
  <2>1. ASSUME NEW j \in DOMAIN rows
        PROVE  Len(file) + j \in RowsAt' /\ file'[Len(file) + j].k = rows[j].k
    <3>1. Len(file) + j \in DOMAIN file' /\ file'[Len(file) + j] = rows[j]
      BY <1>2, <1>3, FileExtends
    <3>2. rows[j].tag = "row"
      BY FileRecords DEF IsRow
    <3> QED
      BY <3>1, <3>2 DEF RowsAt
  <2> QED
    BY <2>1 DEF InBuffer, InFile
<1>8. NothingLost'
  BY <1>1, <1>5, <1>7 DEF Recorded, NothingLost
<1> QED
  BY <1>5, <1>6, <1>8 DEF Recorded

\* Every step keeps what is recorded recorded.
LEMMA RecordedStep ==
    ASSUME ClientConstants, TypeOK, ClientInv, ClosePhase, Reliable, Recorded, [Next]_vars
    PROVE  Recorded'
<1>1. ASSUME UNCHANGED <<rows, file, names, attrs, meant>>
      PROVE  Recorded'
  BY <1>1 DEF Recorded, TablesInFile, EveryRowDecodes, NothingLost, RowsAt, DefsBefore, InFile,
     InBuffer
<1>2. ASSUME NEW t \in Senders, Sender(t)
      PROVE  Recorded'
  <2>1. CASE (\E n \in Names, d \in Dicts : Send(t, n, d)) \/ Enter(t) \/ Exit(t)
    BY <1>1, <2>1 DEF Send, Enter, Exit, tables
  <2> QED
    BY <1>2, <2>1, ThreadsApart, InternNameRecorded, InternAttrsRecorded, FlushRecorded DEF Sender
<1>3. CASE Flush("flusher") \/ Flush("closer")
  BY <1>3, FlushRecorded, ThreadsApart
<1>4. CASE Wake \/ CheckDelay \/ CloseBegin \/ CloseFlush \/ CloseLog \/ CloseClear
  BY <1>1, <1>4 DEF Wake, CheckDelay, CloseBegin, CloseFlush, CloseLog, CloseClear, tables
<1>5. CASE (\E d \in Dicts, c \in Contents : Mutate(d, c)) \/ Tick \/ UNCHANGED vars
  BY <1>1, <1>5 DEF Mutate, Tick, vars, tables
<1> QED
  BY <1>2, <1>3, <1>4, <1>5 DEF Next, Flusher, Closer

-----------------------------------------------------------------------------
(* What the client promises where nothing fails or races.                   *)

\* The phases of close() and what is recorded are invariants together.
THEOREM DeliveryInvariant == Reliable => (Spec => [](ClosePhase /\ Recorded))
<1> SUFFICES ASSUME Reliable
             PROVE  Spec => [](ClosePhase /\ Recorded)
  OBVIOUS
<1>1. Init => ClosePhase /\ Recorded
  <2>1. ClientConstants /\ ("closer" \in Threads) /\ \A t \in Senders : t \in Threads
    BY ClientConstants, ThreadsApart
  <2>2. Init => ClosePhase
    BY <2>1 DEF Init, ClosePhase
  <2>3. Init => Recorded
    BY DEF Init, Recorded, TablesInFile, EveryRowDecodes, NothingLost, RowsAt
  <2> QED
    BY <2>2, <2>3
<1>2. TypeOK /\ ClientInv /\ ClosePhase /\ Recorded /\ [Next]_vars => (ClosePhase /\ Recorded)'
  BY PhaseStep, RecordedStep, ClientConstants
<1> QED
  BY <1>1, <1>2, TypeCorrect, PTL DEF Spec

\* A reader that has read a row has read, before it, both its definitions.
THEOREM EveryRowDecodesReliably == Reliable => (Spec => []EveryRowDecodes)
<1>1. Recorded => EveryRowDecodes
  BY DEF Recorded
<1> QED
  BY <1>1, DeliveryInvariant, PTL

\* Every accepted measurement is in the file or in the buffer.
THEOREM NothingLostReliably == Reliable => (Spec => []NothingLost)
<1>1. Recorded => NothingLost
  BY DEF Recorded
<1> QED
  BY <1>1, DeliveryInvariant, PTL

\* When close() returns every accepted measurement is in the file.
THEOREM CloseDrainsReliably == Reliable => (Spec => []CloseDrains)
<1>1. ClosePhase /\ Recorded => CloseDrains
  <2> SUFFICES ASSUME ClosePhase, Recorded, pc["closer"] = "done", NEW k \in DOMAIN meant
               PROVE  InFile(k)
    BY DEF CloseDrains
  <2>1. rows = <<>>
    BY DEF ClosePhase
  <2>2. ~InBuffer(k)
    BY <2>1 DEF InBuffer
  <2> QED
    BY <2>2 DEF Recorded, NothingLost
<1> QED
  BY <1>1, DeliveryInvariant, PTL

-----------------------------------------------------------------------------
(* The channel.                                                             *)

\* The rows of the records are those of the first m measurements.
RowsTo(recs, m) ==
    /\ \A i \in DOMAIN recs : IsRow(recs[i]) => recs[i].k \in 1..m
    /\ \A k \in 1..m : \E i \in DOMAIN recs : IsRow(recs[i]) /\ recs[i].k = k

\* Where they also ascend, they are those measurements in order.
LEMMA KeysInOrder ==
    ASSUME NEW recs, NEW len \in Nat, DOMAIN recs = 1..len, Ascending(recs),
           NEW m \in Nat, RowsTo(recs, m)
    PROVE  RowKeys(recs) = [k \in 1..m |-> k]
<1> DEFINE S == {i \in DOMAIN recs : recs[i].tag = "row"}
           place == [k \in 1..m |-> CHOOSE i \in S : recs[i].k = k]
           at == InOrder(S)
<1>1. /\ S \in SUBSET Nat
      /\ \A i \in S : recs[i].k \in 1..m
      /\ \A k \in 1..m : \E i \in S : recs[i].k = k
      /\ \A i, j \in S : i < j => recs[i].k < recs[j].k
  BY DEF RowsTo, Ascending, IsRow
<1> HIDE DEF S
<1>2. \A k \in 1..m : place[k] \in S /\ recs[place[k]].k = k
  BY <1>1
<1>3. place \in [1..m -> S] /\ \A i \in S : \E k \in 1..m : place[k] = i
  <2>1. place \in [1..m -> S]
    BY <1>2
  <2> HIDE DEF place
  <2>2. ASSUME NEW i \in S
        PROVE  place[recs[i].k] = i
    <3>1. recs[i].k \in 1..m /\ place[recs[i].k] \in S /\ i \in Nat /\ place[recs[i].k] \in Nat
      BY <1>1, <1>2
    <3>2. recs[place[recs[i].k]].k = recs[i].k
      BY <1>2, <3>1
    <3>3. ~(place[recs[i].k] < i) /\ ~(i < place[recs[i].k])
      BY <1>1, <3>1, <3>2
    <3> QED
      BY <3>1, <3>3
  <2> QED
    BY <1>1, <2>1, <2>2
<1> HIDE DEF place
<1>4. Cardinality(S) = m /\ IsFiniteSet(S)
  <2>1. \A j, k \in 1..m : place[j] = place[k] => j = k
    BY <1>2
  <2>2. place \in Bijection(1..m, S)
    BY <1>3, <2>1 DEF Bijection, Injection, IsInjective, Surjection
  <2> QED
    <3>1. ExistsBijection(1..m, S)
      BY <2>2 DEF ExistsBijection
    <3>2. IsFiniteSet(1..m) /\ Cardinality(1..m) = m
      BY FS_Interval
    <3> QED
      BY <3>1, <3>2, FS_Bijection
<1>5. \A n \in 1..m - 1 : place[n] < place[n + 1]
  <2>1. ASSUME NEW n \in 1..m - 1
        PROVE  place[n] < place[n + 1]
    <3>1. n \in 1..m /\ n + 1 \in 1..m
      OBVIOUS
    <3>2. /\ place[n] \in S /\ place[n + 1] \in S /\ place[n] \in Nat /\ place[n + 1] \in Nat
          /\ recs[place[n]].k = n /\ recs[place[n + 1]].k = n + 1
      BY <1>1, <1>2, <3>1
    <3>3. ~(place[n + 1] < place[n])
      <4>1. ~(n + 1 < n)
        OBVIOUS
      <4> QED
        BY <1>1, <3>2, <4>1
    <3>4. place[n + 1] # place[n]
      BY <3>2
    <3> QED
      BY <3>2, <3>3, <3>4
  <2> QED
    BY <2>1
<1>6. at \in [1..m -> S] /\ \A n \in 1..Len(at) - 1 : at[n] < at[n + 1]
  <2> DEFINE Rises(s) == s \in [1..m -> S] /\ \A n \in 1..Len(s) - 1 : s[n] < s[n + 1]
  <2>1. Rises(place)
    BY <1>3, <1>5
  <2>2. at = CHOOSE s \in [1..m -> S] : \A n \in 1..Len(s) - 1 : s[n] < s[n + 1]
    BY <1>4 DEF InOrder
  <2>3. Rises(at)
    BY <2>1, <2>2
  <2> QED
    BY <2>3
<1>7. RowKeys(recs) = [n \in DOMAIN at |-> recs[at[n]].k]
  BY DEF RowKeys, S
<1> HIDE DEF at
<1> DEFINE keys == [n \in 1..m |-> recs[at[n]].k]
<1>8. keys \in [1..m -> 1 .. 1 + m - 1]
  <2>1. 1 .. 1 + m - 1 = 1..m
    OBVIOUS
  <2> QED
    BY <1>1, <1>6, <2>1
<1>9. \A n \in 1..m - 1 : keys[n] < keys[n + 1]
  <2>1. ASSUME NEW n \in 1..m - 1
        PROVE  keys[n] < keys[n + 1]
    <3>1. n \in 1..m /\ n + 1 \in 1..m /\ Len(at) = m
      BY <1>6
    <3>2. at[n] \in S /\ at[n + 1] \in S /\ at[n] < at[n + 1]
      BY <1>6, <3>1
    <3> QED
      BY <1>1, <3>1, <3>2
  <2> QED
    BY <2>1
<1> HIDE DEF keys
<1>10. keys = Run(1, m)
  BY <1>8, <1>9, RisingIsRun
<1>11. Run(1, m) = [k \in 1..m |-> k]
  BY DEF Run
<1> QED
  BY <1>6, <1>7, <1>10, <1>11 DEF keys

\* The rows in the file are those of the measurements accepted first; the others wait.
LEMMA FileHasFirst ==
    ASSUME TypeOK, ClientInv, OrderInv, NothingLost
    PROVE  \E m \in 0..Len(meant) : RowsTo(file, m)
<1>1. /\ \A i \in RowsAt : file[i].k \in 1..Len(meant) /\ IsRow(file[i])
      /\ Len(meant) \in Nat /\ DOMAIN meant = 1..Len(meant)
  BY FileRecords DEF TypeOK, RowsAt, FitRows, IsRow
<1> DEFINE K == {k \in 1..Len(meant) : InFile(k)}
<1>2. ASSUME NEW k \in K, NEW j \in 1..k
      PROVE  j \in K
  <2>1. j \in 1..Len(meant)
    BY <1>1
  <2>2. CASE InFile(j)
    BY <2>1, <2>2
  <2>3. CASE InBuffer(j)
    <3>1. PICK i \in DOMAIN rows : rows[i].k = j
      BY <2>3 DEF InBuffer
    <3>2. PICK f \in RowsAt : file[f].k = k
      BY DEF InFile
    <3>3. file[f].k < rows[i].k
      BY <3>1, <3>2, FileRecords DEF OrderInv, Precedes, RowsAt, IsRow
    <3> QED
      BY <1>1, <3>1, <3>2, <3>3
  <2> QED
    BY <1>1, <2>1, <2>2, <2>3 DEF NothingLost
<1>3. \E m \in 0..Len(meant) : K = 1..m
  <2>1. CASE K = {}
    BY <1>1, <2>1
  <2>2. CASE K # {}
    <3>1. K \in SUBSET (0..Len(meant))
      BY <1>1
    <3> HIDE DEF K
    <3>2. PICK m \in K : \A k \in K : k <= m
      BY <1>1, <2>2, <3>1, HasGreatest
    <3>3. K \in SUBSET (1..Len(meant))
      BY DEF K
    <3>4. K = 1..m
      <4>1. \A j \in 1..m : j \in K
        BY <1>2, <3>2
      <4>2. \A k \in K : k \in 1..m
        BY <1>1, <3>2, <3>3
      <4> QED
        BY <4>1, <4>2
    <3> QED
      BY <3>1, <3>2, <3>4
  <2> QED
    BY <2>1, <2>2
<1>4. PICK m \in 0..Len(meant) : K = 1..m
  BY <1>3
<1>5. \A i \in DOMAIN file : IsRow(file[i]) => file[i].k \in K
  BY <1>1 DEF RowsAt, IsRow, InFile
<1>6. \A k \in K : \E i \in DOMAIN file : IsRow(file[i]) /\ file[i].k = k
  BY DEF InFile, RowsAt, IsRow
<1> QED
  BY <1>4, <1>5, <1>6 DEF RowsTo

\* What the steps do to the rows of the file: nothing goes, and where a measurement
\* is accepted nothing comes.
LEMMA ClientMoves ==
    ASSUME ClientConstants, TypeOK, ClientInv, ClosePhase, Reliable, Recorded, [Next]_vars
    PROVE  /\ \A k : InFile(k) => InFile(k)'
           /\ \/ meant' = meant
              \/ /\ \E x : meant' = Append(meant, x)
                 /\ \A i \in DOMAIN file' : IsRow(file'[i]) => i \in DOMAIN file /\ file'[i] = file[i]
<1> DEFINE Moves ==
              /\ \A k : InFile(k) => InFile(k)'
              /\ \/ meant' = meant
                 \/ /\ \E x : meant' = Append(meant, x)
                    /\ \A i \in DOMAIN file' : IsRow(file'[i]) => i \in DOMAIN file /\ file'[i] = file[i]
<1>1. ASSUME UNCHANGED <<file, meant>>
      PROVE  Moves
  BY <1>1 DEF InFile, RowsAt
<1>2. ASSUME NEW S, file \in Seq(S), NEW recs \in Seq(S), file' = file \o recs
      PROVE  \A k : InFile(k) => InFile(k)'
  BY <1>2, FileExtends DEF InFile, RowsAt
<1>3. file \in Seq(NameDefs \cup AttrDefs \cup FitRows)
  BY DEF ClientInv
<1>4. ASSUME NEW t \in Senders, InternName(t)
      PROVE  Moves
  <2> DEFINE r == NameRec(Len(names'), cur[1])
             S == NameDefs \cup AttrDefs \cup FitRows \cup {r}
  <2>1. /\ pc[t] = "name" /\ UNCHANGED meant
        /\ UNCHANGED file \/ WriteLog(<<r>>)
    BY <1>4, NoCallRaises DEF InternName
  <2>2. file \in Seq(S) /\ <<r>> \in Seq(S)
    BY <1>3, SeqWider
  <2> HIDE DEF r, S
  <2>3. CASE UNCHANGED file
    BY <1>1, <2>1, <2>3
  <2>4. CASE file' = file \o <<r>>
    BY <1>2, <2>1, <2>2, <2>4
  <2>5. CASE log = "none"
    <3>1. meant = <<>>
      BY <1>4, <2>1, <2>5, LookupPhase
    <3>2. \A k : ~InFile(k)
      BY <3>1, FileRecords DEF InFile, RowsAt, IsRow, FitRows
    <3> QED
      BY <2>1, <3>2
  <2>6. log # "closed"
    BY <1>4, <2>1, LookupPhase
  <2> QED
    BY <2>1, <2>3, <2>4, <2>5, <2>6 DEF WriteLog
<1>5. ASSUME NEW t \in Senders, InternAttrs(t)
      PROVE  Moves
  <2> DEFINE r == AttrRec(Len(attrs'), content[cur[2]])
             S == NameDefs \cup AttrDefs \cup FitRows \cup {r}
  <2>1. /\ pc[t] = "attrs" /\ \E x : meant' = Append(meant, x)
        /\ UNCHANGED file \/ WriteLog(<<r>>)
    BY <1>5, NoCallRaises DEF InternAttrs, Buffer
  <2>2. file \in Seq(S) /\ r \in S /\ <<r>> \in Seq(S) /\ ~IsRow(r)
    BY <1>3, SeqWider DEF AttrRec, IsRow
  <2> HIDE DEF r, S
  <2>3. CASE UNCHANGED file
    BY <2>1, <2>3 DEF InFile, RowsAt
  <2>4. CASE WriteLog(<<r>>)
    <3>1. log = "open"
      BY <1>5, <2>1, InternAttrsPhase
    <3>2. file' = file \o <<r>>
      BY <2>4, <3>1 DEF WriteLog
    <3>3. \A i \in DOMAIN file' : IsRow(file'[i]) => i \in DOMAIN file /\ file'[i] = file[i]
      BY <2>2, <2>4, DefinitionKeepsRows
    <3> QED
      BY <1>2, <2>1, <2>2, <3>2, <3>3
  <2> QED
    BY <2>1, <2>3, <2>4
<1>6. ASSUME NEW t \in Threads, Flush(t)
      PROVE  Moves
  <2>1. pc[t] = "flush" /\ WriteLog(rows) /\ UNCHANGED meant
    BY <1>6, NoCallRaises DEF Flush
  <2>2. file' = file \o rows
    BY <1>6, <2>1, FlushPhase DEF WriteLog
  <2>3. rows \in Seq(NameDefs \cup AttrDefs \cup FitRows)
    BY SeqWider DEF ClientInv
  <2> QED
    BY <1>2, <1>3, <2>1, <2>2, <2>3
<1>7. ASSUME NEW t \in Senders, Sender(t)
      PROVE  Moves
  <2>1. CASE (\E n \in Names, d \in Dicts : Send(t, n, d)) \/ Enter(t) \/ Exit(t)
    BY <1>1, <2>1 DEF Send, Enter, Exit
  <2> QED
    BY <1>4, <1>5, <1>6, <1>7, <2>1, ThreadsApart DEF Sender
<1>8. CASE Flush("flusher") \/ Flush("closer")
  BY <1>6, <1>8, ThreadsApart
<1>9. CASE Wake \/ CheckDelay \/ CloseBegin \/ CloseFlush \/ CloseLog \/ CloseClear
  BY <1>1, <1>9 DEF Wake, CheckDelay, CloseBegin, CloseFlush, CloseLog, CloseClear
<1>10. CASE (\E d \in Dicts, c \in Contents : Mutate(d, c)) \/ Tick \/ UNCHANGED vars
  BY <1>1, <1>10 DEF Mutate, Tick, vars
<1> QED
  BY <1>7, <1>8, <1>9, <1>10 DEF Next, Flusher, Closer

\* The first n numbers.
Upto(n) == [k \in 1..n |-> k]

\* One measurement more is sent, or the file has some more, or neither.
LEMMA ChannelMoves ==
    ASSUME NEW c \in Nat, NEW e \in Nat, NEW m \in 0..c, NEW n \in 0..e, m <= n,
           e = c \/ (e = c + 1 /\ m = n)
    PROVE  \/ Len(Upto(e)) > Len(Upto(c)) /\ SubSeq(Upto(e), 1, Len(Upto(c))) = Upto(c) /\ Upto(n) = Upto(m)
           \/ /\ \E i \in 1..Len(Upto(c)) : i > Len(Upto(m)) /\ Upto(n) = SubSeq(Upto(c), 1, i)
              /\ Upto(e) = Upto(c)
           \/ Upto(e) = Upto(c) /\ Upto(n) = Upto(m)
<1>1. \A k \in Nat : Len(Upto(k)) = k /\ Upto(k) \in Seq(Nat)
  BY DEF Upto
<1>2. ASSUME NEW k \in Nat, NEW j \in 0..k
      PROVE  SubSeq(Upto(k), 1, j) = Upto(j)
  <2>1. Len(Upto(k)) = k /\ Upto(k) \in Seq(Nat)
    BY <1>1
  <2>2. /\ SubSeq(Upto(k), 1, j) \in Seq(Nat) /\ Len(SubSeq(Upto(k), 1, j)) = j
        /\ \A i \in 1..j : SubSeq(Upto(k), 1, j)[i] = Upto(k)[i]
    BY <2>1, SubSeqProperties
  <2>3. \A i \in 1..j : Upto(k)[i] = i /\ Upto(j)[i] = i
    BY DEF Upto
  <2>4. Len(SubSeq(Upto(k), 1, j)) = Len(Upto(j)) /\ Upto(j) \in Seq(Nat)
    BY <1>1, <2>2
  <2>5. \A i \in 1..Len(Upto(j)) : SubSeq(Upto(k), 1, j)[i] = Upto(j)[i]
    BY <1>1, <2>2, <2>3
  <2> QED
    BY <2>2, <2>4, <2>5, SeqEqual
<1>3. CASE e = c + 1 /\ m = n
  <2>1. c \in 0..e /\ e > c
    BY <1>3
  <2> QED
    BY <1>1, <1>2, <1>3, <2>1
<1>4. CASE e = c /\ m < n
  <2>1. n \in 0..c /\ n \in 1..Len(Upto(c)) /\ n > Len(Upto(m))
    BY <1>1, <1>4
  <2>2. Upto(n) = SubSeq(Upto(c), 1, n)
    BY <1>2, <2>1
  <2>3. Upto(e) = Upto(c)
    BY <1>4
  <2> QED
    BY <2>1, <2>2, <2>3
<1>5. CASE e = c /\ m = n
  BY <1>5
<1> QED
  BY <1>3, <1>4, <1>5

\* While no call raises and the senders have stopped before close(), the buffer and the
\* file implement the channel: measurements reach the file in the order they were
\* accepted, none twice and none left out on the way, whichever flush takes them there.
\* (That each arrives in the end is liveness, which the run checks.)
THEOREM ClientImplementsChannel == Reliable => (Spec => Channel!Safety)
<1> SUFFICES ASSUME Reliable
             PROVE  Spec => Channel!Safety
  OBVIOUS
<1> DEFINE Inv == TypeOK /\ ClientInv /\ OrderInv /\ ClosePhase /\ Recorded
           Sent == [i \in DOMAIN meant |-> i]
           Got == RowKeys(file)
           At == /\ Len(meant) \in Nat /\ DOMAIN meant = 1..Len(meant) /\ Sent = Upto(Len(meant))
                 /\ \E m \in 0..Len(meant) : RowsTo(file, m)
                 /\ \A m \in Nat : RowsTo(file, m) => Got = Upto(m)
<1>1. ASSUME Inv
      PROVE  At
  <2>1. /\ Len(meant) \in Nat /\ DOMAIN meant = 1..Len(meant)
        /\ Len(file) \in Nat /\ DOMAIN file = 1..Len(file)
    BY <1>1, LenProperties DEF TypeOK
  <2>2. \E m \in 0..Len(meant) : RowsTo(file, m)
    BY <1>1, FileHasFirst DEF Recorded
  <2>3. \A m \in Nat : RowsTo(file, m) => Got = Upto(m)
    BY <1>1, <2>1, KeysInOrder DEF OrderInv, Upto
  <2> QED
    BY <2>1, <2>2, <2>3 DEF Upto
<1>2. ASSUME Inv, At, At', [Next]_vars
      PROVE  [Channel!Next]_<<Sent, Got>>
  <2>1. PICK c \in Nat : c = Len(meant) /\ DOMAIN meant = 1..c /\ Sent = Upto(c)
    BY <1>2
  <2>2. PICK e \in Nat : e = Len(meant') /\ DOMAIN meant' = 1..e /\ Sent' = Upto(e)
    BY <1>2
  <2>3. PICK m \in 0..c : RowsTo(file, m) /\ Got = Upto(m)
    BY <1>2, <2>1
  <2>4. PICK n \in 0..e : RowsTo(file', n) /\ Got' = Upto(n)
    BY <1>2, <2>2
  <2> HIDE DEF Sent, Got, At
  <2>5. m <= n
    <3>1. CASE m > 0
      <4>1. m \in 1..m
        BY <3>1
      <4>2. InFile(m)
        BY <2>3, <4>1 DEF RowsTo, InFile, RowsAt, IsRow
      <4>3. InFile(m)'
        BY <1>2, <4>2, ClientConstants, ClientMoves
      <4>4. m \in 1..n
        BY <2>4, <4>3 DEF RowsTo, InFile, RowsAt, IsRow
      <4> QED
        BY <4>4
    <3>2. CASE m = 0
      BY <3>2
    <3> QED
      BY <3>1, <3>2
  <2>6. e = c \/ (e = c + 1 /\ m = n)
    <3>1. CASE meant' = meant
      BY <2>1, <2>2, <3>1
    <3>2. CASE /\ \E x : meant' = Append(meant, x)
               /\ \A i \in DOMAIN file' : IsRow(file'[i]) => i \in DOMAIN file /\ file'[i] = file[i]
      <4>1. e = c + 1
        <5>1. meant \in Seq([name : Names, held : SUBSET Contents])
          BY <1>2 DEF TypeOK
        <5> QED
          BY <2>1, <2>2, <3>2, <5>1
      <4>2. CASE n > 0
        <5>1. n \in 1..n
          BY <4>2
        <5>2. PICK i \in DOMAIN file' : IsRow(file'[i]) /\ file'[i].k = n
          BY <2>4, <5>1 DEF RowsTo
        <5>3. n \in 1..m
          BY <2>3, <3>2, <5>2 DEF RowsTo
        <5> QED
          BY <2>5, <4>1, <5>3
      <4>3. CASE n = 0
        BY <2>5, <4>1, <4>3
      <4> QED
        BY <4>2, <4>3
    <3> QED
      BY <1>2, <3>1, <3>2, ClientConstants, ClientMoves
  <2>7. \/ Len(Upto(e)) > Len(Upto(c)) /\ SubSeq(Upto(e), 1, Len(Upto(c))) = Upto(c) /\ Upto(n) = Upto(m)
        \/ /\ \E i \in 1..Len(Upto(c)) : i > Len(Upto(m)) /\ Upto(n) = SubSeq(Upto(c), 1, i)
           /\ Upto(e) = Upto(c)
        \/ Upto(e) = Upto(c) /\ Upto(n) = Upto(m)
    BY <2>5, <2>6, ChannelMoves
  <2>8. \/ Len(Sent') > Len(Sent) /\ SubSeq(Sent', 1, Len(Sent)) = Sent /\ Got' = Got
        \/ /\ \E i \in 1..Len(Sent) : i > Len(Got) /\ Got' = SubSeq(Sent, 1, i)
           /\ Sent' = Sent
        \/ Sent' = Sent /\ Got' = Got
    BY <2>1, <2>2, <2>3, <2>4, <2>7
  <2> QED
    BY <2>8 DEF Channel!Next, Channel!Send, Channel!Deliver, Sent, Got
<1>3. Init => Channel!Init
  <2> SUFFICES ASSUME Init PROVE Channel!Init
    OBVIOUS
  <2>1. /\ meant = <<>> /\ file = <<>>
    BY DEF Init
  <2>2. Sent = <<>> /\ DOMAIN file = 1..0 /\ 0 \in Nat
    BY <2>1
  <2>3. RowsTo(file, 0) /\ Ascending(file)
    BY <2>2 DEF RowsTo, Ascending
  <2>4. Got = [k \in 1..0 |-> k]
    BY <2>2, <2>3, KeysInOrder
  <2>5. [k \in 1..0 |-> k] = <<>>
    OBVIOUS
  <2> QED
    BY <2>2, <2>4, <2>5 DEF Channel!Init
<1>4. Spec => []Inv
  <2>1. Init => OrderInv
    BY DEF Init, OrderInv, Ascending, Precedes
  <2>2. TypeOK /\ ClientInv /\ OrderInv /\ [Next]_vars => OrderInv'
    BY OrderStep
  <2>3. Spec => [](TypeOK /\ ClientInv)
    BY TypeCorrect
  <2>4. Spec => [](ClosePhase /\ Recorded)
    BY DeliveryInvariant
  <2>5. Spec => []OrderInv
    BY <2>1, <2>2, <2>3, PTL DEF Spec
  <2> QED
    BY <2>3, <2>4, <2>5, PTL
<1>5. Inv => At
  BY <1>1
<1> HIDE DEF Inv, At
<1> QED
  BY <1>2, <1>3, <1>4, <1>5, PTL DEF Spec, Channel!Safety
===============================================================================
