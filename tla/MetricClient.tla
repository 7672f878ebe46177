----------------------------- MODULE MetricClient -----------------------------
(***************************************************************************)
(* DagrMetricClient (dagr_metric_client.py) with the MeasurementLog it      *)
(* writes to (measurement_log.mojo): threads of one process send             *)
(* measurements into a buffer, a lock protects the buffer and the interning  *)
(* tables, a background thread flushes on a clock, and close() may run at     *)
(* any time.  The file is the sequence of records a reader decodes from it.   *)
(***************************************************************************)
EXTENDS Naturals, Sequences, FiniteSets, RecordDecoding

CONSTANTS
    Senders,    \* threads that call send_measurement and transaction
    Names,      \* instrument names
    Dicts,      \* attribute dict objects the callers hold
    Contents,   \* attribute sets a dict may contain
    NoAttrs,    \* the empty attribute set, one of Contents
    Batch,      \* MAX_SERVE_MEASUREMENT_BATCH
    MaxSends,   \* bound: measurements accepted into the buffer
    MaxOpens,   \* bound: number of times the log is opened
    MaxFails,   \* bound: extension calls that raise
    Closes,     \* whether close() is called
    Races,      \* whether senders are active while close() runs and after it
    Mutations   \* bound: contents a dict takes on after its first

ASSUME ClientConstants ==
    /\ NoAttrs \in Contents
    /\ Batch \in Nat \ {0}
    /\ MaxSends \in Nat /\ MaxOpens \in Nat /\ MaxFails \in Nat
    /\ Closes \in BOOLEAN /\ Races \in BOOLEAN /\ Mutations \in Nat
    /\ {"flusher", "closer", "nobody"} \cap Senders = {}

VARIABLES
    pc,         \* where each thread is
    lock,       \* holder of _lock
    cur,        \* the measurement whose ids are being looked up, or <<>>
    rows,       \* _rows: the buffer
    names,      \* _names: the interned names, a name's id being its position
    attrs,      \* _attrs: the interned attribute sets
    byId,       \* _attrs_by_id: the id cached for a dict object, 0 if none
    depth,      \* _depth
    inTx,       \* senders inside transaction()
    due,        \* max_delay_s has passed since _last_flush
    stop,       \* _stop
    log,        \* _log: "none", "open" or "closed" (closed but still referenced)
    file,       \* the records of the file at the client's path
    content,    \* what each dict contains
    opens, fails,
    held,       \* history: all that a dict has contained
    meant       \* history: the measurements accepted into the buffer

tables  == <<names, attrs, byId>>
tx      == <<depth, inTx>>
bounds  == <<opens, fails>>
callers == <<content, held>>
vars == <<pc, lock, cur, rows, tables, tx, due, stop, log, file, callers, bounds, meant>>

Threads == Senders \cup {"flusher", "closer"}

Locked == {"name", "attrs", "flush"}    \* inside a `with self._lock` block
PCs    == Locked \cup {"idle", "wait", "wake", "close_flush", "close_log", "close_clear",
                      "done", "dead"}

\* Definitions named Faulty... are a step or helper with a plausible mistake in it:
\* they are no part of the specification, and a property below refutes each.

\* Ids counted after the insertion where the table counts before it.
FaultyNameRec(id, name) == [tag |-> "name", id |-> id + 1, of |-> name]

\* The id of the newest entry instead of the one that was looked up.
FaultyIdOf(table, x) == Len(table)

Ids(table, x) == {i \in DOMAIN table : table[i] = x}
Interned(table, x) == Ids(table, x) # {}
IdOf(table, x) == CHOOSE i \in Ids(table, x) : TRUE

NameRec(id, name)  == [tag |-> "name", id |-> id, of |-> name]
AttrRec(id, set)   == [tag |-> "attrs", id |-> id, of |-> set]
Row(k, nid, aid)   == [tag |-> "row", k |-> k, name |-> nid, attrs |-> aid]

Init ==
    /\ pc = [t \in Threads |-> IF t = "flusher" THEN "wait" ELSE "idle"]
    /\ lock = "nobody"
    /\ cur = <<>>
    /\ rows = <<>> /\ names = <<>> /\ attrs = <<>>
    /\ byId = [d \in Dicts |-> 0]
    /\ depth = 0 /\ inTx = {}
    /\ due = FALSE /\ stop = FALSE
    /\ log = "none" /\ file = <<>>
    /\ content \in [Dicts -> Contents]
    /\ held = [d \in Dicts |-> {content[d]}]
    /\ opens = 0 /\ fails = 0
    /\ meant = <<>>

-----------------------------------------------------------------------------
(* The log.                                                                *)

Holds(t) == lock = t

\* The log is opened, and truncated, for every call.
FaultyWriteLog(recs) ==
    /\ file' = recs
    /\ log' = "open"
    /\ UNCHANGED opens

\* _open() and one call of the extension that writes the records `recs`: opening
\* truncates the file. `file` is what a reader can decode, and a closed log adds nothing to
\* it. What else happens to the bytes is not modelled: they are stored into the page
\* behind the trimmed end, where no read returns them; the sidecar gets a length ahead of
\* the file; a call that needs a growth raises, as the descriptor is closed; and a
\* store beyond the last page of the file kills the process.
WriteLog(recs) ==
    \/ /\ log = "open"
       /\ file' = file \o recs
       /\ UNCHANGED <<log, opens>>
    \/ /\ log = "none" /\ opens < MaxOpens
       /\ file' = recs
       /\ log' = "open" /\ opens' = opens + 1
    \/ /\ log = "closed"
       /\ UNCHANGED <<log, file, opens>>

\* The call raises after it wrote at most the first `most` of `recs`; or _open() does.
WriteFails(recs, most) ==
    /\ fails < MaxFails /\ fails' = fails + 1
    /\ \/ \E n \in 0..most : WriteLog(SubSeq(recs, 1, n))
       \/ log = "none" /\ file' \in {file, <<>>} /\ UNCHANGED <<log, opens>>

Release == lock' = "nobody"

-----------------------------------------------------------------------------
(* send_measurement                                                        *)

Send(t, n, d) ==
    /\ pc[t] = "idle" /\ lock = "nobody"
    /\ Len(meant) < MaxSends
    /\ Races \/ ~stop
    /\ lock' = t
    /\ cur' = <<n, d>>
    /\ pc' = [pc EXCEPT ![t] = "name"]
    /\ UNCHANGED <<rows, tables, tx, due, stop, log, file, callers, bounds, meant>>

\* _name_id: the dict is updated before the definition is written.
InternName(t) ==
    /\ pc[t] = "name"
    /\ LET n == cur[1]
       IN  \/ /\ Interned(names, n)
              /\ pc' = [pc EXCEPT ![t] = "attrs"]
              /\ UNCHANGED <<lock, cur, names, log, file, bounds>>
           \/ /\ ~Interned(names, n)
              /\ names' = Append(names, n)
              /\ \/ /\ WriteLog(<<NameRec(Len(names'), n)>>)
                    /\ pc' = [pc EXCEPT ![t] = "attrs"]
                    /\ UNCHANGED <<lock, cur, fails>>
                 \/ /\ WriteFails(<<NameRec(Len(names'), n)>>, 0)
                    /\ cur' = <<>>
                    /\ pc' = [pc EXCEPT ![t] = "idle"]
                    /\ Release
    /\ UNCHANGED <<rows, attrs, byId, tx, due, stop, callers, meant>>

\* The end of send_measurement, once the row has its ids.
Buffer(t, aid) ==
    LET n == cur[1]
        d == cur[2]
    IN  /\ rows' = Append(rows, Row(Len(meant) + 1, IdOf(names, n), aid))
        /\ meant' = Append(meant, [name |-> n, held |-> held[d]])
        /\ IF depth = 0 /\ (Len(rows') >= Batch \/ due)
           THEN pc' = [pc EXCEPT ![t] = "flush"] /\ UNCHANGED lock
           ELSE pc' = [pc EXCEPT ![t] = "idle"] /\ Release

\* The identity cache is filled for a non-empty dict.
CacheId(d, c, aid) == byId' = IF c = NoAttrs THEN byId ELSE [byId EXCEPT ![d] = aid]

\* _attrs_id and _attr_set_id: an empty dict bypasses the identity cache, a dict
\* seen before is taken from it whatever it contains now, and otherwise the
\* table is updated before the definition is written and the cache after.
InternAttrs(t) ==
    /\ pc[t] = "attrs"
    /\ cur' = <<>>
    /\ LET d == cur[2]
           c == content[d]
           cached == c # NoAttrs /\ byId[d] # 0
       IN  \/ /\ cached
              /\ Buffer(t, byId[d])
              /\ UNCHANGED <<attrs, byId, log, file, bounds>>
           \/ /\ ~cached /\ Interned(attrs, c)
              /\ CacheId(d, c, IdOf(attrs, c))
              /\ Buffer(t, IdOf(attrs, c))
              /\ UNCHANGED <<attrs, log, file, bounds>>
           \/ /\ ~cached /\ ~Interned(attrs, c)
              /\ attrs' = Append(attrs, c)
              /\ \/ /\ WriteLog(<<AttrRec(Len(attrs'), c)>>)
                    /\ CacheId(d, c, Len(attrs'))
                    /\ Buffer(t, Len(attrs'))
                    /\ UNCHANGED fails
                 \/ /\ WriteFails(<<AttrRec(Len(attrs'), c)>>, 0)
                    /\ pc' = [pc EXCEPT ![t] = "idle"]
                    /\ Release
                    /\ UNCHANGED <<byId, rows, meant>>
    /\ UNCHANGED <<names, tx, due, stop, callers>>

-----------------------------------------------------------------------------
(* _flush, its caller holding the lock and the buffer not empty: the buffer *)
(* is swapped out before the batch is written, and the msync that may follow *)
(* the batch can raise too.                                                 *)

AfterFlush(t) == IF t = "flusher" THEN "wait" ELSE IF t = "closer" THEN "close_log" ELSE "idle"

\* The exception ends a sender's call and close(); nothing catches it in the flusher.
AfterRaise(t) == IF t \in Senders THEN "idle" ELSE "dead"

\* The buffer is emptied only once the batch is written.
FaultyFlush(t) ==
    /\ pc[t] = "flush"
    /\ \/ /\ WriteLog(rows)
          /\ rows' = <<>> /\ due' = FALSE
          /\ pc' = [pc EXCEPT ![t] = AfterFlush(t)]
          /\ UNCHANGED fails
       \/ /\ WriteFails(rows, Len(rows))
          /\ pc' = [pc EXCEPT ![t] = AfterRaise(t)]
          /\ UNCHANGED <<rows, due>>
    /\ Release
    /\ UNCHANGED <<cur, tables, tx, stop, callers, meant>>

Flush(t) ==
    /\ pc[t] = "flush"
    /\ rows' = <<>>
    /\ \/ /\ WriteLog(rows)
          /\ due' = FALSE
          /\ pc' = [pc EXCEPT ![t] = AfterFlush(t)]
          /\ UNCHANGED fails
       \/ /\ WriteFails(rows, Len(rows))
          /\ pc' = [pc EXCEPT ![t] = AfterRaise(t)]
          /\ UNCHANGED due
    /\ Release
    /\ UNCHANGED <<cur, tables, tx, stop, callers, meant>>

\* The flush runs after the `with` block.
FaultyFlushIf(t, cond, next) ==
    /\ lock = "nobody"
    /\ pc' = [pc EXCEPT ![t] = IF cond THEN "flush" ELSE next]
    /\ UNCHANGED lock

\* A `with self._lock` block of thread t that flushes if `cond` and is over if not.
FlushIf(t, cond, next) ==
    /\ lock = "nobody"
    /\ IF cond THEN lock' = t /\ pc' = [pc EXCEPT ![t] = "flush"]
               ELSE pc' = [pc EXCEPT ![t] = next] /\ UNCHANGED lock

-----------------------------------------------------------------------------
(* transaction()                                                           *)

\* The depth counts exits only.
FaultyEnter(t) ==
    /\ pc[t] = "idle" /\ t \notin inTx /\ lock = "nobody"
    /\ inTx' = inTx \cup {t}
    /\ UNCHANGED <<pc, lock, cur, rows, tables, depth, due, stop, log, file, callers, bounds, meant>>

Enter(t) ==
    /\ pc[t] = "idle" /\ t \notin inTx /\ lock = "nobody"
    /\ depth' = depth + 1 /\ inTx' = inTx \cup {t}
    /\ UNCHANGED <<pc, lock, cur, rows, tables, due, stop, log, file, callers, bounds, meant>>

\* The rows of a transaction wait for the next flush.
FaultyExit(t) ==
    /\ pc[t] = "idle" /\ t \in inTx /\ lock = "nobody"
    /\ depth' = depth - 1 /\ inTx' = inTx \ {t}
    /\ UNCHANGED <<pc, lock, cur, rows, tables, due, stop, log, file, callers, bounds, meant>>

Exit(t) ==
    /\ pc[t] = "idle" /\ t \in inTx
    /\ depth' = depth - 1 /\ inTx' = inTx \ {t}
    /\ FlushIf(t, depth' = 0 /\ rows # <<>>, "idle")
    /\ UNCHANGED <<cur, rows, tables, due, stop, log, file, callers, bounds, meant>>

-----------------------------------------------------------------------------
(* _flush_loop                                                             *)

\* stop.wait(max_delay_s) returns: TRUE ends the loop.
Wake ==
    /\ pc["flusher"] = "wait"
    /\ pc' = [pc EXCEPT !["flusher"] = IF stop THEN "done" ELSE "wake"]
    /\ UNCHANGED <<lock, cur, rows, tables, tx, due, stop, log, file, callers, bounds, meant>>

\* The flusher respects open transactions.
FaultyCheckDelay ==
    /\ pc["flusher"] = "wake"
    /\ FlushIf("flusher", rows # <<>> /\ due /\ depth = 0, "wait")
    /\ UNCHANGED <<cur, rows, tables, tx, due, stop, log, file, callers, bounds, meant>>

CheckDelay ==
    /\ pc["flusher"] = "wake"
    /\ FlushIf("flusher", rows # <<>> /\ due, "wait")
    /\ UNCHANGED <<cur, rows, tables, tx, due, stop, log, file, callers, bounds, meant>>

-----------------------------------------------------------------------------
(* close(): only the flush is inside the lock.                              *)

CloseBegin ==
    /\ Closes /\ pc["closer"] = "idle"
    /\ Races \/ \A t \in Senders : pc[t] = "idle"
    /\ stop' = TRUE
    /\ pc' = [pc EXCEPT !["closer"] = IF log = "none" THEN "done" ELSE "close_flush"]
    /\ UNCHANGED <<lock, cur, rows, tables, tx, due, log, file, callers, bounds, meant>>

\* close() does not flush.
FaultyCloseFlush ==
    /\ pc["closer"] = "close_flush"
    /\ FlushIf("closer", FALSE, "close_log")
    /\ UNCHANGED <<cur, rows, tables, tx, due, stop, log, file, callers, bounds, meant>>

CloseFlush ==
    /\ pc["closer"] = "close_flush"
    /\ FlushIf("closer", rows # <<>>, "close_log")
    /\ UNCHANGED <<cur, rows, tables, tx, due, stop, log, file, callers, bounds, meant>>

CloseLog ==
    /\ pc["closer"] = "close_log"
    /\ \/ /\ log' = "closed"
          /\ pc' = [pc EXCEPT !["closer"] = "close_clear"]
          /\ UNCHANGED fails
       \/ /\ fails < MaxFails /\ fails' = fails + 1   \* raises before the trim
          /\ pc' = [pc EXCEPT !["closer"] = "dead"]
          /\ UNCHANGED log
    /\ UNCHANGED <<lock, cur, rows, tables, tx, due, stop, file, callers, opens, meant>>

CloseClear ==
    /\ pc["closer"] = "close_clear"
    /\ log' = "none"
    /\ pc' = [pc EXCEPT !["closer"] = "done"]
    /\ UNCHANGED <<lock, cur, rows, tables, tx, due, stop, file, callers, bounds, meant>>

-----------------------------------------------------------------------------
(* The callers' dicts and the clock.                                       *)

\* Of a dict that has an id: to change another is to have started with other contents.
Mutate(d, c) ==
    /\ byId[d] # 0 /\ c # content[d]
    /\ Cardinality(held[d] \cup {c}) <= 1 + Mutations
    /\ content' = [content EXCEPT ![d] = c]
    /\ held' = [held EXCEPT ![d] = @ \cup {c}]
    /\ UNCHANGED <<pc, lock, cur, rows, tables, tx, due, stop, log, file, bounds, meant>>

Tick ==
    /\ ~due
    /\ due' = TRUE
    /\ UNCHANGED <<pc, lock, cur, rows, tables, tx, stop, log, file, callers, bounds, meant>>

-----------------------------------------------------------------------------
Sender(t) ==
    \/ \E n \in Names, d \in Dicts : Send(t, n, d)
    \/ InternName(t) \/ InternAttrs(t) \/ Flush(t) \/ Enter(t) \/ Exit(t)

Flusher == Wake \/ CheckDelay \/ Flush("flusher")

Closer == CloseBegin \/ CloseFlush \/ CloseLog \/ CloseClear \/ Flush("closer")

Next ==
    \/ \E t \in Senders : Sender(t)
    \/ Flusher \/ Closer
    \/ \E d \in Dicts, c \in Contents : Mutate(d, c)
    \/ Tick

Spec == Init /\ [][Next]_vars

\* A thread that holds the lock runs on, so does a close() that has begun, the
\* flusher's loop runs while it lives, and the clock advances.  Nothing makes a
\* caller send, leave a transaction or close.
Fairness ==
    /\ \A t \in Senders : WF_vars(InternName(t) \/ InternAttrs(t) \/ Flush(t))
    /\ WF_vars(CloseFlush \/ Flush("closer") \/ CloseLog \/ CloseClear)
    /\ WF_vars(Flusher)
    /\ WF_vars(Tick)

FairSpec == Spec /\ Fairness

-----------------------------------------------------------------------------
(* What the client promises.                                               *)

Tags == {"name", "attrs"}
RowsAt == {i \in DOMAIN file : file[i].tag = "row"}
InFile(k) == \E i \in RowsAt : file[i].k = k
InBuffer(k) == \E i \in DOMAIN rows : rows[i].k = k
\* The definitions of an id that precede record i, as a reader meets them.
DefsBefore(i, tag, id) == {j \in 1..i - 1 : file[j].tag = tag /\ file[j].id = id}

TypeOK ==
    /\ pc \in [Threads -> PCs]
    /\ lock \in Threads \cup {"nobody"}
    /\ cur \in {<<>>} \cup (Names \X Dicts)
    /\ rows \in Seq([tag : {"row"}, k : Nat, name : Nat, attrs : Nat])
    /\ names \in Seq(Names) /\ attrs \in Seq(Contents)
    /\ byId \in [Dicts -> Nat]
    /\ depth \in Nat /\ inTx \subseteq Senders
    /\ due \in BOOLEAN /\ stop \in BOOLEAN
    /\ log \in {"none", "open", "closed"}
    /\ file \in Seq([tag : {"name"}, id : Nat, of : Names]
                   \cup [tag : {"attrs"}, id : Nat, of : Contents]
                   \cup [tag : {"row"}, k : Nat, name : Nat, attrs : Nat])
    /\ content \in [Dicts -> Contents] /\ held \in [Dicts -> SUBSET Contents]
    /\ opens \in 0..MaxOpens /\ fails \in 0..MaxFails
    /\ meant \in Seq([name : Names, held : SUBSET Contents])

\* A thread inside a locked block is the lock's holder: close() included, no two
\* threads touch the buffer or the tables at once.
LockHeld ==
    \A t \in Threads : pc[t] \in Locked <=> Holds(t)

\* The first use of a name or attribute set writes its record: a reader that has
\* read a row has read, before it, the definition of both its ids.
EveryRowDecodes ==
    \A i \in RowsAt : /\ DefsBefore(i, "name", file[i].name) # {}
                      /\ DefsBefore(i, "attrs", file[i].attrs) # {}

\* Whatever fails, and even if the file is opened a second time, the definitions a
\* reader finds for a row never give it another measurement's name or the
\* attributes of another dict: at worst a state the same dict was in earlier.
NeverMislabelled ==
    \A i \in RowsAt :
        LET m == meant[file[i].k]
        IN  /\ \A j \in DefsBefore(i, "name", file[i].name) : file[j].of = m.name
            /\ \A j \in DefsBefore(i, "attrs", file[i].attrs) : file[j].of \in m.held

\* Measurements reach the file in the order they were accepted, none twice,
\* through batch, delay, transaction and close flushes and failed ones.
InOrderOnce ==
    \A i, j \in RowsAt : i < j => file[i].k < file[j].k

\* While nothing fails and the log is not opened again, every accepted
\* measurement is in the file or in the buffer.
NothingLost == \A k \in DOMAIN meant : InFile(k) \/ InBuffer(k)

\* Outside transactions the buffer never stays at the batch size, also for rows
\* that piled up behind another thread's transaction.
BatchBound == (lock = "nobody" /\ depth = 0) => Len(rows) < Batch

\* After close() every accepted measurement is in the closed file.
CloseDrains == pc["closer"] = "done" => \A k \in DOMAIN meant : InFile(k)

\* The buffer and the file implement a record channel: an accepted measurement
\* reaches the file once, in order, and in the end, also when no sender calls
\* again, a transaction stays open, or close() comes.  RowKeys: the measurements whose
\* rows a reader meets in the file, one after the other.
RowKeys(recs) == LET at == InOrder({i \in DOMAIN recs : recs[i].tag = "row"})
                 IN  [n \in DOMAIN at |-> recs[at[n]].k]
Channel == INSTANCE RecordChannel WITH
              sent <- [i \in DOMAIN meant |-> i], delivered <- RowKeys(file)
ImplementsChannel == Channel!Spec

-----------------------------------------------------------------------------
(* Why no measurement is mislabelled: the inductive strengthening.  An entry *)
(* of a table is never removed or changed, so a record that agrees with the  *)
(* tables when it is made still does when a reader meets it, in whichever    *)
(* incarnation of the file and after whichever failures.                     *)

\* The records that agree with the tables.
NameDefs == {r \in [tag : {"name"}, id : DOMAIN names, of : Names] :
                names[r.id] = r.of}
AttrDefs == {r \in [tag : {"attrs"}, id : DOMAIN attrs, of : Contents] :
                attrs[r.id] = r.of}
FitRows  == {r \in [tag : {"row"}, k : DOMAIN meant, name : DOMAIN names, attrs : DOMAIN attrs] :
                names[r.name] = meant[r.k].name /\ attrs[r.attrs] \in meant[r.k].held}

\* A cached id stands for something its dict has contained.
CacheFits ==
    \A d \in Dicts : /\ content[d] \in held[d]
                     /\ byId[d] # 0 => byId[d] \in DOMAIN attrs /\ attrs[byId[d]] \in held[d]

\* A measurement between its two lookups has its name in the table.
LookedUp ==
    \A t \in Threads :
        /\ pc[t] \in {"name", "attrs"} => cur \in Names \X Dicts
        /\ pc[t] = "attrs" => Interned(names, cur[1])

\* _depth counts the threads inside a transaction.
DepthCounts == IsFiniteSet(inTx) /\ depth = Cardinality(inTx)

ClientInv ==
    /\ LockHeld /\ DepthCounts /\ LookedUp /\ CacheFits
    /\ rows \in Seq(FitRows)
    /\ file \in Seq(NameDefs \cup AttrDefs \cup FitRows)

-----------------------------------------------------------------------------
(* A statement of the module's documentation that the code does not keep.    *)

\* A background flusher enforces the delay even when nothing else is appended.
DelayEnforced == (rows # <<>>) ~> (rows = <<>>)
===============================================================================
