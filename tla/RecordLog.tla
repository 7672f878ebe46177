------------------------------ MODULE RecordLog ------------------------------
(***************************************************************************)
(* The record log of design 1: the model worker appends one record per      *)
(* scheduler step to a buffered file (the code max_patch.py adds to          *)
(* scheduler/utils.py, MetricsLog and BufferedFileDestination), and a thread *)
(* of the telemetry process follows the file (record_publish.py).            *)
(*                                                                         *)
(* The worker is one thread, but the reader sees the file between any two    *)
(* write(2) calls, so pc stops it there.  Records are numbered as they are    *)
(* accepted, the header is record 0, and a byte is the number of its record.  *)
(* (With a memory-mapped log the worker is MmapDestination's writer and the   *)
(* same reader is MeasurementTail's.)                                         *)
(***************************************************************************)
EXTENDS RecordDecoding

CONSTANTS
    Sizes,       \* the encoded sizes of records
    Capacity,    \* BufferedFileDestination.capacity
    MaxRecords,  \* bound on the records of a run
    MaxFails,    \* bound on the write_bytes calls that raise
    Tears        \* a write_bytes that raises may have written part of its bytes

Header == 0
HeaderBytes == <<Header, Header>>

ASSUME LogConstants ==
    /\ Sizes \subseteq Nat \ {0} /\ Capacity \in Nat /\ Capacity >= Len(HeaderBytes)
    /\ MaxRecords \in Nat /\ MaxFails \in Nat /\ Tears \in BOOLEAN

VARIABLES
    \* the worker
    pc,         \* where the worker is, see Writing
    buffer,     \* BufferedFileDestination.buffer
    new,        \* the bytes handed to write() and not yet taken
    out,        \* the bytes of the current write_bytes not yet in the file
    pending,    \* _REC_PENDING
    due,        \* now - _REC_LAST_FLUSH >= _REC_FLUSH_S
    fails,      \* how many write_bytes calls have raised
    lapsed,     \* history: one has raised, and no append or flush has succeeded since
    stream,     \* history: the bytes of the records accepted so far
    \* shared
    file,
    \* the reader
    offset,     \* bytes of the file read
    rest,       \* tail_and_publish's pending bytes
    headerDone,
    published,  \* history: the records handed to publish, in order
    garbled     \* history: bytes were decoded that are not the stream's

worker == <<pc, buffer, new, out, pending, due, fails, lapsed, stream>>
reader == <<offset, rest, headerDone, published, garbled>>
vars == <<worker, file, reader>>

\* Inside write_bytes: draining for an append, writing a large record, flushing
\* after an append, while idle, or at the end of the worker's loop.
Writing == {"drain", "direct", "flush", "idle", "exit"}

\* Every byte the log has been given, those of the call in progress included.
Given == stream \o new

Init ==
    /\ pc = "unopened"
    /\ buffer = <<>> /\ new = <<>> /\ out = <<>> /\ stream = <<>>
    /\ pending = FALSE /\ due = TRUE /\ fails = 0 /\ lapsed = FALSE
    /\ file = <<>>
    /\ offset = 0 /\ rest = <<>> /\ headerDone = FALSE
    /\ published = <<>> /\ garbled = FALSE

-----------------------------------------------------------------------------
\* Plausible mistakes, as in RecordDecoding.

FaultyFits(n) == Len(buffer) <= Capacity

\* A record that goes straight to the file overtakes the buffered ones.
FaultyTooLong ==
    /\ pc = "write" /\ Len(buffer) + Len(new) > Capacity
    /\ IF Len(new) >= Capacity THEN pc' = "direct" /\ out' = new
                               ELSE pc' = "drain" /\ out' = buffer
    /\ UNCHANGED <<buffer, new, pending, due, fails, lapsed, stream, file, reader>>

\* Only a flush touches the flag.
FaultyCheck ==
    /\ pc = "check"
    /\ IF due THEN pc' = "flush" /\ out' = buffer /\ UNCHANGED lapsed
              ELSE pc' = "loop" /\ lapsed' = FALSE /\ UNCHANGED out
    /\ UNCHANGED <<buffer, new, pending, due, fails, stream, file, reader>>

\* The buffered destination is left to its destructor, which drains nothing.
FaultyExit ==
    /\ pc \in {"unopened", "loop"}
    /\ pc' = "stopped" /\ UNCHANGED <<out, buffer, new, pending, due, fails, lapsed, stream, file, reader>>

\* A chunk that ends inside the header is forgotten.
FaultyAwaitHeader(data) == <<>>

-----------------------------------------------------------------------------
\* _rec_append: the first call opens the log, whose header goes to the buffer.
AppendRecord ==
    /\ pc \in {"unopened", "loop"}
    /\ LET opened == IF pc = "unopened" THEN HeaderBytes ELSE stream
           next == opened[Len(opened)] + 1
       IN  /\ next <= MaxRecords
           /\ stream' = opened
           /\ buffer' = IF pc = "unopened" THEN HeaderBytes ELSE buffer
           /\ \E n \in Sizes : new' = [i \in 1..n |-> next]
    /\ pc' = "write"
    /\ UNCHANGED <<out, pending, due, fails, lapsed, file, reader>>

Fits(n) == Len(buffer) + n <= Capacity

\* write: the record fits, or the buffer is drained first.
Buffer ==
    /\ pc = "write" /\ Fits(Len(new))
    /\ pc' = "check"
    /\ buffer' = buffer \o new /\ stream' = stream \o new /\ new' = <<>>
    /\ UNCHANGED <<out, pending, due, fails, lapsed, file, reader>>

TooLong ==
    /\ pc = "write" /\ ~Fits(Len(new))
    /\ pc' = "drain" /\ out' = buffer
    /\ UNCHANGED <<buffer, new, pending, due, fails, lapsed, stream, file, reader>>

\* One write(2) of a write_bytes: the kernel takes some of the bytes.
WriteSome ==
    /\ pc \in Writing
    /\ \E n \in 1..Len(out) :
          file' = file \o SubSeq(out, 1, n) /\ out' = SubSeq(out, n + 1, Len(out))
    /\ UNCHANGED <<pc, buffer, new, pending, due, fails, lapsed, stream, reader>>

\* write_bytes raises: the call it serves is left at once, with nothing undone.
WriteFails ==
    /\ pc \in Writing /\ out # <<>> /\ fails < MaxFails
    /\ Tears \/ out = (IF pc = "direct" THEN new ELSE buffer)
    /\ fails' = fails + 1 /\ lapsed' = TRUE
    /\ pc' = IF pc = "exit" THEN "stopped" ELSE "loop"
    /\ out' = <<>> /\ new' = <<>>
    /\ UNCHANGED <<buffer, pending, due, stream, file, reader>>

\* The drain of a write() is done: a record of at least the capacity goes to the
\* file by itself, any other to the buffer.
Drained ==
    /\ pc = "drain" /\ out = <<>>
    /\ IF Len(new) >= Capacity
       THEN /\ pc' = "direct" /\ out' = new /\ buffer' = <<>>
            /\ UNCHANGED <<new, stream>>
       ELSE /\ pc' = "check" /\ buffer' = new /\ stream' = stream \o new /\ new' = <<>>
            /\ UNCHANGED out
    /\ UNCHANGED <<pending, due, fails, lapsed, file, reader>>

WrittenThrough ==
    /\ pc = "direct" /\ out = <<>>
    /\ pc' = "check" /\ stream' = stream \o new /\ new' = <<>>
    /\ UNCHANGED <<buffer, out, pending, due, fails, lapsed, file, reader>>

\* _rec_append, after the append: flush when the interval has passed.
Check ==
    /\ pc = "check"
    /\ IF due THEN pc' = "flush" /\ out' = buffer /\ UNCHANGED <<pending, lapsed>>
              ELSE pc' = "loop" /\ pending' = TRUE /\ lapsed' = FALSE /\ UNCHANGED out
    /\ UNCHANGED <<buffer, new, due, fails, stream, file, reader>>

\* _rec_idle_flush, called on every iteration that made no progress.
NoProgress ==
    /\ pc = "loop" /\ pending
    /\ pc' = "idle" /\ out' = buffer
    /\ UNCHANGED <<buffer, new, pending, due, fails, lapsed, stream, file, reader>>

\* _rec_shutdown, called when the worker's loop ends, by an exception or not.
Exit ==
    /\ pc \in {"unopened", "loop"}
    /\ IF pending THEN pc' = "exit" /\ out' = buffer
                  ELSE pc' = "stopped" /\ UNCHANGED out
    /\ UNCHANGED <<buffer, new, pending, due, fails, lapsed, stream, file, reader>>

\* A flush is done, whoever asked for it.
Flushed ==
    /\ pc \in {"flush", "idle", "exit"} /\ out = <<>>
    /\ pc' = IF pc = "exit" THEN "stopped" ELSE "loop"
    /\ buffer' = <<>> /\ pending' = FALSE /\ due' = FALSE /\ lapsed' = FALSE
    /\ UNCHANGED <<new, out, fails, stream, file, reader>>

Tick ==
    /\ ~due /\ due' = TRUE
    /\ UNCHANGED <<pc, buffer, new, out, pending, fails, lapsed, stream, file, reader>>

\* The process dies, and its memory with it.
Crash ==
    /\ pc \notin {"stopped", "dead"}
    /\ pc' = "dead" /\ buffer' = <<>> /\ out' = <<>>
    /\ UNCHANGED <<new, pending, due, fails, lapsed, stream, file, reader>>

-----------------------------------------------------------------------------
\* What becomes of the bytes while the header is not complete.
AwaitHeader(data) == data

\* tail_and_publish: read to the end of the file, decode what is complete.
ReadMore ==
    /\ Len(file) > offset /\ ~garbled
    /\ offset' = Len(file)
    /\ LET data  == rest \o SubSeq(file, offset + 1, Len(file))
           from  == offset - Len(rest)
           whole == Complete(Given, data, from)
           ready == headerDone \/ Header \in whole
       IN  IF ~Sound(Given, data, from)
           THEN garbled' = TRUE /\ UNCHANGED <<rest, headerDone, published>>
           ELSE /\ UNCHANGED garbled
                /\ headerDone' = ready
                /\ rest' = IF ready THEN Leftover(Given, data, from) ELSE AwaitHeader(data)
                /\ published' = IF ready THEN published \o InOrder(whole \ {Header})
                                         ELSE published
    /\ UNCHANGED <<worker, file>>

WorkerStep == \/ Buffer \/ TooLong \/ WriteSome \/ Drained \/ WrittenThrough
              \/ Check \/ Flushed

Next == WorkerStep \/ AppendRecord \/ WriteFails \/ NoProgress \/ Exit \/ Tick \/ Crash \/ ReadMore

\* The worker runs on inside a call, an idle scheduler comes back to its loop,
\* and the reader polls for ever.  Steps, failures and ends are nobody's duty.
Spec == /\ Init /\ [][Next]_vars
        /\ WF_vars(WorkerStep) /\ WF_vars(NoProgress) /\ WF_vars(ReadMore)

-----------------------------------------------------------------------------
WorkerTypeOK ==
    /\ pc \in Writing \cup {"unopened", "loop", "write", "check", "stopped", "dead"}
    /\ buffer \in Seq(Nat) /\ Len(buffer) <= Capacity
    /\ new \in Seq(Nat) /\ out \in Seq(Nat) /\ stream \in Seq(Nat) /\ file \in Seq(Nat)
    /\ pending \in BOOLEAN /\ due \in BOOLEAN /\ fails \in 0..MaxFails /\ lapsed \in BOOLEAN

ReaderTypeOK ==
    /\ offset \in 0..Len(file) /\ rest \in Seq(Nat) /\ headerDone \in BOOLEAN
    /\ published \in Seq(Nat) /\ garbled \in BOOLEAN

TypeOK == WorkerTypeOK /\ ReaderTypeOK

\* Buffer and file hold every accepted byte once, in order, whatever the mixture of
\* drains, large records and flushes, and also when a write_bytes raises before it
\* wrote anything (BufferedFileDestination: _drain clears only what was written).
BytesInPlace ==
    (~Tears \/ fails = 0) =>
        /\ pc \in Writing \ {"direct"} => file \o out = stream
        /\ pc = "direct" => file \o out = Given
        /\ pc = "dead" => IsPrefix(file, Given)
        /\ pc \notin Writing \cup {"dead"} => file \o buffer = stream

\* No record waits in the buffer of a worker in its loop without the flag that makes
\* the idle flush write it (_REC_PENDING).  A call that raised may leave one, up to the
\* next append that does not raise, whatever was left before it.
PendingCovers == (pc = "loop" /\ buffer # <<>> /\ ~lapsed) => pending

\* A worker that left its loop has written every record (_rec_shutdown), those of
\* appends whose flush raised included, unless the last call it made was one that raised.
ExitDrains == (pc = "stopped" /\ ~lapsed /\ (~Tears \/ fails = 0)) => file = stream

\* A record appended is published in the end, also when it is the last before the
\* scheduler goes idle (the tail the idle flush was added for), and also after calls
\* that raised, unless nothing is appended after the last of them.
EveryRecordOut ==
    \A r \in 1..MaxRecords :
        (pc = "check" /\ r \in ToSet(stream))
            ~> (r \in ToSet(published) \/ pc = "dead" \/ lapsed \/ (Tears /\ fails > 0))

\* The file is a record channel from the worker to tail_and_publish: in order, once,
\* and every record that is in the file, also when the worker dies or a write raises.
Channel == INSTANCE RecordChannel WITH
              sent <- InOrder(Complete(Given, file, 0) \ {Header}), delivered <- published
ImplementsChannel == Channel!Spec
=============================================================================
