--------------------------- MODULE MmapDestination ---------------------------
(***************************************************************************)
(* The destination every memory-mapped log of the repository writes        *)
(* through (mmap_destination.mojo): one writer thread, a log file that is   *)
(* pre-sized in steps of Chunk and mapped MAP_SHARED, and a sidecar         *)
(* `<path>.len` that holds the committed length.                            *)
(*                                                                         *)
(* The operating system is part of the model: `log` and `published` are    *)
(* what any process reads back (the page cache), `diskLog` and `diskLen`   *)
(* what a power failure leaves.  A byte is the number of the write() that   *)
(* stored it, 0 being the zero fill of the pre-sized file.                  *)
(***************************************************************************)
EXTENDS Integers, Sequences

CONSTANTS
    Chunk,          \* growth step of the mapping (64 MiB in the code)
    Sizes,          \* lengths a record may have
    MaxOffset,      \* bound: no write() beyond this offset
    MaxOpens,       \* bound: number of times the path is opened for writing
    MaxFails,       \* bound: number of system calls that fail
    MSync,          \* DAGR_LOG_MSYNC: whether flush() msyncs
    StoresInOrder,  \* the copied bytes become visible before the new length
    Writeback,      \* files the kernel writes back of its own accord
    MachineCrashes  \* whether the machine may lose power

ASSUME ConstantsOK ==
    /\ Chunk \in Nat \ {0}
    /\ Sizes \subseteq Nat \ {0}
    /\ MaxOffset \in Nat /\ MaxOpens \in Nat /\ MaxFails \in Nat
    /\ MSync \in BOOLEAN /\ StoresInOrder \in BOOLEAN /\ MachineCrashes \in BOOLEAN
    /\ Writeback \subseteq {"log", "len"}

VARIABLES
    pc,         \* where the writer thread is
    size,       \* MmapFileDestination.size: the mapped length
    committed,  \* MmapFileDestination.committed
    closed,     \* MmapFileDestination.closed
    need,       \* `end` of the write() in progress
    log,        \* content of the log file, as every process sees it
    published,  \* value of the sidecar, as every process sees it
    diskLog,    \* content of the log file on the disk
    diskLen,    \* value of the sidecar on the disk
    opens, fails,
    stream,     \* history: the bytes handed to write() since the last open
    writes,     \* history: number of write() calls that copied their bytes
    acked,      \* history: bytes of the write() calls that returned
    flushed,    \* history: bytes a completed msync flush() covered
    lenOf,      \* history: the open that stored the value of `published`
    diskLenOf   \* history: the open that stored the value of `diskLen`

own      == <<size, committed, closed, need>>
sidecar  == <<published, lenOf>>
file     == <<log, sidecar>>
diskSidecar == <<diskLen, diskLenOf>>
disk     == <<diskLog, diskSidecar>>
bounds   == <<opens, fails>>
history  == <<stream, writes, acked, flushed>>
vars     == <<pc, own, file, disk, bounds, history>>

Idle     == {"none", "closed", "dead"}
Opening  == {"created", "sized"}
Writing  == {"grow", "remap", "copy", "publish", "late"}
Flushing == {"sync_log", "sync_len"}
Closing  == {"close_log", "close_len", "trim"}
Live     == {"ready"} \cup Writing \cup Flushing \cup Closing
PCs      == Idle \cup Opening \cup Live

-----------------------------------------------------------------------------
\* Definitions named Faulty... are a step or helper with a plausible mistake in it:
\* they are no part of the specification, and a property below refutes each.

\* A file extended by creating it anew: the bytes it had are gone.
FaultyTruncated(f, n) == [i \in 1..n |-> IF n <= Len(f) THEN f[i] ELSE 0]

\* ftruncate(fd, n): cut, or extend with zeros.
Truncated(f, n) == [i \in 1..n |-> IF i <= Len(f) THEN f[i] ELSE 0]

\* unsafe_memcpy of a record into the mapping, at offsets from+1 .. to.
Copied(f, from, to, byte) ==
    [i \in 1..Len(f) |-> IF from < i /\ i <= to THEN byte ELSE f[i]]

Extended(s, to, byte) == [i \in 1..to |-> IF i <= Len(s) THEN s[i] ELSE byte]

\* One step of growth, where a long record may need several.
FaultyGrownSize(n) == size + Chunk

\* The loop of _grow: the least size + k * Chunk that is at least n.
GrownSize(n) == size + Chunk * ((n - size + Chunk - 1) \div Chunk)

Init ==
    /\ pc = "none"
    /\ size = 0 /\ committed = 0 /\ closed = FALSE /\ need = 0
    /\ log = <<>> /\ published = 0
    /\ diskLog = <<>> /\ diskLen = 0
    /\ opens = 0 /\ fails = 0
    /\ stream = <<>> /\ writes = 0 /\ acked = 0 /\ flushed = 0
    /\ lenOf = 0 /\ diskLenOf = 0

-----------------------------------------------------------------------------
(* __init__: the log is created and sized before the sidecar is touched.   *)

OpenLog ==
    /\ pc \in Idle /\ opens < MaxOpens
    /\ opens' = opens + 1
    /\ log' = <<>>                          \* open(path, "w") truncates
    /\ stream' = <<>> /\ acked' = 0 /\ flushed' = 0
    /\ committed' = 0 /\ size' = 0 /\ closed' = FALSE /\ need' = 0
    /\ pc' = "created"
    /\ UNCHANGED <<sidecar, disk, fails, writes>>

SizeLog ==
    /\ pc = "created"
    /\ log' = Truncated(log, Chunk)
    /\ size' = Chunk
    /\ pc' = "sized"
    /\ UNCHANGED <<committed, closed, need, sidecar, disk, bounds, history>>

OpenLen ==                                  \* create or truncate, map, store 0
    /\ pc = "sized"
    /\ published' = 0 /\ lenOf' = opens
    /\ pc' = "ready"
    /\ UNCHANGED <<own, log, disk, bounds, history>>

-----------------------------------------------------------------------------
(* write(bytes) with len(bytes) = n.                                       *)

\* `end` computed from the wrong side.
FaultyWrite(n) ==
    /\ pc = "ready"
    /\ need' = committed - n
    /\ pc' = "copy"
    /\ UNCHANGED <<size, committed, closed, file, disk, bounds, history>>

Write(n) ==
    /\ pc = "ready" /\ committed + n <= MaxOffset
    /\ need' = committed + n
    /\ pc' = IF need' > size THEN "grow" ELSE "copy"
    /\ UNCHANGED <<size, committed, closed, file, disk, bounds, history>>

GrowFile ==
    /\ pc = "grow"
    /\ log' = Truncated(log, GrownSize(need))
    /\ pc' = "remap"
    /\ UNCHANGED <<own, sidecar, disk, bounds, history>>

Remap ==
    /\ pc = "remap"
    /\ size' = GrownSize(need)
    /\ pc' = "copy"
    /\ UNCHANGED <<committed, closed, need, file, disk, bounds, history>>

\* The record's bytes reach the page cache.
CopyBytes ==
    /\ writes' = writes + 1
    /\ log' = Copied(log, committed, need, writes')
    /\ stream' = Extended(stream, need, writes')

\* The length is left to the next flush().
FaultyPublish ==
    /\ committed' = need
    /\ acked' = need
    /\ UNCHANGED sidecar

\* _publish_length, the last statement of write(): the call returns.
Publish ==
    /\ committed' = need
    /\ published' = need /\ lenOf' = opens
    /\ acked' = need

Copy ==
    /\ pc = "copy"
    /\ CopyBytes
    /\ pc' = "publish"
    /\ UNCHANGED <<own, sidecar, disk, bounds, acked, flushed>>

PublishLength ==
    /\ pc = "publish"
    /\ Publish
    /\ pc' = "ready"
    /\ UNCHANGED <<size, closed, need, log, disk, bounds, stream, writes, flushed>>

\* Both are plain stores: without StoresInOrder the length may be seen first.
PublishEarly ==
    /\ pc = "copy" /\ ~StoresInOrder
    /\ published' = need /\ lenOf' = opens
    /\ pc' = "late"
    /\ UNCHANGED <<own, log, disk, bounds, history>>

\* The record is never copied once its length was seen.
FaultyCopyLate ==
    /\ pc = "late"
    /\ stream' = Extended(stream, need, writes + 1) /\ writes' = writes + 1
    /\ committed' = need /\ acked' = need
    /\ pc' = "ready"
    /\ UNCHANGED <<size, closed, need, file, disk, bounds, flushed>>

\* The copy is seen at the latest when write() returns. Nothing in the code promises even
\* that to a reader on another core.
CopyLate ==
    /\ pc = "late"
    /\ CopyBytes
    /\ committed' = need /\ acked' = need
    /\ pc' = "ready"
    /\ UNCHANGED <<size, closed, need, sidecar, disk, bounds, flushed>>

-----------------------------------------------------------------------------
(* flush() and close().                                                    *)

Flush ==
    /\ pc = "ready" /\ MSync                \* without msync flush() returns
    /\ pc' = "sync_log"
    /\ UNCHANGED <<own, file, disk, bounds, history>>

\* The flag is set first: a second close(), after one that raised, returns at once.
Close ==
    /\ pc = "ready" /\ ~closed
    /\ closed' = TRUE
    /\ pc' = IF MSync THEN "close_log" ELSE "trim"
    /\ UNCHANGED <<size, committed, need, file, disk, bounds, history>>

\* The sidecar is msynced first.
FaultySyncLog ==
    /\ pc \in {"sync_log", "close_log"}
    /\ diskLen' = published /\ diskLenOf' = lenOf
    /\ pc' = IF pc = "sync_log" THEN "sync_len" ELSE "close_len"
    /\ UNCHANGED <<own, file, diskLog, bounds, history>>

SyncLog ==
    /\ pc \in {"sync_log", "close_log"}
    /\ diskLog' = log
    /\ pc' = IF pc = "sync_log" THEN "sync_len" ELSE "close_len"
    /\ UNCHANGED <<own, file, diskSidecar, bounds, history>>

SyncLen ==
    /\ pc \in {"sync_len", "close_len"}
    /\ diskLen' = published /\ diskLenOf' = lenOf
    /\ flushed' = acked
    /\ pc' = IF pc = "sync_len" THEN "ready" ELSE "trim"
    /\ UNCHANGED <<own, file, diskLog, bounds, stream, writes, acked>>

\* close() leaves the file at its mapped size.
FaultyTrim ==
    /\ pc = "trim"
    /\ pc' = "closed"
    /\ UNCHANGED <<own, file, disk, bounds, history>>

Trim ==
    /\ pc = "trim"
    /\ log' = Truncated(log, committed)
    /\ pc' = "closed"
    /\ UNCHANGED <<own, sidecar, disk, bounds, history>>

\* A system call fails and the method raises: what it did before stays done.  After a
\* close() that raised, the object takes calls as before, but can no more be closed.
Fail ==
    /\ pc \in Opening \cup Flushing \cup Closing \cup {"grow", "remap"} /\ fails < MaxFails
    /\ fails' = fails + 1
    /\ pc' = IF pc \in Opening THEN "none" ELSE "ready"
    /\ \/ UNCHANGED sidecar
       \/ pc = "sized" /\ published' = 0 /\ lenOf' = opens  \* only its map failed
    /\ UNCHANGED <<own, log, disk, opens, history>>

-----------------------------------------------------------------------------
(* The environment.                                                        *)

WritebackLog ==
    /\ "log" \in Writeback /\ diskLog # log
    /\ diskLog' = log
    /\ UNCHANGED <<pc, own, file, diskSidecar, bounds, history>>

WritebackLen ==
    /\ "len" \in Writeback /\ diskLen # published
    /\ diskLen' = published /\ diskLenOf' = lenOf
    /\ UNCHANGED <<pc, own, file, diskLog, bounds, history>>

\* The writing process dies: its stores so far stay in the page cache.
ProcessCrash ==
    /\ pc \notin Idle
    /\ pc' = "dead"
    /\ UNCHANGED <<own, file, disk, bounds, history>>

\* The machine dies: every process reads back what the disk held.
MachineCrash ==
    /\ MachineCrashes /\ opens > 0
    /\ pc' = "dead"
    /\ log' = diskLog /\ published' = diskLen /\ lenOf' = diskLenOf
    /\ acked' = flushed
    /\ UNCHANGED <<own, disk, bounds, stream, writes, flushed>>

-----------------------------------------------------------------------------
Writer ==
    \/ OpenLog \/ SizeLog \/ OpenLen
    \/ \E n \in Sizes : Write(n)
    \/ GrowFile \/ Remap \/ Copy \/ PublishLength \/ PublishEarly \/ CopyLate
    \/ Flush \/ Close \/ SyncLog \/ SyncLen \/ Trim
    \/ Fail

Environment == WritebackLog \/ WritebackLen \/ ProcessCrash \/ MachineCrash

Next == Writer \/ Environment

Spec == Init /\ [][Next]_vars

-----------------------------------------------------------------------------
(* What the destination promises.                                          *)

TypeOK ==
    /\ pc \in PCs
    /\ size \in Nat /\ committed \in Nat /\ need \in Nat
    /\ closed \in BOOLEAN
    /\ log \in Seq(Nat) /\ published \in Nat
    /\ diskLog \in Seq(Nat) /\ diskLen \in Nat
    /\ opens \in 0..MaxOpens /\ fails \in 0..MaxFails
    /\ stream \in Seq(Nat) /\ writes \in Nat
    /\ acked \in Nat /\ flushed \in Nat
    /\ lenOf \in 0..opens /\ diskLenOf \in 0..opens

\* The first n bytes of file f are in place: they are the bytes written.
InPlace(f, n) ==
    /\ n <= Len(f) /\ n <= Len(stream)
    /\ \A i \in 1..n : f[i] = stream[i]

\* The committed length is updated AFTER the record bytes are in place, so a
\* reader that takes the sidecar's value and reads the log up to it sees only
\* written bytes, at any point of write(), growth, flush() or close(), and
\* after a crash of either kind.
PublishedInPlace == lenOf = opens => InPlace(log, published)

\* The committed length does not reach the disk before the bytes it points at: what
\* the comment of flush() asks for.
DurableInPlace == diskLenOf = opens => InPlace(diskLog, diskLen)

\* What flush() does give: the bytes that a completed one covered are on the disk,
\* below the length on the disk, whatever the kernel writes back by itself, in
\* whatever order, and whatever is written, raises or dies afterwards.
FlushedIsDurable ==
    flushed > 0 => diskLenOf = opens /\ flushed <= diskLen /\ InPlace(diskLog, flushed)

\* A write() that returned is below the published length, its bytes are in the file,
\* and there it stays: the death of the process loses none, that of the machine only
\* what no completed flush() covered.
AckedIsPublished == acked > 0 => lenOf = opens /\ acked <= published /\ InPlace(log, acked)

\* Even where the two stores are seen in the other order, the bytes are in place
\* by the time write() returns: a length read while no write() is running is safe.
QuiescentInPlace == pc = "ready" => InPlace(log, published)

\* After a close() that did not raise, whatever raised before it, the log is exactly
\* the written stream: no zero tail, no byte lost.
ClosedIsPlainStream == pc = "closed" => log = stream /\ published = Len(log)

\* Growth, flush and close never move or change a published byte: two readers
\* that read the same range at different times read the same bytes.
PublishedBytesStable ==
    [][(opens' = opens /\ lenOf = opens /\ lenOf' = opens)
         => LET n == IF published <= published' THEN published ELSE published'
            IN  /\ n <= Len(log')
                /\ SubSeq(log', 1, n) = SubSeq(log, 1, n)]_vars

-----------------------------------------------------------------------------
(* Why PublishedInPlace holds when the two stores are seen in order: the    *)
(* inductive strengthening.                                                 *)

\* While write() grows the file, `end` is past the mapping.
NeedInv == pc \in {"grow", "remap"} => need > size

\* An open destination owns the sidecar, and its private `committed` agrees with
\* it; the mapping is inside the file; the bytes handed over so far are in place,
\* one record ahead of the length while write() is between its two stores.
WriterInv ==
    /\ pc # "late"
    /\ pc \in Opening => /\ committed = 0 /\ stream = <<>> /\ size <= Len(log)
                         /\ lenOf # opens /\ diskLenOf # opens
    /\ pc \in Live => /\ lenOf = opens /\ committed = published
                      /\ committed <= size /\ size <= Len(log)
                      /\ Len(stream) = IF pc = "publish" THEN need ELSE committed
                      /\ InPlace(log, Len(stream))
    /\ pc \in {"copy", "publish"} => committed < need /\ need <= size
    /\ pc = "remap" => Len(log) = GrownSize(need)

\* Acknowledged and flushed bytes, whatever the order the stores are seen in.
AckInv ==
    /\ acked > 0 => lenOf = opens /\ acked <= published
    /\ flushed > 0 => diskLenOf = opens /\ flushed <= diskLen
    /\ flushed <= acked
    /\ pc \in Opening => acked = 0
    /\ pc \in Live => lenOf = opens /\ acked <= committed
    /\ pc \in Writing => committed <= need
    /\ pc = "late" => published = need

\* Where their bytes are: between the two msyncs of a flush the disk holds all that
\* is acknowledged.
BytesInv ==
    /\ InPlace(log, acked) /\ InPlace(diskLog, flushed)
    /\ pc \in {"sync_len", "close_len"} => InPlace(diskLog, acked)
=============================================================================
