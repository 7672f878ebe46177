# Verification of the Dagr telemetry prototype

TLA+ models of the telemetry path of this repository, the TLC runs that check
them on small instances, and TLAPS proofs of the properties that matter most.
Paths below are relative to the repository's root (`src/` in `PROJECT.json`).

The prototype replaces a multiprocessing queue by files. A producing process
appends records to a memory-mapped log; other processes follow that log and
never talk back. Everything that makes the system correct therefore sits in a
few narrow protocols: the order in which bytes and a committed length reach a
reader, the lock and the interning tables of the client, the offset a follower
keeps, and the registry an aggregator builds from several files. The second half of the
system is a script that rewrites seven files of an installed MAX, so that a server computes
the values of a scheduler step faster and hands them to such a log: what makes that correct is
that the rewritten code computes what MAX's own does, and that a step arrives as it was
computed.

## 1. Inventory

| part | source | state | operations | module |
|---|---|---|---|---|
| memory-mapped destination | `mmap_destination.mojo` | mapped size, committed length, closed flag; the log and its `.len` sidecar in the page cache and on disk | open, write (grow, copy, publish), flush (msync log, msync sidecar), close (flush, trim) | `MmapDestination` |
| measurement log | `measurement_log.mojo` | a destination and the stream's framing | define_name, define_attrs, append_rows, flush, close; decode | in `MetricClient` (writer), `MeasurementTail` (decoder) |
| metric client | `dagr_metric_client.py` | row buffer, name and attribute tables, identity cache, `_depth`, `_lock`, `_stop`, clocks, `_log` | send_measurement, transaction, _flush_loop, _flush, close, _open | `MetricClient` |
| measurement tail | `measurement_publish.py` | per file: descriptors, offset, pending bytes, start position, tables | discover, sample length, pread, decode, commit | `MeasurementTail` |
| Prometheus aggregator and endpoint | `prom_core.mojo`, `telemetry_server.mojo`, `prom_agg.mojo` | registry of series; per file: offset, pending bytes, tables | ingest, observe, render | `Telemetry` |
| OTLP egress | `otlp.mojo`, `otlp_push.mojo` | none of its own | build_request, POST loop | `Telemetry` (bucket counts) |
| batch record log, worker side | `max_patch.py` (`_rec_*`), `metrics_log.mojo` | open log, pending flag, flush clock, counters | append a record, interval flush, idle flush, flush at exit | `RecordLog` |
| record tail | `record_publish.py` | offset and pending bytes of one file | follow, decode, publish | `RecordLog` |
| values of a step | `record_spec.py`, `gen_record_code.py`, `schema.py`, `pyconv.mojo` | none: conversions of a tuple, a record and a `BatchMetrics` | encode, decode, rebuild | `RecordValues` |
| batch log and slot writers | `batch_log.mojo`, `slot_writers.py` | one slot that is filled again for every step | append; fill (three writers) and commit | `StepSlot`, `SchedulerStep` |
| Dagr framing | `gen/mojo/*` | generated readers and writers | encode, decode, buffered destination | used through its contract, see section 5 |
| patcher | `max_patch.py`, `fast_values_patch.py`, `astpatch.py` | the package's files, their `.orig` backups, how far a run is | pristine, locate, edit, write; killed or refused; an upgrade | `AstPatch`, `MaxPatches`, `Patcher` |
| fast metric values | `fast_values_patch.py` | the counters of the KV cache | one pass over the batch, counts, snapshot and reset | `FastValues`, `SchedulerStep` |
| metric table, mmap binding | `gen_prom_table.py`, `third_party/mm_mmap` | none | | not modelled |
| benchmarks, comparisons, scripts | `bench.py`, `parity_test.py`, `tests/`, ... | none | | not modelled |

How the parts interact: the client calls the log through one extension call per
batch, under its lock; the log writes each record with one `write()` of the
destination; the destination shares two mapped files with any number of readers
in other processes; the tail and the aggregator poll the sidecar and read the log
up to it. There is no message, acknowledgement or lock between processes.

What is hard to get right, and what makes each part correct:

- *Destination.* A reader may look at any moment: between the copy and the
  length, during a growth, between the two msyncs, after either kind of crash, and
  while a path is opened again. Correct means: the published length is never ahead
  of the bytes, in memory and on disk; published bytes never change; what a
  returned `write()` published stays; a closed log is a plain stream.
- *Client.* Senders, a flusher thread, transactions that nest across threads and
  a `close()` that does half of its work outside the lock, with extension calls that
  raise. Correct means: no measurement lost, repeated, reordered or given another
  one's name or attributes; the batch and delay bounds; close drains.
- *Tail.* A stale length, preads cut anywhere, a writer that dies or starts over.
  Correct means: it decodes on record boundaries, delivers once and in order, and
  everything in the end.
- *Record log.* Records below, at and above the capacity of a buffer that drains in several
  write(2) calls, three callers of a flush and a flag between them, writes that raise, and a
  reader that sees every state of the file. Correct means: bytes in order and once, no record
  left behind when the scheduler idles or the worker ends.
- *Aggregator.* Many files read one after the other while all of them grow, a
  scrape that raises half-way, ids that mean something else in every file. Correct
  means: the registry is what one pass over the records would give.

- *Patcher.* A run rewrites one file after the other and may end anywhere; the next one may
  have other flags. Edits of a file are made one by one in a text that moves under them.
  Correct means: a run that finishes leaves what was asked for and nothing of earlier runs, every
  edit stands where it was meant to, and MAX's own text is never lost.
- *Values of a step.* Counters are read and reset in two steps, through an alias, by code
  that takes shortcuts past classes a connector may override. The values cross three
  representations, or a slot that still holds the step before. Correct means: every value is what
  MAX's own code gives, nothing is counted twice or never, and a step arrives as computed or
  not at all.

`PROJECT.json` lists each hazard at its line with the properties that cover it,
and those that nothing covers yet with the reason.

## 2. Modules

| module | what it is |
|---|---|
| `RecordChannel` | the abstract specification of a log: records are sent, one or several at a time, and delivered in order, once, and all of them in the end |
| `RecordDecoding` | what both tails ask of the decoder: which records of a piece of a stream are complete |
| `MmapDestination` | the destination, with the page cache and the disk |
| `MeasurementTail` | EXTENDS `MmapDestination` by one follower; refines `RecordChannel` |
| `MetricClient` | the client with its log; refines `RecordChannel` (EXTENDS `RecordDecoding` for the rows in order) |
| `MCMetricClient` | symmetry sets for TLC |
| `RecordLog` | the worker's buffered record log and the thread that publishes it; refines `RecordChannel` |
| `Telemetry` | the aggregator over several producers, and the OTLP bucket counts |
| `AstPatch` | texts as lines, how an edit finds its place and what it does there (operators only) |
| `MaxPatches` | EXTENDS `AstPatch`: the edits of each of the seven files, by flag |
| `Patcher` | EXTENDS `MaxPatches`: the runs of the script over the package and its backups |
| `RecordValues` | the values of a step as tuple, record and `BatchMetrics` (operators only) |
| `StepSlot` | EXTENDS `RecordValues`: the cells of the slot, its writers, and what the batch log reads |
| `FastValues` | MAX's own computation of the values, and the patched one (operators only) |
| `SchedulerStep` | EXTENDS `StepSlot`, `FastValues`: a server that computes steps and hands them on |
| `PatchedServer` | composes `Patcher` and `SchedulerStep`: a server started from what runs of the script left |
| `MCPatcher`, `MCPatchedServer` | two releases of MAX, the servers and steps for TLC |
| `RecordDecoding_proofs` | lemmas about the decoder and about positions in order, for the two tails and the client |
| `Edits_proofs` | lemmas about edits of any text: where they land, what they leave alone, what stands where afterwards |
| `MeasurementTail_proofs` (EXTENDS `RecordDecoding_proofs`; also the theorems of `MmapDestination`), `RecordLog_proofs`, `MetricClient_proofs`, `Telemetry_proofs`, `Patcher_proofs` (EXTENDS `Edits_proofs`), `PatchedServer_proofs` (EXTENDS the one before; also the theorems of `SchedulerStep`) | theorems |

Definitions named `Faulty...` are steps or helpers with a plausible mistake in
them. No specification uses them; each stands for a bug that one of the properties
refutes, and documents what that property is worth.

### MmapDestination

A byte of a file is the number of the `write()` that stored it, 0 for the zero
fill, so that "the right bytes" can be said without payloads. `log` and `published`
are what every process reads back (the page cache), `diskLog` and `diskLen` what a
power failure leaves. `pc` stops the writer between any two system calls or stores
that another process could tell apart:

    OpenLog; SizeLog; OpenLen                      __init__
    Write(n); [GrowFile; Remap;] Copy; PublishLength   write, _grow, _publish_length
    Flush; SyncLog; SyncLen                        flush
    Close; [SyncLog; SyncLen;] Trim                close (at "close_log", "close_len", "trim")
    Fail                                           a system call fails and the method raises

Memory order is a parameter. The copy and the length are plain stores, so with
`StoresInOrder = FALSE` the actions `PublishEarly` and `CopyLate` let a reader see the
length first; the late copy is seen at the latest when `write()` returns, which is more than the
code promises to a reader on another core. `Writeback` names the files the kernel writes back by itself,
`MachineCrashes` adds power failures, `ProcessCrash` may happen at any time, and `Fail`
models failing ftruncate, mmap and msync calls at most `MaxFails` times: what was done before stays done,
and after a `close()` that raised the object takes writes and flushes as before, but a second `close()` returns
at once. The history
variables `stream`, `acked`, `flushed`, `lenOf` say what was written, what a returned
call promised, and which open a sidecar value belongs to.

### MeasurementTail

The follower samples the sidecar (`SampleLength`), and in a later step preads up to
the sampled length, receiving any non-empty part of it (`ReadChunk`). `Consume` is the
decoder: the header first, then every complete record, the rest kept in `pending`.
A decode that would start off a record boundary or on bytes that are not the
stream's sets `garbled`; the model does not go on from there, because what the code
makes of such bytes is not specified. A file is discovered once both its files exist:
until then the code's attempt fails and is repeated.

### MetricClient

Each `with self._lock` block is a sequence of steps of one thread, split where the
extension is called: `Send`, `InternName`, `InternAttrs`, `Flush`. `Enter` and `Exit` are
`transaction()`, `Wake` and `CheckDelay` the flusher's loop, `CloseBegin` to `CloseClear`
the four parts of `close()`, of which only the flush holds the lock. `file` is the
sequence of records at the client's path; opening the log truncates it. Every
extension call may raise, having written a prefix of its records. The dicts callers
pass are objects with changing contents (`Mutate`), because the identity cache
remembers the object. Time is the flag `due`: max_delay_s has passed since the last
flush. The msync cadence is part of `Flush` (it adds one more way to raise).

`Races = FALSE` makes callers stop before `close()` starts; `Races = TRUE` is what the
code allows.

### RecordLog

The record log of the model worker in its buffered form (`max_patch.py` `_rec_*`,
`metrics_log.mojo`, `BufferedFileDestination` in `gen/mojo/dagr_writer.mojo`), and
`tail_and_publish` of `record_publish.py`. A byte is the number of its record, the header is
record 0. `pc` stops the worker between any two write(2) calls:

    AppendRecord; Buffer | TooLong; Drained; [WrittenThrough]   _rec_append, write, _drain
    Check; [Flushed]                                            _rec_append, the interval
    NoProgress; Flushed                                         _rec_idle_flush
    Exit; [Flushed]                                             _rec_shutdown
    WriteSome, WriteFails                                       inside write_bytes
    ReadMore                                                    tail_and_publish

Time is the flag `due`. `WriteFails` is a `write_bytes` that raises: before it wrote anything, or
with `Tears = TRUE` also after. Each caller keeps what it had set so far, which is why
`_REC_PENDING` may stay FALSE over a full buffer: the history variable `lapsed` says that a call raised and
no append or flush has succeeded since. With a memory-mapped log
(`MAX_SERVE_RECORD_METRICS_MMAP=1`) the worker is the writer of `MmapDestination` and the reader
the follower of `MeasurementTail`; that combination has no module of its own.

### Telemetry

Files are sequences of records, because a committed length always ends a record
(that is `PublishedInPlace` of `MmapDestination`, and one `write()` per record); so the
aggregator's carry-over of partial records has nothing to do here. A producer takes a
measurement, interns as the client does, and publishes the definitions and the row one
by one (`Measure`, `Publish`). A row holds any timestamp: threads stamp a measurement before they
wait for the client's lock, so rows of one file need not stand in the order of their times. A producer
may die with its file complete, or after creating the log and before the sidecar. A scrape lists the directory, then for each file in any order
raises (`SampleRaises`), skips (`Skip`), or reads what is new (`ReadNew`) and decodes it
record by record (`DecodeRecord`). Counters and sum gauges are treated alike by the code
and by `Counters`.

### Patcher

A text is a sequence of lines with their indentation; a statement is its line and the
deeper lines after it, which is all `astpatch.py` asks of the AST. An edit names the function it
is in, the statement it looks for, and what it does there (`Edit`); a place that is not found, or
a text that would not parse (`Compiles`), is `NotFound`, and ends the run. `MaxPatches` holds the
edits in the order in which the code makes them, also where a later one looks for what an
earlier one wrote, or where two places come from one parse (`Around`).

    StartRun(flags)                     python3 max_patch.py, with PATCH_FAST_VALUES / PATCH_KV_SNAPSHOT
    Backup; Truncate; WriteFile         pristine(); the edits and open(path, "w"); write
    TornCopy, Refuse, Killed            ends inside copyfile, because an edit raises, anywhere
    Upgrade                             another release of MAX over the package

A run has no state but `at`, the number of the file in work, and `stage`. Lines are what the
edits look for and what is around them, so MAX's files are a dozen lines each; release 1 has
additional lines, imports and a class before the one that is meant.

### SchedulerStep

    StartServer                         with the edits its files have (Code), a KV cache and a hand-off
    Schedule; Count; Compute            the batch, what is counted meanwhile, compute_values
    Record                              log_metrics with MAX_SERVE_RECORD_METRICS, up to the telemetry process
    AppendObject                        BatchLog.append
    StructStep, NumpyStep, DagrPyStep   a writer of slot_writers.py, then BatchLog.commit

A KV cache is what its connector and block manager override of MAX's classes and its degree of
data parallelism: these are what the shortcuts of `fast_values_patch.py` test for, so `Code` (which
of the five edits are in the installed files) and `CacheKinds` together are every path there is.
`kv` holds the manager's counters and the connector's; `reported` and `events` are histories of
what steps reported and what was counted. A block that is served, or a transfer that is measured,
between the read and the reset of one `compute_values` is not modelled: both run on the
scheduler's thread.

A step's values are a function from field names; `Stored` and `Restored` convert one value, and
an int outside 64 bits raises (`IntFits`), in which case the step is not recorded. A cell of the slot is
named after its field; the bits of the presence and kind bytes are sets. `StoredBefore` is what a
writer that raises has stored. How a record then travels is the subject of `RecordLog`.

### PatchedServer

The script runs while no server does. A server starts from any package whose files are whole:
after runs that finished, were refused or killed, with any flags, over either release.
`CodeOf` reads the edits off the installed text, so that a change of `MaxPatches` changes what
server there can be.

## 3. Runs

All bounds are constants named in the modules and set in the `.cfg` files.

| run | question | result |
|---|---|---|
| `MmapDestination_unordered` | the two stores seen in either order, both files written back, two opens, one failing call, crashes of process and machine | a length read between two `write()` calls is covered by its bytes; what was acknowledged stays, what a flush covered is on the disk; a `close()` that returned leaves a plain stream, whatever raised before |
| `MmapDestination_writeback` | the same with the kernel writing back the sidecar | **violated**: after a power failure the length on disk is ahead of the bytes |
| `MeasurementTail_follow` | a follower of a live writer (stores in order, msync on) that grows, fails, closes or dies | length never ahead of the bytes a reader sees; published bytes never change; boundaries kept, each byte once, refines `RecordChannel` with its liveness |
| `MetricClient_close` | two senders, flusher, close after the senders | nothing lost, rows decodable, batch bound, close drains, refines `RecordChannel` with its liveness |
| `MetricClient_races` | close racing everybody, a second open, one raising call, two names, callers that change one of two dicts they have sent between three contents | rows in order, once, never mislabelled: at most an earlier state of their own dict |
| `MetricClient_reopen` | close racing a sender | **violated**: the reopened file has rows whose ids it does not define |
| `MetricClient_flusher` | one call raises in the flusher thread | **violated**: the thread ends and rows stay buffered for ever |
| `RecordLog_follow` | records below, at and above the capacity, all three flushes, one failing write, death of the worker, a reader at any moment | bytes in place, flag covers the buffer, exit drains, no record stranded, refines `RecordChannel` with its liveness |
| `Telemetry_scrapes` | two producers, rows with any of two timestamps, scrapes that may raise half-way, deaths | registry exact at every step, bucket counts exact, times and gauges those of the row decoded last, every answered scrape complete, catches up |
| `Telemetry_stillborn` | a producer that died before its sidecar existed | **violated**: no scrape gets past its file |
| `PatchedServer_steps` | two runs of the script with any flags, killed or refused anywhere, over two releases; then a server with any of nine caches and five hand-offs | a finished run leaves what was asked for, edits in place; values as MAX's own, counts reported once, every step arrives as computed |
| `Patcher_upgrade` | an upgrade of MAX between two runs | **violated**: the new release's text is overwritten and kept nowhere |

Why the bounds suffice. *Destination*: records of 1 and 3 bytes against chunks of 2
give writes that fit, that end exactly at the mapping, and that need one or two
growth steps; two opens give every stale sidecar; one failure at any call.
*Tail*: records of 1 and 3 bytes with up to 5 bytes give reads cut inside the header
and inside a record, and pending bytes carried over more than one read. *Client*: a
batch of 2 and 3 measurements (all client runs but `MetricClient_races`) give rows below, at and above the batch size (above only behind another thread's
transaction); two openings are the least that show the stale tables. `MetricClient_races` has 2
measurements instead: two names and two dicts with two contents that are not empty make a mix-up
of either visible, the change of a dict between its two measurements makes the cached id a stale
one, and one that is empty bypasses the cache. *Record log*: records of 1, 3 and 5 bytes and a
header of 2 against a capacity of 4 fit, fill, overflow and bypass the buffer; three records
are the least for a drain of two that a third one causes. *Telemetry*: two measurements over
two producers, a gauge and a histogram, bounds below and at the values, timestamps that ascend, are equal or descend; with
one measurement in each file ids already clash, and with both in one file the order
within a file is seen. `Width` is 4 bits instead of 64 and holds every count. *Patcher*: with two
runs the second starts from every package and every backup the first can leave, and with two
releases a backup can be another release's; a copy is cut to nothing or to the half
(`TornLengths`). *Server*: `Half` = 128 and `Two32` = 16 stand for 2^63 and 2^32; the steps have a
number that needs more than 32 bits and one that needs more than 64, after fields that fit and
before others; two replicas are the least that differ from one; two counted events
(`MaxEvents`) can fall on both sides of a reset and on both counters; the caches are every
combination the shortcuts tell apart. Once a server is up the script does not run, and no
action reads its variables: `MCView` leaves them out of a state's identity from then on, and no
invariant about them can become false without one of them changing.

`CHECK_DEADLOCK FALSE` is in every cfg: all the bounds make a system stop, and the client
really stops after `close()`.

### Fairness

- Tail (`TailSpec`): weak fairness of the follower's three steps. The thread polls
  for ever with a sleep between turns; the writer has no fairness at all and may die or
  stop anywhere.
- Client (`FairSpec`): a thread inside the lock runs on, a `close()` that has begun runs
  on, the daemon flusher's loop runs while it lives, the clock advances. Callers need
  not send, leave a transaction or close.
- Record log (`Spec`): a worker inside a call runs on, a scheduler with nothing to do comes back
  to its loop and finds the iteration without progress, the reader polls. Steps of the
  scheduler, failures, exits and deaths are nobody's duty.
- Telemetry (`FairSpec`): scrapes go on being asked for and run to an end, and a producer
  that created its log goes on to its sidecar unless it dies. Nothing else is fair.

### Findings

1. *Order on disk* (`mmap_destination.mojo:104-111`). The order of the two msyncs does
   not order what reaches the disk, since a mapped page may be written back at any time.
   `PublishedInPlace` is thereby violated after a power failure too; while the machine stays
   up it holds, which theorem `ReadersSeeWrittenBytes` states. What a `flush()` that returned
   covered is on the disk all the same (`FlushedIsDurable`): it is only the records after it whose
   length may be there without them.
2. *Reopen after close* (`dagr_metric_client.py:73-75`). The tables survive the log they
   describe. `NeverMislabelled` still holds: ids are missing, not wrong.
3. *Flusher* (`dagr_metric_client.py:119-124`). Nothing catches an exception of the
   background thread.
4. *Stillborn producer* (`prom_core.mojo:57`, `:289`). One log without a sidecar ends every
   ingest; the pusher, whose loop has no handler either, ends altogether.
5. *Upgrade* (`max_patch.py:38-41`). A backup is taken once per file name. After an upgrade of
   MAX the script writes the old release's text, patched, over the new one's files; their own text
   is then kept nowhere. `docs/measurements.md` ("What the MAX bump moved") describes such an upgrade; the
   `.orig` files have to be removed by hand first. `PatchedAsAsked` and `EditsLand` are therefore
   stated for backups that are the installed release's own.

Noticed while modelling and not given a run of their own: the copy of a record and the
store of its length are plain stores, so their order is only what compiler and machine
happen to keep (`QuiescentInPlace` is what remains true); between the truncation of a log and
the reset of its sidecar a path that was used before has the old length over an empty log,
which is why `PublishedInPlace` speaks of lengths of the current open only; and `_depth` is
shared by all threads, so a sender outside any transaction may leave a full buffer behind
while another is inside one (`BatchBound` is stated for depth 0). The start and last
times of a series and a gauge's value are those of the rows read first and last, not of the earliest and
most recent ones (`prom_core.mojo:122-130`; the comment at `:37` says otherwise): files are read one after
the other, and within a file threads stamp their measurements before they queue for the lock
(`dagr_metric_client.py:107-112`). `LatestRowReported` is what holds. A `close()` of the destination that raises in its
flush or trim cannot be repeated (`mmap_destination.mojo:116-118`): the file keeps its zero tail, though every length
published stays covered.

In the record log: an interval flush that raises (`max_patch.py:206`) leaves `_REC_PENDING` as it
was, so if it was FALSE the records in the buffer wait for the next append, and neither the
idle flush nor the exit writes them, though `max_patch.py:18` says that both flush the records
still buffered. `PendingCovers` and `ExitDrains` therefore leave out the time from a call that raised to the next append or
flush that does not (`lapsed`); after it they hold again. A drain that raised after writing a part is repeated from its first byte by the
next flush, which tears the stream (`Tears = TRUE` violates "nothing garbled");
`BytesInPlace` claims what holds, namely failures before the first byte. And `records_start`
(`metrics_log.mojo:241`) reads the length of the header before it knows that all its bytes are
there, which is below the grain of this model.

In the patch scripts: a run that ends inside `copyfile` (`max_patch.py:40`) leaves a cut backup
that every later run takes for the original; `TornCopies = FALSE` in `Patcher_upgrade` and in
theorem `OriginalKeptUntilUpgrade` leaves it out, to show the upgrade alone. A connector that
counts and has no reset of its own reports its counters again with every step; that is MAX's
own behaviour, which the patched code keeps (`ComputedAsPristine`), so `CountedOnce` is stated for
caches that reset. `append` keeps the low 32 bits of a number that the writers of the slot refuse;
`LoggedAsAppended` asks of them only that they log the same or nothing.

## 4. Proofs

| theorem | statement | from |
|---|---|---|
| `MeasurementTail_proofs!TypeCorrect` | `Spec => []TypeOK` | `ConstantsOK` |
| `AckedSafe` | `Spec => []AckedIsPublished` | any memory order and writeback |
| `FlushedIsDurableAlways` | `Spec => []FlushedIsDurable` | any memory order and writeback |
| `ReadersSeeWrittenBytes` | `Spec => []PublishedInPlace` | stores in order, no machine crash, any writeback |
| `QuiescentInPlaceAlways` | `Spec => []QuiescentInPlace` | any memory order and writeback |
| `ClosedIsPlainStreamAlways` | `Spec => []ClosedIsPlainStream` | any memory order and writeback |
| `PublishedBytesNeverChange` | `Spec => PublishedBytesStable` | stores in order, no machine crash |
| `MetricClient_proofs!TypeCorrect` | `Spec => [](TypeOK /\ ClientInv)` | `ClientConstants` |
| `OneThreadInside` | `Spec => []LockHeld` | `ClientConstants` |
| `NeverMislabelledAlways` | `Spec => []NeverMislabelled` | `ClientConstants` |
| `InOrderOnceAlways` | `Spec => []InOrderOnce` | `ClientConstants`, any failures, races and openings |
| `BatchBoundAlways` | `Spec => []BatchBound` | the same |
| `EveryRowDecodesReliably` | `Reliable => (Spec => []EveryRowDecodes)` | no call raises, `close()` after the senders stopped |
| `NothingLostReliably` | `Reliable => (Spec => []NothingLost)` | the same |
| `CloseDrainsReliably` | `Reliable => (Spec => []CloseDrains)` | the same |
| `ClientImplementsChannel` | `Reliable => (Spec => Channel!Safety)` | the same |
| `TailTypeCorrect` | `TailSpec => []TailTypeOK` | stores in order, no machine crash, one open of the path |
| `NeverGarbledAlways` | `TailSpec => []NeverGarbled` | the same |
| `EveryByteOnceAlways` | `TailSpec => []EveryByteOnce` | the same |
| `TailImplementsChannel` | `TailSpec => Channel!Safety` | the same |
| `RecordLog_proofs!BytesInPlaceAlways` | `Spec => []BytesInPlace` | `LogConstants`, with or without `Tears` |
| `PendingCoversAlways` | `Spec => []PendingCovers` | `LogConstants` |
| `ExitDrainsAlways` | `Spec => []ExitDrains` | `LogConstants` |
| `LogTypeCorrect` | `Spec => []TypeOK` | `~Tears` |
| `LogImplementsChannel` | `Spec => Channel!Safety` | `~Tears` |
| `Telemetry_proofs!TypeCorrect` | `Spec => []TypeOK` | `TelemetryConstants` |
| `CountsExactAlways` | `Spec => []CountsExact` | the same |
| `TotalsExactAlways` | `Spec => []TotalsExact` | the same |
| `OtlpBucketsExactAlways` | `Spec => []OtlpBucketsExact` | the same: any bounds, a width that holds `MaxRows` |
| `LatestRowReportedAlways` | `Spec => []LatestRowReported` | the same |
| `ScrapeIsCompleteAlways` | `Spec => ScrapeIsComplete` | the same |
| `Patcher_proofs!PatcherTypeCorrect` | `PatcherSpec => []PatcherTypeOK` | `PatcherConstants`, `WordsOfEdits` |
| `PatchedAsAskedAlways` | `PatcherSpec => []PatchedAsAsked` | none |
| `OriginalKeptUntilUpgrade` | `PatcherSpec => [](release = 0 => OriginalKept)` | `~TornCopies` |
| `WorkerImportsAlways` | `PatcherSpec => []WorkerImports` | `WordsOfEdits`, `MaxIsUnpatched` |
| `EditsLandAlways` | `PatcherSpec => []EditsLand` | the same, and `AsExpected(f, text)` for each file of each release |
| `PatchedServer_proofs!StepTypeCorrect` | `StepSpec => []StepTypeOK` | `StepConstants`, `SlotConstants`, `RecordConstants` |
| `CountedOnceAlways` | `StepSpec => []CountedOnce` | `StepConstants` |
| `LoggedAsAppendedAlways` | `StepSpec => []LoggedAsAppended` | `StepConstants`, `SlotConstants` |
| `PublishedAsComputedAlways` | `StepSpec => []PublishedAsComputed` | `StepConstants`, `RecordConstants`, `NoneIsNoTuple` |
| `ComputedAsPristineAlways` | `StepSpec => ComputedAsPristine` | `StepConstants`, `ValuesConstants` |
| `ImplementsPatcher` | `Spec => PatcherSpec` | none |
| `ImplementsSchedulerStep` | `Spec => StepSpec` | none |
| `PatchedServer_proofs!TypeCorrect` | `Spec => []TypeOK` | those above |
| `PatchedServerCorrect` | `Spec => [](PatchedAsAsked /\ WorkerImports /\ CountedOnce /\ LoggedAsAppended /\ PublishedAsComputed) /\ ComputedAsPristine` | those above |

They hold for every chunk size, buffer capacity, record size, number of threads, names, dicts, opens,
failures and measurements; for every cut of a read, every stream of records; for every set of producers,
instruments, labels, values and bucket bounds; for every set of servers and steps, every width, all
texts of MAX. The bounds (`MaxOffset`, `MaxSends`, ...) are arbitrary naturals.

The hypotheses, and what they stand for. *Stores in order*: the copy of a record and the store of the
length reach a reader as they were made, which no fence in the code enforces. *No machine crash*: while the
machine stays up; after a power failure `PublishedInPlace` itself is violated (finding 1). Nothing is assumed of
what the kernel writes back, since no line of the code has a say in it; what survives a power failure whatever it does is
`AckedSafe` and `FlushedIsDurableAlways`.
*One open* (`MaxOpens <= 1`): each process names its file after itself (`meas-<pid>.dagr`) and opens it
once, unless the client is closed and used again, which `MetricClient_reopen` is about; what a reader
makes of a path that is written again is item 2 of the plan. `~Tears`: a `write_bytes` that
raises has written none of its bytes; with some of them in the file the next flush tears the
stream. `WordsOfEdits`: the lines that the edits write are lines of a text, those of them that open a block
are recognised as such, and `return cls` and `import threading` open none. `MaxIsUnpatched`: MAX's own files are texts, and its worker does not import what
only the script adds. `AsExpected`: what the edits rely on without looking for it (below). `Words`, the set of what a line can say, is a constant that TLC takes for STRING: the
provers have strings, but not that a literal is one.

Sums, folds and sequences. The library states induction for an operator, which the installed provers
cannot instantiate. The proofs take the least element of a set of counterexamples instead
(`HasLeast`, from the well-foundedness of the naturals), or the smallest set in a family. A fold is
handled as a function of sets of positions: one exists (`FoldExists`), it is unique (`FoldUnique`),
and so what the library's `FoldLeft` chooses is it; from then on the proofs speak of the text after n
edits, or the file after n records.

*Destination.* `PublishedInPlace` is not inductive: it says nothing of the private
`committed` that the next write starts from, nor of the mapping the copy must fit in.
`WriterInv` ties `committed` to the sidecar, the mapping to the file, and says how far the
bytes in place are ahead of the length while `write()` is between its stores; `NeedInv` adds the growth.
`AckInv` (acknowledged and flushed lengths) and `BytesInv` (where their bytes are, in the file and, between the two
msyncs of a flush, on the disk) are separate because they need neither memory order nor writeback order. Lemmas about `Truncated`, `Copied`, `Extended` and
`GrownSize` carry the arithmetic; there is one lemma per group of actions. `QuiescentInPlace` and
`ClosedIsPlainStream` need `PlacedInv`, which is about the log rather than the length: while the
writer lives everything in `stream` is in place, and the length is the committed one except between a
length seen early and its copy. `PublishedBytesStable` follows from `PublishedInPlace` before and after
the step: both lengths lie in what is in place, and `stream` is only extended within an opening.

*Client.* `ClientInv` says that the tables only grow and that whatever has been recorded
agrees with them: each definition in the file with the table, each row with the measurement
it was made from, each cached id with something its dict contained. That survives
truncation of the file, prefixes left by calls that raise, and any interleaving, because
it never says that a definition is *present*. `LockHeld` is part of it: the two lookups of a
measurement see the same tables only because no other thread is inside.

*Client, delivery.* `OrderInv` extends `InOrderOnce` to the buffer: the rows of the file, then those of the
buffer, ascend; a flush that raises leaves a prefix of the buffer in the file and drops the rest, which
keeps the order. `BatchInv` says that a buffer as long as the batch, outside transactions, has a thread
that stands at `flush`, with the lock. `Recorded` (each interned id is defined in the file, each row
stands after its definitions, each measurement is in file or buffer) fails as soon as a call raises and
leaves an id in the table without its record, or the file is truncated under the tables as in
`MetricClient_reopen`; so it is proved under `Reliable == ~Races /\ MaxFails = 0`. `ClosePhase` says what each stage
of `close()` knows of the buffer and the log, and that the senders have stopped by then. For the refinement, the rows
of the file are those of the measurements accepted first (`FileHasFirst`), by which a flush takes a longer
beginning and an accepted measurement extends what was sent (`ClientMoves`). `RowKeys` takes the rows by
their positions in order, because the provers cannot look inside the library's `SelectSeq`.

*Tail.* The writer is that of `MmapDestination`: the tail's steps leave its variables alone
(`TailImplies`), so `WriterInv` and `PublishedInPlace` hold of it as they are. `StreamInv` adds that
records are numbered one after the other and that the length ends one; `ReaderInv` is `Position`: the
reader holds the bytes behind the last boundary it decoded up to, has consumed the header if it decoded
anything, and handed over the records in between. `ReaderAdvances` is the step: what was pending and
what a pread returned, however it was cut, are the stream from that boundary on (`ChunkBuffered`), the
decoder stops at the last boundary in it (`DecoderStops`), and the records it found complete those handed
over before (`HandedOver`). For the refinement, the records published are those a reader of all published
bytes would hand over, so each publication extends them and each turn of the reader takes a longer beginning.

*Record log.* `BytesInPlace` says where every accepted byte is, for each place the worker can
stop at: in the file or the buffer outside a write, in the file or still to be written inside
one. `Quiet` adds what it leaves open: nothing is under way outside a call, a large record goes
to the file only over an empty buffer, nothing is pending before the log is opened. `ExitDrains`
needs `PendingCovers`: a worker that leaves its loop with the flag down has an empty buffer. The
sequence facts are four short lemmas over the library's theorems. Its reader has the tail's `Position`,
in the bytes accepted, of which the file is a beginning (`FileBegins`): a step of the worker grows the file over
the same bytes, or adds a record to them, or takes back one that no byte of the file belongs to
(`WorkerMoves`), and none of the three disturbs where the reader stands (`PositionKept`). What a write(2) sends
is every record that it completes in the file.

*Telemetry.* Nothing in the registry can be said without the files, so the invariant starts there.
`Coded` (in one file an id means one thing, a thing has one id, a row follows both its definitions)
and `Counted` (there are as many rows as measurements taken) are about `Whole`, what a
producer has written and what it has yet to write, which publishing does not change. `PlaceInv` keeps the
reader within what it sampled, and `TablesInv` says that a file's tables contain the definitions among its
decoded records; with `Coded` the next row is then looked up as what it was measured for. From that,
`RowsStep`: a step leaves every series and its rows alone, or adds one row to one series.
`CountsExact` and `LatestRowReported` follow by one step each: the added row is the last of those decoded from its
file, and the only one if its series had none. `OtlpBucketsExact` is not an invariant of its own: it follows from `CountsExact`, the differences of nested sets of rows, and
that there are at most `MaxRows` rows (`Counted`). The assumption on `Bounds`, that
a set of bounds has a greatest one, is what their finiteness gives. The sums of `TotalsExact` need that a
sum over the decoded rows grows by the value of the next one: `MapThenSumSet` takes its elements in an order of its own, so
the proof is that every order gives the same, by the smallest set of rows for which it would not.

*Scheduler step.* `PublishedAsComputed` rests on `StepRoundTrip`, a lemma about operators only: tuple,
record, tuple and `BatchMetrics` again give the same function of names, for all values that fit. It is
proved kind by kind (`ValueRoundTrip`, with `IntRoundTrip` for the detour of a negative int through
UInt64), then for each sub-record, then field by field. `LoggedAsAppended` rests on `WritersAgree` (three
orders of stores fill the same cells when everything fits, whatever was there) and `SlotRoundTrip`
(the cells read back are what `append` takes from the object). `CountedOnce` is inductive only with
`KvOK`: a cache without metrics of its own never counts in its connector, and a transfer time is never
counted without its transfer; `ReadAndReset` then says, for the four paths of `KvPart`, that what a
step reports and what stays behind add up to what was there.

*Speedups.* `ComputedAsPristine` compares MAX's sums over sets of contexts with one fold over the batches. A
sum is handled like a fold: a function h that gives every set of places its sum exists (`SumsExist`), and
what the library chooses, one element after the other, is that function whatever the order (`SumOf`,
`OverIs`). `Totals`, `Here` and `Lists` then say what the pass knows of the contexts it has seen (`Places`),
in terms of the two functions that sum active and processed tokens: one context adds itself
(`VisitSees`), one batch closes its replica's sums (`VisitBatchSees`), and the batch size is what the lengths count
without the padding (`Sizes`). The cache is a comparison of cases (`KvAsPristine`) with two sums in it: one
replica's numbers are the sum over one replica, and a connector without host blocks sums zeros. `AsPristine` carries
the inputs from `Schedule` to `Compute`, past everything that is counted in between. `StepConstants` asks that a
step has batches, free blocks and host counts for each replica of the cache.

*Patcher.* `PatchedAsAsked` speaks of the end of a run. `Progress` says it of every point on the way:
the files before the one in work are right already, and so is the text about to be written, which
needs that files are distinct and that a run has taken a backup before it edits. `Untouched`
(a file without a backup is as installed) is what keeps MAX's text from being lost.

*Edits.* That a package stays a package of texts, and that the worker finds what it imports, depends on
the edits themselves. `EditIn` and `EditKeeps` are about one edit, wherever its place is: the span it replaces lies in
the text, so what comes out are lines again, and a line it does not replace is still there. Each of the seven lists
is then shown to consist of such edits, and `EditsRun` carries the two facts along a list. `UtilsHasDefs`:
of the edits of `utils.py` one adds the two functions, and each later one looks for another line. With the order of the files, utils
first, and the backups, `ImportsInv` follows: the worker's file has the import only while utils, if it is whole,
has the functions, because a run that gets to the worker has written utils before.

`EditsLand` says of all seven files that MAX's own lines survive, in their order, and that each edit ends up beside
the statement it was written for. For that a run must have found every place (`Takes`, a part of `Progress`: a
script that does not find one stops before it writes the file). Finding it is not enough: `astpatch.py` raises
when a place is missing, but not when the text around the place is not what its replacement was written for.
`AsExpected` is what the proof needed of the text on top of the places, and so the list of what the
scripts take for granted about a release: nothing they add is there yet; `log_metrics` and the transaction are there once, at
the depth the literals are indented for; the `return cls` of `create` is its last statement (the one thing the
script asserts, `max_patch.py:49-55`, together with the keywords of the call, which are below the grain of a line: a release
that fails the assertion is one whose run is refused); the transaction does not contain the branch on the cache; the loop in
`process_controller.py`, `__post_init__` and `batch_size` in `inputs.py` and the beginning of `metrics` in `block_manager.py`
contain only what their replacement stands for; one of the two imports that the new one goes beside is
at hand, at column 0 and not on the first line, which is how the script looks for it. The scripts test otherwise at most that a place is the only one of its scope; an upgrade of MAX
that breaks the rest passes without an error. `ReleasesAsExpected` has TLC evaluate it for both releases
of `MCPatcher`, and each conjunct is used by the proof.

The argument has three layers. Of one edit of any text: the lines of MAX's that it does not replace stay in order (`OwnSplice`,
then `OwnEdit` for each shape an edit can have); two neighbours stay neighbours unless the edit is between them
(`SplicedKeepsPair`, `EditKeepsPair`); a statement ends where it did, moved by what was written before it
(`EndBefore`, `EndWithin`, `EndBeyond`). Of a list of edits: what one edit puts in place the later ones leave there
(`ListStands`, `PairStands`, `TimesStay`, `RecordStays`), and a place that an earlier edit left alone is found again where it was
(`FoundAgain`, `PathAgain`). Of the seven files: one lemma each (`WorkerLands`, `ProcessLands`, ...), with utils, whose
edits meet in one method, taken in steps (`LogStands`, `CountsStand`, `SnapshotStands`, `ReturnStands`).

Only model-checked: all liveness, here `CatchesUp`, `EveryRecordOut` and the fairness half of the three
refinements of `RecordChannel`, whose safety half is proved. Every safety invariant and every action property
that a passing run checks is also a theorem.

## 5. What is not modelled, and the plan

Left out for good: benchmarks and scripts, and `gen_prom_table.py` (no state); rendering of the
exposition text and the protobuf encoding (formatting); the stage timers of `max_patch.py` (only
logged); the generated Dagr readers and writers, whose contract the models use: one `write()` per
record, and a record decodes when all its bytes are there; the one-shot `aggregate_dir`, which
repeats the loop of the incremental one. MAX itself is external: its own computation of a step's values
(`Pristine...` in `FastValues`) and the texts of `MCPatcher` are modelled from how the scripts and
their tests use them.

Simplifications inside the models. Calls on a destination after a `close()` that returned are not made in
`MmapDestination`, and in `MetricClient` a log that was closed under its user takes a call and adds nothing that a reader
can decode (`WriteLog`). The code is harsher: the bytes are stored behind the trimmed end, in the last page of the file,
where a read returns nothing; the sidecar then says a length ahead of the file; a call that has to grow the file raises, as
the descriptor is closed; and a store into a page wholly beyond the file kills the process. What readers make of a length
ahead of the file is not modelled. The late copy of two stores seen out of order is visible by the time `write()` returns
(`CopyLate`). The aggregator reads all of what it sampled at once (`ReadNew`): a read that returns less, as
`MeasurementTail` has it for the Python tail, is not modelled there. The header of a stream is a record like the others,
complete or not (`Consume`), though `measurements_start` (`measurement_log.mojo:188`) reads its length without that
test. The aggregator never meets a file that was opened a second time; the patch script
does not run under a live server, and a server is started from whole files only (Python refuses
one that is cut, unless the cut falls between two statements).

Not modelled yet, in the order of their worth:

1. The bytes of the framing: LEB lengths with the header check of `records_start`, and the
   decoder's completeness test, as functions on short byte sequences, checked against the
   record-level contract used above.
2. A log that is truncated and written again under a follower (`prom_core.mojo:290`,
   `record_publish.py:113`): what a reader makes of bytes that start inside a record.
3. The pusher's loop (`otlp_push.mojo:43`), which one failed POST ends.
