------------------------------ MODULE Telemetry ------------------------------
(***************************************************************************)
(* The telemetry process in Mojo: one IncrementalAggregator (prom_core.mojo) *)
(* behind the /metrics endpoint (telemetry_server.mojo) and the OTLP pusher   *)
(* (otlp_push.mojo, otlp.mojo), over the files of several producers.          *)
(*                                                                         *)
(* A file is the sequence of records it holds: a producer publishes whole     *)
(* records (MmapDestination), so a committed length always ends one and the    *)
(* carry-over of a partial record has nothing to do.  The header, one write()   *)
(* of its own, decodes to nothing and is left out.                            *)
(***************************************************************************)
EXTENDS Integers, Sequences, FiniteSets, FiniteSetsExt

CONSTANTS
    Producers,  \* producing processes, each with a file of its own
    Counters,   \* instruments of kind counter or sum gauge
    Gauges,     \* instruments of kind gauge
    Histograms, \* instruments of kind histogram
    Unknown,    \* instrument names the aggregator's table does not have
    Labels,     \* rendered attribute sets
    NoLabels,   \* the empty one
    Values,     \* measured values
    Times,      \* timestamps of measurements
    Bounds,     \* bucket bounds of the histograms
    Width,      \* bits of an unsigned count (64 in the code)
    MaxRows,    \* bound: rows published by all producers together
    Crashes,    \* producers that may die once their file is complete
    DiesEarly   \* producers that may die before their sidecar exists

ASSUME TelemetryConstants ==
    /\ Values \subseteq Int /\ Times \subseteq Nat \ {0} /\ Bounds \subseteq Int
    /\ \A S \in SUBSET Bounds : S # {} => \E m \in S : \A b \in S : b <= m
    /\ NoLabels \in Labels
    /\ MaxRows \in Nat /\ Width \in Nat /\ 2^Width \in Nat /\ MaxRows < 2^Width
    /\ Crashes \subseteq Producers /\ DiesEarly \subseteq Producers
    /\ (Counters \cup Gauges \cup Histograms) \cap Unknown = {}
    /\ Counters \cap Gauges = {} /\ Counters \cap Histograms = {} /\ Gauges \cap Histograms = {}
    /\ "nobody" \notin Producers

VARIABLES
    phase,      \* what exists of each producer's file: "absent", "created" (no
                \* sidecar yet), "open", or "dead" and "stillborn" (died without one)
    stream,     \* the records of each file
    outbox,     \* the records of a measurement that its producer has yet to write
    taken,      \* number of measurements taken so far
    pc,         \* the scrape: "idle", "list" (between two files) or "decode"
    todo,       \* files of the listing not looked at yet
    cur,        \* the file being decoded
    pos,        \* records of it decoded so far
    offset,     \* StreamState.offset: records of each file read so far
    names,      \* StreamState.names: instrument name of an id, for each file
    attrs,      \* StreamState.attrs: label set of an id, for each file
    series,     \* Aggregator.series; a series never observed has count 0
    due         \* history: length of each file when the scrape in progress began

producers == <<phase, stream, outbox, taken>>
scrape    == <<pc, todo, cur, pos>>
state     == <<offset, names, attrs, series>>
vars      == <<producers, scrape, state, due>>

Known == Counters \cup Gauges \cup Histograms
Names == Known \cup Unknown
Keys  == Known \X Labels

NoSeries == [value |-> 0, count |-> 0, buckets |-> [b \in Bounds |-> 0], start |-> 0, last |-> 0]

\* Dict assignment.
Put(f, x, y) == [z \in DOMAIN f \cup {x} |-> IF z = x THEN y ELSE f[z]]

Defs(p, tag) == {i \in DOMAIN stream[p] : stream[p][i].tag = tag}
IdsOf(p, tag, x) == {stream[p][i].id : i \in {j \in Defs(p, tag) : stream[p][j].of = x}}

Init ==
    /\ phase = [p \in Producers |-> "absent"]
    /\ stream = [p \in Producers |-> <<>>] /\ outbox = [p \in Producers |-> <<>>]
    /\ taken = 0
    /\ pc = "idle" /\ todo = {} /\ cur = "nobody" /\ pos = 0
    /\ offset = [p \in Producers |-> 0]
    /\ names = [p \in Producers |-> <<>>] /\ attrs = [p \in Producers |-> <<>>]
    /\ series = [k \in Keys |-> NoSeries]
    /\ due = [p \in Producers |-> 0]

-----------------------------------------------------------------------------
(* The producers, as the aggregator sees them.                             *)

Create(p) ==
    /\ phase[p] = "absent"
    /\ phase' = [phase EXCEPT ![p] = "created"]
    /\ UNCHANGED <<stream, outbox, taken, scrape, state, due>>

OpenLen(p) ==
    /\ phase[p] = "created"
    /\ phase' = [phase EXCEPT ![p] = "open"]
    /\ UNCHANGED <<stream, outbox, taken, scrape, state, due>>

Die(p) ==
    /\ \/ phase[p] = "open" /\ p \in Crashes /\ phase' = [phase EXCEPT ![p] = "dead"]
       \/ phase[p] = "created" /\ p \in DiesEarly /\ phase' = [phase EXCEPT ![p] = "stillborn"]
    /\ UNCHANGED <<stream, outbox, taken, scrape, state, due>>

\* A measurement gets the lock of its client.  The first use of a name or an attribute
\* set in a process defines its id there.  The thread read the clock before it waited
\* for the lock, so the times of a file's rows are in no order.  `of` is what is
\* measured: a row's record does not hold it.
Measure(p, n, l, v, ts) ==
    /\ phase[p] = "open" /\ outbox[p] = <<>>
    /\ taken < MaxRows /\ taken' = taken + 1
    /\ LET Id(tag, x) == IF IdsOf(p, tag, x) = {} THEN Cardinality(Defs(p, tag)) + 1
                                                 ELSE Max(IdsOf(p, tag, x))
           Def(tag, x) == IF IdsOf(p, tag, x) = {}
                          THEN <<[tag |-> tag, id |-> Id(tag, x), of |-> x]>> ELSE <<>>
           row == [tag |-> "row", name |-> Id("name", n), attrs |-> Id("attrs", l),
                   value |-> v, ts |-> ts, of |-> <<n, l>>]
       IN  outbox' = [outbox EXCEPT ![p] = Def("name", n) \o Def("attrs", l) \o <<row>>]
    /\ UNCHANGED <<phase, stream, scrape, state, due>>

\* Each record is a write() of its own, which publishes it.
Publish(p) ==
    /\ phase[p] = "open" /\ outbox[p] # <<>>
    /\ stream' = [stream EXCEPT ![p] = Append(@, Head(outbox[p]))]
    /\ outbox' = [outbox EXCEPT ![p] = Tail(@)]
    /\ UNCHANGED <<phase, taken, scrape, state, due>>

-----------------------------------------------------------------------------
\* Definitions named Faulty... are a step or helper with a plausible mistake in it:
\* they are no part of the specification, and a property below refutes each.

\* The time of a series is set by its first row and never moved.
FaultyObserved(s, n, v, ts) ==
    [value   |-> IF n \in Gauges THEN v ELSE s.value + v,
     count   |-> s.count + 1,
     buckets |-> [b \in Bounds |-> IF n \in Histograms /\ v <= b THEN s.buckets[b] + 1
                                                                 ELSE s.buckets[b]],
     start   |-> IF s.start = 0 THEN ts ELSE s.start,
     last    |-> IF s.last = 0 THEN ts ELSE s.last]

\* A bucket holds what is below its bound, and what is equal to it goes to the next.
FaultyBelow(v, b) == v < b

Below(v, b) == v <= b

\* Aggregator.observe on one series: histogram buckets are cumulative.
Observed(s, n, v, ts) ==
    [value   |-> IF n \in Gauges THEN v ELSE s.value + v,
     count   |-> s.count + 1,
     buckets |-> [b \in Bounds |-> IF n \in Histograms /\ Below(v, b) THEN s.buckets[b] + 1
                                                                      ELSE s.buckets[b]],
     start   |-> IF s.start = 0 THEN ts ELSE s.start,
     last    |-> ts]

\* A row whose name has no definition is dropped, and so is one whose instrument
\* the table does not have.
Row(p, r) ==
    LET n == names[p][r.name]
        l == IF r.attrs \in DOMAIN attrs[p] THEN attrs[p][r.attrs] ELSE NoLabels
    IN  series' = IF r.name \in DOMAIN names[p] /\ n \in Known
                  THEN [series EXCEPT ![<<n, l>>] = Observed(@, n, r.value, r.ts)]
                  ELSE series

-----------------------------------------------------------------------------
(* IncrementalAggregator.ingest                                            *)

\* The files of dead producers are left out.
FaultyBeginScrape ==
    /\ pc = "idle"
    /\ pc' = "list"
    /\ todo' = {p \in Producers : phase[p] \notin {"absent", "dead"}}
    /\ due' = [p \in Producers |-> Len(stream[p])]
    /\ UNCHANGED <<producers, cur, pos, state>>

\* The listing of the directory, taken once.
BeginScrape ==
    /\ pc = "idle"
    /\ pc' = "list"
    /\ todo' = {p \in Producers : phase[p] # "absent"}
    /\ due' = [p \in Producers |-> Len(stream[p])]
    /\ UNCHANGED <<producers, cur, pos, state>>

\* _committed_length reads the sidecar: without one it raises, out of ingest.
SampleRaises(p) ==
    /\ pc = "list" /\ p \in todo
    /\ phase[p] \in {"created", "stillborn"}
    /\ pc' = "idle" /\ todo' = {}
    /\ due' = [q \in Producers |-> 0]
    /\ UNCHANGED <<producers, cur, pos, state>>

\* Nothing new in this file: one record short of it.
FaultySkip(p) ==
    /\ pc = "list" /\ p \in todo
    /\ phase[p] \in {"open", "dead"}
    /\ Len(stream[p]) <= offset[p] + 1
    /\ todo' = todo \ {p}
    /\ UNCHANGED <<producers, pc, cur, pos, state, due>>

Skip(p) ==
    /\ pc = "list" /\ p \in todo
    /\ phase[p] \in {"open", "dead"}
    /\ Len(stream[p]) <= offset[p]
    /\ todo' = todo \ {p}
    /\ UNCHANGED <<producers, pc, cur, pos, state, due>>

\* Decoding starts one record early.
FaultyReadNew(p) ==
    /\ pc = "list" /\ p \in todo
    /\ phase[p] \in {"open", "dead"}
    /\ Len(stream[p]) > offset[p]
    /\ pc' = "decode" /\ cur' = p /\ pos' = offset[p] - 1
    /\ offset' = [offset EXCEPT ![p] = Len(stream[p])]
    /\ todo' = todo \ {p}
    /\ UNCHANGED <<producers, names, attrs, series, due>>

\* The bytes between the offset and the committed length, once the length is
\* sampled, are there to be read and do not change: both are one step, and the read
\* is taken to return all of them (the code does not look at how many it got).
ReadNew(p) ==
    /\ pc = "list" /\ p \in todo
    /\ phase[p] \in {"open", "dead"}
    /\ Len(stream[p]) > offset[p]
    /\ pc' = "decode" /\ cur' = p /\ pos' = offset[p]
    /\ offset' = [offset EXCEPT ![p] = Len(stream[p])]
    /\ todo' = todo \ {p}
    /\ UNCHANGED <<producers, names, attrs, series, due>>

\* One table for all files.
FaultyNamed(p, r) == names' = [q \in Producers |-> Put(names[q], r.id, r.of)]

Named(p, r) == names' = [names EXCEPT ![p] = Put(@, r.id, r.of)]

\* One turn of the decoding loop; the last one goes on to the next file.
DecodeRecord ==
    /\ pc = "decode"
    /\ IF pos + 1 < offset[cur] THEN pos' = pos + 1 /\ UNCHANGED <<pc, cur>>
                               ELSE pos' = 0 /\ pc' = "list" /\ cur' = "nobody"
    /\ LET r == stream[cur][pos + 1]
       IN  \/ r.tag = "row"   /\ Row(cur, r) /\ UNCHANGED <<names, attrs>>
           \/ r.tag = "name"  /\ Named(cur, r) /\ UNCHANGED <<attrs, series>>
           \/ r.tag = "attrs" /\ attrs' = [attrs EXCEPT ![cur] = Put(@, r.id, r.of)]
                              /\ UNCHANGED <<names, series>>
    /\ UNCHANGED <<producers, todo, offset, due>>

\* ingest returns: the body is rendered, or the request encoded, from `series`.
EndScrape ==
    /\ pc = "list" /\ todo = {}
    /\ pc' = "idle"
    /\ due' = [p \in Producers |-> 0]
    /\ UNCHANGED <<producers, todo, cur, pos, state>>

-----------------------------------------------------------------------------
(* otlp.mojo: the bucket counts of a histogram data point, in order of the   *)
(* bounds, the last one for what is above them all.  The subtractions are of  *)
(* unsigned integers.                                                        *)

Previous(b) == {c \in Bounds : c < b}
Minus(x, y) == (x - y) % 2^Width

InBucket(s, b) ==
    Minus(s.buckets[b], IF Previous(b) = {} THEN 0 ELSE s.buckets[Max(Previous(b))])
InInf(s) == IF Bounds = {} THEN s.count ELSE Minus(s.count, s.buckets[Max(Bounds)])

-----------------------------------------------------------------------------
Producer(p) ==
    \/ Create(p) \/ OpenLen(p) \/ Publish(p) \/ Die(p)
    \/ \E n \in Names, l \in Labels, v \in Values, ts \in Times : Measure(p, n, l, v, ts)

Scrape ==
    \/ BeginScrape \/ EndScrape \/ DecodeRecord
    \/ \E p \in Producers : SampleRaises(p) \/ Skip(p) \/ ReadNew(p)

Next == Scrape \/ \E p \in Producers : Producer(p)

Spec == Init /\ [][Next]_vars

\* The endpoint is scraped for ever, a scrape under way runs on, and a producer that
\* has created its file goes on to its sidecar unless it dies.
FairSpec == Spec /\ WF_vars(Scrape) /\ \A p \in Producers : WF_vars(OpenLen(p))

-----------------------------------------------------------------------------
(* What the aggregator promises.                                           *)

Series == [value : Int, count : Nat, buckets : [Bounds -> Nat], start : Nat, last : Nat]

Records == [tag : {"name"}, id : Nat, of : Names] \cup [tag : {"attrs"}, id : Nat, of : Labels]
              \cup [tag : {"row"}, name : Nat, attrs : Nat, value : Values, ts : Times,
                    of : Names \X Labels]

TypeOK ==
    /\ phase \in [Producers -> {"absent", "created", "open", "dead", "stillborn"}]
    /\ taken \in 0..MaxRows
    /\ stream \in [Producers -> Seq(Records)] /\ outbox \in [Producers -> Seq(Records)]
    /\ pc \in {"idle", "list", "decode"}
    /\ todo \subseteq Producers /\ cur \in Producers \cup {"nobody"}
    /\ pos \in Nat /\ offset \in [Producers -> Nat]
    /\ DOMAIN names = Producers /\ DOMAIN attrs = Producers
    /\ \A p \in Producers : names[p] \in [DOMAIN names[p] -> Names]
                            /\ attrs[p] \in [DOMAIN attrs[p] -> Labels]
    /\ series \in [Keys -> Series]
    /\ due \in [Producers -> Nat]

\* The records of a file that have been decoded, and the rows among them.
Decoded(p) == IF pc = "decode" /\ cur = p THEN pos ELSE offset[p]
Rows(p, key) ==
    {i \in 1..Decoded(p) : stream[p][i].tag = "row" /\ stream[p][i].of = key}
RowsOf(key) == UNION {{<<p, i>> : i \in Rows(p, key)} : p \in Producers}
Value(x) == stream[x[1]][x[2]].value
Time(x)  == stream[x[1]][x[2]].ts

\* Each series counts the rows decoded so far that were measured for it, and each
\* bucket of a histogram those of them up to its bound.
CountsExact ==
    \A key \in Keys :
        /\ series[key].count = Cardinality(RowsOf(key))
        /\ key[1] \in Histograms =>
              \A b \in Bounds :
                 series[key].buckets[b] = Cardinality({x \in RowsOf(key) : Value(x) <= b})

\* The value of a series that is not a gauge is the sum of those rows.
SumsExact ==
    \A key \in Keys :
        key[1] \notin Gauges => series[key].value = MapThenSumSet(Value, RowsOf(key))

\* Whatever the order of files, scrapes and failures, the registry holds what a
\* single pass over the records decoded so far would give: every measurement under
\* the name and labels it was taken for, in spite of ids that mean something else
\* in another file, counted once.
TotalsExact == CountsExact /\ SumsExact

\* The bucket counts of an OTLP point are those of the measurements: no difference
\* of cumulative counts wraps around, and they add up to the point's count.
OtlpBucketsExact ==
    \A key \in Histograms \X Labels :
        /\ \A b \in Bounds : InBucket(series[key], b)
              = Cardinality({x \in RowsOf(key) : Value(x) <= b /\ \A c \in Previous(b) : Value(x) > c})
        /\ InInf(series[key]) = Cardinality({x \in RowsOf(key) : \A b \in Bounds : Value(x) > b})

\* A scrape that answers includes every record published before it began,
\* scrapes that failed half-way before it or not.
ScrapeIsComplete ==
    [][pc = "list" /\ pc' = "idle" /\ todo = {} => \A p \in Producers : due[p] <= offset[p]]_vars

\* A series starts at the time of the first row of one of its files.  Its last time and
\* the value of a gauge are those of one row, which is the latest decoded of its file:
\* no scrape, failed or not, goes back to an older row of a file, and none mixes the
\* time of one row with the value of another.  Which file it is follows the listing,
\* and the latest row of a file need not have the greatest time.
LatestRowReported ==
    \A key \in Keys :
        LET rows == RowsOf(key)
        IN  rows # {} =>
               /\ \E x \in rows : /\ series[key].start = Time(x)
                                  /\ \A y \in rows : y[1] = x[1] => x[2] <= y[2]
               /\ \E x \in rows : /\ series[key].last = Time(x)
                                  /\ key[1] \in Gauges => series[key].value = Value(x)
                                  /\ \A y \in rows : y[1] = x[1] => y[2] <= x[2]

\* While no producer died before its sidecar existed, every published record is
\* ingested in the end: whenever the producers pause, the aggregator catches up.
CatchesUp ==
    [](\A p \in Producers : phase[p] # "stillborn")
        => \A p \in Producers : []<>(offset[p] = Len(stream[p]))

-----------------------------------------------------------------------------
(* A statement of the sources that the code does not keep.                  *)

\* ingest reads what is new in every stream: each is read up to its end, again and
\* again, whatever became of the other producers.
EveryStreamRead == \A p \in Producers : []<>(offset[p] = Len(stream[p]))
=============================================================================
