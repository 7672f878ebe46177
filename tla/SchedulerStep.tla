---------------------------- MODULE SchedulerStep ----------------------------
(***************************************************************************)
(* A scheduler step of the patched server: the batch is put together, the KV *)
(* cache counts, compute_values reads and resets the counters, and the values *)
(* go their way: through the record log to the telemetry process, or through  *)
(* one of the hand-offs of the batch log.  How records travel is the subject   *)
(* of RecordLog and MeasurementTail; here a record arrives as it was written.   *)
(***************************************************************************)
EXTENDS StepSlot, FastValues

CONSTANTS
    Servers,     \* the servers: a KV cache, and the way a step is handed on
    Steps,       \* the steps: batches and free blocks of each replica, other arguments
    MaxEvents    \* bound on what the counters count in a run

Routes == {"record", "append", "struct", "numpy", "dagr_py"}

\* What a batch is made of, and what else a step has.
Batch == Seq([active : Nat, processed : Nat, generated : Nat, padding : BOOLEAN])
StepKinds ==
    [batches : Seq(Batch), free : Seq(Nat), host : Seq([total : Nat, used : Nat]),
     cache_hit_tokens : Int, acceptance : Seq(Floats), overlap_active : BOOLEAN,
     completed : Completed \cup {None}, vision : Vision \cup {None},
     video : Video \cup {None}]

ASSUME StepConstants ==
    /\ Servers \subseteq CacheKinds \X Routes /\ Steps \subseteq StepKinds
    /\ \A s \in Steps : \A server \in Servers :
          /\ server[1].dp <= Len(s.batches)
          /\ server[1].dp <= Len(s.free) /\ server[1].dp <= Len(s.host)
    /\ MaxEvents \in Nat

VARIABLES
    phase,      \* where the server is in its step
    code,       \* the edits of the files it was started from
    kind,       \* its KV cache
    route,      \* how it hands steps on
    step,       \* the step in progress
    inputs,     \* its TextGenerationInputs
    kv,         \* the counters of the KV cache
    metrics,    \* the BatchMetrics computed for it
    slot,       \* the batch log's slot
    out,        \* what came out at the other end for the last step: one value, or none
    reported,   \* history: the sum of the counters of all steps
    events      \* history: all that the counters have counted

stepVars == <<phase, code, kind, route, step, inputs, kv, metrics, slot, out,
              reported, events>>

Phases == {"down", "idle", "scheduled", "computed", "handed"}

StepInit ==
    /\ phase = "down"
    /\ code = None /\ kind = None /\ route = None
    /\ step = None /\ inputs = None /\ metrics = None /\ out = <<>>
    /\ kv = [own |-> ZeroMetrics, theirs |-> ZeroMetrics]
    /\ slot = ZeroSlot
    /\ reported = ZeroMetrics /\ events = ZeroMetrics

\* A server starts from the installed files c.
StartServer(c) ==
    /\ phase = "down"
    /\ \E s \in Servers : kind' = s[1] /\ route' = s[2]
    /\ code' = c /\ phase' = "idle"
    /\ UNCHANGED <<step, inputs, kv, metrics, slot, out, reported, events>>

\* The replicas there are.
Replicas(s) == [s EXCEPT !.batches = SubSeq(@, 1, kind.dp)]

\* TextGenerationInputs.__post_init__.
Schedule ==
    /\ phase \in {"idle", "handed"}
    /\ \E s \in Steps :
        /\ step' = Replicas(s)
        /\ inputs' = NewInputs(code, Replicas(s).batches)
    /\ phase' = "scheduled" /\ metrics' = None /\ out' = <<>>
    /\ UNCHANGED <<code, kind, route, kv, slot, reported, events>>

\* While the batch runs, blocks are served and transfers measured.
Served == [ZeroMetrics EXCEPT !.device_blocks_served = 1]
Transferred == [ZeroMetrics EXCEPT !.nixl_read_latency_total_ms = 2,
                                   !.nixl_read_latency_count = 1]
Counted == events.device_blocks_served + events.nixl_read_latency_count
Count(by) ==
    /\ phase = "scheduled" /\ kind.present /\ Counted < MaxEvents
    /\ by \in {"own"} \cup (IF kind.metrics THEN {"theirs"} ELSE {})
    /\ \E e \in {Served, Transferred} :
        /\ kv' = [kv EXCEPT ![by] = Add(@, e)]
        /\ events' = Add(events, e)
    /\ UNCHANGED <<phase, code, kind, route, step, inputs, metrics, slot, out, reported>>

\* The BatchMetrics of the step.  The occupancy is MAX's function of the sums of each
\* replica, and there is none without data parallelism.
Metrics(ins, s, values) ==
    [batch_type |-> ins.batch_type, batch_size |-> ins.batch_size,
     num_input_tokens |-> ins.input_tokens, num_context_tokens |-> ins.context_tokens,
     used_kv_pct |-> values.used_kv_pct, total_kv_blocks |-> values.total_kv_blocks,
     cache_hit_tokens |-> s.cache_hit_tokens,
     device_blocks_served |-> values.device_blocks_served,
     used_host_kv_pct |-> values.used_host_kv_pct,
     total_host_kv_bytes |-> values.total_host_kv_bytes,
     acceptance_rate_per_position |-> s.acceptance,
     nixl_read_latency_avg_ms |-> values.nixl_read_latency_avg_ms,
     overlap_active |-> s.overlap_active, completed |-> s.completed,
     dp_active_token_occupancy_pct |->
        IF Len(s.batches) = 1 THEN None
        ELSE <<ins.per_replica_input_tokens, ins.per_replica_context_tokens>>,
     vision_metrics |-> s.vision, video_metrics |-> s.video]

\* A connector that counts and never resets: MAX itself reports its counters again with
\* every step, and the history leaves it out.
Resets(k) == k.metrics => k.reset
Part(values) ==
    [device_blocks_served |-> values.device_blocks_served,
     nixl_read_latency_total_ms |-> values.nixl_read_latency_avg_ms[1],
     nixl_read_latency_count |-> values.nixl_read_latency_avg_ms[2]]

\* BatchMetrics.compute_values.
Compute ==
    LET part == KvPart(code, kind, step, kv) IN
    /\ phase = "scheduled"
    /\ metrics' = Metrics(inputs, step, part.values)
    /\ kv' = part.kv
    /\ reported' = IF Resets(kind) THEN Add(reported, Part(part.values)) ELSE reported
    /\ phase' = "computed"
    /\ UNCHANGED <<code, kind, route, step, inputs, slot, out, events>>

\* log_metrics with MAX_SERVE_RECORD_METRICS: the tuple is appended, decoded and
\* published.  A value that does not fit raises, and the step is not recorded.
Record ==
    LET values == Values(metrics) IN
    /\ phase = "computed" /\ route = "record"
    /\ out' = IF Encodes(values) /\ Publishes(FromRecord(ToRecord(values)))
              THEN <<ToMetrics(FromRecord(ToRecord(values)))>> ELSE <<>>
    /\ phase' = "handed"
    /\ UNCHANGED <<code, kind, route, step, inputs, kv, metrics, slot, reported, events>>

\* The batch log, reading the object.
AppendObject ==
    /\ phase = "computed" /\ route = "append"
    /\ out' = IF AppendFits(metrics) THEN <<FromMetrics(metrics)>> ELSE <<>>
    /\ phase' = "handed"
    /\ UNCHANGED <<code, kind, route, step, inputs, kv, metrics, slot, reported, events>>

\* The batch log, reading the slot: a writer that raises is not followed by a commit.
Commit(writer, written) ==
    /\ phase = "computed" /\ route = writer
    /\ slot' = written
    /\ out' = IF SlotFits(metrics) THEN <<FromSlot(slot')>> ELSE <<>>
    /\ phase' = "handed"
    /\ UNCHANGED <<code, kind, route, step, inputs, kv, metrics, reported, events>>
StructStep == Commit("struct", StructWrite(slot, metrics))
NumpyStep == Commit("numpy", NumpyWrite(slot, metrics))
DagrPyStep == Commit("dagr_py", DagrPyWrite(slot, metrics))

Hand == Record \/ AppendObject \/ StructStep \/ NumpyStep \/ DagrPyStep

Work ==
    \/ Schedule
    \/ \E by \in {"own", "theirs"} : Count(by)
    \/ Compute
    \/ Hand
StepNext == (\E c \in Code : StartServer(c)) \/ Work

StepSpec == StepInit /\ [][StepNext]_stepVars

-----------------------------------------------------------------------------
CounterValues == [DOMAIN ZeroMetrics -> Nat]
StepTypeOK ==
    /\ phase \in Phases
    /\ IF phase = "down" THEN code = None
       ELSE code \in Code /\ <<kind, route>> \in Servers
    /\ kv \in [own : CounterValues, theirs : CounterValues]
    /\ reported \in CounterValues /\ events \in CounterValues
    /\ Counted <= MaxEvents
    /\ phase \in {"down", "scheduled"} => metrics = None /\ out = <<>>
    /\ phase \in {"scheduled", "computed"} => Len(step.batches) = kind.dp
    /\ \A c \in Cells32 : slot[c] \in 0 .. Two32 - 1
    /\ \A c \in Cells64 : slot[c] \in 0 .. 2 * Half - 1

\* The speedups are exact (fast_values_patch.py, "Every change keeps the published
\* values identical"): whichever files are patched, and whatever connector, manager and
\* degree of parallelism the cache has, a step has the values MAX's own code gives it,
\* and leaves the counters as MAX's own reset does.
ComputedAsPristine ==
    [][phase = "scheduled" /\ phase' = "computed" =>
          LET part == PristineKv(kind, step, kv) IN
          /\ metrics' = Metrics(PristineInputs(step.batches), step, part.values)
          /\ kv' = part.kv]_stepVars

\* Read and reset: everything the counters count is reported with exactly one step,
\* or still to be reported (the alias of METRICS_NEW and metrics_snapshot, the two
\* resets of metrics_snapshot).
CountedOnce ==
    phase # "down" /\ Resets(kind) =>
        \A c \in DOMAIN ZeroMetrics :
            reported[c] + kv.own[c] + kv.theirs[c] = events[c]

\* The hand-offs of the batch log log the same record (check.py): a step that was handed
\* on through the slot is logged as append would have logged it, whatever the slot held
\* before, also after a writer that raised half-way; and it is logged unless a number
\* does not fit.
LoggedAsAppended ==
    phase = "handed" /\ route # "record" =>
        /\ out \in {<<>>, <<FromMetrics(metrics)>>}
        /\ AppendFits(metrics) /\ SlotFits(metrics) => out # <<>>

\* The telemetry process rebuilds the BatchMetrics of the worker (parity_test.py), with
\* every list, sub-record and enum member; a step is left out only if one of its
\* numbers does not fit.
PublishedAsComputed ==
    phase = "handed" /\ route = "record" =>
        out = IF Encodes(Values(metrics)) THEN <<metrics>> ELSE <<>>
=============================================================================
