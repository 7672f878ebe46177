----------------------------- MODULE FastValues -----------------------------
(***************************************************************************)
(* The values BatchMetrics.compute_values takes from the batch and from the  *)
(* KV cache, as MAX computes them and as the exact speedups of               *)
(* fast_values_patch.py do (PATCH_FAST_VALUES, PATCH_KV_SNAPSHOT).             *)
(*                                                                         *)
(* MAX's own definitions are external; they are what the tests               *)
(* fast_values_equiv.py and kv_snapshot_equiv.py compare with.  A quotient is *)
(* the pair of its numbers, <<0, 0>> where the code gives 0.0.                 *)
(***************************************************************************)
EXTENDS Integers, Sequences, SequencesExt, FiniteSetsExt

CONSTANT Blocks    \* total_num_blocks, of every replica

ASSUME ValuesConstants == Blocks \in Nat \ {0}

\* KVCacheMetrics, one plain counter and one latency.
ZeroMetrics == [device_blocks_served |-> 0, nixl_read_latency_total_ms |-> 0,
                nixl_read_latency_count |-> 0]
Add(a, b) == [c \in DOMAIN ZeroMetrics |-> a[c] + b[c]]
Quotient(a, b) == IF b = 0 THEN <<0, 0>> ELSE <<a, b>>
Sum(f) == MapThenSumSet(LAMBDA i : f[i], DOMAIN f)

\* A KV cache: what its connector and block manager override of MAX's classes, and
\* the degree of data parallelism.  A cache that is None has a degree all the same.
CacheKinds == [present : BOOLEAN, counts : BOOLEAN, metrics : BOOLEAN, reset : BOOLEAN,
               manager : BOOLEAN, dp : Nat \ {0}]
\* The counters: the manager's own (kept in _metrics unless the manager overrides
\* MAX's) and those of the connector.
Counters(kind, kv) == IF kind.metrics THEN Add(kv.own, kv.theirs) ELSE kv.own

-----------------------------------------------------------------------------
\* External: MAX's BlockManager and PagedKVCacheManager.

ByteCounts(kind, use) ==
    IF kind.counts THEN use.host ELSE [i \in 1 .. kind.dp |-> [total |-> 0, used |-> 0]]
PristineBlocks(kind, use) ==
    [total |-> Sum([i \in 1 .. kind.dp |-> Blocks]),
     used |-> Sum([i \in 1 .. kind.dp |-> Blocks - use.free[i]])]
PristineHost(kind, use) ==
    LET host == ByteCounts(kind, use) IN
    [total |-> Sum([i \in 1 .. kind.dp |-> host[i].total]),
     used |-> Sum([i \in 1 .. kind.dp |-> host[i].used])]
ResetMetrics(kind, kv) ==
    [own |-> ZeroMetrics, theirs |-> IF kind.reset THEN ZeroMetrics ELSE kv.theirs]

KvValues(blocks, host, m) ==
    [total_kv_blocks |-> blocks.total, used_kv_pct |-> Quotient(blocks.used, blocks.total),
     total_host_kv_bytes |-> host.total, used_host_kv_pct |-> Quotient(host.used, host.total),
     device_blocks_served |-> m.device_blocks_served,
     nixl_read_latency_avg_ms |->
        Quotient(m.nixl_read_latency_total_ms, m.nixl_read_latency_count)]
NoKvValues == KvValues([total |-> 0, used |-> 0], [total |-> 0, used |-> 0], ZeroMetrics)

PristineKv(kind, use, kv) ==
    IF ~kind.present THEN [values |-> NoKvValues, kv |-> kv]
    ELSE [values |-> KvValues(PristineBlocks(kind, use), PristineHost(kind, use),
                              Counters(kind, kv)),
          kv |-> ResetMetrics(kind, kv)]

-----------------------------------------------------------------------------
\* External: MAX's TextGenerationInputs, a pass over the batches for every value.
Contexts(batches) == UNION {{i} \X DOMAIN batches[i] : i \in DOMAIN batches}
Over(batches, chosen, field) ==
    MapThenSumSet(LAMBDA p : batches[p[1]][p[2]][field], chosen)
PristineInputs(batches) ==
    LET all == Contexts(batches)
        real == {p \in all : ~batches[p[1]][p[2]].padding}
    IN  [input_tokens |-> Over(batches, all, "active"),
         context_tokens |-> Over(batches, all, "processed"),
         per_replica_input_tokens |->
            [i \in DOMAIN batches |-> Over(batches, {p \in real : p[1] = i}, "active")],
         per_replica_context_tokens |->
            [i \in DOMAIN batches |-> Over(batches, {p \in real : p[1] = i}, "processed")],
         batch_size |-> Cardinality(real),
         batch_type |->
            IF \E p \in all : batches[p[1]][p[2]].generated = 0 THEN "CE" ELSE "TG"]
-----------------------------------------------------------------------------
\* PATCH_FAST_VALUES: one pass over the contexts, replica by replica.
Start == [input_tokens |-> 0, context_tokens |-> 0, num_padding |-> 0, is_ce |-> FALSE,
          replica_input |-> 0, replica_context |-> 0,
          per_replica_input_tokens |-> <<>>, per_replica_context_tokens |-> <<>>]
Visit(acc, ctx) ==
    LET seen == [acc EXCEPT !.input_tokens = @ + ctx.active,
                            !.context_tokens = @ + ctx.processed,
                            !.is_ce = @ \/ ctx.generated = 0]
    IN  IF ctx.padding THEN [seen EXCEPT !.num_padding = @ + 1]
        ELSE [seen EXCEPT !.replica_input = @ + ctx.active,
                          !.replica_context = @ + ctx.processed]
VisitBatch(acc, batch) ==
    LET end == FoldLeft(Visit, [acc EXCEPT !.replica_input = 0, !.replica_context = 0], batch)
    IN  [end EXCEPT !.per_replica_input_tokens = Append(@, end.replica_input),
                    !.per_replica_context_tokens = Append(@, end.replica_context)]
OnePass(batches) ==
    LET end == FoldLeft(VisitBatch, Start, batches) IN
    [input_tokens |-> end.input_tokens, context_tokens |-> end.context_tokens,
     per_replica_input_tokens |-> end.per_replica_input_tokens,
     per_replica_context_tokens |-> end.per_replica_context_tokens,
     batch_size |-> Sum([i \in DOMAIN batches |-> Len(batches[i])]) - end.num_padding,
     batch_type |-> IF end.is_ce THEN "CE" ELSE "TG"]

\* The code that runs: which of the edits each installed file has.
Code == [utilsFast : BOOLEAN, utilsSnapshot : BOOLEAN, inputsFast : BOOLEAN,
         managerFast : BOOLEAN, cacheSnapshot : BOOLEAN]

NewInputs(code, batches) ==
    IF code.inputsFast THEN OnePass(batches) ELSE PristineInputs(batches)

-----------------------------------------------------------------------------
\* Plausible mistakes; no definition uses them.

\* A fresh KVCacheMetrics for every manager, and nothing else.
FaultySnapshotReset(kind, kv) == [kv EXCEPT !.own = ZeroMetrics]

\* One replica read for all.
FaultyOneReplica(kind) == TRUE

-----------------------------------------------------------------------------
\* With one replica, PATCH_FAST_VALUES and the snapshot read one count, and no sum.
OneReplica(kind) == kind.dp = 1
FastBlocks(kind, use) ==
    IF OneReplica(kind) THEN [total |-> Blocks, used |-> Blocks - use.free[1]]
    ELSE PristineBlocks(kind, use)
FastHost(kind, use) ==
    IF OneReplica(kind) THEN ByteCounts(kind, use)[1] ELSE PristineHost(kind, use)

\* A connector whose metrics are always empty, and BlockManager.metrics, which an
\* overriding manager replaces whether it is patched or not.
EmptyMetrics(kind) == ~kind.metrics
ManagerMetrics(code, kind, kv) ==
    IF code.managerFast /\ ~kind.manager /\ EmptyMetrics(kind) THEN kv.own
    ELSE Counters(kind, kv)

\* The calls of compute_values, followed by reset_metrics.
PerCall(code, kind, use, kv) ==
    [values |->
        KvValues(IF code.utilsFast THEN FastBlocks(kind, use) ELSE PristineBlocks(kind, use),
                 IF code.utilsFast THEN FastHost(kind, use) ELSE PristineHost(kind, use),
                 ManagerMetrics(code, kind, kv)),
     kv |-> ResetMetrics(kind, kv)]

\* PATCH_KV_SNAPSHOT: metrics_snapshot.  _metrics is the manager's own attribute: one
\* that overrides MAX's keeps its counters elsewhere.
SnapshotFlags(kind) ==
    [default_counts |-> ~kind.counts, empty_metrics |-> EmptyMetrics(kind) /\ ~kind.reset,
     default_manager |-> ~kind.manager]
OwnAttribute(kind, kv) == IF kind.manager THEN ZeroMetrics ELSE kv.own
Simple(kind) == SnapshotFlags(kind).empty_metrics /\ SnapshotFlags(kind).default_manager
SnapshotMetrics(code, kind, kv) ==
    IF Simple(kind) THEN OwnAttribute(kind, kv) ELSE ManagerMetrics(code, kind, kv)
SnapshotReset(kind, kv) ==
    IF Simple(kind) THEN [kv EXCEPT !.own = ZeroMetrics] ELSE ResetMetrics(kind, kv)
Snapshot(code, kind, use, kv) ==
    [values |->
        KvValues(FastBlocks(kind, use),
                 IF SnapshotFlags(kind).default_counts THEN [total |-> 0, used |-> 0]
                 ELSE PristineHost(kind, use),
                 SnapshotMetrics(code, kind, kv)),
     kv |-> SnapshotReset(kind, kv)]

\* compute_values: the snapshot if the cache has it, else the original block.
KvPart(code, kind, use, kv) ==
    IF ~kind.present THEN [values |-> NoKvValues, kv |-> kv]
    ELSE IF code.utilsSnapshot /\ code.cacheSnapshot THEN Snapshot(code, kind, use, kv)
    ELSE PerCall(code, kind, use, kv)
=============================================================================
