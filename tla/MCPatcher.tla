------------------------------ MODULE MCPatcher ------------------------------
(* Two releases of MAX as the edits see them: what they look for, and what is around. *)
EXTENDS Patcher

MCWords == STRING
MCHeaders ==
    {"class BatchMetrics", "def create", "def compute_values", "def from_values",
     "if kv_cache is not None", "if _kv_snapshot", "elif kv_cache is not None",
     "if num_replicas == 1", "else", "def log_metrics", "if _REC_PATH",
     "with METRICS.transaction", "def _rec_append", "def _rec_shutdown", "def _rec_idle_flush",
     "def process_telemetry", "for m in ms", "if _TEL_TIMING", "def _tel_record",
     "def run_telemetry", "try", "if ms", "if RECORD_METRICS", "if MEASUREMENT_LOG",
     "class ModelWorker", "def run", "async with", "while True", "if NO_PROGRESS",
     "if _rec_path", "def start_telemetry_consumer", "if _dir",
     "class TextGenerationInputs", "def __post_init__", "def batch_size",
     "def publish_metrics", "class Scheduler", "def stop", "def reset_metrics",
     "class CacheMetrics", "def block_count",
     "class BlockManager", "def metrics", "if empty connector metrics",
     "def _empty_connector_metrics", "class PagedKVCacheManager",
     "def get_metrics_aggregated", "def metrics_snapshot", "def _snapshot_flags"}

\* more: what release 1 has in addition.
Utils(more) ==
    << Line(0, "class BatchMetrics"), Line(1, "def create"), Line(2, "throughput"),
       Line(2, "if kv_cache is not None"), Line(3, "block_counts"), Line(3, "sum"),
       Line(3, "sum"), Line(3, "assert"), Line(3, "host_byte_counts"), Line(3, "sum") >>
    \o If(more, <<Line(3, "tier_rates")>>)
    \o << Line(3, "disk_byte_counts"), Line(3, "sum"), Line(3, "reset_metrics"),
          Line(2, "return cls"), Line(1, "def publish_metrics"), Line(2, "record"),
          Line(0, "class Scheduler"), Line(1, "def log_metrics"), Line(2, "vision"),
          Line(2, "metrics = create"), Line(2, "with METRICS.transaction"),
          Line(3, "publish_metrics") >>
    \o If(more, <<Line(3, "publish_completed")>>)
    \o <<Line(2, "log line")>>
ProcessController(more) ==
    <<Line(0, "license")>> \o If(more, <<Line(0, "import os")>>)
    \o << Line(0, "import threading"),
          Line(0, "def process_telemetry"), Line(1, "while True"), Line(2, "try"),
          Line(3, "if ms"), Line(4, "for m in ms"), Line(5, "commit_fn"),
          Line(0, "def run_telemetry"), Line(1, "setup"), Line(1, "return process_telemetry") >>
ModelWorker ==
    << Line(0, "class ModelWorker"), Line(1, "def run"), Line(2, "async with"),
       Line(3, "while True"), Line(4, "if NO_PROGRESS"), Line(5, "sleep"), Line(1, "def stop"),
       Line(2, "join") >>
TelemetryWorker(more) ==
    If(more, <<Line(0, "license"), Line(0, "import os")>>)
    \o << Line(0, "def start_telemetry_consumer"), Line(1, "async with"), Line(2, "yield"),
          Line(1, "yield") >>
Inputs ==
    << Line(0, "class TextGenerationInputs"), Line(1, "def __post_init__"),
       Line(2, "count tokens"), Line(1, "def batch_size"), Line(2, "return real contexts") >>
BlockManager(more) ==
    << Line(0, "class BlockManager"), Line(1, "def metrics") >>
    \o If(more, <<Line(2, "docstring of metrics")>>)
    \o << Line(2, "return sum of metrics"), Line(1, "def reset_metrics"), Line(2, "fresh") >>
\* Release 1 has the method elsewhere.
CacheManager(more) ==
    If(more, <<Line(0, "class CacheMetrics"), Line(1, "def get_metrics_aggregated"), Line(2, "add")>>)
    \o << Line(0, "class PagedKVCacheManager"), Line(1, "def block_count"), Line(2, "count") >>
    \o If(~more, <<Line(1, "def get_metrics_aggregated"), Line(2, "add")>>)

MCMaxTexts ==
    [r \in Releases |->
        [f \in Files |->
            CASE f = "utils" -> Utils(r = 1)
              [] f = "process_controller" -> ProcessController(r = 1)
              [] f = "model_worker" -> ModelWorker
              [] f = "telemetry_worker" -> TelemetryWorker(r = 1)
              [] f = "inputs" -> Inputs
              [] f = "block_manager" -> BlockManager(r = 1)
              [] f = "cache_manager" -> CacheManager(r = 1)]]

\* Both releases are what the edits were written for.
ASSUME ReleasesAsExpected == \A r \in Releases, f \in Files : AsExpected(f, MCMaxTexts[r][f])
=============================================================================
