------------------------------ MODULE MaxPatches ------------------------------
(***************************************************************************)
(* The edits of each file of MAX: design 1's, which are always made, and those *)
(* of PATCH_FAST_VALUES ("fast") and PATCH_KV_SNAPSHOT ("snapshot").             *)
(***************************************************************************)
EXTENDS AstPatch

\* What the edits look into opens a block, and so do the functions whose bodies they
\* replace; what they write are words.
BlockWords ==
    {"class BatchMetrics", "def compute_values", "def log_metrics",
     "def start_telemetry_consumer", "async with", "def process_telemetry",
     "class ModelWorker", "def run", "while True", "class TextGenerationInputs",
     "def batch_size", "class BlockManager", "def metrics",
     "class PagedKVCacheManager"}
NewWords ==
    {"def compute_values", "return values", "def from_values", "return cls",
     "def create", "return from_values", "_t0", "if _REC_PATH", "_rec_append",
     "return", "_t1", "_t2", "_stage_record", "def _rec_append", "append_values",
     "def _rec_shutdown", "close", "def _rec_idle_flush", "flush",
     "if num_replicas == 1", "one count", "else", "original", "_kv_snapshot",
     "if _kv_snapshot", "snapshot values", "elif kv_cache is not None", "_dir",
     "if _dir", "yield client", "if _TEL_TIMING", "_tel_record", "def _tel_record",
     "append batch", "if RECORD_METRICS", "tail_and_publish", "if MEASUREMENT_LOG",
     "tail_measurements", "_rec_idle_flush", "import _rec_idle_flush",
     "if _rec_path", "callback(_rec_shutdown)", "def __post_init__", "one pass",
     "return sum of lengths", "if empty connector metrics", "return _metrics",
     "def _empty_connector_metrics", "return types", "def metrics_snapshot",
     "return out", "def _snapshot_flags", "return flags", "import os", "import time"}

\* Statements of one line.
LineWords == {"return cls", "import threading"}

ASSUME WordsOfEdits ==
    BlockWords \subseteq Headers /\ NewWords \subseteq Words /\ LineWords \cap Headers = {}

\* patch_utils: create becomes compute_values, which returns a tuple, with a new create
\* after it; log_metrics records, and times what it did before.  The assertions on the last
\* statement of create, a call of cls with the fields of the record, are in AsExpected (a
\* release that fails them is refused: the step of a run that is killed).
UtilsEdits ==
    LET inCreate == <<"class BatchMetrics", "def compute_values">>
        inLog == <<"def log_metrics">>
    IN << HeaderOf(<<"class BatchMetrics">>, "def create", <<Line(1, "def compute_values")>>),
          Replace(inCreate, "return cls",
             <<Line(2, "return values"), Line(1, "def from_values"), Line(2, "return cls"),
               Line(1, "def create"), Line(2, "return from_values")>>),
          Before(inLog, "metrics = create",
             <<Line(2, "_t0"), Line(2, "if _REC_PATH"), Line(3, "_rec_append"),
               Line(3, "return")>>),
          Around(inLog, "with METRICS.transaction", <<Line(2, "_t1")>>, <<Line(2, "_t2")>>),
          After(<<>>, "def log_metrics", <<Line(2, "_stage_record")>>),
          AtEnd(<<Line(0, "def _rec_append"), Line(1, "append_values"),
                  Line(0, "def _rec_shutdown"), Line(1, "close"),
                  Line(0, "def _rec_idle_flush"), Line(1, "flush")>>) >>

\* fast_block_counts: the reads of one tier become the other branch of a test.
FastCounts ==
    LET in == <<"class BatchMetrics", "def compute_values">>
        Fast(local) ==
            Counts(in, local,
               <<Line(3, "if num_replicas == 1"), Line(4, "one count"), Line(3, "else"),
                 Line(1, "original")>>)
    IN  <<Fast("block_counts"), Fast("host_byte_counts"), Fast("disk_byte_counts")>>

\* kv_snapshot_call: the block becomes the elif of a test; its first line is rewritten.
KvSnapshotCall ==
    << Before(<<"class BatchMetrics", "def compute_values">>, "if kv_cache is not None",
          <<Line(2, "_kv_snapshot"), Line(2, "if _kv_snapshot"), Line(3, "snapshot values")>>),
       HeaderOf(<<"class BatchMetrics", "def compute_values">>, "if kv_cache is not None",
          <<Line(2, "elif kv_cache is not None")>>) >>

\* patch_telemetry_worker: the yield becomes the else branch of a test.
TelemetryWorkerEdits ==
    << ReplaceHere(<<"def start_telemetry_consumer", "async with">>, "yield",
          <<Line(0, "_dir"), Line(0, "if _dir"), Line(1, "yield client"), Line(0, "else"),
            Line(1, "original")>>) >>

\* patch_process_controller: the commit loop is timed, the tail threads are started.
ProcessControllerEdits ==
    << Replace(<<"def process_telemetry">>, "for m in ms",
          <<Line(4, "if _TEL_TIMING"), Line(5, "_t0"), Line(1, "original"),
            Line(5, "_tel_record"), Line(4, "else"), Line(1, "original")>>),
       AtEnd(<<Line(0, "def _tel_record"), Line(1, "append batch")>>),
       Before(<<>>, "return process_telemetry",
          <<Line(1, "if RECORD_METRICS"), Line(2, "tail_and_publish"),
            Line(1, "if MEASUREMENT_LOG"), Line(2, "tail_measurements")>>) >>

\* patch_model_worker: the second edit looks in the text of the first.
ModelWorkerEdits ==
    LET loop == <<"class ModelWorker", "def run", "while True">> IN
    << BodyStart(loop, "if NO_PROGRESS", <<Line(5, "_rec_idle_flush")>>),
       Before(<<"class ModelWorker", "def run">>, "while True",
          <<Line(3, "import _rec_idle_flush"), Line(3, "if _rec_path"),
            Line(4, "callback(_rec_shutdown)")>>) >>

\* patch_inputs, patch_block_manager and patch_cache_manager.
InputsEdits ==
    << Replace(<<"class TextGenerationInputs">>, "def __post_init__",
          <<Line(1, "def __post_init__"), Line(2, "one pass")>>),
       Body(<<"class TextGenerationInputs">>, "def batch_size", <<Line(2, "return sum of lengths")>>) >>
BlockManagerEdits ==
    << Body(<<"class BlockManager">>, "def metrics",
          <<Line(2, "if empty connector metrics"), Line(3, "return _metrics"),
            Line(0, "original")>>),
       AtEnd(<<Line(0, "def _empty_connector_metrics"), Line(1, "return types")>>) >>
CacheManagerEdits ==
    << Before(<<"class PagedKVCacheManager">>, "def get_metrics_aggregated",
          <<Line(1, "def metrics_snapshot"), Line(2, "return out")>>),
       AtEnd(<<Line(0, "def _snapshot_flags"), Line(1, "return flags")>>) >>

\* Modules are imported that are not yet: at the top, or beside one that is.  An import
\* counts as one when it is neither indented nor the first line ("\nimport os\n").
If(condition, edits) == IF condition THEN edits ELSE <<>>
HasLine(text, is) == \E i \in DOMAIN text : text[i].is = is
Imports(text, is) == \E i \in 2 .. Len(text) : text[i] = Line(0, is)
ImportOs(text) ==
    If(~Imports(text, "import os"), <<AtTop(<<Line(0, "import os")>>)>>)
ImportBeside(text) ==
    LET beside == Imports(text, "import threading") IN
    If(beside /\ ~Imports(text, "import os"),
       <<Before(<<>>, "import threading", <<Line(0, "import os")>>)>>)
    \o If(beside /\ ~Imports(text, "import time"),
          <<After(<<>>, "import threading", <<Line(0, "import time")>>)>>)

Edits(f, text, flags) ==
    CASE f = "utils" -> UtilsEdits \o If("fast" \in flags, FastCounts)
                                   \o If("snapshot" \in flags, KvSnapshotCall)
      [] f = "process_controller" -> ProcessControllerEdits \o ImportBeside(text)
      [] f = "model_worker" -> ModelWorkerEdits
      [] f = "telemetry_worker" -> TelemetryWorkerEdits \o ImportOs(text)
      [] f = "inputs" -> If("fast" \in flags, InputsEdits)
      [] f = "block_manager" -> If("fast" \in flags, BlockManagerEdits)
      [] f = "cache_manager" -> If("snapshot" \in flags, CacheManagerEdits)

\* A plausible mistake that no definition uses: an edit that finds no place is left out.
FaultyPatched(f, text, flags) ==
    LET out == EditAll(text, Edits(f, text, flags)) IN IF out = NotFound THEN text ELSE out

\* The text a run writes, or NotFound.
Patched(f, text, flags) == EditAll(text, Edits(f, text, flags))
=============================================================================
