---------------------------- MODULE Patcher_proofs ----------------------------
(***************************************************************************)
(* Proofs about Patcher, for any number of runs and upgrades.  From backups   *)
(* that are MAX's own files a run that finishes gives what one run over a fresh *)
(* MAX gives, the backups are that as long as no copy is cut and MAX is not      *)
(* upgraded, and wherever a run is killed the worker never imports what utils     *)
(* does not have.  And, file by file: MAX's own lines are all there after such a   *)
(* run, and each edit stands where it was meant to, as long as MAX's text is what   *)
(* AsExpected says of it.                                                            *)
(***************************************************************************)
EXTENDS Patcher, Edits_proofs

-----------------------------------------------------------------------------
(* The edits of MAX.                                                       *)

LEMMA UtilsEditsIn == GoodEdits(UtilsEdits)
<1> DEFINE in1 == <<"class BatchMetrics">>
           in2 == <<"class BatchMetrics", "def compute_values">>
           in3 == <<"def log_metrics">>
           in4 == <<>>
           new1 == <<Line(1, "def compute_values")>>
           new2 == <<Line(2, "return values"), Line(1, "def from_values"),
                     Line(2, "return cls"), Line(1, "def create"),
                     Line(2, "return from_values")>>
           new3 == <<Line(2, "_t0"), Line(2, "if _REC_PATH"), Line(3, "_rec_append"),
                     Line(3, "return")>>
           new4 == <<Line(2, "_t1")>>
           new5 == <<Line(2, "_t2")>>
           new6 == <<Line(2, "_stage_record")>>
           new7 == <<Line(0, "def _rec_append"), Line(1, "append_values"),
                     Line(0, "def _rec_shutdown"), Line(1, "close"),
                     Line(0, "def _rec_idle_flush"), Line(1, "flush")>>
<1>1. /\ "class BatchMetrics" \in Headers /\ "def compute_values" \in Headers
      /\ "def log_metrics" \in Headers
  BY WordsOfEdits DEF BlockWords
<1>2. "def compute_values" \in Words
  BY WordsOfEdits DEF NewWords
<1>3. /\ "return values" \in Words /\ "def from_values" \in Words
      /\ "return cls" \in Words /\ "def create" \in Words
      /\ "return from_values" \in Words
  BY WordsOfEdits DEF NewWords
<1>4. /\ "_t0" \in Words /\ "if _REC_PATH" \in Words /\ "_rec_append" \in Words
      /\ "return" \in Words
  BY WordsOfEdits DEF NewWords
<1>5. "_t1" \in Words
  BY WordsOfEdits DEF NewWords
<1>6. "_t2" \in Words
  BY WordsOfEdits DEF NewWords
<1>7. "_stage_record" \in Words
  BY WordsOfEdits DEF NewWords
<1>8. /\ "def _rec_append" \in Words /\ "append_values" \in Words
      /\ "def _rec_shutdown" \in Words /\ "close" \in Words
      /\ "def _rec_idle_flush" \in Words /\ "flush" \in Words
  BY WordsOfEdits DEF NewWords
<1>9. /\ in1 \in Seq(Headers) /\ in2 \in Seq(Headers) /\ in3 \in Seq(Headers)
      /\ in4 \in Seq(Headers)
  BY <1>1, Tuples
<1>10. new1 \in Seq(Lines)
  BY <1>2, LineIn, Tuples
<1>11. new2 \in Seq(Lines)
  BY <1>3, LineIn, Tuples
<1>12. new3 \in Seq(Lines)
  BY <1>4, LineIn, Tuples
<1>13. new4 \in Seq(Lines)
  BY <1>5, LineIn, Tuples
<1>14. new5 \in Seq(Lines)
  BY <1>6, LineIn, Tuples
<1>15. new6 \in Seq(Lines)
  BY <1>7, LineIn, Tuples
<1>16. new7 \in Seq(Lines)
  BY <1>8, LineIn, Tuples
<1> HIDE DEF in1, in2, in3, in4, new1, new2, new3, new4, new5, new6, new7
<1> DEFINE a == HeaderOf(in1, "def create", new1)
           b == Replace(in2, "return cls", new2)
           c == Before(in3, "metrics = create", new3)
           d == Around(in3, "with METRICS.transaction", new4, new5)
           e == After(in4, "def log_metrics", new6)
           f == AtEnd(new7)
<1>17. EditOK(a)
  BY <1>9, <1>10, Shapes
<1>18. EditOK(b)
  BY <1>9, <1>11, Shapes
<1>19. EditOK(c)
  BY <1>9, <1>12, Shapes
<1>20. EditOK(d)
  BY <1>9, <1>13, <1>14, Shapes
<1>21. EditOK(e)
  BY <1>9, <1>15, Shapes
<1>22. EditOK(f)
  BY <1>16, EndShapes
<1>23. UtilsEdits = <<a, b, c, d, e, f>>
  BY DEF UtilsEdits, in1, in2, in3, in4, new1, new2, new3, new4, new5, new6, new7
<1> HIDE DEF a, b, c, d, e, f
<1> QED
  BY <1>17, <1>18, <1>19, <1>20, <1>21, <1>22, <1>23, GoodTuples

LEMMA FastCountsIn == GoodEdits(FastCounts)
<1> DEFINE in1 == <<"class BatchMetrics", "def compute_values">>
           new1 == <<Line(3, "if num_replicas == 1"), Line(4, "one count"),
                     Line(3, "else"), Line(1, "original")>>
<1>1. "class BatchMetrics" \in Headers /\ "def compute_values" \in Headers
  BY WordsOfEdits DEF BlockWords
<1>2. /\ "if num_replicas == 1" \in Words /\ "one count" \in Words /\ "else" \in Words
      /\ "original" \in Words
  BY WordsOfEdits DEF NewWords
<1>3. in1 \in Seq(Headers)
  BY <1>1, Tuples
<1>4. new1 \in Seq(Lines)
  BY <1>2, LineIn, Tuples
<1> HIDE DEF in1, new1
<1> DEFINE a == Counts(in1, "block_counts", new1)
           b == Counts(in1, "host_byte_counts", new1)
           c == Counts(in1, "disk_byte_counts", new1)
<1>5. EditOK(a)
  BY <1>3, <1>4, Shapes
<1>6. EditOK(b)
  BY <1>3, <1>4, Shapes
<1>7. EditOK(c)
  BY <1>3, <1>4, Shapes
<1>8. FastCounts = <<a, b, c>>
  BY DEF FastCounts, in1, new1
<1> HIDE DEF a, b, c
<1> QED
  BY <1>5, <1>6, <1>7, <1>8, GoodTuples

LEMMA KvSnapshotCallIn == GoodEdits(KvSnapshotCall)
<1> DEFINE in1 == <<"class BatchMetrics", "def compute_values">>
           new1 == <<Line(2, "_kv_snapshot"), Line(2, "if _kv_snapshot"),
                     Line(3, "snapshot values")>>
           new2 == <<Line(2, "elif kv_cache is not None")>>
<1>1. "class BatchMetrics" \in Headers /\ "def compute_values" \in Headers
  BY WordsOfEdits DEF BlockWords
<1>2. /\ "_kv_snapshot" \in Words /\ "if _kv_snapshot" \in Words
      /\ "snapshot values" \in Words /\ "elif kv_cache is not None" \in Words
  BY WordsOfEdits DEF NewWords
<1>3. in1 \in Seq(Headers)
  BY <1>1, Tuples
<1>4. new1 \in Seq(Lines) /\ new2 \in Seq(Lines)
  BY <1>2, LineIn, Tuples
<1> HIDE DEF in1, new1, new2
<1> DEFINE a == Before(in1, "if kv_cache is not None", new1)
           b == HeaderOf(in1, "if kv_cache is not None", new2)
<1>5. EditOK(a)
  BY <1>3, <1>4, Shapes
<1>6. EditOK(b)
  BY <1>3, <1>4, Shapes
<1>7. KvSnapshotCall = <<a, b>>
  BY DEF KvSnapshotCall, in1, new1, new2
<1> HIDE DEF a, b
<1> QED
  BY <1>5, <1>6, <1>7, GoodTuples

LEMMA TelemetryWorkerEditsIn == GoodEdits(TelemetryWorkerEdits)
<1> DEFINE in1 == <<"def start_telemetry_consumer", "async with">>
           new1 == <<Line(0, "_dir"), Line(0, "if _dir"), Line(1, "yield client"),
                     Line(0, "else"), Line(1, "original")>>
<1>1. "def start_telemetry_consumer" \in Headers /\ "async with" \in Headers
  BY WordsOfEdits DEF BlockWords
<1>2. /\ "_dir" \in Words /\ "if _dir" \in Words /\ "yield client" \in Words
      /\ "else" \in Words /\ "original" \in Words
  BY WordsOfEdits DEF NewWords
<1>3. in1 \in Seq(Headers)
  BY <1>1, Tuples
<1>4. new1 \in Seq(Lines)
  BY <1>2, LineIn, Tuples
<1> HIDE DEF in1, new1
<1> DEFINE a == ReplaceHere(in1, "yield", new1)
<1>5. EditOK(a)
  BY <1>3, <1>4, Shapes
<1>6. TelemetryWorkerEdits = <<a>>
  BY DEF TelemetryWorkerEdits, in1, new1
<1> HIDE DEF a
<1> QED
  BY <1>5, <1>6, GoodTuples

LEMMA ProcessControllerEditsIn == GoodEdits(ProcessControllerEdits)
<1> DEFINE in1 == <<"def process_telemetry">>
           in2 == <<>>
           new1 == <<Line(4, "if _TEL_TIMING"), Line(5, "_t0"), Line(1, "original"),
                     Line(5, "_tel_record"), Line(4, "else"), Line(1, "original")>>
           new2 == <<Line(0, "def _tel_record"), Line(1, "append batch")>>
           new3 == <<Line(1, "if RECORD_METRICS"), Line(2, "tail_and_publish"),
                     Line(1, "if MEASUREMENT_LOG"), Line(2, "tail_measurements")>>
<1>1. "def process_telemetry" \in Headers
  BY WordsOfEdits DEF BlockWords
<1>2. /\ "if _TEL_TIMING" \in Words /\ "_t0" \in Words /\ "original" \in Words
      /\ "_tel_record" \in Words /\ "else" \in Words
  BY WordsOfEdits DEF NewWords
<1>3. "def _tel_record" \in Words /\ "append batch" \in Words
  BY WordsOfEdits DEF NewWords
<1>4. /\ "if RECORD_METRICS" \in Words /\ "tail_and_publish" \in Words
      /\ "if MEASUREMENT_LOG" \in Words /\ "tail_measurements" \in Words
  BY WordsOfEdits DEF NewWords
<1>5. in1 \in Seq(Headers) /\ in2 \in Seq(Headers)
  BY <1>1, Tuples
<1>6. new1 \in Seq(Lines)
  BY <1>2, LineIn, Tuples
<1>7. new2 \in Seq(Lines)
  BY <1>3, LineIn, Tuples
<1>8. new3 \in Seq(Lines)
  BY <1>4, LineIn, Tuples
<1> HIDE DEF in1, in2, new1, new2, new3
<1> DEFINE a == Replace(in1, "for m in ms", new1)
           b == AtEnd(new2)
           c == Before(in2, "return process_telemetry", new3)
<1>9. EditOK(a)
  BY <1>5, <1>6, Shapes
<1>10. EditOK(b)
  BY <1>7, EndShapes
<1>11. EditOK(c)
  BY <1>5, <1>8, Shapes
<1>12. ProcessControllerEdits = <<a, b, c>>
  BY DEF ProcessControllerEdits, in1, in2, new1, new2, new3
<1> HIDE DEF a, b, c
<1> QED
  BY <1>9, <1>10, <1>11, <1>12, GoodTuples

LEMMA ModelWorkerEditsIn == GoodEdits(ModelWorkerEdits)
<1> DEFINE in1 == <<"class ModelWorker", "def run", "while True">>
           in2 == <<"class ModelWorker", "def run">>
           new1 == <<Line(5, "_rec_idle_flush")>>
           new2 == <<Line(3, "import _rec_idle_flush"), Line(3, "if _rec_path"),
                     Line(4, "callback(_rec_shutdown)")>>
<1>1. /\ "class ModelWorker" \in Headers /\ "def run" \in Headers
      /\ "while True" \in Headers
  BY WordsOfEdits DEF BlockWords
<1>2. /\ "_rec_idle_flush" \in Words /\ "import _rec_idle_flush" \in Words
      /\ "if _rec_path" \in Words /\ "callback(_rec_shutdown)" \in Words
  BY WordsOfEdits DEF NewWords
<1>3. in1 \in Seq(Headers) /\ in2 \in Seq(Headers)
  BY <1>1, Tuples
<1>4. new1 \in Seq(Lines) /\ new2 \in Seq(Lines)
  BY <1>2, LineIn, Tuples
<1> HIDE DEF in1, in2, new1, new2
<1> DEFINE a == BodyStart(in1, "if NO_PROGRESS", new1)
           b == Before(in2, "while True", new2)
<1>5. EditOK(a)
  BY <1>3, <1>4, Shapes
<1>6. EditOK(b)
  BY <1>3, <1>4, Shapes
<1>7. ModelWorkerEdits = <<a, b>>
  BY DEF ModelWorkerEdits, in1, in2, new1, new2
<1> HIDE DEF a, b
<1> QED
  BY <1>5, <1>6, <1>7, GoodTuples

LEMMA InputsEditsIn == GoodEdits(InputsEdits)
<1> DEFINE in1 == <<"class TextGenerationInputs">>
           new1 == <<Line(1, "def __post_init__"), Line(2, "one pass")>>
           new2 == <<Line(2, "return sum of lengths")>>
<1>1. "class TextGenerationInputs" \in Headers /\ "def batch_size" \in Headers
  BY WordsOfEdits DEF BlockWords
<1>2. /\ "def __post_init__" \in Words /\ "one pass" \in Words
      /\ "return sum of lengths" \in Words
  BY WordsOfEdits DEF NewWords
<1>3. in1 \in Seq(Headers)
  BY <1>1, Tuples
<1>4. new1 \in Seq(Lines) /\ new2 \in Seq(Lines)
  BY <1>2, LineIn, Tuples
<1> HIDE DEF in1, new1, new2
<1> DEFINE a == Replace(in1, "def __post_init__", new1)
           b == Body(in1, "def batch_size", new2)
<1>5. EditOK(a)
  BY <1>3, <1>4, Shapes
<1>6. EditOK(b)
  BY <1>1, <1>3, <1>4, Shapes
<1>7. InputsEdits = <<a, b>>
  BY DEF InputsEdits, in1, new1, new2
<1> HIDE DEF a, b
<1> QED
  BY <1>5, <1>6, <1>7, GoodTuples

LEMMA BlockManagerEditsIn == GoodEdits(BlockManagerEdits)
<1> DEFINE in1 == <<"class BlockManager">>
           new1 == <<Line(2, "if empty connector metrics"), Line(3, "return _metrics"),
                     Line(0, "original")>>
           new2 == <<Line(0, "def _empty_connector_metrics"), Line(1, "return types")>>
<1>1. "class BlockManager" \in Headers /\ "def metrics" \in Headers
  BY WordsOfEdits DEF BlockWords
<1>2. /\ "if empty connector metrics" \in Words /\ "return _metrics" \in Words
      /\ "original" \in Words /\ "def _empty_connector_metrics" \in Words
      /\ "return types" \in Words
  BY WordsOfEdits DEF NewWords
<1>3. in1 \in Seq(Headers)
  BY <1>1, Tuples
<1>4. new1 \in Seq(Lines) /\ new2 \in Seq(Lines)
  BY <1>2, LineIn, Tuples
<1> HIDE DEF in1, new1, new2
<1> DEFINE a == Body(in1, "def metrics", new1)
           b == AtEnd(new2)
<1>5. EditOK(a)
  BY <1>1, <1>3, <1>4, Shapes
<1>6. EditOK(b)
  BY <1>4, EndShapes
<1>7. BlockManagerEdits = <<a, b>>
  BY DEF BlockManagerEdits, in1, new1, new2
<1> HIDE DEF a, b
<1> QED
  BY <1>5, <1>6, <1>7, GoodTuples

LEMMA CacheManagerEditsIn == GoodEdits(CacheManagerEdits)
<1> DEFINE in1 == <<"class PagedKVCacheManager">>
           new1 == <<Line(1, "def metrics_snapshot"), Line(2, "return out")>>
           new2 == <<Line(0, "def _snapshot_flags"), Line(1, "return flags")>>
<1>1. "class PagedKVCacheManager" \in Headers
  BY WordsOfEdits DEF BlockWords
<1>2. /\ "def metrics_snapshot" \in Words /\ "return out" \in Words
      /\ "def _snapshot_flags" \in Words /\ "return flags" \in Words
  BY WordsOfEdits DEF NewWords
<1>3. in1 \in Seq(Headers)
  BY <1>1, Tuples
<1>4. new1 \in Seq(Lines) /\ new2 \in Seq(Lines)
  BY <1>2, LineIn, Tuples
<1> HIDE DEF in1, new1, new2
<1> DEFINE a == Before(in1, "def get_metrics_aggregated", new1)
           b == AtEnd(new2)
<1>5. EditOK(a)
  BY <1>3, <1>4, Shapes
<1>6. EditOK(b)
  BY <1>4, EndShapes
<1>7. CacheManagerEdits = <<a, b>>
  BY DEF CacheManagerEdits, in1, new1, new2
<1> HIDE DEF a, b
<1> QED
  BY <1>5, <1>6, <1>7, GoodTuples

LEMMA ImportsGood == \A text : GoodEdits(ImportOs(text)) /\ GoodEdits(ImportBeside(text))
<1> SUFFICES ASSUME NEW text
             PROVE  GoodEdits(ImportOs(text)) /\ GoodEdits(ImportBeside(text))
  OBVIOUS
<1> DEFINE none == <<>>
           os == <<Line(0, "import os")>>
           time == <<Line(0, "import time")>>
<1>1. "import os" \in Words /\ "import time" \in Words
  BY WordsOfEdits DEF NewWords
<1>2. none \in Seq(Headers)
  BY Tuples
<1>3. os \in Seq(Lines) /\ time \in Seq(Lines)
  BY <1>1, LineIn, Tuples
<1> HIDE DEF none, os, time
<1> DEFINE a == AtTop(os)
           b == Before(none, "import threading", os)
           c == After(none, "import threading", time)
<1>4. EditOK(a)
  BY <1>3, EndShapes
<1>5. EditOK(b) /\ EditOK(c)
  BY <1>2, <1>3, Shapes
<1>6. /\ ImportOs(text) = If(~Imports(text, "import os"), <<a>>)
      /\ ImportBeside(text) =
             If(Imports(text, "import threading") /\ ~Imports(text, "import os"), <<b>>)
          \o If(Imports(text, "import threading") /\ ~Imports(text, "import time"), <<c>>)
  BY DEF ImportOs, ImportBeside, none, os, time
<1> HIDE DEF a, b, c
<1>7. GoodEdits(<<a>>) /\ GoodEdits(<<b>>) /\ GoodEdits(<<c>>)
  BY <1>4, <1>5, GoodTuples
<1> QED
  BY <1>6, <1>7, IfGood, GoodJoin

\* Every list is of edits that can be made.
LEMMA EditsGood ==
    ASSUME NEW text, NEW fl,
           NEW f \in {"utils", "process_controller", "model_worker", "telemetry_worker",
                      "inputs", "block_manager", "cache_manager"}
    PROVE  GoodEdits(Edits(f, text, fl))
<1>1. CASE f = "utils"
  <2>1. /\ GoodEdits(If("fast" \in fl, FastCounts))
        /\ GoodEdits(If("snapshot" \in fl, KvSnapshotCall))
    BY FastCountsIn, KvSnapshotCallIn, IfGood
  <2>2. GoodEdits(UtilsEdits \o If("fast" \in fl, FastCounts))
    BY <2>1, UtilsEditsIn, GoodJoin
  <2>3. GoodEdits((UtilsEdits \o If("fast" \in fl, FastCounts))
                      \o If("snapshot" \in fl, KvSnapshotCall))
    BY <2>1, <2>2, GoodJoin
  <2> QED
    BY <1>1, <2>3 DEF Edits
<1>2. CASE f = "process_controller"
  <2>1. GoodEdits(ProcessControllerEdits \o ImportBeside(text))
    BY ProcessControllerEditsIn, ImportsGood, GoodJoin
  <2> QED
    BY <1>2, <2>1 DEF Edits
<1>3. CASE f = "model_worker"
  BY <1>3, ModelWorkerEditsIn DEF Edits
<1>4. CASE f = "telemetry_worker"
  <2>1. GoodEdits(TelemetryWorkerEdits \o ImportOs(text))
    BY TelemetryWorkerEditsIn, ImportsGood, GoodJoin
  <2> QED
    BY <1>4, <2>1 DEF Edits
<1>5. CASE f = "inputs"
  BY <1>5, InputsEditsIn, IfGood DEF Edits
<1>6. CASE f = "block_manager"
  BY <1>6, BlockManagerEditsIn, IfGood DEF Edits
<1>7. CASE f = "cache_manager"
  BY <1>7, CacheManagerEditsIn, IfGood DEF Edits
<1> QED
  BY <1>1, <1>2, <1>3, <1>4, <1>5, <1>6, <1>7

\* What a run writes is a text.
LEMMA PatchedIn ==
    ASSUME NEW text \in Seq(Lines), NEW fl,
           NEW f \in {"utils", "process_controller", "model_worker", "telemetry_worker",
                      "inputs", "block_manager", "cache_manager"},
           Patched(f, text, fl) # NotFound
    PROVE  /\ Patched(f, text, fl) \in Seq(Lines)
           /\ Patched(f, text, fl) = FoldLeft(Edit, text, Edits(f, text, fl))
<1> DEFINE es == Edits(f, text, fl)
           out == FoldLeft(Edit, text, es)
<1>1. GoodEdits(es)
  BY EditsGood
<1>2. out = Patched(f, text, fl)
  BY DEF Patched, EditAll
<1>3. text \in Texts
  BY DEF Texts
<1> HIDE DEF es
<1>4. PICK t : RunOf(t, text, es) /\ t[Len(es)] = out
  BY <1>1, <1>3, EditsRun
<1>5. out \in Texts
  BY <1>1, <1>4 DEF RunOf, GoodEdits
<1> QED
  BY <1>2, <1>5 DEF Texts, es

-----------------------------------------------------------------------------
(* What utils has after a run.                                             *)

RecDefs == {"def _rec_idle_flush", "def _rec_shutdown"}

HasDefs(text) == \A is \in RecDefs : HasLine(text, is)

KeepsDefs(e) ==
    EditOK(e) /\ e.how \in {"before", "header", "counts"} /\ e.find \notin RecDefs

LEMMA LastOfUtils ==
    /\ Len(UtilsEdits) = 6
    /\ UtilsEdits[6].how = "end" /\ UtilsEdits[6].new \in Seq(Lines)
    /\ \A is \in RecDefs : HasLine(UtilsEdits[6].new, is)
<1> DEFINE new == <<Line(0, "def _rec_append"), Line(1, "append_values"),
                    Line(0, "def _rec_shutdown"), Line(1, "close"),
                    Line(0, "def _rec_idle_flush"), Line(1, "flush")>>
<1>1. Len(UtilsEdits) = 6 /\ UtilsEdits[6] = AtEnd(new)
  BY DEF UtilsEdits
<1>2. HasLine(new, "def _rec_shutdown") /\ HasLine(new, "def _rec_idle_flush")
  <2>1. /\ 3 \in DOMAIN new /\ new[3] = Line(0, "def _rec_shutdown")
        /\ 5 \in DOMAIN new /\ new[5] = Line(0, "def _rec_idle_flush")
    OBVIOUS
  <2>5. \A indent, is : Line(indent, is).is = is
    BY DEF Line
  <2> HIDE DEF new
  <2>2. new[3].is = "def _rec_shutdown" /\ new[5].is = "def _rec_idle_flush"
    BY <2>1, <2>5
  <2>3. HasLine(new, "def _rec_shutdown")
    BY <2>1, <2>2 DEF HasLine
  <2>4. HasLine(new, "def _rec_idle_flush")
    BY <2>1, <2>2 DEF HasLine
  <2> QED
    BY <2>3, <2>4
<1> HIDE DEF new
<1>3. UtilsEdits[6].how = "end" /\ UtilsEdits[6].new = new
  BY <1>1 DEF AtEnd
<1>4. EditOK(UtilsEdits[6])
  BY <1>1, UtilsEditsIn DEF GoodEdits
<1> QED
  BY <1>1, <1>2, <1>3, <1>4 DEF EditOK, RecDefs

\* What PATCH_FAST_VALUES and PATCH_KV_SNAPSHOT do to utils leaves its functions alone.
LEMMA FlagsKeep ==
    ASSUME NEW c, NEW es \in {FastCounts, KvSnapshotCall}, NEW i \in 1..Len(If(c, es))
    PROVE  KeepsDefs(If(c, es)[i])
<1>1. \A j \in 1..Len(FastCounts) : KeepsDefs(FastCounts[j])
  <2>1. Len(FastCounts) = 3
    BY DEF FastCounts
  <2>2. ASSUME NEW j \in 1..3
        PROVE  FastCounts[j].how = "counts" /\ FastCounts[j].find \notin RecDefs
    <3>1. FastCounts[1].how = "counts" /\ FastCounts[1].find = "block_counts"
      BY DEF FastCounts, Counts
    <3>2. FastCounts[2].how = "counts" /\ FastCounts[2].find = "host_byte_counts"
      BY DEF FastCounts, Counts
    <3>3. FastCounts[3].how = "counts" /\ FastCounts[3].find = "disk_byte_counts"
      BY DEF FastCounts, Counts
    <3>4. j = 1 \/ j = 2 \/ j = 3
      OBVIOUS
    <3> QED
      BY <3>1, <3>2, <3>3, <3>4 DEF RecDefs
  <2> QED
    BY <2>1, <2>2, FastCountsIn DEF GoodEdits, KeepsDefs
<1>2. \A j \in 1..Len(KvSnapshotCall) : KeepsDefs(KvSnapshotCall[j])
  <2>1. Len(KvSnapshotCall) = 2
    BY DEF KvSnapshotCall
  <2>2. ASSUME NEW j \in 1..2
        PROVE  /\ KvSnapshotCall[j].how \in {"before", "header"}
               /\ KvSnapshotCall[j].find \notin RecDefs
    <3>1. /\ KvSnapshotCall[1].how = "before"
          /\ KvSnapshotCall[1].find = "if kv_cache is not None"
      BY DEF KvSnapshotCall, Before
    <3>2. /\ KvSnapshotCall[2].how = "header"
          /\ KvSnapshotCall[2].find = "if kv_cache is not None"
      BY DEF KvSnapshotCall, HeaderOf
    <3>3. j = 1 \/ j = 2
      OBVIOUS
    <3> QED
      BY <3>1, <3>2, <3>3 DEF RecDefs
  <2> QED
    BY <2>1, <2>2, KvSnapshotCallIn DEF GoodEdits, KeepsDefs
<1>3. CASE c
  BY <1>1, <1>2, <1>3 DEF If
<1>4. CASE ~c
  BY <1>4 DEF If
<1> QED
  BY <1>3, <1>4

LEMMA UtilsHasDefs ==
    ASSUME NEW text \in Seq(Lines), NEW fl, Patched("utils", text, fl) # NotFound
    PROVE  HasDefs(Patched("utils", text, fl))
<1> DEFINE es == Edits("utils", text, fl)
           fast == If("fast" \in fl, FastCounts)
           snapshot == If("snapshot" \in fl, KvSnapshotCall)
<1>1. /\ GoodEdits(fast) /\ GoodEdits(snapshot)
      /\ \A i \in 1..Len(fast) : KeepsDefs(fast[i])
      /\ \A i \in 1..Len(snapshot) : KeepsDefs(snapshot[i])
  BY FastCountsIn, KvSnapshotCallIn, IfGood, FlagsKeep
<1>2. es = (UtilsEdits \o fast) \o snapshot
  BY DEF Edits
<1> HIDE DEF es, fast, snapshot
<1>3. PICK first : first = UtilsEdits \o fast
  OBVIOUS
<1>4. /\ GoodEdits(first) /\ Len(first) = 6 + Len(fast)
      /\ first[6] = UtilsEdits[6]
      /\ \A i \in 7..Len(first) : KeepsDefs(first[i])
  <2>1. /\ GoodEdits(first) /\ Len(first) = 6 + Len(fast)
        /\ \A i \in 1..6 : first[i] = UtilsEdits[i]
        /\ \A i \in 6 + 1 .. Len(first) : \E j \in 1..Len(fast) : first[i] = fast[j]
    <3>1. GoodEdits(first) /\ Joined(first, UtilsEdits, fast)
      BY <1>1, <1>3, UtilsEditsIn, GoodJoined
    <3> QED
      BY <3>1, LastOfUtils DEF Joined
  <2>2. \A i \in 7..Len(first) : KeepsDefs(first[i])
    BY <1>1, <2>1
  <2> QED
    BY <2>1, <2>2
<1>5. Len(fast) \in Nat /\ Len(snapshot) \in Nat
  BY <1>1 DEF GoodEdits
<1>6. /\ GoodEdits(es) /\ Len(es) = Len(first) + Len(snapshot)
      /\ \A i \in 1..Len(first) : es[i] = first[i]
      /\ \A i \in Len(first) + 1 .. Len(es) : KeepsDefs(es[i])
  <2>1. /\ GoodEdits(es) /\ Len(es) = Len(first) + Len(snapshot)
        /\ \A i \in 1..Len(first) : es[i] = first[i]
        /\ \A i \in Len(first) + 1 .. Len(es) : \E j \in 1..Len(snapshot) : es[i] = snapshot[j]
    <3>1. GoodEdits(es) /\ Joined(es, first, snapshot)
      BY <1>1, <1>2, <1>3, <1>4, GoodJoined
    <3> QED
      BY <3>1 DEF Joined
  <2>2. \A i \in Len(first) + 1 .. Len(es) : KeepsDefs(es[i])
    BY <1>1, <2>1
  <2> QED
    BY <2>1, <2>2
<1>7. PICK n \in Nat : n = Len(es)
  BY <1>6 DEF GoodEdits
<1>8. n >= 6 /\ 6 \in 1..n /\ es[6] = UtilsEdits[6]
  BY <1>4, <1>5, <1>6, <1>7
<1>9. ASSUME NEW i \in 7..n
      PROVE  KeepsDefs(es[i])
  <2>1. CASE i \in 7..Len(first)
    <3>1. i \in 1..Len(first)
      BY <2>1
    <3> QED
      BY <1>4, <1>6, <2>1, <3>1
  <2>2. CASE i \in Len(first) + 1 .. Len(es)
    BY <1>6, <2>2
  <2> QED
    BY <1>4, <1>5, <1>7, <2>1, <2>2
<1>10. PICK t : RunOf(t, text, es) /\ t[n] = FoldLeft(Edit, text, es)
  <2>1. text \in Texts
    BY DEF Texts
  <2> QED
    BY <1>6, <1>7, <2>1, EditsRun
<1>11. /\ \A i \in 0..n : t[i] # NotFound => t[i] \in Seq(Lines)
       /\ \A i \in 1..n : t[i] = Edit(t[i - 1], es[i])
       /\ \A i \in 1..n : t[i] # NotFound => t[i - 1] # NotFound
  BY <1>7, <1>10 DEF RunOf, Texts, Edit
<1> DEFINE T == {i \in 6..n : ~(t[i] # NotFound => HasDefs(t[i]))}
<1>12. 6 \notin T
  <2>1. ASSUME t[6] # NotFound
        PROVE  HasDefs(t[6])
    <3>1. t[5] # NotFound /\ t[5] \in Seq(Lines) /\ t[6] = Edit(t[5], es[6])
      <4>1. 6 - 1 = 5 /\ 5 \in 0..n
        BY <1>8
      <4> QED
        BY <1>8, <1>11, <2>1, <4>1
    <3>2. PICK new \in Seq(Lines) : new = UtilsEdits[6].new
      BY LastOfUtils
    <3>3. t[6] = t[5] \o new
      BY <1>8, <3>1, <3>2, LastOfUtils DEF Edit
    <3>4. ASSUME NEW is \in RecDefs
          PROVE  HasLine(t[6], is)
      <4>1. PICK j \in DOMAIN new : new[j].is = is
        BY <3>2, LastOfUtils DEF HasLine
      <4>2. PICK k \in Nat : k = Len(t[5])
        BY <3>1
      <4>3. j \in 1..Len(new) /\ Len(new) \in Nat
        OBVIOUS
      <4>4. /\ k + j \in 1 .. k + Len(new) /\ ~(k + j <= k) /\ (k + j) - k = j
        BY <4>3
      <4>5. /\ Len(t[5] \o new) = k + Len(new)
            /\ \A i \in 1 .. k + Len(new) :
                  (t[5] \o new)[i] = IF i <= k THEN t[5][i] ELSE new[i - k]
        BY <3>1, <4>2, ConcatProperties
      <4>6. (t[5] \o new)[k + j] = new[j]
        BY <4>4, <4>5
      <4>7. k + j \in DOMAIN (t[5] \o new)
        <5>1. t[5] \o new \in Seq(Lines)
          BY <3>1, ConcatProperties
        <5> QED
          BY <4>4, <4>5, <5>1
      <4> QED
        BY <3>3, <4>1, <4>6, <4>7 DEF HasLine
    <3> QED
      BY <3>4 DEF HasDefs
  <2> QED
    BY <2>1
<1>13. T = {}
  <2> SUFFICES ASSUME T # {}
               PROVE  FALSE
    OBVIOUS
  <2>1. PICK m \in T : \A k \in T : m <= k
    <3>1. T \in SUBSET Nat
      BY <1>8
    <3> HIDE DEF T
    <3> QED
      BY <3>1, HasLeast
  <2>2. m \in 7..n /\ m - 1 \in 6..n /\ m \in 1..n /\ m - 1 \in 0..n /\ m \in Nat
    BY <1>12, <2>1
  <2>3. t[m] # NotFound /\ ~HasDefs(t[m])
    BY <2>1
  <2>4. m - 1 \notin T
    <3> HIDE DEF T
    <3> QED
      BY <2>1, <2>2
  <2>5. /\ t[m - 1] # NotFound /\ t[m - 1] \in Seq(Lines)
        /\ t[m] = Edit(t[m - 1], es[m])
    BY <1>11, <2>2, <2>3
  <2>6. HasDefs(t[m - 1])
    BY <2>2, <2>4, <2>5
  <2>7. KeepsDefs(es[m])
    BY <1>9, <2>2
  <2>8. ASSUME NEW is \in RecDefs
        PROVE  HasLine(t[m], is)
    <3>1. is \notin {es[m].find, "sum", "assert"}
      BY <2>7 DEF KeepsDefs, RecDefs
    <3> QED
      BY <2>3, <2>5, <2>6, <2>7, <3>1, EditKeeps DEF HasDefs, KeepsDefs
  <2> QED
    BY <2>3, <2>8 DEF HasDefs
<1>14. n \in 6..n
  BY <1>8
<1>15. t[n] = Patched("utils", text, fl)
  <2>1. Patched("utils", text, fl) = FoldLeft(Edit, text, es)
    BY PatchedIn DEF es
  <2> QED
    BY <1>10, <2>1
<1> QED
  BY <1>13, <1>14, <1>15

-----------------------------------------------------------------------------
(* The patch script.                                                       *)

\* What a run has to make of the file f.
Right(f) ==
    [release |-> release, lines |-> Patched(f, MaxTexts[release][f], flags), whole |-> TRUE]

\* The edits of the file all find their place.
Takes(f) == Patched(f, MaxTexts[release][f], flags) # NotFound

Stages == {"backup", "edit", "write"}

\* A run goes through the files in order and holds at most one that is opened.
Control ==
    /\ DOMAIN pkg = Files /\ DOMAIN orig = Files
    /\ at \in 0 .. 7 /\ stage \in Stages
    /\ ~Running => stage = "backup"
    /\ Running => ~finished
    /\ Running /\ stage # "backup" => orig[File] # {}

\* The files a run has gone through are right, and so is the one it is about to write.
Progress ==
    Pristine =>
        /\ stage = "write" => made = {Right(File)} /\ Takes(File)
        /\ Running => \A i \in 1 .. at - 1 : pkg[FILES[i]] = Right(FILES[i]) /\ Takes(FILES[i])
        /\ finished => \A f \in Files : pkg[f] = Right(f) /\ Takes(f)

\* A file that has no backup is as it was installed.
Untouched == \A f \in Files : orig[f] = {} => pkg[f] = Installed(release, f)

PatcherInv == Control /\ Progress /\ Untouched

-----------------------------------------------------------------------------
LEMMA FilesInOrder ==
    /\ Len(FILES) = 7 /\ \A i \in 1 .. 7 : FILES[i] \in Files
    /\ \A i, j \in 1 .. 7 : FILES[i] = FILES[j] => i = j
    /\ \A f \in Files : \E i \in 1 .. 7 : f = FILES[i]
BY DEF FILES, Files

\* The backup a run starts from.
LEMMA SourceIsOriginal ==
    ASSUME Pristine, NEW f \in Files, orig[f] # {}
    PROVE  Source(f) = Installed(release, f)
BY DEF Pristine, Source

LEMMA PatcherStarts == PatcherInit => PatcherInv
BY DEF PatcherInit, PatcherInv, Control, Progress, Untouched, Stages, Running

LEMMA StartRunKeeps ==
    ASSUME PatcherInv, NEW fl, StartRun(fl)
    PROVE  PatcherInv'
<1>1. Control'
  BY DEF PatcherInv, Control, StartRun, Stages, Running, File
<1>2. Progress'
  BY DEF StartRun, Progress
<1>3. Untouched'
  BY DEF PatcherInv, Untouched, StartRun, Installed
<1> QED
  BY <1>1, <1>2, <1>3 DEF PatcherInv

LEMMA BackupKeeps ==
    ASSUME PatcherInv, Backup
    PROVE  PatcherInv'
<1>1. at \in 1 .. 7 /\ File \in Files /\ File' = File
  BY FilesInOrder DEF PatcherInv, Control, Backup, Running, File
<1>2. /\ \A f \in Files \ {File} : orig'[f] = orig[f]
      /\ orig'[File] = IF orig[File] = {} THEN {pkg[File]} ELSE orig[File]
      /\ DOMAIN orig' = Files
  BY <1>1 DEF PatcherInv, Control, Backup
<1>3. Control'
  BY <1>1, <1>2 DEF PatcherInv, Control, Backup, Stages, Running
<1>4. Progress'
  <2>1. Pristine' => Pristine
    BY <1>1, <1>2 DEF Pristine, Backup, Installed
  <2> QED
    BY <1>1, <2>1 DEF PatcherInv, Control, Progress, Backup, Right, Takes, Running
<1>5. Untouched'
  BY <1>1, <1>2 DEF PatcherInv, Untouched, Backup, Installed
<1> QED
  BY <1>3, <1>4, <1>5 DEF PatcherInv

LEMMA TruncateKeeps ==
    ASSUME PatcherInv, Truncate
    PROVE  PatcherInv'
<1>1. /\ at \in 1 .. 7 /\ File \in Files /\ File' = File /\ orig[File] # {}
      /\ File = FILES[at] /\ ~finished
  BY FilesInOrder DEF PatcherInv, Control, Truncate, Running, File
<1>2. DOMAIN pkg' = Files /\ \A f \in Files \ {File} : pkg'[f] = pkg[f]
  BY <1>1 DEF PatcherInv, Control, Truncate
<1>3. Control'
  BY <1>1, <1>2 DEF PatcherInv, Control, Truncate, Stages, Running
<1>4. Progress'
  <2> SUFFICES ASSUME Pristine
               PROVE  /\ made' = {Right(File)} /\ Takes(File)
                      /\ \A i \in 1 .. at - 1 : pkg'[FILES[i]] = Right(FILES[i]) /\ Takes(FILES[i])
    BY <1>1 DEF Progress, Pristine, Truncate, Right, Takes, Installed
  <2>1. Source(File) = Installed(release, File)
    BY <1>1, SourceIsOriginal
  <2>2. made' = {Right(File)} /\ Takes(File)
    <3>1. /\ Source(File).release = release /\ Source(File).whole = TRUE
          /\ Source(File).lines = MaxTexts[release][File]
      BY <2>1 DEF Installed
    <3>2. Written(File) = Patched(File, MaxTexts[release][File], flags)
      BY <3>1 DEF Written
    <3> QED
      BY <3>1, <3>2 DEF Truncate, Right, Takes
  <2>3. \A i \in 1 .. at - 1 : pkg'[FILES[i]] = pkg[FILES[i]]
    BY <1>1, <1>2, FilesInOrder
  <2> QED
    BY <1>1, <2>2, <2>3 DEF PatcherInv, Progress, Running
<1>5. Untouched'
  BY <1>1, <1>2 DEF PatcherInv, Untouched, Truncate, Installed
<1> QED
  BY <1>3, <1>4, <1>5 DEF PatcherInv

LEMMA WriteFileKeeps ==
    ASSUME PatcherInv, WriteFile
    PROVE  PatcherInv'
<1>1. /\ at \in 1 .. 7 /\ File \in Files /\ orig[File] # {} /\ File = FILES[at]
  BY FilesInOrder DEF PatcherInv, Control, WriteFile, Running, File
<1>2. PICK file \in made : pkg' = [pkg EXCEPT ![File] = file]
  BY DEF WriteFile
<1>3. DOMAIN pkg' = Files /\ pkg'[File] = file /\ \A f \in Files \ {File} : pkg'[f] = pkg[f]
  BY <1>1, <1>2 DEF PatcherInv, Control
<1>4. IF at < 7 THEN at' = at + 1 /\ finished' = FALSE ELSE at' = 0 /\ finished' = TRUE
  BY FilesInOrder DEF WriteFile
<1>5. Control'
  BY <1>1, <1>3, <1>4 DEF PatcherInv, Control, WriteFile, Stages, Running
<1>6. Progress'
  <2> SUFFICES ASSUME Pristine
               PROVE  /\ Running' => \A i \in 1 .. at' - 1 : pkg'[FILES[i]] = Right(FILES[i])
                                                              /\ Takes(FILES[i])
                      /\ finished' => \A f \in Files : pkg'[f] = Right(f) /\ Takes(f)
    BY DEF Progress, Pristine, WriteFile, Right, Takes, Installed
  <2>1. \A i \in 1 .. at : pkg'[FILES[i]] = Right(FILES[i]) /\ Takes(FILES[i])
    <3>1. file = Right(File) /\ Takes(File)
      BY <1>2 DEF PatcherInv, Progress, WriteFile
    <3>2. \A i \in 1 .. at - 1 : pkg'[FILES[i]] = Right(FILES[i]) /\ Takes(FILES[i])
      BY <1>1, <1>3, FilesInOrder DEF PatcherInv, Progress, WriteFile
    <3> QED
      BY <1>1, <1>3, <3>1, <3>2
  <2>2. CASE at < 7
    BY <1>1, <1>4, <2>1, <2>2 DEF Running
  <2>3. CASE at = 7
    BY <1>4, <2>1, <2>3, FilesInOrder DEF Running
  <2> QED
    BY <1>1, <2>2, <2>3
<1>7. Untouched'
  BY <1>1, <1>3 DEF PatcherInv, Untouched, WriteFile, Installed
<1> QED
  BY <1>5, <1>6, <1>7 DEF PatcherInv

\* A run that ends early leaves nothing under way.
LEMMA EndKeeps ==
    ASSUME PatcherInv, TornCopy \/ Refuse \/ Killed
    PROVE  PatcherInv'
<1>1. Ends /\ UNCHANGED <<release, pkg>>
  BY DEF TornCopy, Refuse, Killed
<1>2. /\ DOMAIN orig' = Files
      /\ \A f \in Files : orig[f] # {} => orig'[f] # {}
  <2>1. CASE TornCopy
    <3>1. PICK x : orig' = [orig EXCEPT ![File] = {x}]
      BY <2>1 DEF TornCopy
    <3> QED
      BY <3>1 DEF PatcherInv, Control
  <2>2. CASE Refuse \/ Killed
    BY <2>2 DEF PatcherInv, Control, Refuse, Killed
  <2> QED
    BY <2>1, <2>2
<1>3. Control'
  BY <1>1, <1>2 DEF PatcherInv, Control, Ends, Stages, Running
<1>4. Progress'
  BY <1>1 DEF Progress, Ends, Running
<1>5. Untouched'
  BY <1>1, <1>2 DEF PatcherInv, Untouched, Installed
<1> QED
  BY <1>3, <1>4, <1>5 DEF PatcherInv

LEMMA UpgradeKeeps ==
    ASSUME PatcherInv, Upgrade
    PROVE  PatcherInv'
<1>1. Control'
  BY DEF PatcherInv, Control, Upgrade, Running
<1>2. Progress'
  BY DEF PatcherInv, Control, Progress, Upgrade, Running
<1>3. Untouched'
  BY DEF Untouched, Upgrade
<1> QED
  BY <1>1, <1>2, <1>3 DEF PatcherInv

LEMMA PatcherKeeps ==
    ASSUME PatcherInv, [PatcherNext]_patcherVars
    PROVE  PatcherInv'
<1>1. CASE UNCHANGED patcherVars
  BY <1>1 DEF patcherVars, PatcherInv, Control, Progress, Untouched, Pristine, Right, Takes,
              Installed, Running, File
<1> QED
  BY <1>1, StartRunKeeps, BackupKeeps, TruncateKeeps, WriteFileKeeps, EndKeeps, UpgradeKeeps
     DEF PatcherNext

LEMMA PatcherInvAlways == PatcherSpec => []PatcherInv
BY PatcherStarts, PatcherKeeps, PTL DEF PatcherSpec

-----------------------------------------------------------------------------
\* A run that finishes leaves every file as one run over a fresh MAX would, whatever the
\* edits do, and whatever runs with other flags, refused runs and killed runs came before.
THEOREM PatchedAsAskedAlways == PatcherSpec => []PatchedAsAsked
<1>1. PatcherInv => PatchedAsAsked
  <2>1. \A f \in Files :
           /\ Right(f).lines = Patched(f, MaxTexts[release][f], flags)
           /\ Right(f).whole = TRUE
    BY DEF Right
  <2> QED
    BY <2>1 DEF PatcherInv, Progress, PatchedAsAsked
<1> QED
  BY <1>1, PatcherInvAlways, PTL

\* The backups are MAX's own text until a copy is cut or MAX is upgraded.
PristineInv == release \in Nat /\ (release = 0 => Pristine)

LEMMA PristineKeeps ==
    ASSUME ~TornCopies, PatcherInv, PristineInv, [PatcherNext]_patcherVars
    PROVE  PristineInv'
<1>1. CASE Upgrade
  BY <1>1 DEF Upgrade, PristineInv
<1>2. CASE ~Upgrade
  <2>1. ~TornCopy
    BY DEF TornCopy
  <2>2. release' = release
    BY <1>2, <2>1
       DEF PatcherNext, patcherVars, StartRun, Backup, Truncate, WriteFile, Refuse, Killed
  <2>3. CASE Backup
    <3>1. File \in Files
      BY <2>3, FilesInOrder DEF PatcherInv, Control, Backup, Running, File
    <3>2. /\ \A f \in Files \ {File} : orig'[f] = orig[f]
          /\ orig'[File] = IF orig[File] = {} THEN {pkg[File]} ELSE orig[File]
      BY <2>3, <3>1 DEF PatcherInv, Control, Backup
    <3> QED
      BY <2>2, <3>1, <3>2 DEF PatcherInv, Untouched, PristineInv, Pristine, Installed
  <2>4. CASE orig' = orig
    BY <2>2, <2>4 DEF PristineInv, Pristine, Installed
  <2> QED
    BY <1>2, <2>1, <2>3, <2>4
       DEF PatcherNext, patcherVars, StartRun, Truncate, WriteFile, Refuse, Killed
<1> QED
  BY <1>1, <1>2

\* The text MAX was installed with is never lost, wherever runs raise or are killed, until
\* a copy is cut or MAX is upgraded: the two ways in which the run with both loses it.
THEOREM OriginalKeptUntilUpgrade ==
    ASSUME ~TornCopies
    PROVE  PatcherSpec => [](release = 0 => OriginalKept)
<1>1. PatcherInit => PristineInv
  BY DEF PatcherInit, Pristine, PristineInv
<1>2. PatcherInv /\ PristineInv => (release = 0 => OriginalKept)
  BY DEF PatcherInv, Untouched, Pristine, PristineInv, OriginalKept
<1>3. PatcherInv /\ PristineInv /\ [PatcherNext]_patcherVars => PristineInv'
  BY PristineKeeps
<1> QED
  BY <1>1, <1>2, <1>3, PatcherInvAlways, PTL DEF PatcherSpec

-----------------------------------------------------------------------------
(* What the files are.                                                     *)

\* A run that has copied a backup has one to start from.
TypeInv == PatcherTypeOK /\ (Running /\ stage # "backup" => orig[File] # {})

LEMMA NamesOfFiles ==
    Files = {"utils", "process_controller", "model_worker", "telemetry_worker", "inputs",
             "block_manager", "cache_manager"}
<1>1. \A i \in 1 .. 7 :
         FILES[i] \in {"utils", "process_controller", "model_worker", "telemetry_worker",
                       "inputs", "block_manager", "cache_manager"}
  BY DEF FILES
<1>2. /\ FILES[1] = "utils" /\ FILES[2] = "process_controller"
      /\ FILES[3] = "model_worker" /\ FILES[4] = "telemetry_worker" /\ FILES[5] = "inputs"
      /\ FILES[6] = "block_manager" /\ FILES[7] = "cache_manager"
  BY DEF FILES
<1>3. DOMAIN FILES = 1 .. 7
  BY DEF FILES
<1>4. Files \subseteq {"utils", "process_controller", "model_worker", "telemetry_worker",
                       "inputs", "block_manager", "cache_manager"}
  BY <1>1, <1>3 DEF Files
<1>5. ASSUME NEW i \in 1 .. 7
      PROVE  FILES[i] \in Files
  BY <1>3 DEF Files
<1>6. 1 \in 1 .. 7 /\ 2 \in 1 .. 7 /\ 3 \in 1 .. 7 /\ 4 \in 1 .. 7 /\ 5 \in 1 .. 7
      /\ 6 \in 1 .. 7 /\ 7 \in 1 .. 7
  OBVIOUS
<1> QED
  BY <1>2, <1>4, <1>5, <1>6

LEMMA FileInWork ==
    ASSUME PatcherTypeOK, Running
    PROVE  File \in Files /\ at \in 1 .. 7
<1>1. at \in 1 .. 7
  BY FilesInOrder DEF PatcherTypeOK, Running
<1> QED
  BY <1>1, FilesInOrder DEF File

LEMMA InstalledIn ==
    ASSUME NEW r \in Releases
    PROVE  /\ \A f \in Files : Installed(r, f) \in Contents
           /\ [f \in Files |-> Installed(r, f)] \in [Files -> Contents]
<1>1. ASSUME NEW f \in Files
      PROVE  Installed(r, f) \in Contents
  BY MaxIsUnpatched DEF Installed, Contents
<1> QED
  BY <1>1

LEMMA CutIn ==
    ASSUME NEW file \in Contents
    PROVE  /\ Emptied(file) \in Contents
           /\ \A n \in TornLengths(file) : Torn(file, n) \in Contents
<1>1. file.lines \in Seq(Lines)
  BY DEF Contents
<1>2. Emptied(file) \in Contents
  <2>1. <<>> \in Seq(Lines)
    BY Tuples
  <2> QED
    BY <2>1 DEF Emptied, Contents
<1>3. ASSUME NEW n \in TornLengths(file)
      PROVE  Torn(file, n) \in Contents
  <2>1. n \in 0 .. Len(file.lines)
    <3>1. PICK k \in Nat : k = Len(file.lines)
      BY <1>1
    <3>2. k \div 2 \in 0 .. k /\ 0 \in 0 .. k
      OBVIOUS
    <3>3. n = 0 \/ n = k \div 2
      BY <3>1 DEF TornLengths
    <3>4. n \in 0 .. k
      BY <3>2, <3>3
    <3> QED
      BY <3>1, <3>4
  <2>2. SubSeq(file.lines, 1, n) \in Seq(Lines)
    <3>1. \A i \in 1 .. n : file.lines[i] \in Lines
      BY <1>1, <2>1
    <3> QED
      BY <1>1, <2>1, <3>1, SubSeqProperties
  <2> QED
    BY <2>2 DEF Torn, Contents
<1> QED
  BY <1>2, <1>3

LEMMA SourceIn ==
    ASSUME PatcherTypeOK, NEW f \in Files, orig[f] # {}
    PROVE  Source(f) \in Contents
<1>1. Source(f) \in orig[f]
  BY DEF Source
<1> QED
  BY <1>1 DEF PatcherTypeOK

LEMMA WrittenIn ==
    ASSUME PatcherTypeOK, NEW f \in Files, orig[f] # {}, Written(f) # NotFound
    PROVE  Written(f) \in Seq(Lines) /\ (f = "utils" => HasDefs(Written(f)))
<1>1. PICK text \in Seq(Lines) : text = Source(f).lines
  BY SourceIn DEF Contents
<1>2. Written(f) = Patched(f, text, flags)
  BY <1>1 DEF Written
<1> QED
  BY <1>1, <1>2, PatchedIn, UtilsHasDefs, NamesOfFiles

LEMMA TypeStarts == PatcherInit => TypeInv
<1> SUFFICES ASSUME PatcherInit
             PROVE  TypeInv
  OBVIOUS
<1>1. 0 \in Releases /\ 0 \in 0 .. MaxRuns /\ 0 \in 0 .. Len(FILES)
  BY PatcherConstants, FilesInOrder DEF Releases
<1>2. pkg \in [Files -> Contents]
  BY <1>1, InstalledIn DEF PatcherInit
<1> QED
  BY <1>1, <1>2 DEF PatcherInit, TypeInv, PatcherTypeOK, Running, Flags

LEMMA StartRunTyped ==
    ASSUME TypeInv, NEW fl \in Flags, StartRun(fl)
    PROVE  TypeInv'
<1>1. runs + 1 \in 0 .. MaxRuns
  BY PatcherConstants DEF TypeInv, PatcherTypeOK, StartRun
<1>2. 1 \in 0 .. Len(FILES)
  BY FilesInOrder
<1>3. stage # "write"
  BY DEF TypeInv, PatcherTypeOK, StartRun
<1> QED
  BY <1>1, <1>2, <1>3 DEF TypeInv, PatcherTypeOK, StartRun, Running

LEMMA BackupTyped ==
    ASSUME TypeInv, Backup
    PROVE  TypeInv'
<1>1. File \in Files
  BY FileInWork DEF TypeInv, Backup
<1>2. pkg[File] \in Contents
  BY <1>1 DEF TypeInv, PatcherTypeOK
<1>3. /\ orig' \in [Files -> SUBSET Contents]
      /\ \A f \in Files : \A a, b \in orig'[f] : a = b
      /\ orig'[File] # {}
  BY <1>1, <1>2 DEF TypeInv, PatcherTypeOK, Backup
<1>4. File' = File
  BY DEF File, Backup
<1> QED
  BY <1>3, <1>4 DEF TypeInv, PatcherTypeOK, Backup, Running

LEMMA TruncateTyped ==
    ASSUME TypeInv, Truncate
    PROVE  TypeInv'
<1>1. File \in Files /\ orig[File] # {} /\ File' = File
  BY FileInWork DEF TypeInv, Truncate, File
<1>2. pkg' \in [Files -> Contents]
  <2>1. Emptied(pkg[File]) \in Contents
    BY <1>1, CutIn DEF TypeInv, PatcherTypeOK
  <2> QED
    BY <1>1, <2>1 DEF TypeInv, PatcherTypeOK, Truncate
<1>3. made' \subseteq Contents /\ made' # {}
  <2>1. Source(File) \in Contents
    BY <1>1, SourceIn DEF TypeInv
  <2>2. Written(File) \in Seq(Lines)
    BY <1>1, WrittenIn DEF TypeInv, Truncate
  <2> QED
    BY <2>1, <2>2 DEF Truncate, Contents
<1> QED
  BY <1>1, <1>2, <1>3 DEF TypeInv, PatcherTypeOK, Truncate, Running

LEMMA WriteFileTyped ==
    ASSUME TypeInv, WriteFile
    PROVE  TypeInv'
<1>1. File \in Files /\ at \in 1 .. 7
  BY FileInWork DEF TypeInv, WriteFile
<1>2. pkg' \in [Files -> Contents]
  <2>1. PICK file \in made : pkg' = [pkg EXCEPT ![File] = file]
    BY DEF WriteFile
  <2> QED
    BY <1>1, <2>1 DEF TypeInv, PatcherTypeOK
<1>3. at' \in 0 .. Len(FILES)
  <2>1. at' = (IF at < 7 THEN at + 1 ELSE 0)
    BY FilesInOrder DEF WriteFile
  <2> QED
    BY <1>1, <2>1, FilesInOrder
<1>4. finished' \in BOOLEAN
  BY DEF WriteFile
<1> QED
  BY <1>2, <1>3, <1>4 DEF TypeInv, PatcherTypeOK, WriteFile, Running

LEMMA EndTyped ==
    ASSUME TypeInv, TornCopy \/ Refuse \/ Killed
    PROVE  TypeInv'
<1>1. File \in Files
  BY FileInWork DEF TypeInv, TornCopy, Refuse, Killed
<1>2. release' = release /\ pkg' = pkg /\ runs' = runs /\ Ends
  BY DEF TornCopy, Refuse, Killed
<1>3. orig' \in [Files -> SUBSET Contents] /\ \A f \in Files : \A a, b \in orig'[f] : a = b
  <2>1. CASE TornCopy
    <3>1. PICK n \in TornLengths(pkg[File]) :
             orig' = [orig EXCEPT ![File] = {Torn(pkg[File], n)}]
      BY <2>1 DEF TornCopy
    <3>2. Torn(pkg[File], n) \in Contents
      BY <1>1, CutIn DEF TypeInv, PatcherTypeOK
    <3> QED
      BY <1>1, <3>1, <3>2 DEF TypeInv, PatcherTypeOK
  <2>2. CASE Refuse \/ Killed
    BY <2>2 DEF TypeInv, PatcherTypeOK, Refuse, Killed
  <2> QED
    BY <2>1, <2>2
<1>4. 0 \in 0 .. Len(FILES) /\ {} \in Flags
  BY FilesInOrder DEF Flags
<1> QED
  BY <1>2, <1>3, <1>4 DEF TypeInv, PatcherTypeOK, Ends, Running

LEMMA UpgradeTyped ==
    ASSUME TypeInv, Upgrade
    PROVE  TypeInv'
<1>1. release + 1 \in Releases
  BY PatcherConstants DEF TypeInv, PatcherTypeOK, Upgrade, Releases
<1>2. pkg' \in [Files -> Contents]
  BY <1>1, InstalledIn DEF Upgrade
<1>3. {} \in Flags
  BY DEF Flags
<1> QED
  BY <1>1, <1>2, <1>3 DEF TypeInv, PatcherTypeOK, Upgrade, Running

LEMMA TypeStep ==
    ASSUME TypeInv, [PatcherNext]_patcherVars
    PROVE  TypeInv'
<1>1. CASE PatcherNext
  BY <1>1, StartRunTyped, BackupTyped, TruncateTyped, WriteFileTyped, EndTyped, UpgradeTyped
     DEF PatcherNext
<1>2. CASE UNCHANGED patcherVars
  BY <1>2 DEF patcherVars, TypeInv, PatcherTypeOK, Running, File
<1> QED
  BY <1>1, <1>2

LEMMA TypeAlways == PatcherSpec => []TypeInv
<1>1. TypeInv /\ [PatcherNext]_patcherVars => TypeInv'
  BY TypeStep
<1> QED
  BY <1>1, TypeStarts, PTL DEF PatcherSpec

\* Wherever runs end, the files and their backups are texts: nothing an edit makes of one
\* is anything else, and each file has at most one backup.
THEOREM PatcherTypeCorrect == PatcherSpec => []PatcherTypeOK
<1>1. TypeInv => PatcherTypeOK
  BY DEF TypeInv
<1> QED
  BY <1>1, TypeAlways, PTL

-----------------------------------------------------------------------------
(* What the worker imports.                                                *)

\* utils is written first; from then on it has what model_worker, which is written
\* third, imports.  An upgrade takes both away together.
ImportsInv ==
    /\ Running /\ at > 1 => HasDefs(pkg["utils"].lines)
    /\ stage = "write" /\ at = 1 => \A file \in made : HasDefs(file.lines)
    /\ HasLine(pkg["model_worker"].lines, "import _rec_idle_flush") /\ pkg["utils"].whole
           => HasDefs(pkg["utils"].lines)

LEMMA TwoFiles ==
    /\ "utils" \in Files /\ "model_worker" \in Files
    /\ FILES[1] = "utils" /\ FILES[3] = "model_worker"
    /\ \A i \in 1 .. 7 : (FILES[i] = "utils" => i = 1) /\ (FILES[i] = "model_worker" => i = 3)
<1>1. FILES[1] = "utils" /\ FILES[3] = "model_worker"
  BY DEF FILES
<1>2. 1 \in 1 .. 7 /\ 3 \in 1 .. 7
  OBVIOUS
<1> QED
  BY <1>1, <1>2, FilesInOrder

LEMMA FreshImportsNothing ==
    ASSUME NEW r \in Releases
    PROVE  ~HasLine([f \in Files |-> Installed(r, f)]["model_worker"].lines,
                    "import _rec_idle_flush")
BY MaxIsUnpatched, TwoFiles DEF Installed

LEMMA ImportsStart == PatcherInit => ImportsInv
<1>1. 0 \in Releases
  BY PatcherConstants DEF Releases
<1> QED
  BY <1>1, FreshImportsNothing DEF PatcherInit, ImportsInv, Running

LEMMA TruncateImports ==
    ASSUME TypeInv, ImportsInv, Truncate
    PROVE  ImportsInv'
<1>1. File \in Files /\ at \in 1 .. 7 /\ orig[File] # {} /\ DOMAIN pkg = Files
  BY FileInWork DEF TypeInv, PatcherTypeOK, Truncate
<1>2. /\ pkg' = [pkg EXCEPT ![File] = Emptied(pkg[File])]
      /\ at' = at /\ Running
  BY DEF Truncate
<1>3. Emptied(pkg[File]).lines = <<>> /\ Emptied(pkg[File]).whole = FALSE
  <2>1. pkg[File] \in Contents
    BY <1>1 DEF TypeInv, PatcherTypeOK
  <2> QED
    BY <2>1 DEF Emptied, Contents
<1>4. \A f \in Files : f # File => pkg'[f] = pkg[f]
  BY <1>1, <1>2
<1>5. pkg'[File] = Emptied(pkg[File])
  BY <1>1, <1>2
<1>6. ~HasLine(<<>>, "import _rec_idle_flush")
  BY DEF HasLine
<1>7. CASE File = "utils"
  <2>1. at = 1
    BY <1>1, <1>7, TwoFiles DEF File
  <2>2. \A file \in made' : HasDefs(file.lines)
    <3>1. HasDefs(Written(File))
      BY <1>1, <1>7, WrittenIn DEF TypeInv, Truncate
    <3> QED
      BY <3>1 DEF Truncate
  <2>3. ~(at' > 1)
    BY <1>2, <2>1
  <2>4. pkg'["utils"].whole = FALSE
    BY <1>3, <1>5, <1>7
  <2> QED
    BY <2>2, <2>3, <2>4 DEF ImportsInv
<1>8. CASE File # "utils"
  <2>1. at # 1
    BY <1>8, TwoFiles DEF File
  <2>2. pkg'["utils"] = pkg["utils"]
    BY <1>4, <1>8, TwoFiles
  <2>3. Running' => Running
    BY <1>2
  <2>4. CASE File = "model_worker"
    BY <1>2, <1>3, <1>5, <1>6, <2>1, <2>2, <2>4 DEF ImportsInv
  <2>5. CASE File # "model_worker"
    <3>1. pkg'["model_worker"] = pkg["model_worker"]
      BY <1>4, <2>5, TwoFiles
    <3> QED
      BY <1>2, <2>1, <2>2, <3>1 DEF ImportsInv
  <2> QED
    BY <2>4, <2>5
<1> QED
  BY <1>7, <1>8

LEMMA WriteFileImports ==
    ASSUME TypeInv, ImportsInv, WriteFile
    PROVE  ImportsInv'
<1>1. File \in Files /\ at \in 1 .. 7 /\ DOMAIN pkg = Files /\ Running
  BY FileInWork DEF TypeInv, PatcherTypeOK, WriteFile
<1>2. PICK file \in made : pkg' = [pkg EXCEPT ![File] = file]
  BY DEF WriteFile
<1>3. /\ \A f \in Files : f # File => pkg'[f] = pkg[f]
      /\ pkg'[File] = file
  BY <1>1, <1>2
<1>4. stage' # "write"
  BY DEF WriteFile
<1>5. HasDefs(pkg'["utils"].lines)
  <2>1. CASE at = 1
    <3>1. File = "utils" /\ HasDefs(file.lines)
      BY <2>1, TwoFiles DEF File, ImportsInv, WriteFile
    <3> QED
      BY <1>3, <3>1
  <2>2. CASE at # 1
    <3>1. HasDefs(pkg["utils"].lines)
      <4>1. at > 1
        BY <1>1, <2>2
      <4> QED
        BY <1>1, <4>1 DEF ImportsInv
    <3>2. File # "utils"
      BY <1>1, <2>2, TwoFiles DEF File
    <3> QED
      BY <1>3, <3>1, <3>2, TwoFiles
  <2> QED
    BY <2>1, <2>2
<1> QED
  BY <1>4, <1>5 DEF ImportsInv

LEMMA ImportsStep ==
    ASSUME TypeInv, ImportsInv, [PatcherNext]_patcherVars
    PROVE  ImportsInv'
<1>1. CASE Truncate
  BY <1>1, TruncateImports
<1>2. CASE WriteFile
  BY <1>2, WriteFileImports
<1>3. ASSUME NEW fl \in Flags, StartRun(fl)
      PROVE  ImportsInv'
  <2>1. at' = 1 /\ stage' # "write" /\ pkg' = pkg
    BY <1>3 DEF StartRun
  <2>2. ~(at' > 1)
    BY <2>1
  <2> QED
    BY <2>1, <2>2 DEF ImportsInv
<1>4. CASE Backup
  BY <1>4 DEF Backup, ImportsInv, Running
<1>5. CASE TornCopy \/ Refuse \/ Killed
  <2>1. at' = 0 /\ stage' # "write" /\ pkg' = pkg
    BY <1>5 DEF TornCopy, Refuse, Killed, Ends
  <2> QED
    BY <2>1 DEF ImportsInv, Running
<1>6. CASE Upgrade
  <2>1. release + 1 \in Releases
    BY <1>6, PatcherConstants DEF TypeInv, PatcherTypeOK, Upgrade, Releases
  <2>2. ~HasLine(pkg'["model_worker"].lines, "import _rec_idle_flush")
    BY <1>6, <2>1, FreshImportsNothing DEF Upgrade
  <2>3. at' = 0 /\ stage' # "write"
    BY <1>6 DEF Upgrade, TypeInv, PatcherTypeOK, Running
  <2> QED
    BY <2>2, <2>3 DEF ImportsInv, Running
<1>7. CASE UNCHANGED patcherVars
  BY <1>7 DEF patcherVars, ImportsInv, Running
<1> QED
  BY <1>1, <1>2, <1>3, <1>4, <1>5, <1>6, <1>7 DEF PatcherNext

\* Wherever runs are killed and whatever MAX's own text is, a package whose files are all
\* whole never has a worker that imports from utils what is not there.
THEOREM WorkerImportsAlways == PatcherSpec => []WorkerImports
<1>1. ImportsInv => WorkerImports
  <2> SUFFICES ASSUME ImportsInv, \A f \in Files : pkg[f].whole,
                      Has(pkg["model_worker"], "import _rec_idle_flush")
               PROVE  /\ Has(pkg["utils"], "def _rec_idle_flush")
                      /\ Has(pkg["utils"], "def _rec_shutdown")
    BY DEF WorkerImports
  <2>1. HasDefs(pkg["utils"].lines)
    BY TwoFiles DEF ImportsInv, Has, HasLine
  <2> QED
    BY <2>1 DEF HasDefs, RecDefs, Has, HasLine
<1>2. TypeInv /\ ImportsInv /\ [PatcherNext]_patcherVars => ImportsInv'
  BY ImportsStep
<1> QED
  BY <1>1, <1>2, ImportsStart, TypeAlways, PTL DEF PatcherSpec

-----------------------------------------------------------------------------
(* MAX's own lines, file by file.                                          *)

LEMMA UtilsSparing ==
    ASSUME NEW words, words \cap {"def create", "return cls"} = {}
    PROVE  Sparing(UtilsEdits, words)
<1>1. /\ Len(UtilsEdits) = 6
      /\ UtilsEdits[1].how = "header" /\ UtilsEdits[1].find = "def create"
      /\ UtilsEdits[2].how = "replace" /\ UtilsEdits[2].find = "return cls"
      /\ UtilsEdits[3].how = "before" /\ UtilsEdits[4].how = "around"
      /\ UtilsEdits[5].how = "after" /\ UtilsEdits[6].how = "end"
  BY DEF UtilsEdits, HeaderOf, Replace, Before, Around, After, AtEnd
<1>2. "return cls" \notin Headers
  BY WordsOfEdits DEF LineWords
<1>3. \A i \in 1..6 : EditOK(UtilsEdits[i])
  BY <1>1, UtilsEditsIn DEF GoodEdits
<1>4. ASSUME NEW i \in 1..6
      PROVE  i = 1 \/ i = 2 \/ i = 3 \/ i = 4 \/ i = 5 \/ i = 6
  BY ONLY i \in 1..6
<1> QED
  BY <1>1, <1>2, <1>3, <1>4 DEF Sparing, Fresh, Spares

LEMMA FastSparing == \A words : Sparing(FastCounts, words)
<1> SUFFICES ASSUME NEW words, NEW i \in 1..3, Fresh(FastCounts[i], words)
             PROVE  Spares(FastCounts[i], words)
  <2>1. Len(FastCounts) = 3
    BY DEF FastCounts
  <2> QED
    BY <2>1 DEF Sparing
<1> DEFINE new == <<Line(3, "if num_replicas == 1"), Line(4, "one count"), Line(3, "else"),
                    Line(1, "original")>>
<1>1. FastCounts[i].how = "counts" /\ FastCounts[i].new = new
  <2>1. /\ FastCounts[1].how = "counts" /\ FastCounts[1].new = new
        /\ FastCounts[2].how = "counts" /\ FastCounts[2].new = new
        /\ FastCounts[3].how = "counts" /\ FastCounts[3].new = new
    BY DEF FastCounts, Counts
  <2>2. i = 1 \/ i = 2 \/ i = 3
    OBVIOUS
  <2> HIDE DEF new
  <2> QED
    BY <2>1, <2>2
<1>2. PICK p, q, r : /\ p = Line(3, "if num_replicas == 1") /\ q = Line(4, "one count")
                     /\ r = Line(3, "else")
  OBVIOUS
<1>3. p \in Lines /\ q \in Lines /\ r \in Lines /\ "original" \in Words
  BY <1>2, LineIn, WordsOfEdits DEF NewWords
<1>4. p.is = "if num_replicas == 1" /\ q.is = "one count" /\ r.is = "else"
  BY <1>2, LineOf
<1>5. new = <<p, q, r, Line(1, "original")>>
  BY <1>2
<1>6. {p.is, q.is, r.is} \cap words = {}
  <2>1. Len(new) = 4 /\ new[1] = p /\ new[2] = q /\ new[3] = r
    BY <1>5
  <2>2. 1 \in 1..4 /\ 2 \in 1..4 /\ 3 \in 1..4
    OBVIOUS
  <2> HIDE DEF new
  <2> QED
    BY <1>1, <2>1, <2>2 DEF Fresh
<1>7. {p.is, q.is, r.is, r.is} \cap (words \cup {"original"}) = {}
  BY <1>4, <1>6
<1>8. OriginalLast(new, <<p, q, r>>, 1, words)
  BY <1>3, <1>5, <1>7, OriginalTuples
<1>9. EditOK(FastCounts[i])
  <2>1. Len(FastCounts) = 3
    BY DEF FastCounts
  <2> QED
    BY <2>1, FastCountsIn DEF GoodEdits
<1> HIDE DEF new
<1> QED
  BY <1>1, <1>8, <1>9 DEF Spares, Once, Fresh

LEMMA KvSparing ==
    ASSUME NEW words, "if kv_cache is not None" \notin words
    PROVE  Sparing(KvSnapshotCall, words)
<1>1. /\ Len(KvSnapshotCall) = 2 /\ KvSnapshotCall[1].how = "before"
      /\ KvSnapshotCall[2].how = "header" /\ KvSnapshotCall[2].find = "if kv_cache is not None"
  BY DEF KvSnapshotCall, HeaderOf, Before
<1>2. \A i \in 1..2 : EditOK(KvSnapshotCall[i])
  BY <1>1, KvSnapshotCallIn DEF GoodEdits
<1>3. ASSUME NEW i \in 1..2
      PROVE  i = 1 \/ i = 2
  BY ONLY i \in 1..2
<1> QED
  BY <1>1, <1>2, <1>3 DEF Sparing, Fresh, Spares

LEMMA ImportsSparing ==
    \A text, words : Sparing(ImportOs(text), words) /\ Sparing(ImportBeside(text), words)
<1> SUFFICES ASSUME NEW text, NEW words
             PROVE  Sparing(ImportOs(text), words) /\ Sparing(ImportBeside(text), words)
  OBVIOUS
<1> DEFINE a == AtTop(<<Line(0, "import os")>>)
           b == Before(<<>>, "import threading", <<Line(0, "import os")>>)
           c == After(<<>>, "import threading", <<Line(0, "import time")>>)
           beside == Imports(text, "import threading")
           os == If(beside /\ ~Imports(text, "import os"), <<b>>)
           time == If(beside /\ ~Imports(text, "import time"), <<c>>)
<1>1. "import os" \in Words /\ "import time" \in Words
  BY WordsOfEdits DEF NewWords
<1>2. EditOK(a) /\ EditOK(b) /\ EditOK(c)
  <2>1. <<Line(0, "import os")>> \in Seq(Lines) /\ <<Line(0, "import time")>> \in Seq(Lines)
    BY <1>1, LineIn, Tuples
  <2>2. <<>> \in Seq(Headers)
    BY Tuples
  <2> QED
    BY <2>1, <2>2, Shapes, EndShapes
<1>3. a.how = "top" /\ b.how = "before" /\ c.how = "after"
  BY DEF AtTop, Before, After
<1>4. ImportOs(text) = If(~Imports(text, "import os"), <<a>>) /\ ImportBeside(text) = os \o time
  BY DEF ImportOs, ImportBeside
<1> HIDE DEF a, b, c
<1>5. Sparing(<<a>>, words) /\ Sparing(<<b>>, words) /\ Sparing(<<c>>, words)
  <2>1. \A e \in {a, b, c} : Fresh(e, words) => Spares(e, words)
    BY <1>2, <1>3 DEF Fresh, Spares
  <2> QED
    BY <2>1, SparingSingle
<1>6. Sparing(os, words) /\ Sparing(time, words) /\ GoodEdits(os) /\ GoodEdits(time)
  BY <1>2, <1>5, SparingIf, IfGood, GoodTuples
<1> HIDE DEF os, time
<1> QED
  BY <1>4, <1>5, <1>6, SparingIf, SparingJoin

LEMMA OthersSparing ==
    ASSUME NEW words
    PROVE  /\ Sparing(ModelWorkerEdits, words) /\ Sparing(TelemetryWorkerEdits, words)
           /\ Sparing(CacheManagerEdits, words)
<1>1. Sparing(ModelWorkerEdits, words)
  <2>1. /\ Len(ModelWorkerEdits) = 2 /\ ModelWorkerEdits[1].how = "start"
        /\ ModelWorkerEdits[2].how = "before"
    BY DEF ModelWorkerEdits, BodyStart, Before
  <2>2. \A i \in 1..2 : EditOK(ModelWorkerEdits[i]) /\ (i = 1 \/ i = 2)
    BY <2>1, ModelWorkerEditsIn DEF GoodEdits
  <2> QED
    BY <2>1, <2>2 DEF Sparing, Fresh, Spares
<1>2. Sparing(CacheManagerEdits, words)
  <2>1. /\ Len(CacheManagerEdits) = 2 /\ CacheManagerEdits[1].how = "before"
        /\ CacheManagerEdits[2].how = "end"
    BY DEF CacheManagerEdits, Before, AtEnd
  <2>2. \A i \in 1..2 : EditOK(CacheManagerEdits[i]) /\ (i = 1 \/ i = 2)
    BY <2>1, CacheManagerEditsIn DEF GoodEdits
  <2> QED
    BY <2>1, <2>2 DEF Sparing, Fresh, Spares
<1>3. Sparing(TelemetryWorkerEdits, words)
  <2> DEFINE new == <<Line(0, "_dir"), Line(0, "if _dir"), Line(1, "yield client"),
                      Line(0, "else"), Line(1, "original")>>
             e == TelemetryWorkerEdits[1]
  <2>1. TelemetryWorkerEdits = <<e>> /\ e.how = "here" /\ e.new = new
    BY DEF TelemetryWorkerEdits, ReplaceHere
  <2>2. PICK p, q, r, s : /\ p = Line(0, "_dir") /\ q = Line(0, "if _dir")
                          /\ r = Line(1, "yield client") /\ s = Line(0, "else")
    OBVIOUS
  <2>3. p \in Lines /\ q \in Lines /\ r \in Lines /\ s \in Lines /\ "original" \in Words
    BY <2>2, LineIn, WordsOfEdits DEF NewWords
  <2>4. p.is = "_dir" /\ q.is = "if _dir" /\ r.is = "yield client" /\ s.is = "else"
    BY <2>2, LineOf
  <2>5. new = <<p, q, r, s, Line(1, "original")>>
    BY <2>2
  <2>6. EditOK(e)
    <3>1. Len(TelemetryWorkerEdits) = 1
      BY DEF TelemetryWorkerEdits
    <3> QED
      BY <3>1, TelemetryWorkerEditsIn DEF GoodEdits
  <2>7. ASSUME Fresh(e, words)
        PROVE  Spares(e, words)
    <3>1. {p.is, q.is, r.is, s.is} \cap words = {}
      <4>1. Len(new) = 5 /\ new[1] = p /\ new[2] = q /\ new[3] = r /\ new[4] = s
        BY <2>5
      <4>2. 1 \in 1..5 /\ 2 \in 1..5 /\ 3 \in 1..5 /\ 4 \in 1..5
        OBVIOUS
      <4> HIDE DEF new
      <4> QED
        BY <2>1, <2>7, <4>1, <4>2 DEF Fresh
    <3>2. {p.is, q.is, r.is, s.is} \cap (words \cup {"original"}) = {}
      BY <2>4, <3>1
    <3>3. OriginalLast(new, <<p, q, r, s>>, 1, words)
      BY <2>3, <2>5, <3>2, OriginalTuples
    <3> HIDE DEF new
    <3> QED
      BY <2>1, <2>6, <2>7, <3>3 DEF Spares, Once, Fresh
  <2> HIDE DEF e
  <2> QED
    BY <2>1, <2>7, SparingSingle
<1> QED
  BY <1>1, <1>2, <1>3

\* MAX's own lines in a file, but for those an edit replaces.
Mine(f, text) == WordsOf(text) \ Replaced(f)

LEMMA AllFresh ==
    ASSUME NEW text \in Seq(Lines), NEW fl \in Flags, NEW f \in Files, AsExpected(f, text)
    PROVE  \A i \in 1..Len(Edits(f, text, fl)) : Fresh(Edits(f, text, fl)[i], Mine(f, text))
<1>1. PICK es : es = Edits(f, text, fl)
  OBVIOUS
<1>2. GoodEdits(es)
  BY <1>1, NamesOfFiles, EditsGood
<1>3. \A i \in 1..Len(es) : AddedBy(es[i]) \cap WordsOf(text) \subseteq Replaced(f)
  BY <1>1, <1>2 DEF AsExpected, GoodEdits
<1>4. ASSUME NEW i \in 1..Len(es)
      PROVE  Fresh(es[i], Mine(f, text))
  <2>1. PICK e : e = es[i]
    OBVIOUS
  <2>2. e.new \in Seq(Lines) /\ (e.how = "around" => e.after \in Seq(Lines))
    BY <1>2, <2>1 DEF GoodEdits, EditOK
  <2>3. AddedBy(e) \cap Mine(f, text) = {}
    BY <1>3, <2>1 DEF Mine
  <2>4. \A j \in 1..Len(e.new) : e.new[j].is \in AddedBy(e)
    BY <2>2 DEF AddedBy, WordsOf
  <2>5. e.how = "around" => \A j \in 1..Len(e.after) : e.after[j].is \in AddedBy(e)
    BY <2>2 DEF AddedBy, WordsOf
  <2> QED
    BY <2>1, <2>3, <2>4, <2>5 DEF Fresh
<1> QED
  BY <1>1, <1>4

LEMMA ReplacedWords ==
    /\ Replaced("utils") = {"def create", "return cls", "if kv_cache is not None"}
    /\ Replaced("process_controller") = {"for m in ms", "commit_fn"}
    /\ Replaced("block_manager") = {"docstring of metrics"}
    /\ Replaced("inputs") = {"def __post_init__", "count tokens", "return real contexts"}
BY DEF Replaced

\* What is expected of the files, one by one.
LEMMA ExpectedProcess ==
    ASSUME NEW text, AsExpected("process_controller", text), NEW i \in 1..Len(text),
           DOMAIN text = 1..Len(text), text[i].is = "for m in ms"
    PROVE  Under(text, i) \subseteq Replaced("process_controller")
<1>1. \A j \in Where(text, "for m in ms") : Under(text, j) \subseteq Replaced("process_controller")
  BY DEF AsExpected
<1> QED
  BY <1>1 DEF Where, Hits

LEMMA ExpectedBlock ==
    ASSUME NEW text, AsExpected("block_manager", text), NEW i \in 1..Len(text),
           DOMAIN text = 1..Len(text), text[i].is = "def metrics", NEW last, last = End(text, i)
    PROVE  /\ text[last].is = "return sum of metrics" /\ text[last].indent = text[i + 1].indent
           /\ \A j \in i + 1 .. last - 1 : text[j].is \in Replaced("block_manager")
<1>1. \A j \in Where(text, "def metrics") :
         LET n == End(text, j)
         IN  /\ text[n].is = "return sum of metrics"
             /\ text[n].indent = text[j + 1].indent
             /\ \A k \in j + 1 .. n - 1 : text[k].is \in Replaced("block_manager")
  BY DEF AsExpected
<1> QED
  BY <1>1 DEF Where, Hits

\* The first of two lists, and the second from where the first came to.
LEMMA FileEdits ==
    ASSUME NEW text \in Seq(Lines), NEW fl \in Flags, NEW f \in Files,
           Patched(f, text, fl) # NotFound
    PROVE  \E es : /\ es = Edits(f, text, fl) /\ GoodEdits(es)
                   /\ FoldLeft(Edit, text, es) = Patched(f, text, fl)
                   /\ Patched(f, text, fl) \in Seq(Lines) /\ Compiles(Patched(f, text, fl))
                   /\ text # NotFound
<1>1. PICK es : es = Edits(f, text, fl)
  OBVIOUS
<1>2. GoodEdits(es)
  BY <1>1, NamesOfFiles, EditsGood
<1>3. /\ FoldLeft(Edit, text, es) = Patched(f, text, fl)
      /\ Patched(f, text, fl) \in Seq(Lines)
  BY <1>1, NamesOfFiles, PatchedIn
<1>4. Compiles(Patched(f, text, fl))
  BY DEF Patched, EditAll
<1>5. text # NotFound
  <2>1. PICK n \in Nat : n = Len(es)
    BY <1>2 DEF GoodEdits
  <2>2. PICK t : RunOf(t, text, es) /\ t[n] = FoldLeft(Edit, text, es)
    BY <1>2, <2>1, EditsRun DEF Texts
  <2>3. /\ t[0] = text
        /\ \A i \in 1..n : t[i] # NotFound => t[i - 1] # NotFound
    BY <1>2, <2>1, <2>2, RunStays DEF RunOf
  <2> DEFINE T == {i \in 0..n : t[i] # NotFound}
  <2>4. PICK m \in T : \A j \in T : m <= j
    <3>1. n \in T /\ T \in SUBSET Nat
      BY <1>3, <2>2
    <3> HIDE DEF T
    <3> QED
      BY <3>1, HasLeast
  <2>5. m = 0
    <3> SUFFICES ASSUME m # 0
                 PROVE  FALSE
      OBVIOUS
    <3>1. m \in 1..n /\ m - 1 \in 0..n /\ ~(m <= m - 1)
      BY <2>4
    <3>2. m - 1 \in T
      BY <2>3, <2>4, <3>1
    <3> HIDE DEF T
    <3> QED
      BY <2>4, <3>1, <3>2
  <2> QED
    BY <2>3, <2>4, <2>5
<1> QED
  BY <1>1, <1>2, <1>3, <1>4, <1>5

\* A list of edits that spare MAX's own lines.
LEMMA OwnSparing ==
    ASSUME NEW text \in Seq(Lines), NEW fl \in Flags, NEW f \in Files, AsExpected(f, text),
           Patched(f, text, fl) # NotFound, Sparing(Edits(f, text, fl), Mine(f, text))
    PROVE  Own(Patched(f, text, fl), Mine(f, text)) = Own(text, Mine(f, text))
<1>1. PICK es : /\ es = Edits(f, text, fl) /\ GoodEdits(es)
                /\ FoldLeft(Edit, text, es) = Patched(f, text, fl)
  BY FileEdits
<1>2. PICK words : words = Mine(f, text)
  OBVIOUS
<1>3. \A i \in 1..Len(es) : Spares(es[i], words)
  BY <1>1, <1>2, AllFresh DEF Sparing
<1>4. Own(FoldLeft(Edit, text, es), words) = Own(text, words)
  BY ONLY <1>1, <1>3, text \in Seq(Lines), Patched(f, text, fl) # NotFound, OwnEdits
<1> QED
  BY <1>1, <1>2, <1>4

LEMMA OwnUtils ==
    ASSUME NEW text \in Seq(Lines), NEW fl \in Flags, AsExpected("utils", text),
           Patched("utils", text, fl) # NotFound
    PROVE  Own(Patched("utils", text, fl), Mine("utils", text)) = Own(text, Mine("utils", text))
<1>1. PICK words : words = Mine("utils", text)
  OBVIOUS
<1>2. words \cap {"def create", "return cls"} = {} /\ "if kv_cache is not None" \notin words
  BY <1>1, ReplacedWords DEF Mine
<1>3. PICK fast, snapshot : /\ fast = If("fast" \in fl, FastCounts)
                            /\ snapshot = If("snapshot" \in fl, KvSnapshotCall)
  OBVIOUS
<1>4. Sparing(fast, words) /\ Sparing(snapshot, words) /\ Sparing(UtilsEdits, words)
  BY <1>2, <1>3, UtilsSparing, FastSparing, KvSparing, SparingIf
<1>5. GoodEdits(fast) /\ GoodEdits(snapshot) /\ GoodEdits(UtilsEdits)
  BY <1>3, UtilsEditsIn, FastCountsIn, KvSnapshotCallIn, IfGood
<1>6. PICK both : both = UtilsEdits \o fast
  OBVIOUS
<1>7. GoodEdits(both) /\ Sparing(both, words)
  BY <1>4, <1>5, <1>6, GoodJoin, SparingJoin
<1>8. Sparing(both \o snapshot, words)
  BY ONLY <1>4, <1>5, <1>7, SparingJoin
<1>9. Edits("utils", text, fl) = both \o snapshot
  BY <1>3, <1>6 DEF Edits
<1>10. "utils" \in Files
  BY NamesOfFiles
<1> QED
  BY <1>1, <1>8, <1>9, <1>10, OwnSparing

LEMMA OwnPlainFiles ==
    ASSUME NEW text \in Seq(Lines), NEW fl \in Flags,
           NEW f \in {"model_worker", "telemetry_worker", "cache_manager"}, AsExpected(f, text),
           Patched(f, text, fl) # NotFound
    PROVE  Own(Patched(f, text, fl), Mine(f, text)) = Own(text, Mine(f, text))
<1>1. PICK words : words = Mine(f, text)
  OBVIOUS
<1>2. Sparing(Edits(f, text, fl), words)
  <2>1. CASE f = "model_worker"
    BY <2>1, OthersSparing DEF Edits
  <2>2. CASE f = "telemetry_worker"
    <3>1. GoodEdits(TelemetryWorkerEdits) /\ GoodEdits(ImportOs(text))
      BY TelemetryWorkerEditsIn, ImportsGood
    <3>2. Sparing(TelemetryWorkerEdits, words) /\ Sparing(ImportOs(text), words)
      BY OthersSparing, ImportsSparing
    <3>3. Sparing(TelemetryWorkerEdits \o ImportOs(text), words)
      BY ONLY <3>1, <3>2, SparingJoin
    <3> QED
      BY <2>2, <3>3 DEF Edits
  <2>3. CASE f = "cache_manager"
    <3>1. Sparing(If("snapshot" \in fl, CacheManagerEdits), words)
      BY OthersSparing, SparingIf
    <3> QED
      BY <2>3, <3>1 DEF Edits
  <2> QED
    BY <2>1, <2>2, <2>3
<1>3. f \in Files
  BY NamesOfFiles
<1> QED
  BY <1>1, <1>2, <1>3, OwnSparing

LEMMA OwnProcess ==
    ASSUME NEW text \in Seq(Lines), NEW fl \in Flags, AsExpected("process_controller", text),
           Patched("process_controller", text, fl) # NotFound
    PROVE  Own(Patched("process_controller", text, fl), Mine("process_controller", text))
              = Own(text, Mine("process_controller", text))
<1>1. PICK words : words = Mine("process_controller", text)
  OBVIOUS
<1>2. PICK f \in Files : f = "process_controller"
  BY NamesOfFiles
<1>3. PICK es : /\ es = Edits(f, text, fl) /\ GoodEdits(es)
                /\ FoldLeft(Edit, text, es) = Patched(f, text, fl) /\ text # NotFound
  BY <1>2, FileEdits
<1>4. \A i \in 1..Len(es) : Fresh(es[i], words)
  BY <1>1, <1>2, <1>3, AllFresh
<1>5. PICK a, b : a = ProcessControllerEdits /\ b = ImportBeside(text)
  OBVIOUS
<1>6. GoodEdits(a) /\ GoodEdits(b) /\ Sparing(b, words)
  BY <1>5, ProcessControllerEditsIn, ImportsGood, ImportsSparing
<1>7. /\ Len(a) = 3 /\ a[1].how = "replace" /\ a[1].find = "for m in ms"
      /\ a[2].how = "end" /\ a[3].how = "before"
  BY <1>5 DEF ProcessControllerEdits, Replace, AtEnd, Before
<1>8. es = a \o b
  BY <1>2, <1>3, <1>5 DEF Edits
<1>9. Joined(es, a, b)
  BY ONLY <1>6, <1>8, GoodJoined
<1>10. /\ Len(b) \in Nat /\ \A i \in 1..3 : EditOK(a[i])
       /\ Len(es) = 3 + Len(b) /\ Len(es) \in Nat
       /\ \A i \in 1..3 : es[i] = a[i]
       /\ \A i \in 4..Len(es) : \E j \in 1..Len(b) : es[i] = b[j]
  <2>1. Len(b) \in Nat /\ \A i \in 1..Len(a) : EditOK(a[i])
    BY <1>6 DEF GoodEdits
  <2>2. Len(a) = 3
    BY <1>7
  <2>3. /\ Len(es) = Len(a) + Len(b) /\ \A i \in 1..Len(a) : es[i] = a[i]
        /\ \A i \in Len(a) + 1 .. Len(es) : \E j \in 1..Len(b) : es[i] = b[j]
    BY <1>9 DEF Joined
  <2> QED
    BY ONLY <2>1, <2>2, <2>3
<1>11. PICK e : e = es[1]
  OBVIOUS
<1>12. EditOK(e) /\ e.how = "replace" /\ e.find = "for m in ms" /\ Fresh(e, words) /\ es[1] = e
  <2>1. 1 \in 1..3 /\ 1 \in 1..Len(es)
    BY ONLY <1>10
  <2> QED
    BY <1>4, <1>7, <1>10, <1>11, <2>1
<1>13. e.find \notin words /\ \A i \in 1..Len(text) : text[i].is = e.find => Under(text, i) \cap words = {}
  <2>1. "for m in ms" \notin words
    BY <1>1, ReplacedWords DEF Mine
  <2>2. DOMAIN text = 1..Len(text)
    BY ONLY text \in Seq(Lines)
  <2>3. \A i \in 1..Len(text) : text[i].is = "for m in ms"
            => Under(text, i) \subseteq Replaced("process_controller")
    BY <2>2, ExpectedProcess
  <2>4. words \cap Replaced("process_controller") = {}
    BY <1>1 DEF Mine
  <2> QED
    BY <1>12, <2>1, <2>3, <2>4
<1>14. Edit(text, es[1]) # NotFound => Own(Edit(text, es[1]), words) = Own(text, words)
  <2>1. Edit(text, e) # NotFound => Own(Edit(text, e), words) = Own(text, words)
    BY ONLY <1>3, <1>12, <1>13, text \in Seq(Lines), OwnWhole
  <2> QED
    BY <1>11, <2>1
<1>15. \A i \in 2..Len(es) : Spares(es[i], words)
  <2> SUFFICES ASSUME NEW i \in 2..Len(es)
               PROVE  Spares(es[i], words)
    OBVIOUS
  <2>1. i \in 1..Len(es) /\ (i = 2 \/ i = 3 \/ i \in 4..Len(es)) /\ 2 \in 1..3 /\ 3 \in 1..3
    BY ONLY <1>10, i \in 2..Len(es)
  <2>2. Fresh(es[i], words)
    BY <1>4, <2>1
  <2>3. CASE i = 2 \/ i = 3
    BY <1>7, <1>10, <2>1, <2>2, <2>3 DEF Spares, Fresh
  <2>4. CASE i \in 4..Len(es)
    BY <1>6, <1>10, <2>2, <2>4 DEF Sparing
  <2> QED
    BY <2>1, <2>3, <2>4
<1>16. FoldLeft(Edit, text, es) # NotFound /\ Len(es) >= 1
  <2>1. Len(es) >= 1
    BY ONLY <1>10
  <2> QED
    BY <1>2, <1>3, <2>1
<1>17. Own(FoldLeft(Edit, text, es), words) = Own(text, words)
  BY ONLY <1>3, <1>14, <1>15, <1>16, text \in Seq(Lines), OwnEditsFrom
<1> QED
  BY <1>1, <1>2, <1>3, <1>17

-----------------------------------------------------------------------------
(* The edits of inputs, block_manager, cache_manager and the workers.      *)

LEMMA ExpectedInputs ==
    ASSUME NEW text, AsExpected("inputs", text), NEW i \in 1..Len(text),
           DOMAIN text = 1..Len(text), text[i].is \in {"def __post_init__", "def batch_size"}
    PROVE  Under(text, i) \subseteq Replaced("inputs")
<1>1. i \in Where(text, text[i].is)
  BY DEF Where, Hits
<1> QED
  BY <1>1 DEF AsExpected

\* MAX's own lines of inputs.py are all there, and the constructor goes through the batch once.
LEMMA InputsLand ==
    ASSUME NEW text \in Seq(Lines), NEW fl \in Flags, AsExpected("inputs", text),
           Patched("inputs", text, fl) # NotFound
    PROVE  /\ Own(Patched("inputs", text, fl), Mine("inputs", text)) = Own(text, Mine("inputs", text))
           /\ "fast" \in fl => HasLine(Patched("inputs", text, fl), "one pass")
<1>1. PICK words : words = Mine("inputs", text)
  OBVIOUS
<1>2. PICK f \in Files : f = "inputs"
  BY NamesOfFiles
<1>3. CASE "fast" \notin fl
  <2>1. Sparing(Edits(f, text, fl), words)
    BY <1>2, <1>3, NoEdits DEF Edits
  <2> QED
    BY <1>1, <1>2, <1>3, <2>1, OwnSparing
<1>4. CASE "fast" \in fl
  <2>1. PICK es : /\ es = Edits(f, text, fl) /\ GoodEdits(es)
                  /\ FoldLeft(Edit, text, es) = Patched(f, text, fl) /\ text # NotFound
    BY <1>2, FileEdits
  <2>2. es = InputsEdits
    BY <1>2, <1>4, <2>1 DEF Edits, If
  <2>3. PICK a, b : /\ es = <<a, b>>
                    /\ a = Replace(<<"class TextGenerationInputs">>, "def __post_init__",
                              <<Line(1, "def __post_init__"), Line(2, "one pass")>>)
                    /\ b = Body(<<"class TextGenerationInputs">>, "def batch_size",
                              <<Line(2, "return sum of lengths")>>)
    BY <2>2 DEF InputsEdits
  <2>4. Len(es) = 2 /\ es[1] = a /\ es[2] = b
    BY <2>3, PairIs
  <2>5. EditOK(a) /\ EditOK(b) /\ Fresh(a, words) /\ Fresh(b, words)
    <3>1. 1 \in 1..Len(es) /\ 2 \in 1..Len(es)
      BY ONLY <2>4
    <3> QED
      BY <1>1, <1>2, <2>1, <2>4, <3>1, AllFresh DEF GoodEdits
  <2>6. a.how = "replace" /\ b.how = "body" /\ a.find = "def __post_init__" /\ b.find = "def batch_size"
    BY <2>3 DEF Replace, Body
  <2>7. /\ a.new = <<Line(1, "def __post_init__"), Line(2, "one pass")>>
        /\ b.path = <<"class TextGenerationInputs">>
    BY <2>3 DEF Replace, Body
  <2>8. Len(a.new) = 2 /\ Len(b.path) = 1
    <3> HIDE DEF Line
    <3> QED
      BY <2>7
  <2>9. /\ a.new[1].indent = 1 /\ a.new[1].is = "def __post_init__" /\ a.new[2].is = "one pass"
    <3>1. PICK p, q : p = Line(1, "def __post_init__") /\ q = Line(2, "one pass")
      OBVIOUS
    <3>2. a.new = <<p, q>>
      BY <2>7, <3>1
    <3>3. a.new[1] = p /\ a.new[2] = q
      BY ONLY <3>2
    <3>4. p.indent = 1 /\ p.is = "def __post_init__" /\ q.is = "one pass"
      BY <3>1, LineOf
    <3> QED
      BY <3>3, <3>4
  <2>10. \A k \in 1..Len(a.new) : a.new[k].is \notin {"original", b.find}
    <3>1. \A k \in 1..Len(a.new) : k = 1 \/ k = 2
      BY ONLY <2>8
    <3> QED
      BY <2>6, <2>9, <3>1
  <2>11. a.find \notin words
    BY <1>1, <2>6, ReplacedWords DEF Mine
  <2>12. DOMAIN text = 1..Len(text)
    BY ONLY text \in Seq(Lines)
  <2>13. \A i \in 1..Len(text) : text[i].is \in {a.find, b.find} => Under(text, i) \cap words = {}
    <3>1. words \cap Replaced("inputs") = {}
      BY <1>1 DEF Mine
    <3> QED
      BY <2>6, <2>12, <3>1, ExpectedInputs
  <2>14. Patched(f, text, fl) = Edit(Edit(text, a), b)
    <3>1. FoldLeft(Edit, text, es) = Edit(Edit(text, a), b)
      <4>1. es = <<a, b>>
        BY <2>3
      <4>2. FoldsTo(text, es, Edit(Edit(text, a), b))
        BY ONLY <2>5, <4>1, text \in Seq(Lines), FoldPairIs
      <4> QED
        BY <4>2 DEF FoldsTo
    <3> QED
      BY <2>1, <3>1
  <2>15. Edit(Edit(text, a), b) # NotFound
    BY <1>2, <2>14
  <2>16. Len(a.new) >= 1 /\ Len(b.path) >= 1 /\ a.new[1].indent <= 1
    <3>1. Len(a.new) >= 1 /\ Len(b.path) >= 1
      BY ONLY <2>8
    <3>2. a.new[1].indent = 1
      BY <2>9
    <3>3. a.new[1].indent <= 1
      BY ONLY <3>2
    <3> QED
      BY <3>1, <3>3
  <2>17. /\ Own(Edit(Edit(text, a), b), words) = Own(text, words)
         /\ \A is \in WordsOf(a.new) :
               (\A i \in 1..Len(text) : text[i].is = b.find => is \notin Under(text, i))
                   => is \in WordsOf(Edit(Edit(text, a), b))
    <3>1. a.how = "replace" /\ b.how = "body"
      BY <2>6
    <3> QED
      BY ONLY <2>1, <2>5, <2>10, <2>11, <2>13, <2>15, <2>16, <3>1, text \in Seq(Lines), WholeThenBody
  <2>18. "one pass" \in WordsOf(Edit(Edit(text, a), b))
    <3>1. \A i \in 1..Len(text) : text[i].is = b.find => "one pass" \notin Under(text, i)
      <4>1. "one pass" \notin Replaced("inputs")
        BY ReplacedWords
      <4> QED
        BY <2>6, <2>12, <4>1, ExpectedInputs
    <3>2. "one pass" \in WordsOf(a.new)
      <4>1. 2 \in 1..Len(a.new)
        BY ONLY <2>8
      <4>2. DOMAIN a.new = 1..Len(a.new)
        BY ONLY <2>5 DEF EditOK
      <4> QED
        BY <2>9, <4>1, <4>2 DEF WordsOf
    <3> QED
      BY <2>17, <3>1, <3>2
  <2>19. HasLine(Edit(Edit(text, a), b), "one pass")
    BY <2>18 DEF WordsOf, HasLine
  <2> QED
    BY <1>1, <1>2, <2>14, <2>17, <2>19
<1> QED
  BY <1>3, <1>4

LEMMA BlockWordsIn ==
    {"if empty connector metrics", "return _metrics", "original"} \subseteq Words
BY WordsOfEdits DEF NewWords

\* MAX's own lines of block_manager.py are all there but a docstring, and what metrics
\* returned is returned after the shortcut.
LEMMA BlockLands ==
    ASSUME NEW text \in Seq(Lines), NEW fl \in Flags, AsExpected("block_manager", text),
           Patched("block_manager", text, fl) # NotFound
    PROVE  /\ Own(Patched("block_manager", text, fl), Mine("block_manager", text))
                 = Own(text, Mine("block_manager", text))
           /\ "fast" \in fl => Directly(Patched("block_manager", text, fl), "return _metrics",
                                        "return sum of metrics")
<1>1. PICK words : words = Mine("block_manager", text)
  OBVIOUS
<1>2. PICK f \in Files : f = "block_manager"
  BY NamesOfFiles
<1>3. CASE "fast" \notin fl
  <2>1. Sparing(Edits(f, text, fl), words)
    BY <1>2, <1>3, NoEdits DEF Edits
  <2> QED
    BY <1>1, <1>2, <1>3, <2>1, OwnSparing
<1>4. CASE "fast" \in fl
  <2>1. PICK es : /\ es = Edits(f, text, fl) /\ GoodEdits(es)
                  /\ FoldLeft(Edit, text, es) = Patched(f, text, fl) /\ text # NotFound
    BY <1>2, FileEdits
  <2>2. es = BlockManagerEdits
    BY <1>2, <1>4, <2>1 DEF Edits, If
  <2>3. PICK p, q : p = Line(2, "if empty connector metrics") /\ q = Line(3, "return _metrics")
    OBVIOUS
  <2>4. PICK a, b : /\ es = <<a, b>>
                    /\ a = Body(<<"class BlockManager">>, "def metrics", <<p, q, Line(0, "original")>>)
                    /\ b = AtEnd(<<Line(0, "def _empty_connector_metrics"), Line(1, "return types")>>)
    BY <2>2, <2>3 DEF BlockManagerEdits
  <2>5. es = <<a, b>>
    BY <2>4
  <2>6. Len(es) = 2 /\ es[1] = a /\ es[2] = b
    BY ONLY <2>5, PairIs
  <2>7. EditOK(a) /\ EditOK(b) /\ Fresh(a, words) /\ Fresh(b, words)
    <3>1. 1 \in 1..Len(es) /\ 2 \in 1..Len(es)
      BY ONLY <2>6
    <3> QED
      BY <1>1, <1>2, <2>1, <2>6, <3>1, AllFresh DEF GoodEdits
  <2>8. a.how = "body" /\ b.how = "end" /\ a.find = "def metrics"
    BY <2>4 DEF AtEnd, Body
  <2>9. a.new = <<p, q, Line(0, "original")>>
    BY <2>4 DEF Body
  <2>10. p.is = "if empty connector metrics" /\ q.is = "return _metrics" /\ p \in Lines /\ q \in Lines
    BY <2>3, LineOf, LineIn, BlockWordsIn
  <2>11. Len(a.new) = 3 /\ a.new[1] = p /\ a.new[2] = q
    BY <2>9, TripleIs
  <2>12. p.is \notin words \cup {"original"} /\ q.is \notin words \cup {"original"}
    <3>1. p.is \notin words /\ q.is \notin words
      <4>1. 1 \in 1..Len(a.new) /\ 2 \in 1..Len(a.new)
        BY ONLY <2>11
      <4> QED
        BY <2>7, <2>11, <4>1 DEF Fresh
    <3> QED
      BY <2>10, <3>1
  <2>13. PICK s : s = <<p, q>>
    OBVIOUS
  <2>14. OriginalLast(a.new, s, 0, words)
    <3>1. "original" \in Words
      BY BlockWordsIn
    <3>2. {p.is, q.is} \cap (words \cup {"original"}) = {}
      BY <2>12
    <3>3. 0 \in Nat /\ p \in Lines /\ q \in Lines
      BY <2>10
    <3> QED
      BY ONLY <2>9, <2>13, <3>1, <3>2, <3>3, TwoOriginal
  <2>15. Len(s) = 2 /\ s[Len(s)] = q /\ Len(s) >= 1
    BY ONLY <2>13
  <2>16. DOMAIN text = 1..Len(text)
    BY ONLY text \in Seq(Lines)
  <2>17. KeepsLasts(text, a.find, words)
    <3>1. words \cap Replaced("block_manager") = {}
      BY <1>1 DEF Mine
    <3>2. ASSUME NEW i \in 1..Len(text), text[i].is = a.find
          PROVE  KeepsLast(text, i, words)
      <4>1. /\ text[End(text, i)].indent = text[i + 1].indent
            /\ \A j \in i + 1 .. End(text, i) - 1 : text[j].is \in Replaced("block_manager")
        BY <2>8, <2>16, <3>2, ExpectedBlock
      <4> QED
        BY <3>1, <4>1 DEF KeepsLast
    <3> QED
      BY <3>2 DEF KeepsLasts
  <2>18. PICK is : is = "return sum of metrics"
    OBVIOUS
  <2>19. \A i \in 1..Len(text) : text[i].is = a.find => text[End(text, i)].is = is
    BY <2>8, <2>16, <2>18, ExpectedBlock
  <2>20. Patched(f, text, fl) = Edit(Edit(text, a), b)
    <3>1. FoldsTo(text, es, Edit(Edit(text, a), b))
      BY ONLY <2>5, <2>7, text \in Seq(Lines), FoldPairIs
    <3> QED
      BY <2>1, <3>1 DEF FoldsTo
  <2>21. Edit(Edit(text, a), b) # NotFound
    BY <1>2, <2>20
  <2>22. /\ Own(Edit(Edit(text, a), b), words) = Own(text, words)
         /\ Directly(Edit(Edit(text, a), b), s[Len(s)].is, is)
    <3>1. a.how = "body" /\ b.how = "end"
      BY <2>8
    <3> QED
      BY ONLY <2>1, <2>7, <2>14, <2>15, <2>17, <2>19, <2>21, <3>1, text \in Seq(Lines),
         LastOfBodyThenEnd
  <2>23. Directly(Edit(Edit(text, a), b), "return _metrics", "return sum of metrics")
    BY <2>10, <2>15, <2>18, <2>22
  <2> QED
    BY <1>1, <1>2, <2>20, <2>22, <2>23
<1> QED
  BY <1>3, <1>4

\* Importing a module comes between no two lines but where it looks.
LEMMA ImportsKeep ==
    ASSUME NEW text, NEW before, NEW is, {"import threading", "sum", "assert"} \cap {before, is} = {}
    PROVE  AllKeep(ImportBeside(text), before, is) /\ AllKeep(ImportOs(text), before, is)
<1>1. "import threading" \notin Headers
  BY WordsOfEdits DEF LineWords
<1>2. <<>> \in Seq(Headers) /\ <<Line(0, "import os")>> \in Seq(Lines) /\ <<Line(0, "import time")>> \in Seq(Lines)
  <2>1. "import os" \in Words /\ "import time" \in Words
    BY WordsOfEdits DEF NewWords
  <2>2. Line(0, "import os") \in Lines /\ Line(0, "import time") \in Lines
    BY <2>1, LineIn
  <2> QED
    BY <2>2, Tuples
<1>3. PICK a, b, c : /\ a = Before(<<>>, "import threading", <<Line(0, "import os")>>)
                     /\ b = After(<<>>, "import threading", <<Line(0, "import time")>>)
                     /\ c = AtTop(<<Line(0, "import os")>>)
  OBVIOUS
<1>4. EditOK(a) /\ EditOK(b) /\ EditOK(c)
  BY <1>2, <1>3, Shapes, EndShapes
<1>5. /\ a.how = "before" /\ a.find = "import threading"
      /\ b.how = "after" /\ b.find = "import threading" /\ c.how = "top"
  BY <1>3 DEF Before, After, AtTop
<1>6. KeepsPair(a, before, is) /\ KeepsPair(b, before, is) /\ KeepsPair(c, before, is)
  BY <1>1, <1>4, <1>5 DEF KeepsPair
<1>7. AllKeep(<<a>>, before, is) /\ AllKeep(<<b>>, before, is) /\ AllKeep(<<c>>, before, is)
  BY <1>6, AllKeepOne
<1>8. GoodEdits(<<a>>) /\ GoodEdits(<<b>>)
  BY <1>4, GoodTuples
<1>9. \A p : AllKeep(If(p, <<a>>), before, is) /\ AllKeep(If(p, <<b>>), before, is)
             /\ AllKeep(If(p, <<c>>), before, is) /\ GoodEdits(If(p, <<a>>)) /\ GoodEdits(If(p, <<b>>))
  BY <1>7, <1>8, AllKeepIf, IfGood
<1>10. \A p, q : AllKeep(If(p, <<a>>) \o If(q, <<b>>), before, is)
  BY <1>9, AllKeepJoin
<1> QED
  BY <1>3, <1>9, <1>10 DEF ImportBeside, ImportOs

\* What is added to cache_manager.py comes right before the function it is beside.
LEMMA CacheLands ==
    ASSUME NEW text \in Seq(Lines), NEW fl \in Flags, "snapshot" \in fl,
           Patched("cache_manager", text, fl) # NotFound
    PROVE  Directly(Patched("cache_manager", text, fl), "return out", "def get_metrics_aggregated")
<1>1. PICK f \in Files : f = "cache_manager"
  BY NamesOfFiles
<1>2. PICK es : /\ es = Edits(f, text, fl) /\ GoodEdits(es)
                /\ FoldLeft(Edit, text, es) = Patched(f, text, fl)
  BY <1>1, FileEdits
<1>3. es = CacheManagerEdits
  BY <1>1, <1>2 DEF Edits, If
<1>4. PICK p, q : p = Line(1, "def metrics_snapshot") /\ q = Line(2, "return out")
  OBVIOUS
<1>5. PICK a, b : /\ es = <<a, b>>
                  /\ a = Before(<<"class PagedKVCacheManager">>, "def get_metrics_aggregated", <<p, q>>)
                  /\ b = AtEnd(<<Line(0, "def _snapshot_flags"), Line(1, "return flags")>>)
  BY <1>3, <1>4 DEF CacheManagerEdits
<1>6. es = <<a, b>>
  BY <1>5
<1>7. Len(es) = 2 /\ es[1] = a /\ es[2] = b
  BY ONLY <1>6, PairIs
<1>8. 1 \in 1..Len(es) /\ 2 \in 1..Len(es) /\ \A i \in 1 + 1 .. Len(es) : i = 2
  BY ONLY <1>7
<1>9. EditOK(a) /\ EditOK(b)
  BY <1>2, <1>7, <1>8 DEF GoodEdits
<1>10. a.how = "before" /\ a.find = "def get_metrics_aggregated" /\ a.new = <<p, q>> /\ b.how = "end"
  BY <1>5 DEF Before, AtEnd
<1>11. p.is = "def metrics_snapshot" /\ q.is = "return out"
  BY <1>4, LineOf
<1>12. Len(a.new) = 2 /\ a.new[1] = p /\ a.new[2] = q
  <2>1. a.new = <<p, q>>
    BY <1>10
  <2> QED
    BY ONLY <2>1, PairIs
<1>13. Len(a.new) >= 1 /\ \A j \in 1..Len(a.new) : j = 1 \/ j = 2
  BY ONLY <1>12
<1>14. \A j \in 1..Len(a.new) : a.new[j].is # "original"
  BY <1>11, <1>12, <1>13
<1>15. Puts(a, a.new[Len(a.new)].is, a.find)
  <2>1. a.how = "before"
    BY <1>10
  <2> QED
    BY ONLY <1>9, <1>13, <1>14, <2>1, PutsBefore
<1>16. Puts(es[1], "return out", "def get_metrics_aggregated")
  BY <1>7, <1>10, <1>11, <1>12, <1>15
<1>17. \A i \in 1 + 1 .. Len(es) : KeepsPair(es[i], "return out", "def get_metrics_aggregated")
  BY <1>7, <1>8, <1>9, <1>10 DEF KeepsPair
<1>18. Directly(FoldLeft(Edit, text, es), "return out", "def get_metrics_aggregated")
  BY <1>1, <1>2, <1>8, <1>16, <1>17, PairStands
<1> QED
  BY <1>1, <1>2, <1>18

\* The worker's flush starts the body of its idle branch.
LEMMA WorkerLands ==
    ASSUME NEW text \in Seq(Lines), NEW fl \in Flags,
           Patched("model_worker", text, fl) # NotFound
    PROVE  Directly(Patched("model_worker", text, fl), "if NO_PROGRESS", "_rec_idle_flush")
<1>1. PICK f \in Files : f = "model_worker"
  BY NamesOfFiles
<1>2. PICK es : /\ es = Edits(f, text, fl) /\ GoodEdits(es)
                /\ FoldLeft(Edit, text, es) = Patched(f, text, fl)
  BY <1>1, FileEdits
<1>3. es = ModelWorkerEdits
  BY <1>1, <1>2 DEF Edits
<1>4. PICK p : p = Line(5, "_rec_idle_flush")
  OBVIOUS
<1>50. PICK a, b : /\ es = <<a, b>>
                   /\ a = BodyStart(<<"class ModelWorker", "def run", "while True">>, "if NO_PROGRESS", <<p>>)
                   /\ b = Before(<<"class ModelWorker", "def run">>, "while True",
                             <<Line(3, "import _rec_idle_flush"), Line(3, "if _rec_path"),
                               Line(4, "callback(_rec_shutdown)")>>)
  BY <1>3, <1>4 DEF ModelWorkerEdits
<1>5. /\ es = <<a, b>>
      /\ a.how = "start" /\ a.find = "if NO_PROGRESS" /\ a.new = <<p>>
      /\ b.how = "before" /\ b.find = "while True"
  BY <1>50 DEF BodyStart, Before
<1>6. es = <<a, b>>
  BY <1>5
<1>7. Len(es) = 2 /\ es[1] = a /\ es[2] = b
  BY ONLY <1>6, PairIs
<1>8. 1 \in 1..Len(es) /\ 2 \in 1..Len(es) /\ \A i \in 1 + 1 .. Len(es) : i = 2
  BY ONLY <1>7
<1>9. EditOK(a) /\ EditOK(b)
  BY <1>2, <1>7, <1>8 DEF GoodEdits
<1>10. a.new = <<p>> /\ a.how = "start"
  BY <1>5
<1>11. Len(a.new) = 1 /\ a.new[1] = p
  BY ONLY <1>10
<1>12. Len(a.new) >= 1 /\ \A j \in 1..Len(a.new) : j = 1
  BY ONLY <1>11
<1>13. p.is = "_rec_idle_flush"
  BY <1>4, LineOf
<1>14. \A j \in 1..Len(a.new) : a.new[j].is # "original"
  BY <1>11, <1>12, <1>13
<1>15. Puts(a, a.find, a.new[1].is)
  BY ONLY <1>9, <1>10, <1>12, <1>14, PutsStart
<1>16. Puts(es[1], "if NO_PROGRESS", "_rec_idle_flush")
  BY <1>5, <1>7, <1>11, <1>13, <1>15
<1>17. \A i \in 1 + 1 .. Len(es) : KeepsPair(es[i], "if NO_PROGRESS", "_rec_idle_flush")
  BY <1>5, <1>7, <1>8, <1>9 DEF KeepsPair
<1>18. Directly(FoldLeft(Edit, text, es), "if NO_PROGRESS", "_rec_idle_flush")
  BY <1>1, <1>2, <1>8, <1>16, <1>17, PairStands
<1> QED
  BY <1>1, <1>2, <1>18

\* A module that is imported has its line.
LEMMA ImportsWord ==
    ASSUME NEW text \in Seq(Lines), NEW is, Imports(text, is)
    PROVE  is \in WordsOf(text)
<1>1. PICK i \in 2 .. Len(text) : text[i] = Line(0, is)
  BY DEF Imports
<1>2. Line(0, is).is = is
  BY DEF Line
<1>3. i \in DOMAIN text
  BY <1>1
<1> QED
  BY <1>1, <1>2, <1>3 DEF WordsOf

LEMMA TelemetryLands ==
    ASSUME NEW text \in Seq(Lines), NEW fl \in Flags, AsExpected("telemetry_worker", text),
           Patched("telemetry_worker", text, fl) # NotFound
    PROVE  /\ Directly(Patched("telemetry_worker", text, fl), "else", "yield")
           /\ HasLine(Patched("telemetry_worker", text, fl), "import os")
<1>1. PICK f \in Files : f = "telemetry_worker"
  BY NamesOfFiles
<1>2. PICK es : /\ es = Edits(f, text, fl) /\ GoodEdits(es)
                /\ FoldLeft(Edit, text, es) = Patched(f, text, fl)
                /\ Patched(f, text, fl) \in Seq(Lines)
  BY <1>1, FileEdits
<1>3. PICK a, b : a = TelemetryWorkerEdits /\ b = ImportOs(text)
  OBVIOUS
<1>4. GoodEdits(a) /\ GoodEdits(b)
  BY <1>3, TelemetryWorkerEditsIn, ImportsGood
<1>5. es = a \o b
  BY <1>1, <1>2, <1>3 DEF Edits
<1>6. Joined(es, a, b)
  BY ONLY <1>4, <1>5, GoodJoined
<1>7. PICK p, q, r, u : /\ p = Line(0, "_dir") /\ q = Line(0, "if _dir") /\ r = Line(1, "yield client")
                        /\ u = Line(0, "else")
  OBVIOUS
<1>8. p \in Lines /\ q \in Lines /\ r \in Lines /\ u \in Lines /\ u.is = "else" /\ "original" \in Words
  <2>1. {"_dir", "if _dir", "yield client", "else", "original"} \subseteq Words
    BY WordsOfEdits DEF NewWords
  <2>2. p \in Lines /\ q \in Lines /\ r \in Lines /\ u \in Lines
    BY <1>7, <2>1, LineIn
  <2> QED
    BY <1>7, <2>1, <2>2, LineOf
<1>9. PICK e : /\ a = <<e>>
               /\ e = ReplaceHere(<<"def start_telemetry_consumer", "async with">>, "yield",
                                  <<p, q, r, u, Line(1, "original")>>)
  BY <1>3, <1>7 DEF TelemetryWorkerEdits
<1>10. a = <<e>>
  BY <1>9
<1>11. Len(a) = 1 /\ a[1] = e /\ 1 \in 1..Len(a) /\ \A i \in 1 + 1 .. Len(a) : FALSE
  BY ONLY <1>10
<1>12. e.how = "here" /\ e.find = "yield" /\ e.new = <<p, q, r, u, Line(1, "original")>>
  BY <1>9 DEF ReplaceHere
<1>13. EditOK(e)
  BY <1>4, <1>11 DEF GoodEdits
<1>14. Puts(a[1], "else", "yield")
  <2>1. e.how \in {"counts", "here", "replace"} /\ u.is # "original" /\ 1 \in Nat
    BY <1>8, <1>12
  <2>2. Puts(e, u.is, e.find)
    BY ONLY <1>8, <1>12, <1>13, <2>1, PutsElse
  <2> QED
    BY <1>8, <1>11, <1>12, <2>2
<1>15. AllKeep(b, "else", "yield")
  BY <1>3, ImportsKeep
<1>16. Directly(FoldLeft(Edit, text, es), "else", "yield")
  BY <1>1, <1>2, <1>4, <1>6, <1>11, <1>14, <1>15, ListStands
<1>17. HasLine(Patched(f, text, fl), "import os")
  <2>1. CASE Imports(text, "import os")
    <3>1. PICK words : words = Mine(f, text)
      OBVIOUS
    <3>2. Own(Patched(f, text, fl), words) = Own(text, words)
      BY <1>1, <3>1, OwnPlainFiles
    <3>3. "import os" \in words \cap WordsOf(text)
      <4>1. "import os" \in WordsOf(text)
        BY <2>1, ImportsWord
      <4> QED
        BY <1>1, <3>1, <4>1 DEF Mine, Replaced
    <3> QED
      BY <1>2, <3>2, <3>3, OwnKeepsWord
  <2>2. CASE ~Imports(text, "import os")
    <3>1. PICK l, c : l = Line(0, "import os") /\ c = AtTop(<<l>>)
      OBVIOUS
    <3>2. b = <<c>>
      BY <1>3, <2>2, <3>1 DEF ImportOs, If
    <3>3. Len(es) = 2 /\ es[2] = c /\ Len(es) >= 1 /\ 2 \in 1..Len(es)
      <4>1. Len(b) = 1 /\ b[1] = c /\ \A j \in 1..Len(b) : j = 1
        BY ONLY <3>2
      <4>2. Len(es) = 2
        BY ONLY <1>6, <1>11, <4>1 DEF Joined
      <4>3. 2 \in Len(a) + 1 .. Len(es)
        BY ONLY <1>11, <4>2
      <4>4. es[2] = c
        BY ONLY <1>6, <4>1, <4>3 DEF Joined
      <4> QED
        BY ONLY <4>2, <4>4
    <3>4. PICK x \in Seq(Lines) : x # NotFound /\ FoldsTo(text, es, Edit(x, es[Len(es)]))
      BY <1>1, <1>2, <3>3, LastStep
    <3>5. c.how = "top" /\ c.new = <<l>>
      BY <3>1 DEF AtTop
    <3>6. Edit(x, c) = <<l>> \o x
      BY <3>4, <3>5 DEF Edit
    <3>7. Patched(f, text, fl) = <<l>> \o x
      BY <1>2, <3>3, <3>4, <3>6 DEF FoldsTo
    <3>8. l \in Lines /\ l.is = "import os"
      <4>1. "import os" \in Words
        BY WordsOfEdits DEF NewWords
      <4> QED
        BY <3>1, <4>1, LineIn, LineOf
    <3>9. l \in Lines /\ x \in Seq(Lines)
      BY <3>8
    <3>10. 1 \in DOMAIN (<<l>> \o x) /\ (<<l>> \o x)[1] = l
      BY ONLY <3>9
    <3> QED
      BY <3>7, <3>8, <3>10 DEF HasLine
  <2> QED
    BY <2>1, <2>2
<1> QED
  BY <1>1, <1>2, <1>16, <1>17

\* What process_controller.py is to import comes beside a module it imports.
LEMMA ProcessImports ==
    ASSUME NEW text \in Seq(Lines), NEW es, NEW a, NEW b, GoodEdits(a), GoodEdits(b), GoodEdits(es),
           b = ImportBeside(text), es = a \o b, FoldLeft(Edit, text, es) # NotFound,
           Imports(text, "import threading"), ~Imports(text, "import os")
    PROVE  Directly(FoldLeft(Edit, text, es), "import os", "import threading")
<1>1. PICK n \in Nat : n = Len(a)
  BY DEF GoodEdits
<1>2. PICK l, m : l = Line(0, "import os") /\ m = Line(0, "import time")
  OBVIOUS
<1>3. PICK B, A : B = Before(<<>>, "import threading", <<l>>) /\ A = After(<<>>, "import threading", <<m>>)
  OBVIOUS
<1>4. b = <<B>> \o If(~Imports(text, "import time"), <<A>>)
  BY <1>2, <1>3 DEF ImportBeside, If
<1>5. b = <<B, A>> \/ b = <<B>>
  <2>1. CASE ~Imports(text, "import time")
    <3>1. b = <<B>> \o <<A>>
      BY <1>4, <2>1 DEF If
    <3>2. <<B>> \o <<A>> = <<B, A>>
      BY OneAndOne
    <3> QED
      BY ONLY <3>1, <3>2, Zenon
  <2>2. CASE Imports(text, "import time")
    <3>1. b = <<B>> \o <<>>
      BY <1>4, <2>2 DEF If
    <3> QED
      BY ONLY <3>1
  <2> QED
    BY <2>1, <2>2
<1>6. /\ Len(b) = 1 \/ Len(b) = 2
      /\ b[1] = B /\ (Len(b) = 2 => b[2] = A)
  BY ONLY <1>5
<1>7. /\ Joined(es, a, b) /\ \A j \in 1..Len(b) : es[Len(a) + j] = b[j]
  <2>1. GoodEdits(a) /\ GoodEdits(b) /\ es = a \o b
    OBVIOUS
  <2> QED
    BY ONLY <2>1, GoodJoined, JoinedAt
<1>8. PICK k \in 1..Len(es) : /\ es[k] = B
                              /\ \A i \in k + 1 .. Len(es) : es[i] = A /\ Len(b) = 2
  <2>1. Len(es) = n + Len(b) /\ \A j \in 1..Len(b) : es[n + j] = b[j]
    BY <1>1, <1>7 DEF Joined
  <2>2. n + 1 \in 1..Len(es) /\ es[n + 1] = B
    BY ONLY <1>1, <1>6, <2>1
  <2>3. \A i \in (n + 1) + 1 .. Len(es) : Len(b) = 2 /\ i = n + 2
    BY ONLY <1>1, <1>6, <2>1
  <2>4. \A i \in (n + 1) + 1 .. Len(es) : es[i] = A /\ Len(b) = 2
    BY ONLY <1>6, <2>1, <2>3
  <2> QED
    BY ONLY <2>2, <2>4
<1>9. B.how = "before" /\ B.find = "import threading" /\ B.new = <<l>> /\ A.how = "after" /\ A.find = "import threading"
  BY <1>3 DEF Before, After
<1>10. EditOK(B) /\ (Len(b) = 2 => EditOK(A))
  <2>1. \A i \in 1..Len(b) : EditOK(b[i])
    BY DEF GoodEdits
  <2> QED
    BY ONLY <1>6, <2>1
<1>11. l.is = "import os"
  BY <1>2, LineOf
<1>12. Len(B.new) = 1 /\ B.new[1] = l
  <2>1. B.new = <<l>>
    BY <1>9
  <2> QED
    BY ONLY <2>1
<1>13. Puts(B, "import os", "import threading")
  <2>1. Len(B.new) >= 1 /\ \A j \in 1..Len(B.new) : j = 1
    BY ONLY <1>12
  <2>2. \A j \in 1..Len(B.new) : B.new[j].is # "original"
    BY <1>11, <1>12, <2>1
  <2>3. B.how = "before"
    BY <1>9
  <2>4. Puts(B, B.new[Len(B.new)].is, B.find)
    BY ONLY <1>10, <2>1, <2>2, <2>3, PutsBefore
  <2> QED
    BY <1>9, <1>11, <1>12, <2>4
<1>14. "import threading" \notin Headers
  BY WordsOfEdits DEF LineWords
<1>15. Len(b) = 2 => KeepsPair(A, "import os", "import threading")
  BY <1>9, <1>10, <1>14 DEF KeepsPair
<1>16. Puts(es[k], "import os", "import threading")
  BY <1>8, <1>13
<1>17. \A i \in k + 1 .. Len(es) : KeepsPair(es[i], "import os", "import threading")
  BY <1>8, <1>15
<1> QED
  BY <1>16, <1>17, PairStands

LEMMA ProcessLands ==
    ASSUME NEW text \in Seq(Lines), NEW fl \in Flags, AsExpected("process_controller", text),
           Patched("process_controller", text, fl) # NotFound
    PROVE  /\ Directly(Patched("process_controller", text, fl), "else", "for m in ms")
           /\ Directly(Patched("process_controller", text, fl), "tail_measurements",
                       "return process_telemetry")
           /\ HasLine(Patched("process_controller", text, fl), "import os")
<1>1. PICK f \in Files : f = "process_controller"
  BY NamesOfFiles
<1>2. PICK es : /\ es = Edits(f, text, fl) /\ GoodEdits(es)
                /\ FoldLeft(Edit, text, es) = Patched(f, text, fl)
                /\ Patched(f, text, fl) \in Seq(Lines)
  BY <1>1, FileEdits
<1>3. PICK a, b : a = ProcessControllerEdits /\ b = ImportBeside(text)
  OBVIOUS
<1>4. GoodEdits(a) /\ GoodEdits(b)
  BY <1>3, ProcessControllerEditsIn, ImportsGood
<1>5. es = a \o b
  BY <1>1, <1>2, <1>3 DEF Edits
<1>6. Joined(es, a, b)
  BY ONLY <1>4, <1>5, GoodJoined
<1>7. PICK p, q, s, u, w, x, y, z :
          /\ p = Line(4, "if _TEL_TIMING") /\ q = Line(5, "_t0") /\ s = Line(5, "_tel_record")
          /\ u = Line(4, "else")
          /\ w = Line(1, "if RECORD_METRICS") /\ x = Line(2, "tail_and_publish")
          /\ y = Line(1, "if MEASUREMENT_LOG") /\ z = Line(2, "tail_measurements")
  OBVIOUS
<1>8. p \in Lines /\ q \in Lines /\ s \in Lines /\ u \in Lines /\ u.is = "else" /\ "original" \in Words
  <2>1. {"if _TEL_TIMING", "_t0", "_tel_record", "else", "original"} \subseteq Words
    BY WordsOfEdits DEF NewWords
  <2>2. p \in Lines /\ q \in Lines /\ s \in Lines /\ u \in Lines
    BY <1>7, <2>1, LineIn
  <2> QED
    BY <1>7, <2>1, <2>2, LineOf
<1>9. PICK c, d, e :
          /\ a = <<c, d, e>>
          /\ c = Replace(<<"def process_telemetry">>, "for m in ms",
                    <<p, q, Line(1, "original"), s, u, Line(1, "original")>>)
          /\ d = AtEnd(<<Line(0, "def _tel_record"), Line(1, "append batch")>>)
          /\ e = Before(<<>>, "return process_telemetry", <<w, x, y, z>>)
  BY <1>3, <1>7 DEF ProcessControllerEdits
<1>10. a = <<c, d, e>>
  BY <1>9
<1>11. /\ Len(a) = 3 /\ a[1] = c /\ a[2] = d /\ a[3] = e /\ 1 \in 1..Len(a) /\ 3 \in 1..Len(a)
       /\ \A i \in 1 + 1 .. Len(a) : i = 2 \/ i = 3
       /\ \A i \in 3 + 1 .. Len(a) : FALSE
  BY ONLY <1>10
<1>12. /\ c.how = "replace" /\ c.find = "for m in ms"
       /\ c.new = <<p, q, Line(1, "original"), s, u, Line(1, "original")>>
       /\ d.how = "end"
       /\ e.how = "before" /\ e.find = "return process_telemetry" /\ e.new = <<w, x, y, z>>
  BY <1>9 DEF Replace, AtEnd, Before
<1>13. EditOK(c) /\ EditOK(d) /\ EditOK(e)
  <2>1. 2 \in 1..Len(a)
    BY ONLY <1>11
  <2> QED
    BY <1>4, <1>11, <2>1 DEF GoodEdits
<1>14. Puts(a[1], "else", "for m in ms")
  <2>1. c.how \in {"counts", "here", "replace"} /\ u.is # "original" /\ 1 \in Nat
    BY <1>8, <1>12
  <2>2. PICK o \in Lines : o = Line(1, "original")
    BY <1>8, LineIn
  <2>3. c.new = <<p, q, o, s, u, Line(1, "original")>>
    BY <1>12, <2>2
  <2>4. Puts(c, u.is, c.find)
    BY ONLY <1>8, <1>13, <2>1, <2>2, <2>3, PutsElse
  <2> QED
    BY <1>8, <1>11, <1>12, <2>4
<1>15. AllKeep(b, "else", "for m in ms") /\ AllKeep(b, "tail_measurements", "return process_telemetry")
  BY <1>3, ImportsKeep
<1>16. \A i \in 1 + 1 .. Len(a) : KeepsPair(a[i], "else", "for m in ms")
  BY <1>11, <1>12, <1>13 DEF KeepsPair
<1>17. Directly(FoldLeft(Edit, text, es), "else", "for m in ms")
  BY <1>1, <1>2, <1>4, <1>6, <1>11, <1>14, <1>15, <1>16, ListStands
<1>18. Puts(a[3], "tail_measurements", "return process_telemetry")
  <2>1. /\ w.is = "if RECORD_METRICS" /\ x.is = "tail_and_publish" /\ y.is = "if MEASUREMENT_LOG"
        /\ z.is = "tail_measurements"
    BY <1>7, LineOf
  <2>2. e.new = <<w, x, y, z>>
    BY <1>12
  <2>3. /\ Len(e.new) = 4 /\ e.new[1] = w /\ e.new[2] = x /\ e.new[3] = y /\ e.new[4] = z
        /\ Len(e.new) >= 1 /\ \A j \in 1..Len(e.new) : j = 1 \/ j = 2 \/ j = 3 \/ j = 4
    BY ONLY <2>2
  <2>4. \A j \in 1..Len(e.new) : e.new[j].is # "original"
    BY <2>1, <2>3
  <2>5. e.how = "before"
    BY <1>12
  <2>6. Puts(e, e.new[Len(e.new)].is, e.find)
    BY ONLY <1>13, <2>3, <2>4, <2>5, PutsBefore
  <2> QED
    BY <1>11, <1>12, <2>1, <2>3, <2>6
<1>19. \A i \in 3 + 1 .. Len(a) : KeepsPair(a[i], "tail_measurements", "return process_telemetry")
  BY <1>11
<1>20. Directly(FoldLeft(Edit, text, es), "tail_measurements", "return process_telemetry")
  BY <1>1, <1>2, <1>4, <1>6, <1>11, <1>15, <1>18, <1>19, ListStands
<1>21. HasLine(Patched(f, text, fl), "import os")
  <2>1. CASE Imports(text, "import os")
    <3>1. PICK words : words = Mine(f, text)
      OBVIOUS
    <3>2. Own(Patched(f, text, fl), words) = Own(text, words)
      BY <1>1, <3>1, OwnProcess
    <3>3. "import os" \notin Replaced(f)
      BY <1>1, ReplacedWords
    <3>4. "import os" \in words \cap WordsOf(text)
      <4>1. "import os" \in WordsOf(text)
        BY <2>1, ImportsWord
      <4> QED
        BY <3>1, <3>3, <4>1 DEF Mine
    <3> QED
      BY <1>2, <3>2, <3>4, OwnKeepsWord
  <2>2. CASE ~Imports(text, "import os")
    <3>1. Imports(text, "import threading")
      BY <2>2 DEF AsExpected
    <3>2. FoldLeft(Edit, text, es) # NotFound
      BY <1>1, <1>2
    <3>3. Directly(FoldLeft(Edit, text, es), "import os", "import threading")
      BY <1>2, <1>3, <1>4, <1>5, <2>2, <3>1, <3>2, ProcessImports
    <3> QED
      BY <1>2, <3>3, DirectlyImports
  <2> QED
    BY <2>1, <2>2
<1> QED
  BY <1>1, <1>2, <1>17, <1>20, <1>21

-----------------------------------------------------------------------------
(* The edits of utils.                                                     *)

\* A run of the edits of utils, and where those that the flags ask for are in it.
UtilsRun(t, es, text, fl) ==
    /\ GoodEdits(es) /\ RunOf(t, text, es) /\ t[Len(es)] # NotFound
    /\ Len(es) \in Nat /\ Len(es) >= 6 /\ t[0] = text
    /\ \A i \in 0..Len(es) : t[i] # NotFound /\ t[i] \in Seq(Lines)
    /\ \A i \in 1..Len(es) : t[i] = Edit(t[i - 1], es[i])
    /\ \A i \in 1..6 : es[i] = UtilsEdits[i]
    /\ \A i \in 7..Len(es) : \/ \E j \in 1..3 : es[i] = FastCounts[j]
                             \/ \E j \in 1..2 : es[i] = KvSnapshotCall[j]
    /\ "snapshot" \in fl => /\ Len(es) >= 8 /\ es[Len(es) - 1] = KvSnapshotCall[1]
                            /\ es[Len(es)] = KvSnapshotCall[2]
                            /\ \A i \in 7 .. Len(es) - 2 : \E j \in 1..3 : es[i] = FastCounts[j]
    /\ "fast" \in fl => /\ Len(es) >= 9 /\ \A j \in 1..3 : es[6 + j] = FastCounts[j]
                        /\ \A i \in 10 .. Len(es) : \E j \in 1..2 : es[i] = KvSnapshotCall[j]

LEMMA UtilsRuns ==
    ASSUME NEW text \in Seq(Lines), NEW fl \in Flags, Patched("utils", text, fl) # NotFound
    PROVE  \E t, es : /\ UtilsRun(t, es, text, fl) /\ t[Len(es)] = Patched("utils", text, fl)
                      /\ es = Edits("utils", text, fl)
<1>1. PICK f \in Files : f = "utils"
  BY NamesOfFiles
<1>2. PICK es : /\ es = Edits(f, text, fl) /\ GoodEdits(es)
                /\ FoldLeft(Edit, text, es) = Patched(f, text, fl)
                /\ Patched(f, text, fl) \in Seq(Lines)
  BY <1>1, FileEdits
<1>3. PICK a, b, c : /\ a = UtilsEdits /\ b = If("fast" \in fl, FastCounts)
                     /\ c = If("snapshot" \in fl, KvSnapshotCall)
  OBVIOUS
<1>4. GoodEdits(a) /\ GoodEdits(b) /\ GoodEdits(c)
  BY <1>3, UtilsEditsIn, FastCountsIn, KvSnapshotCallIn, IfGood
<1>5. PICK d : d = a \o b
  OBVIOUS
<1>6. es = d \o c
  BY <1>1, <1>2, <1>3, <1>5 DEF Edits
<1>7. GoodEdits(d) /\ Joined(d, a, b) /\ Joined(es, d, c)
  BY <1>4, <1>5, <1>6, GoodJoined
<1>8. Len(a) = 6 /\ Len(FastCounts) = 3 /\ Len(KvSnapshotCall) = 2
  BY <1>3 DEF UtilsEdits, FastCounts, KvSnapshotCall
<1>9. (Len(b) = 0 \/ (Len(b) = 3 /\ b = FastCounts)) /\ (Len(c) = 0 \/ (Len(c) = 2 /\ c = KvSnapshotCall))
      /\ ("snapshot" \in fl => c = KvSnapshotCall) /\ ("fast" \in fl => b = FastCounts)
  <2>1. "fast" \in fl => b = FastCounts
    BY <1>3, IfOf
  <2>2. "fast" \notin fl => b = <<>>
    BY <1>3, IfOf
  <2>3. "snapshot" \in fl => c = KvSnapshotCall
    BY <1>3, IfOf
  <2>4. "snapshot" \notin fl => c = <<>>
    BY <1>3, IfOf
  <2>5. Len(<<>>) = 0
    OBVIOUS
  <2> QED
    BY <1>8, <2>1, <2>2, <2>3, <2>4, <2>5
<1>10. PICK nb, nc : /\ nb = Len(b) /\ nc = Len(c)
  OBVIOUS
<1>11. /\ nb = 0 \/ (nb = 3 /\ b = FastCounts)
       /\ nc = 0 \/ (nc = 2 /\ c = KvSnapshotCall)
       /\ Len(d) = 6 + nb /\ Len(es) = 6 + nb + nc
       /\ \A i \in 1..6 : d[i] = a[i]
       /\ \A i \in 7..6 + nb : \E j \in 1..nb : d[i] = b[j]
       /\ \A i \in 1..6 + nb : es[i] = d[i]
       /\ \A i \in 6 + nb + 1 .. 6 + nb + nc : \E j \in 1..nc : es[i] = c[j]
  <2>1. /\ Len(d) = 6 + nb /\ \A i \in 1..6 : d[i] = a[i]
        /\ \A i \in 7..6 + nb : \E j \in 1..nb : d[i] = b[j]
    <3>1. Len(d) = Len(a) + Len(b) /\ \A i \in 1..Len(a) : d[i] = a[i]
      BY <1>7 DEF Joined
    <3>2. \A i \in Len(a) + 1 .. Len(d) : \E j \in 1..Len(b) : d[i] = b[j]
      BY <1>7 DEF Joined
    <3>3. Len(a) = 6 /\ nb = Len(b)
      BY <1>8, <1>10
    <3> QED
      BY ONLY <3>1, <3>2, <3>3
  <2>2. /\ Len(es) = 6 + nb + nc /\ \A i \in 1..6 + nb : es[i] = d[i]
        /\ \A i \in 6 + nb + 1 .. 6 + nb + nc : \E j \in 1..nc : es[i] = c[j]
    <3>1. Len(es) = Len(d) + Len(c) /\ \A i \in 1..Len(d) : es[i] = d[i]
      BY <1>7 DEF Joined
    <3>2. \A i \in Len(d) + 1 .. Len(es) : \E j \in 1..Len(c) : es[i] = c[j]
      BY <1>7 DEF Joined
    <3>3. Len(d) = 6 + nb /\ nc = Len(c)
      BY <1>10, <2>1
    <3> QED
      BY ONLY <3>1, <3>2, <3>3
  <2>3. (nb = 0 \/ (nb = 3 /\ b = FastCounts)) /\ (nc = 0 \/ (nc = 2 /\ c = KvSnapshotCall))
    BY <1>9, <1>10
  <2> QED
    BY ONLY <2>1, <2>2, <2>3
<1>12. /\ Len(es) \in Nat /\ Len(es) >= 6 /\ \A i \in 1..6 : es[i] = UtilsEdits[i]
  <2>1. Len(es) \in Nat /\ Len(es) >= 6 /\ \A i \in 1..6 : es[i] = a[i]
    BY ONLY <1>11
  <2> QED
    BY <1>3, <2>1
<1>13. \A i \in 7..6 + nb : \E j \in 1..3 : es[i] = FastCounts[j]
  BY ONLY <1>11
<1>14. \A i \in 6 + nb + 1 .. 6 + nb + nc : \E j \in 1..2 : es[i] = KvSnapshotCall[j]
  BY ONLY <1>11
<1>15. \A i \in 7..Len(es) : \/ \E j \in 1..3 : es[i] = FastCounts[j]
                             \/ \E j \in 1..2 : es[i] = KvSnapshotCall[j]
  <2>1. \A i \in 7..Len(es) : i \in 7 .. 6 + nb \/ i \in 6 + nb + 1 .. 6 + nb + nc
    BY ONLY <1>11
  <2> QED
    BY ONLY <1>13, <1>14, <2>1
<1>16. "snapshot" \in fl => /\ Len(es) >= 8 /\ es[Len(es) - 1] = KvSnapshotCall[1]
                            /\ es[Len(es)] = KvSnapshotCall[2]
                            /\ \A i \in 7 .. Len(es) - 2 : \E j \in 1..3 : es[i] = FastCounts[j]
  <2> SUFFICES ASSUME "snapshot" \in fl
               PROVE  /\ Len(es) >= 8 /\ es[Len(es) - 1] = KvSnapshotCall[1]
                      /\ es[Len(es)] = KvSnapshotCall[2]
                      /\ \A i \in 7 .. Len(es) - 2 : \E j \in 1..3 : es[i] = FastCounts[j]
    OBVIOUS
  <2>1. c = KvSnapshotCall /\ nc = 2
    BY <1>8, <1>9, <1>10
  <2>2. Len(es) = 6 + nb + 2 /\ (nb = 0 \/ nb = 3) /\ Len(d) = 6 + nb
    BY ONLY <1>11, <2>1
  <2>3. \A j \in 1..Len(c) : es[Len(d) + j] = c[j]
    BY ONLY <1>4, <1>6, <1>7, JoinedAt
  <2>4. Len(c) = 2
    BY <1>10, <2>1
  <2>5. es[Len(d) + 1] = c[1] /\ es[Len(d) + 2] = c[2]
    BY ONLY <2>3, <2>4
  <2>6. Len(es) >= 8 /\ Len(es) - 1 = Len(d) + 1 /\ Len(es) = Len(d) + 2 /\ Len(es) - 2 = 6 + nb
    BY ONLY <2>2
  <2> QED
    BY <1>13, <2>1, <2>5, <2>6
<1>17. PICK t : RunOf(t, text, es) /\ t[Len(es)] = FoldLeft(Edit, text, es)
  <2>1. text \in Texts
    BY DEF Texts
  <2> QED
    BY <1>2, <2>1, EditsRun
<1>18. t[Len(es)] # NotFound /\ t[Len(es)] = Patched("utils", text, fl)
  BY <1>1, <1>2, <1>17
<1>19. \A i \in 0..Len(es) : t[i] # NotFound
  BY <1>2, <1>17, <1>18, RunWhole
<1>20. \A i \in 0..Len(es) : t[i] \in Seq(Lines)
  BY <1>2, <1>17, <1>19, RunStays
<1>21. t[0] = text /\ \A i \in 1..Len(es) : t[i] = Edit(t[i - 1], es[i])
  BY <1>17 DEF RunOf
<1>22. "fast" \in fl => /\ Len(es) >= 9 /\ \A j \in 1..3 : es[6 + j] = FastCounts[j]
                       /\ \A i \in 10 .. Len(es) : \E j \in 1..2 : es[i] = KvSnapshotCall[j]
  <2> SUFFICES ASSUME "fast" \in fl
               PROVE  /\ Len(es) >= 9 /\ \A j \in 1..3 : es[6 + j] = FastCounts[j]
                      /\ \A i \in 10 .. Len(es) : \E j \in 1..2 : es[i] = KvSnapshotCall[j]
    OBVIOUS
  <2>1. b = FastCounts /\ nb = 3
    BY <1>8, <1>9, <1>10
  <2>2. \A j \in 1..Len(b) : d[Len(a) + j] = b[j]
    BY ONLY <1>4, <1>5, JoinedAt
  <2>3. Len(b) = 3 /\ Len(a) = 6
    BY <1>8, <1>10, <2>1
  <2>4. \A j \in 1..3 : d[6 + j] = b[j]
    BY ONLY <2>2, <2>3
  <2>5. \A j \in 1..3 : es[6 + j] = d[6 + j]
    <3>1. \A j \in 1..3 : 6 + j \in 1 .. 6 + nb
      BY ONLY <2>1
    <3> QED
      BY <1>11, <3>1
  <2>6. Len(es) >= 9 /\ \A i \in 10..Len(es) : i \in 6 + nb + 1 .. 6 + nb + nc
    <3>1. Len(es) = 6 + nb + nc /\ (nc = 0 \/ nc = 2) /\ nb = 3
      BY <1>11, <2>1
    <3> QED
      BY ONLY <3>1
  <2> QED
    BY <1>14, <2>1, <2>4, <2>5, <2>6
<1>23. UtilsRun(t, es, text, fl)
  BY <1>2, <1>12, <1>15, <1>16, <1>17, <1>22, <1>18, <1>19, <1>20, <1>21 DEF UtilsRun
<1> QED
  BY <1>1, <1>2, <1>18, <1>23

\* The edits of utils: how, where, and the words and the indentation of what they write.
LEMMA FirstUtils ==
    /\ UtilsEdits[1].how = "header"
    /\ UtilsEdits[1].find = "def create"
    /\ Len(UtilsEdits[1].new) = 1 /\ UtilsEdits[1].new[1].indent = 1
    /\ WordsOf(UtilsEdits[1].new) = {"def compute_values"}
<1>1. PICK e, p :
          /\ e = UtilsEdits[1]
          /\ p = Line(1, "def compute_values")
  OBVIOUS
<1>2. e = HeaderOf(<<"class BatchMetrics">>, "def create", <<p>>)
  BY <1>1 DEF UtilsEdits
<1>3. e.how = "header" /\ e.find = "def create" /\ e.path = <<"class BatchMetrics">> /\ e.new = <<p>>
  BY <1>2 DEF HeaderOf
<1>4. /\ p.is = "def compute_values" /\ p.indent = 1
  BY <1>1, LineOf
<1>5. WordsOf(<<p>>) = {p.is}
  BY WordsOfTuples
<1>6. Len(<<p>>) = 1 /\ <<p>>[1] = p
  OBVIOUS
<1>7. Len(e.new) = 1 /\ e.new[1].indent = 1
  BY <1>3, <1>4, <1>6
<1>8. WordsOf(e.new) = {"def compute_values"}
  BY <1>3, <1>4, <1>5
<1> QED
  BY <1>1, <1>3, <1>7, <1>8

LEMMA SecondUtils ==
    /\ UtilsEdits[2].how = "replace"
    /\ UtilsEdits[2].find = "return cls"
    /\ Len(UtilsEdits[2].new) = 5 /\ UtilsEdits[2].new[1].indent = 2
    /\ WordsOf(UtilsEdits[2].new) = {"return values", "def from_values", "return cls", "def create", "return from_values"}
<1>1. PICK e, p, q, r, s, u :
          /\ e = UtilsEdits[2]
          /\ p = Line(2, "return values")
          /\ q = Line(1, "def from_values")
          /\ r = Line(2, "return cls")
          /\ s = Line(1, "def create")
          /\ u = Line(2, "return from_values")
  OBVIOUS
<1>2. e = Replace(<<"class BatchMetrics", "def compute_values">>, "return cls", <<p, q, r, s, u>>)
  BY <1>1 DEF UtilsEdits
<1>3. e.how = "replace" /\ e.find = "return cls" /\ e.path = <<"class BatchMetrics", "def compute_values">> /\ e.new = <<p, q, r, s, u>>
  BY <1>2 DEF Replace
<1>4. /\ p.is = "return values" /\ p.indent = 2
      /\ q.is = "def from_values" /\ q.indent = 1
      /\ r.is = "return cls" /\ r.indent = 2
      /\ s.is = "def create" /\ s.indent = 1
      /\ u.is = "return from_values" /\ u.indent = 2
  BY <1>1, LineOf
<1>5. WordsOf(<<p, q, r, s, u>>) = {p.is, q.is, r.is, s.is, u.is}
  BY WordsOfTuples
<1>6. Len(<<p, q, r, s, u>>) = 5 /\ <<p, q, r, s, u>>[1] = p
  OBVIOUS
<1>7. Len(e.new) = 5 /\ e.new[1].indent = 2
  BY <1>3, <1>4, <1>6
<1>8. WordsOf(e.new) = {"return values", "def from_values", "return cls", "def create", "return from_values"}
  BY <1>3, <1>4, <1>5
<1> QED
  BY <1>1, <1>3, <1>7, <1>8

LEMMA ThirdUtils ==
    /\ UtilsEdits[3].how = "before"
    /\ UtilsEdits[3].find = "metrics = create"
    /\ UtilsEdits[3].path = <<"def log_metrics">>
    /\ UtilsEdits[3].new = <<Line(2, "_t0"), Line(2, "if _REC_PATH"), Line(3, "_rec_append"), Line(3, "return")>>
    /\ Len(UtilsEdits[3].new) = 4 /\ UtilsEdits[3].new[1].indent = 2
    /\ WordsOf(UtilsEdits[3].new) = {"_t0", "if _REC_PATH", "_rec_append", "return"}
<1>1. PICK e, p, q, r, s :
          /\ e = UtilsEdits[3]
          /\ p = Line(2, "_t0")
          /\ q = Line(2, "if _REC_PATH")
          /\ r = Line(3, "_rec_append")
          /\ s = Line(3, "return")
  OBVIOUS
<1>2. e = Before(<<"def log_metrics">>, "metrics = create", <<p, q, r, s>>)
  BY <1>1 DEF UtilsEdits
<1>3. e.how = "before" /\ e.find = "metrics = create" /\ e.path = <<"def log_metrics">> /\ e.new = <<p, q, r, s>>
  BY <1>2 DEF Before
<1>4. /\ p.is = "_t0" /\ p.indent = 2
      /\ q.is = "if _REC_PATH" /\ q.indent = 2
      /\ r.is = "_rec_append" /\ r.indent = 3
      /\ s.is = "return" /\ s.indent = 3
  BY <1>1, LineOf
<1>5. WordsOf(<<p, q, r, s>>) = {p.is, q.is, r.is, s.is}
  BY WordsOfTuples
<1>6. Len(<<p, q, r, s>>) = 4 /\ <<p, q, r, s>>[1] = p
  OBVIOUS
<1>7. Len(e.new) = 4 /\ e.new[1].indent = 2
  BY <1>3, <1>4, <1>6
<1>8. WordsOf(e.new) = {"_t0", "if _REC_PATH", "_rec_append", "return"}
  BY <1>3, <1>4, <1>5
<1> QED
  BY <1>1, <1>3, <1>7, <1>8

LEMMA FourthUtils ==
    /\ UtilsEdits[4].how = "around"
    /\ UtilsEdits[4].find = "with METRICS.transaction"
    /\ UtilsEdits[4].path = <<"def log_metrics">>
    /\ UtilsEdits[4].new = <<Line(2, "_t1")>>
    /\ UtilsEdits[4].after = <<Line(2, "_t2")>>
    /\ WordsOf(UtilsEdits[4].new) = {"_t1"}
    /\ WordsOf(UtilsEdits[4].after) = {"_t2"}
<1>1. PICK e, p, w :
          /\ e = UtilsEdits[4]
          /\ p = Line(2, "_t1")
          /\ w = Line(2, "_t2")
  OBVIOUS
<1>2. e = Around(<<"def log_metrics">>, "with METRICS.transaction", <<p>>, <<w>>)
  BY <1>1 DEF UtilsEdits
<1>3. e.how = "around" /\ e.find = "with METRICS.transaction" /\ e.path = <<"def log_metrics">> /\ e.new = <<p>> /\ e.after = <<w>>
  BY <1>2 DEF Around
<1>4. /\ p.is = "_t1" /\ p.indent = 2
      /\ w.is = "_t2" /\ w.indent = 2
  BY <1>1, LineOf
<1>5. WordsOf(<<p>>) = {p.is} /\ WordsOf(<<w>>) = {w.is}
  BY WordsOfTuples
<1>6. Len(<<p>>) = 1 /\ <<p>>[1] = p
  OBVIOUS
<1>7. Len(e.new) = 1 /\ e.new[1].indent = 2
  BY <1>3, <1>4, <1>6
<1>8. WordsOf(e.new) = {"_t1"} /\ WordsOf(e.after) = {"_t2"}
  BY <1>3, <1>4, <1>5
<1> QED
  BY <1>1, <1>3, <1>7, <1>8

LEMMA FifthUtils ==
    /\ UtilsEdits[5].how = "after"
    /\ UtilsEdits[5].find = "def log_metrics"
    /\ UtilsEdits[5].new = <<Line(2, "_stage_record")>>
    /\ WordsOf(UtilsEdits[5].new) = {"_stage_record"}
<1>1. PICK e, p :
          /\ e = UtilsEdits[5]
          /\ p = Line(2, "_stage_record")
  OBVIOUS
<1>2. e = After(<<>>, "def log_metrics", <<p>>)
  BY <1>1 DEF UtilsEdits
<1>3. e.how = "after" /\ e.find = "def log_metrics" /\ e.path = <<>> /\ e.new = <<p>>
  BY <1>2 DEF After
<1>4. /\ p.is = "_stage_record" /\ p.indent = 2
  BY <1>1, LineOf
<1>5. WordsOf(<<p>>) = {p.is}
  BY WordsOfTuples
<1>6. Len(<<p>>) = 1 /\ <<p>>[1] = p
  OBVIOUS
<1>7. Len(e.new) = 1 /\ e.new[1].indent = 2
  BY <1>3, <1>4, <1>6
<1>8. WordsOf(e.new) = {"_stage_record"}
  BY <1>3, <1>4, <1>5
<1> QED
  BY <1>1, <1>3, <1>7, <1>8

LEMMA SixthUtils ==
    /\ UtilsEdits[6].how = "end"
    /\ Len(UtilsEdits[6].new) = 6 /\ UtilsEdits[6].new[1].indent = 0
    /\ WordsOf(UtilsEdits[6].new) = {"def _rec_append", "append_values", "def _rec_shutdown", "close", "def _rec_idle_flush", "flush"}
<1>1. PICK e, p, q, r, s, u, v :
          /\ e = UtilsEdits[6]
          /\ p = Line(0, "def _rec_append")
          /\ q = Line(1, "append_values")
          /\ r = Line(0, "def _rec_shutdown")
          /\ s = Line(1, "close")
          /\ u = Line(0, "def _rec_idle_flush")
          /\ v = Line(1, "flush")
  OBVIOUS
<1>2. e = AtEnd(<<p, q, r, s, u, v>>)
  BY <1>1 DEF UtilsEdits
<1>3. e.how = "end" /\ e.new = <<p, q, r, s, u, v>>
  BY <1>2 DEF AtEnd
<1>4. /\ p.is = "def _rec_append" /\ p.indent = 0
      /\ q.is = "append_values" /\ q.indent = 1
      /\ r.is = "def _rec_shutdown" /\ r.indent = 0
      /\ s.is = "close" /\ s.indent = 1
      /\ u.is = "def _rec_idle_flush" /\ u.indent = 0
      /\ v.is = "flush" /\ v.indent = 1
  BY <1>1, LineOf
<1>5. WordsOf(<<p, q, r, s, u, v>>) = {p.is, q.is, r.is, s.is, u.is, v.is}
  BY WordsOfTuples
<1>6. Len(<<p, q, r, s, u, v>>) = 6 /\ <<p, q, r, s, u, v>>[1] = p
  OBVIOUS
<1>7. Len(e.new) = 6 /\ e.new[1].indent = 0
  BY <1>3, <1>4, <1>6
<1>8. WordsOf(e.new) = {"def _rec_append", "append_values", "def _rec_shutdown", "close", "def _rec_idle_flush", "flush"}
  BY <1>3, <1>4, <1>5
<1> QED
  BY <1>1, <1>3, <1>7, <1>8

LEMMA UtilsAreOK == Len(UtilsEdits) = 6 /\ \A i \in 1..6 : EditOK(UtilsEdits[i])
<1>1. Len(UtilsEdits) = 6
  BY DEF UtilsEdits
<1> QED
  BY <1>1, UtilsEditsIn DEF GoodEdits

UtilsWords == {"def compute_values", "return values", "def from_values", "return cls", "def create",
               "return from_values", "_t0", "if _REC_PATH", "_rec_append", "return", "_t1", "_t2",
               "original", "_stage_record"}

LEMMA UtilsPlain ==
    ASSUME NEW is, is \notin UtilsWords, NEW i \in 1..5
    PROVE  Plain(UtilsEdits[i], is)
<1> DEFINE e == UtilsEdits[i]
<1>1. i = 1 \/ i = 2 \/ i = 3 \/ i = 4 \/ i = 5
  BY ONLY i \in 1..5
<1>2. /\ EditOK(UtilsEdits[i]) /\ i \in 1..Len(UtilsEdits)
  <2>1. i \in 1..6
    BY ONLY i \in 1..5
  <2> QED
    BY <2>1, UtilsAreOK
<1>3. /\ is \notin WordsOf(UtilsEdits[i].new) /\ "original" \notin WordsOf(UtilsEdits[i].new)
      /\ UtilsEdits[i].how \in {"header", "replace", "before", "around", "after"}
      /\ UtilsEdits[i].how = "around" => is \notin WordsOf(UtilsEdits[i].after)
  <2>1. CASE i = 1
    BY <2>1, FirstUtils DEF UtilsWords
  <2>2. CASE i = 2
    BY <2>2, SecondUtils DEF UtilsWords
  <2>3. CASE i = 3
    BY <2>3, ThirdUtils DEF UtilsWords
  <2>4. CASE i = 4
    BY <2>4, FourthUtils DEF UtilsWords
  <2>5. CASE i = 5
    BY <2>5, FifthUtils DEF UtilsWords
  <2> QED
    BY <1>1, <2>1, <2>2, <2>3, <2>4, <2>5
<1>4. BringsNo(UtilsEdits[i], is)
  <2>1. is \notin AddedBy(UtilsEdits[i])
    BY <1>3 DEF AddedBy
  <2> QED
    BY <1>2, <1>3, <2>1 DEF BringsNo
<1>5. Fresh(UtilsEdits[i], {is})
  <2>1. \A x \in Seq(Lines) : DOMAIN x = 1..Len(x)
    OBVIOUS
  <2>2. UtilsEdits[i].new \in Seq(Lines) /\ (UtilsEdits[i].how = "around" => UtilsEdits[i].after \in Seq(Lines))
    BY <1>2 DEF EditOK
  <2>3. \A j \in 1..Len(UtilsEdits[i].new) : UtilsEdits[i].new[j].is # is
    BY <1>3, <2>1, <2>2 DEF WordsOf
  <2>4. UtilsEdits[i].how = "around" => \A j \in 1..Len(UtilsEdits[i].after) : UtilsEdits[i].after[j].is # is
    BY <1>3, <2>1, <2>2 DEF WordsOf
  <2> QED
    BY <2>3, <2>4 DEF Fresh
<1>6. Spares(UtilsEdits[i], {is})
  <2>1. {is} \cap {"def create", "return cls"} = {}
    BY DEF UtilsWords
  <2>2. Sparing(UtilsEdits, {is})
    BY <2>1, UtilsSparing
  <2> QED
    BY <1>2, <1>5, <2>2 DEF Sparing
<1> QED
  BY <1>4, <1>6 DEF Plain

\* The timing of the transaction and the record that follows it, once they are written.
LogDone(x, is, t1, t2, m, word, log, rec, n) ==
    x \in Seq(Lines) /\ Timed(x, is, t1, t2, m, word) /\ Recorded(x, log, rec, n)

LEMMA LogWritten ==
    ASSUME NEW x, NEW y, NEW z, NEW w, x # NotFound, y # NotFound, z # NotFound, w # NotFound,
           NEW a, NEW b, NEW new \in Seq(Lines), y = Edit(x, a), z = Edit(y, b), w = z \o new,
           NEW m \in Nat, NEW n \in Nat, n < m, NEW word,
           EditOK(a), a.how = "around", NEW p \in Lines, NEW q \in Lines,
           a.new = <<p>>, a.after = <<q>>, q.indent = m, a.find \notin {p.is, q.is},
           ClearAt(x, a.find, m, word), OnceAt(x, b.find, n), Plain(a, b.find),
           EditOK(b), b.how = "after", NEW r \in Lines, b.new = <<r>>, r.indent > n,
           r.is \notin {"original", b.find, a.find, word},
           Len(new) >= 1, new[1].indent <= n,
           \A k \in 1..Len(new) : new[k].is \notin {a.find, word, b.find, r.is}
    PROVE  LogDone(w, a.find, p.is, q.is, m, word, b.find, r.is, n)
<1>1. x \in Seq(Lines) /\ Single(x, a.find) /\ Clear(x, a.find, m, word)
  BY DEF ClearAt
<1>2. y \in Seq(Lines) /\ Timed(y, a.find, p.is, q.is, m, word)
  BY <1>1, AroundTimes
<1>3. y \in Seq(Lines) /\ Single(y, b.find) /\ Indented(y, b.find, n)
  <2>1. OnceAt(y, b.find, n)
    BY OnceStays
  <2> QED
    BY <2>1 DEF OnceAt
<1>4. Timed(z, a.find, p.is, q.is, m, word)
  BY <1>2, <1>3, AfterTimes
<1>5. z \in Seq(Lines) /\ Recorded(z, b.find, r.is, n)
  BY <1>3, AfterRecords
<1>6. Timed(z \o new, a.find, p.is, q.is, m, word)
  <2>1. \A k \in 1..Len(new) : new[k].is \notin {a.find, word}
    OBVIOUS
  <2> QED
    BY <1>4, <1>5, <2>1, EndStays
<1>7. Recorded(z \o new, b.find, r.is, n)
  <2>1. \A k \in 1..Len(new) : new[k].is \notin {b.find, r.is}
    OBVIOUS
  <2> QED
    BY <1>5, <2>1, EndStays
<1>8. z \o new \in Seq(Lines)
  BY <1>5
<1> QED
  BY <1>6, <1>7, <1>8 DEF LogDone

\* The edits of the flags.
LEMMA FastShape ==
    ASSUME NEW j \in 1..3
    PROVE  \E e, p, q, r, is :
              /\ e = FastCounts[j] /\ EditOK(e) /\ e.how = "counts"
              /\ is \in {"block_counts", "host_byte_counts", "disk_byte_counts"}
              /\ e.find = is /\ is = (CASE j = 1 -> "block_counts" [] j = 2 -> "host_byte_counts"
                                        [] OTHER -> "disk_byte_counts")
              /\ Len(e.path) = 2
              /\ p \in Lines /\ q \in Lines /\ r \in Lines /\ "original" \in Words
              /\ p.is = "if num_replicas == 1" /\ q.is = "one count" /\ r.is = "else"
              /\ p.indent = 3 /\ q.indent = 4 /\ r.indent = 3
              /\ e.new = <<p, q, r, Line(1, "original")>>
<1>1. PICK p, q, r : /\ p = Line(3, "if num_replicas == 1") /\ q = Line(4, "one count")
                     /\ r = Line(3, "else")
  OBVIOUS
<1>2. p \in Lines /\ q \in Lines /\ r \in Lines /\ "original" \in Words
  BY <1>1, LineIn, WordsOfEdits DEF NewWords
<1>3. /\ p.is = "if num_replicas == 1" /\ q.is = "one count" /\ r.is = "else"
      /\ p.indent = 3 /\ q.indent = 4 /\ r.indent = 3
  BY <1>1, LineOf
<1>4. j = 1 \/ j = 2 \/ j = 3
  BY ONLY j \in 1..3
<1>5. PICK new : new = <<p, q, r, Line(1, "original")>>
  OBVIOUS
<1>6. PICK path : path = <<"class BatchMetrics", "def compute_values">>
  OBVIOUS
<1>7. /\ FastCounts[1] = Counts(path, "block_counts", new)
      /\ FastCounts[2] = Counts(path, "host_byte_counts", new)
      /\ FastCounts[3] = Counts(path, "disk_byte_counts", new) /\ Len(FastCounts) = 3
  BY <1>1, <1>5, <1>6 DEF FastCounts
<1>8. Len(path) = 2
  BY <1>6
<1>9. \A is : /\ Counts(path, is, new).how = "counts" /\ Counts(path, is, new).find = is
              /\ Counts(path, is, new).path = path /\ Counts(path, is, new).new = new
  BY DEF Counts
<1>10. PICK is : is = (CASE j = 1 -> "block_counts" [] j = 2 -> "host_byte_counts"
                          [] OTHER -> "disk_byte_counts")
  OBVIOUS
<1>11. is \in {"block_counts", "host_byte_counts", "disk_byte_counts"} /\ FastCounts[j] = Counts(path, is, new)
  <2>1. CASE j = 1
    BY <1>7, <1>10, <2>1
  <2>2. CASE j = 2
    <3>1. j # 1
      BY ONLY <2>2
    <3>2. is = "host_byte_counts"
      BY <1>10, <2>2, <3>1
    <3> QED
      BY <1>7, <2>2, <3>2
  <2>3. CASE j = 3
    <3>1. j # 1 /\ j # 2
      BY ONLY <2>3
    <3>2. is = "disk_byte_counts"
      BY <1>10, <3>1
    <3> QED
      BY <1>7, <2>3, <3>2
  <2> QED
    BY <1>4, <2>1, <2>2, <2>3
<1>12. PICK e : e = FastCounts[j]
  OBVIOUS
<1>13. EditOK(e)
  BY <1>7, <1>12, FastCountsIn DEF GoodEdits
<1>14. e.how = "counts" /\ e.find = is /\ Len(e.path) = 2 /\ e.new = new
  BY <1>8, <1>9, <1>11, <1>12
<1> QED
  BY <1>2, <1>3, <1>5, <1>10, <1>11, <1>12, <1>13, <1>14

LEMMA KvShape ==
    \E b, h, p, q, r, s :
        /\ b = KvSnapshotCall[1] /\ h = KvSnapshotCall[2] /\ EditOK(b) /\ EditOK(h)
        /\ b.how = "before" /\ h.how = "header"
        /\ b.path = <<"class BatchMetrics", "def compute_values">> /\ h.path = b.path
        /\ Len(b.path) = 2
        /\ b.find = "if kv_cache is not None" /\ h.find = "if kv_cache is not None"
        /\ b.new = <<p, q, r>> /\ h.new = <<s>>
        /\ p \in Lines /\ q \in Lines /\ r \in Lines /\ s \in Lines
        /\ p.is = "_kv_snapshot" /\ q.is = "if _kv_snapshot" /\ r.is = "snapshot values"
        /\ s.is = "elif kv_cache is not None"
        /\ p.indent = 2 /\ q.indent = 2 /\ r.indent = 3 /\ s.indent = 2
<1>1. PICK p, q, r, s : /\ p = Line(2, "_kv_snapshot") /\ q = Line(2, "if _kv_snapshot")
                        /\ r = Line(3, "snapshot values") /\ s = Line(2, "elif kv_cache is not None")
  OBVIOUS
<1>2. p \in Lines /\ q \in Lines /\ r \in Lines /\ s \in Lines
  BY <1>1, LineIn, WordsOfEdits DEF NewWords
<1>3. /\ p.is = "_kv_snapshot" /\ q.is = "if _kv_snapshot" /\ r.is = "snapshot values"
      /\ s.is = "elif kv_cache is not None"
      /\ p.indent = 2 /\ q.indent = 2 /\ r.indent = 3 /\ s.indent = 2
  BY <1>1, LineOf
<1>4. PICK path : path = <<"class BatchMetrics", "def compute_values">>
  OBVIOUS
<1>5. PICK b, h : b = KvSnapshotCall[1] /\ h = KvSnapshotCall[2]
  OBVIOUS
<1>6. /\ b = Before(path, "if kv_cache is not None", <<p, q, r>>)
      /\ h = HeaderOf(path, "if kv_cache is not None", <<s>>) /\ Len(KvSnapshotCall) = 2
  BY <1>1, <1>4, <1>5 DEF KvSnapshotCall
<1>7. /\ b.how = "before" /\ b.path = path /\ b.find = "if kv_cache is not None" /\ b.new = <<p, q, r>>
  BY <1>6 DEF Before
<1>8. /\ h.how = "header" /\ h.path = path /\ h.find = "if kv_cache is not None" /\ h.new = <<s>>
  BY <1>6 DEF HeaderOf
<1>9. EditOK(b) /\ EditOK(h)
  <2>1. \A i \in 1..2 : EditOK(KvSnapshotCall[i])
    BY <1>6, KvSnapshotCallIn DEF GoodEdits
  <2>2. 1 \in 1..2 /\ 2 \in 1..2
    OBVIOUS
  <2> QED
    BY <1>5, <2>1, <2>2
<1>10. Len(path) = 2
  BY <1>4
<1> QED
  BY <1>2, <1>3, <1>4, <1>5, <1>7, <1>8, <1>9, <1>10

\* What log_metrics does stays as it was written.
LEMMA FastLeavesLog ==
    ASSUME NEW x, NEW is, NEW t1, NEW t2, NEW word, NEW log, NEW rec,
           LogDone(x, is, t1, t2, 2, word, log, rec, 1), x # NotFound, NEW j \in 1..3,
           {"block_counts", "host_byte_counts", "disk_byte_counts", "sum", "assert",
            "if num_replicas == 1", "one count", "else", "original"}
               \cap {is, t1, t2, word, log, rec} = {},
           Edit(x, FastCounts[j]) # NotFound
    PROVE  LogDone(Edit(x, FastCounts[j]), is, t1, t2, 2, word, log, rec, 1)
<1>1. PICK e, p, q, r, find :
              /\ e = FastCounts[j] /\ EditOK(e) /\ e.how = "counts"
              /\ find \in {"block_counts", "host_byte_counts", "disk_byte_counts"}
              /\ e.find = find /\ find = (CASE j = 1 -> "block_counts" [] j = 2 -> "host_byte_counts"
                                        [] OTHER -> "disk_byte_counts")
              /\ Len(e.path) = 2
              /\ p \in Lines /\ q \in Lines /\ r \in Lines /\ "original" \in Words
              /\ p.is = "if num_replicas == 1" /\ q.is = "one count" /\ r.is = "else"
              /\ p.indent = 3 /\ q.indent = 4 /\ r.indent = 3
              /\ e.new = <<p, q, r, Line(1, "original")>>
  BY FastShape
<1>2. PICK a : a = <<p, q, r>>
  OBVIOUS
<1>3. OriginalLast(e.new, a, 1, {is, word, log})
  <2>1. {p.is, q.is, r.is, r.is} \cap ({is, word, log} \cup {"original"}) = {}
    BY <1>1
  <2>2. PICK words : words = {is, word, log}
    OBVIOUS
  <2>3. p \in Lines /\ q \in Lines /\ r \in Lines /\ "original" \in Words /\ 1 \in Nat
    BY <1>1
  <2>4. OriginalLast(<<p, q, r, Line(1, "original")>>, <<p, q, r>>, 1, words)
    BY <2>1, <2>2, <2>3, OriginalTuples
  <2> QED
    BY <1>1, <1>2, <2>2, <2>4
<1>4. \A l \in 1..Len(a) : a[l].indent > 2
  <2>1. Len(a) = 3 /\ a[1] = p /\ a[2] = q /\ a[3] = r
    BY ONLY <1>2
  <2>2. p.indent = 3 /\ q.indent = 4 /\ r.indent = 3
    BY <1>1
  <2>3. \A l \in 1..Len(a) : l = 1 \/ l = 2 \/ l = 3
    BY ONLY <2>1
  <2>4. a[1].indent > 2 /\ a[2].indent > 2 /\ a[3].indent > 2
    BY ONLY <2>1, <2>2
  <2> QED
    BY <2>3, <2>4
<1>5. {e.find, "sum", "assert"} \cap {is, t1, t2, word, log, rec} = {}
  BY <1>1
<1>6. x \in Seq(Lines) /\ Timed(x, is, t1, t2, 2, word) /\ Recorded(x, log, rec, 1)
  BY DEF LogDone
<1>7. /\ x # NotFound /\ EditOK(e) /\ e.how = "counts" /\ Edit(x, e) # NotFound
  BY <1>1
<1>8. PICK m, n : m = 2 /\ n = 1
  OBVIOUS
<1>9. m \in Nat /\ n \in Nat /\ n < m /\ Len(e.path) > n /\ \A l \in 1..Len(a) : a[l].indent > m
  <2>1. Len(e.path) = 2
    BY <1>1
  <2> QED
    BY ONLY <1>4, <1>8, <2>1
<1>10. Timed(x, is, t1, t2, m, word) /\ Recorded(x, log, rec, n)
  BY <1>6, <1>8
<1>11. x \in Seq(Lines)
  BY <1>6
<1>12. Timed(Edit(x, e), is, t1, t2, m, word) /\ Recorded(Edit(x, e), log, rec, n)
  BY ONLY <1>3, <1>5, <1>7, <1>9, <1>10, <1>11, CountsStay
<1>13. Edit(x, e) \in Seq(Lines)
  BY <1>7, <1>11, EditIn DEF Texts
<1> QED
  BY <1>1, <1>8, <1>12, <1>13 DEF LogDone

LEMMA KvLeavesLogGeneric ==
    ASSUME NEW x, NEW is, NEW t1, NEW t2, NEW m \in Nat, NEW word, NEW log, NEW rec, NEW n \in Nat, n < m,
           LogDone(x, is, t1, t2, m, word, log, rec, n), x # NotFound,
           NEW e, EditOK(e), e.how \in {"before", "header"}, e.find = word, Len(e.path) > n,
           word \notin {is, t1, t2, rec},
           \A k \in 1..Len(e.new) : /\ e.new[k].is \notin {"original", is, word, log}
                                    /\ e.new[k].indent > n,
           Edit(x, e) # NotFound
    PROVE  LogDone(Edit(x, e), is, t1, t2, m, word, log, rec, n)
<1>1. x \in Seq(Lines) /\ Timed(x, is, t1, t2, m, e.find) /\ Recorded(x, log, rec, n)
  BY DEF LogDone
<1>2. /\ e.find \notin {is, t1, t2} /\ e.find # rec
      /\ \A k \in 1..Len(e.new) : e.new[k].is \notin {is, e.find, log}
  OBVIOUS
<1>3. Timed(Edit(x, e), is, t1, t2, m, e.find) /\ Recorded(Edit(x, e), log, rec, n)
  BY <1>1, <1>2, KvStays
<1>4. Edit(x, e) \in Seq(Lines)
  BY <1>1, EditIn DEF Texts
<1> QED
  BY <1>3, <1>4 DEF LogDone

LEMMA KvLeavesLog ==
    ASSUME NEW x, NEW is, NEW t1, NEW t2, NEW log, NEW rec, NEW word, word = "if kv_cache is not None",
           LogDone(x, is, t1, t2, 2, word, log, rec, 1), x # NotFound, NEW j \in 1..2,
           {"_kv_snapshot", "if _kv_snapshot", "snapshot values", "elif kv_cache is not None", "original"}
               \cap {is, word, log} = {},
           word \notin {is, t1, t2, rec},
           Edit(x, KvSnapshotCall[j]) # NotFound
    PROVE  LogDone(Edit(x, KvSnapshotCall[j]), is, t1, t2, 2, word, log, rec, 1)
<1>1. PICK b, h, p, q, r, s :
        /\ b = KvSnapshotCall[1] /\ h = KvSnapshotCall[2] /\ EditOK(b) /\ EditOK(h)
        /\ b.how = "before" /\ h.how = "header"
        /\ b.path = <<"class BatchMetrics", "def compute_values">> /\ h.path = b.path
        /\ Len(b.path) = 2
        /\ b.find = "if kv_cache is not None" /\ h.find = "if kv_cache is not None"
        /\ b.new = <<p, q, r>> /\ h.new = <<s>>
        /\ p \in Lines /\ q \in Lines /\ r \in Lines /\ s \in Lines
        /\ p.is = "_kv_snapshot" /\ q.is = "if _kv_snapshot" /\ r.is = "snapshot values"
        /\ s.is = "elif kv_cache is not None"
        /\ p.indent = 2 /\ q.indent = 2 /\ r.indent = 3 /\ s.indent = 2
  BY KvShape
<1>2. PICK m, n : m = 2 /\ n = 1
  OBVIOUS
<1>3. m \in Nat /\ n \in Nat /\ n < m
  BY ONLY <1>2
<1>4. LogDone(x, is, t1, t2, m, word, log, rec, n)
  BY <1>2
<1>5. /\ p.is \notin {"original", is, word, log} /\ q.is \notin {"original", is, word, log}
      /\ r.is \notin {"original", is, word, log} /\ s.is \notin {"original", is, word, log}
  BY <1>1
<1>6. p.indent > n /\ q.indent > n /\ r.indent > n /\ s.indent > n
  <2>1. p.indent = 2 /\ q.indent = 2 /\ r.indent = 3 /\ s.indent = 2
    BY <1>1
  <2> QED
    BY ONLY <1>2, <2>1
<1>7. \A k \in 1..Len(b.new) : b.new[k].is \notin {"original", is, word, log} /\ b.new[k].indent > n
  <2>1. b.new = <<p, q, r>>
    BY <1>1
  <2>2. Len(b.new) = 3 /\ b.new[1] = p /\ b.new[2] = q /\ b.new[3] = r
    BY ONLY <2>1
  <2>3. \A k \in 1..Len(b.new) : k = 1 \/ k = 2 \/ k = 3
    BY ONLY <2>2
  <2> QED
    BY <1>5, <1>6, <2>2, <2>3
<1>8. \A k \in 1..Len(h.new) : h.new[k].is \notin {"original", is, word, log} /\ h.new[k].indent > n
  <2>1. h.new = <<s>>
    BY <1>1
  <2>2. Len(h.new) = 1 /\ h.new[1] = s
    BY ONLY <2>1
  <2>3. \A k \in 1..Len(h.new) : k = 1
    BY ONLY <2>2
  <2> QED
    BY <1>5, <1>6, <2>2, <2>3
<1>9. Len(b.path) > n /\ Len(h.path) > n
  <2>1. Len(b.path) = 2 /\ Len(h.path) = 2
    BY <1>1
  <2> QED
    BY ONLY <1>2, <2>1
<1>10. j = 1 \/ j = 2
  BY ONLY j \in 1..2
<1>11. PICK e : e = KvSnapshotCall[j]
  OBVIOUS
<1>12. /\ EditOK(e) /\ e.how \in {"before", "header"} /\ e.find = word /\ Len(e.path) > n
       /\ \A k \in 1..Len(e.new) : /\ e.new[k].is \notin {"original", is, word, log}
                                   /\ e.new[k].indent > n
       /\ Edit(x, e) # NotFound
  <2>1. CASE j = 1
    <3>1. e = b
      BY <1>1, <1>11, <2>1
    <3> QED
      BY <1>1, <1>7, <1>9, <1>11, <3>1
  <2>2. CASE j = 2
    <3>1. e = h
      BY <1>1, <1>11, <2>2
    <3> QED
      BY <1>1, <1>8, <1>9, <1>11, <3>1
  <2> QED
    BY <1>10, <2>1, <2>2
<1>13. LogDone(Edit(x, e), is, t1, t2, m, word, log, rec, n)
  BY <1>3, <1>4, <1>12, KvLeavesLogGeneric
<1> QED
  BY <1>2, <1>11, <1>13

\* What the scripts expect of utils, as the edits rely on it.
LEMMA ExpectedUtils ==
    ASSUME NEW text \in Seq(Lines), AsExpected("utils", text)
    PROVE  /\ OnceAt(text, "def log_metrics", 1)
           /\ ClearAt(text, "with METRICS.transaction", 2, "if kv_cache is not None")
<1>1. DOMAIN text = 1..Len(text)
  OBVIOUS
<1>2. \A is : \A i : i \in Where(text, is) <=> i \in 1..Len(text) /\ text[i].is = is
  BY <1>1 DEF Where, Hits
<1>3. /\ \A i, j \in Where(text, "def log_metrics") : i = j
      /\ \A i, j \in Where(text, "with METRICS.transaction") : i = j
      /\ \A i \in Where(text, "def log_metrics") : text[i].indent = 1
      /\ \A i \in Where(text, "with METRICS.transaction") :
            text[i].indent = 2 /\ "if kv_cache is not None" \notin Under(text, i)
  BY DEF AsExpected
<1>4. Single(text, "def log_metrics") /\ Single(text, "with METRICS.transaction")
  BY <1>2, <1>3 DEF Single
<1>5. Indented(text, "def log_metrics", 1)
  BY <1>2, <1>3 DEF Indented
<1>6. Clear(text, "with METRICS.transaction", 2, "if kv_cache is not None")
  BY <1>2, <1>3 DEF Clear
<1> QED
  BY <1>4, <1>5, <1>6 DEF OnceAt, ClearAt

LEMMA UtilsSteps ==
    ASSUME NEW text \in Seq(Lines), NEW fl \in Flags, NEW t, NEW es, UtilsRun(t, es, text, fl)
    PROVE  /\ \A i \in 0..6 : t[i] # NotFound /\ t[i] \in Seq(Lines)
           /\ \A i \in 1..6 : t[i] = Edit(t[i - 1], UtilsEdits[i])
           /\ t[0] = text
<1>1. /\ Len(es) \in Nat /\ Len(es) >= 6
      /\ \A i \in 0..Len(es) : t[i] # NotFound /\ t[i] \in Seq(Lines)
      /\ \A i \in 1..Len(es) : t[i] = Edit(t[i - 1], es[i])
      /\ \A i \in 1..6 : es[i] = UtilsEdits[i]
      /\ t[0] = text
  BY DEF UtilsRun
<1>2. \A i \in 0..6 : i \in 0..Len(es)
  BY <1>1
<1>3. \A i \in 1..6 : i \in 1..Len(es)
  BY <1>1
<1> QED
  BY <1>1, <1>2, <1>3

LEMMA UtilsSix ==
    ASSUME NEW text \in Seq(Lines), NEW fl \in Flags, NEW t, NEW es, UtilsRun(t, es, text, fl)
    PROVE  /\ t[0] = text /\ t[1] = Edit(t[0], UtilsEdits[1]) /\ t[2] = Edit(t[1], UtilsEdits[2])
           /\ t[3] = Edit(t[2], UtilsEdits[3]) /\ t[4] = Edit(t[3], UtilsEdits[4])
           /\ t[5] = Edit(t[4], UtilsEdits[5]) /\ t[6] = Edit(t[5], UtilsEdits[6])
           /\ t[0] # NotFound /\ t[1] # NotFound /\ t[2] # NotFound /\ t[3] # NotFound
           /\ t[4] # NotFound /\ t[5] # NotFound /\ t[6] # NotFound
           /\ t[0] \in Seq(Lines) /\ t[1] \in Seq(Lines) /\ t[2] \in Seq(Lines) /\ t[3] \in Seq(Lines)
           /\ t[4] \in Seq(Lines) /\ t[5] \in Seq(Lines) /\ t[6] \in Seq(Lines)
<1>1. /\ \A i \in 0..6 : t[i] # NotFound /\ t[i] \in Seq(Lines)
      /\ \A i \in 1..6 : t[i] = Edit(t[i - 1], UtilsEdits[i])
      /\ t[0] = text
  BY UtilsSteps
<1>2. /\ 1 - 1 = 0 /\ 2 - 1 = 1 /\ 3 - 1 = 2 /\ 4 - 1 = 3 /\ 5 - 1 = 4 /\ 6 - 1 = 5
      /\ 1 \in 1..6 /\ 2 \in 1..6 /\ 3 \in 1..6 /\ 4 \in 1..6 /\ 5 \in 1..6 /\ 6 \in 1..6
      /\ 0 \in 0..6 /\ 1 \in 0..6 /\ 2 \in 0..6 /\ 3 \in 0..6 /\ 4 \in 0..6 /\ 5 \in 0..6 /\ 6 \in 0..6
  OBVIOUS
<1>3. /\ t[1] = Edit(t[1 - 1], UtilsEdits[1]) /\ t[2] = Edit(t[2 - 1], UtilsEdits[2])
      /\ t[3] = Edit(t[3 - 1], UtilsEdits[3]) /\ t[4] = Edit(t[4 - 1], UtilsEdits[4])
      /\ t[5] = Edit(t[5 - 1], UtilsEdits[5]) /\ t[6] = Edit(t[6 - 1], UtilsEdits[6])
  BY ONLY <1>1, <1>2
<1> QED
  BY ONLY <1>1, <1>2, <1>3

\* The statements of log_metrics that the edits look for are there once until they are
\* edited.
LEMMA UtilsOnce ==
    ASSUME NEW text \in Seq(Lines), NEW fl \in Flags, NEW t, NEW es, UtilsRun(t, es, text, fl),
           AsExpected("utils", text)
    PROVE  /\ OnceAt(t[2], "def log_metrics", 1) /\ OnceAt(t[3], "def log_metrics", 1)
           /\ OnceAt(t[4], "def log_metrics", 1)
           /\ ClearAt(t[3], "with METRICS.transaction", 2, "if kv_cache is not None")
           /\ ClearAt(t[2], "with METRICS.transaction", 2, "if kv_cache is not None")
<1>1. PICK log, wi, kv : log = "def log_metrics" /\ wi = "with METRICS.transaction" /\ kv = "if kv_cache is not None"
  OBVIOUS
<1>2. \A i \in 1..5 : Plain(UtilsEdits[i], log) /\ Plain(UtilsEdits[i], wi)
  <2>1. log \notin UtilsWords /\ wi \notin UtilsWords
    BY <1>1 DEF UtilsWords
  <2> QED
    BY <2>1, UtilsPlain
<1>3. OnceAt(t[0], log, 1) /\ ClearAt(t[0], wi, 2, kv)
  <2>1. t[0] = text
    BY UtilsSix
  <2>2. OnceAt(text, log, 1) /\ ClearAt(text, wi, 2, kv)
    BY <1>1, ExpectedUtils
  <2> QED
    BY <2>1, <2>2
<1>4. /\ UtilsEdits[1].how \in Spanning \ {"counts"} /\ UtilsEdits[2].how \in Spanning \ {"counts"}
      /\ UtilsEdits[3].how \in Spanning \ {"counts"}
  BY FirstUtils, SecondUtils, ThirdUtils DEF Spanning
<1>5. /\ Len(UtilsEdits[1].new) >= 1 /\ UtilsEdits[1].new[1].indent <= 2
      /\ Len(UtilsEdits[2].new) >= 1 /\ UtilsEdits[2].new[1].indent <= 2
      /\ Len(UtilsEdits[3].new) >= 1 /\ UtilsEdits[3].new[1].indent <= 2
  <2>1. /\ Len(UtilsEdits[1].new) = 1 /\ UtilsEdits[1].new[1].indent = 1
        /\ Len(UtilsEdits[2].new) = 5 /\ UtilsEdits[2].new[1].indent = 2
        /\ Len(UtilsEdits[3].new) = 4 /\ UtilsEdits[3].new[1].indent = 2
    BY FirstUtils, SecondUtils, ThirdUtils
  <2> QED
    BY ONLY <2>1
<1>6. /\ t[0] = text /\ t[1] = Edit(t[0], UtilsEdits[1]) /\ t[2] = Edit(t[1], UtilsEdits[2])
      /\ t[3] = Edit(t[2], UtilsEdits[3]) /\ t[4] = Edit(t[3], UtilsEdits[4])
      /\ t[0] # NotFound /\ t[1] # NotFound /\ t[2] # NotFound /\ t[3] # NotFound
      /\ t[4] # NotFound
  BY UtilsSix
<1>7. 1 \in 1..5 /\ 2 \in 1..5 /\ 3 \in 1..5 /\ 4 \in 1..5
  OBVIOUS
<1>8. PICK two, one : two = 2 /\ one = 1
  OBVIOUS
<1>9. OnceAt(t[1], log, 1) /\ ClearAt(t[1], wi, 2, kv)
  BY <1>2, <1>3, <1>4, <1>5, <1>6, <1>7, OnceStays, ClearStays
<1>10. OnceAt(t[2], log, 1) /\ ClearAt(t[2], wi, 2, kv)
  BY <1>2, <1>4, <1>5, <1>6, <1>7, <1>9, OnceStays, ClearStays
<1>11. OnceAt(t[3], log, 1) /\ ClearAt(t[3], wi, 2, kv)
  BY <1>2, <1>4, <1>5, <1>6, <1>7, <1>10, OnceStays, ClearStays
<1>12. OnceAt(t[4], log, 1)
  BY <1>2, <1>6, <1>7, <1>11, OnceStays
<1> QED
  BY <1>1, <1>10, <1>11, <1>12

LEMMA UtilsLog ==
    ASSUME NEW text \in Seq(Lines), NEW fl \in Flags, NEW t, NEW es, UtilsRun(t, es, text, fl),
           AsExpected("utils", text)
    PROVE  LogDone(t[6], "with METRICS.transaction", "_t1", "_t2", 2, "if kv_cache is not None",
                   "def log_metrics", "_stage_record", 1)
<1>1. PICK a, b, c, p, q, r, new :
          /\ a = UtilsEdits[4] /\ b = UtilsEdits[5] /\ c = UtilsEdits[6] /\ p = Line(2, "_t1") /\ q = Line(2, "_t2")
          /\ r = Line(2, "_stage_record") /\ new = UtilsEdits[6].new
  OBVIOUS
<1>2. p \in Lines /\ q \in Lines /\ r \in Lines
  BY <1>1, LineIn, WordsOfEdits DEF NewWords
<1>3. /\ p.is = "_t1" /\ q.is = "_t2" /\ r.is = "_stage_record"
      /\ q.indent = 2 /\ r.indent = 2
  BY <1>1, LineOf
<1>4. /\ a.how = "around" /\ a.find = "with METRICS.transaction" /\ a.new = <<p>> /\ a.after = <<q>>
      /\ b.how = "after" /\ b.find = "def log_metrics" /\ b.new = <<r>>
  BY <1>1, FourthUtils, FifthUtils
<1>5. EditOK(a) /\ EditOK(b) /\ EditOK(c)
  <2>1. 4 \in 1..6 /\ 5 \in 1..6 /\ 6 \in 1..6
    OBVIOUS
  <2> QED
    BY <1>1, <2>1, UtilsAreOK
<1>6. new \in Seq(Lines) /\ Len(new) >= 1 /\ new[1].indent = 0 /\ c.how = "end" /\ c.new = new
  <2>1. Len(new) = 6 /\ new[1].indent = 0 /\ c.how = "end" /\ c.new = new
    BY <1>1, SixthUtils
  <2>2. new \in Seq(Lines)
    BY <1>5, <2>1 DEF EditOK
  <2>3. Len(new) >= 1
    BY ONLY <2>1
  <2> QED
    BY <2>1, <2>2, <2>3
<1>7. PICK x, y, z, w : x = t[3] /\ y = t[4] /\ z = t[5] /\ w = t[6]
  OBVIOUS
<1>8. /\ y = Edit(x, a) /\ z = Edit(y, b) /\ w = Edit(z, c)
      /\ x # NotFound /\ y # NotFound /\ z # NotFound /\ w # NotFound
  BY <1>1, <1>7, UtilsSix
<1>9. w = z \o new
  <2>1. z # NotFound /\ c.how = "end" /\ c.new = new /\ w = Edit(z, c)
    BY <1>6, <1>8
  <2>2. Edit(z, c) = z \o c.new
    BY ONLY <2>1 DEF Edit
  <2> QED
    BY <2>1, <2>2
<1>10. PICK m, n, word : m = 2 /\ n = 1 /\ word = "if kv_cache is not None"
  OBVIOUS
<1>11. m \in Nat /\ n \in Nat /\ n < m /\ q.indent = m /\ r.indent > n /\ new[1].indent <= n
  <2>1. q.indent = 2 /\ r.indent = 2 /\ new[1].indent = 0
    BY <1>3, <1>6
  <2>2. m = 2 /\ n = 1
    BY <1>10
  <2> QED
    BY ONLY <2>1, <2>2
<1>12. ClearAt(x, a.find, m, word) /\ OnceAt(x, b.find, n) /\ Plain(a, b.find)
  <2>1. ClearAt(x, a.find, m, word) /\ OnceAt(x, b.find, n)
    BY <1>4, <1>7, <1>10, UtilsOnce
  <2>2. 4 \in 1..5
    OBVIOUS
  <2>3. "def log_metrics" \notin UtilsWords
    BY DEF UtilsWords
  <2> QED
    BY <1>1, <1>4, <2>1, <2>2, <2>3, UtilsPlain
<1>13. a.find \notin {p.is, q.is} /\ r.is \notin {"original", b.find, a.find, word}
  BY <1>3, <1>4, <1>10
<1>14. \A k \in 1..Len(new) : new[k].is \notin {a.find, word, b.find, r.is}
  <2>1. WordsOf(new) = {"def _rec_append", "append_values", "def _rec_shutdown", "close",
                        "def _rec_idle_flush", "flush"}
    BY <1>1, SixthUtils
  <2>2. WordsOf(new) \cap {a.find, word, b.find, r.is} = {}
    BY <1>3, <1>4, <1>10, <2>1
  <2>3. DOMAIN new = 1..Len(new)
    BY ONLY <1>6
  <2> QED
    BY <2>2, <2>3 DEF WordsOf
<1>15. LogDone(w, a.find, p.is, q.is, m, word, b.find, r.is, n)
  BY <1>2, <1>4, <1>5, <1>6, <1>8, <1>9, <1>11, <1>12, <1>13, <1>14, LogWritten
<1> QED
  BY <1>3, <1>4, <1>7, <1>10, <1>15

\* Every edit after the sixth is one that a flag asks for.
LEMMA FlagsStay ==
    ASSUME NEW text \in Seq(Lines), NEW fl \in Flags, NEW t, NEW es, UtilsRun(t, es, text, fl),
           NEW Q \in SUBSET Seq(Lines), t[6] \in Q,
           \A x \in Q, j \in 1..3 :
               x # NotFound /\ Edit(x, FastCounts[j]) # NotFound => Edit(x, FastCounts[j]) \in Q,
           \A x \in Q, j \in 1..2 :
               x # NotFound /\ Edit(x, KvSnapshotCall[j]) # NotFound => Edit(x, KvSnapshotCall[j]) \in Q
    PROVE  t[Len(es)] \in Q
<1>1. /\ GoodEdits(es) /\ RunOf(t, text, es) /\ t[Len(es)] # NotFound
      /\ Len(es) \in Nat /\ Len(es) >= 6
  BY DEF UtilsRun
<1>2. \A i \in 7..Len(es) : \/ \E j \in 1..3 : es[i] = FastCounts[j]
                            \/ \E j \in 1..2 : es[i] = KvSnapshotCall[j]
  BY DEF UtilsRun
<1>3. PICK k : k = 6
  OBVIOUS
<1>4. k \in 0..Len(es) /\ \A i \in k + 1 .. Len(es) : i \in 7..Len(es)
  BY <1>1, <1>3
<1>5. \A i \in k + 1 .. Len(es), x \in Q : x # NotFound /\ Edit(x, es[i]) # NotFound => Edit(x, es[i]) \in Q
  BY <1>2, <1>4
<1>6. t[k] \in Q
  BY <1>3
<1> QED
  BY <1>1, <1>4, <1>5, <1>6, RunKeeps

LEMMA LogStays ==
    ASSUME NEW text \in Seq(Lines), NEW fl \in Flags, NEW t, NEW es, UtilsRun(t, es, text, fl),
           AsExpected("utils", text)
    PROVE  LogDone(t[Len(es)], "with METRICS.transaction", "_t1", "_t2", 2, "if kv_cache is not None",
                   "def log_metrics", "_stage_record", 1)
<1>1. PICK is, t1, t2, word, log, rec :
          /\ is = "with METRICS.transaction" /\ t1 = "_t1" /\ t2 = "_t2"
          /\ word = "if kv_cache is not None" /\ log = "def log_metrics" /\ rec = "_stage_record"
  OBVIOUS
<1> DEFINE Q == {x \in Seq(Lines) : LogDone(x, is, t1, t2, 2, word, log, rec, 1)}
<1>2. t[6] \in Q
  <2>1. LogDone(t[6], is, t1, t2, 2, word, log, rec, 1)
    BY <1>1, UtilsLog
  <2> QED
    BY <2>1 DEF LogDone
<1>3. ASSUME NEW x \in Q, NEW j \in 1..3, x # NotFound, Edit(x, FastCounts[j]) # NotFound
      PROVE  Edit(x, FastCounts[j]) \in Q
  <2>1. {"block_counts", "host_byte_counts", "disk_byte_counts", "sum", "assert",
         "if num_replicas == 1", "one count", "else", "original"}
               \cap {is, t1, t2, word, log, rec} = {}
    BY <1>1
  <2>2. LogDone(x, is, t1, t2, 2, word, log, rec, 1)
    OBVIOUS
  <2>3. LogDone(Edit(x, FastCounts[j]), is, t1, t2, 2, word, log, rec, 1)
    BY <1>3, <2>1, <2>2, FastLeavesLog
  <2> QED
    BY <2>3 DEF LogDone
<1>4. ASSUME NEW x \in Q, NEW j \in 1..2, x # NotFound, Edit(x, KvSnapshotCall[j]) # NotFound
      PROVE  Edit(x, KvSnapshotCall[j]) \in Q
  <2>1. /\ {"_kv_snapshot", "if _kv_snapshot", "snapshot values", "elif kv_cache is not None", "original"}
               \cap {is, word, log} = {}
        /\ word \notin {is, t1, t2, rec} /\ word = "if kv_cache is not None"
    BY <1>1
  <2>2. LogDone(x, is, t1, t2, 2, word, log, rec, 1)
    OBVIOUS
  <2>3. LogDone(Edit(x, KvSnapshotCall[j]), is, t1, t2, 2, word, log, rec, 1)
    BY <1>4, <2>1, <2>2, KvLeavesLog
  <2> QED
    BY <2>3 DEF LogDone
<1>5. t[Len(es)] \in Q
  <2>1. Q \in SUBSET Seq(Lines)
    OBVIOUS
  <2> HIDE DEF Q
  <2> QED
    BY <1>2, <1>3, <1>4, <2>1, FlagsStay
<1> QED
  BY <1>1, <1>5

\* The two conditions of UtilsStand on log_metrics.
LogMeant(out) ==
    /\ \A i \in DOMAIN out : out[i].is = "with METRICS.transaction" =>
          out[i - 1].is = "_t1" /\ out[End(out, i) + 1].is = "_t2"
    /\ \A i \in DOMAIN out : out[i].is = "def log_metrics" => out[End(out, i)].is = "_stage_record"

LEMMA LogStands ==
    ASSUME NEW text \in Seq(Lines), NEW fl \in Flags, NEW t, NEW es, UtilsRun(t, es, text, fl),
           AsExpected("utils", text), NEW out, out = t[Len(es)]
    PROVE  LogMeant(out)
<1>1. LogDone(out, "with METRICS.transaction", "_t1", "_t2", 2, "if kv_cache is not None",
              "def log_metrics", "_stage_record", 1)
  BY LogStays
<1>2. out \in Seq(Lines)
  BY <1>1 DEF LogDone
<1>3. DOMAIN out = 1..Len(out)
  BY <1>2
<1>4. \A i \in 1..Len(out) : out[i].is = "with METRICS.transaction" =>
          out[i - 1].is = "_t1" /\ out[End(out, i) + 1].is = "_t2"
  BY <1>1 DEF LogDone, Timed
<1>5. \A i \in 1..Len(out) : out[i].is = "def log_metrics" => out[End(out, i)].is = "_stage_record"
  BY <1>1 DEF LogDone, Recorded
<1> QED
  BY <1>3, <1>4, <1>5 DEF LogMeant

LEMMA FastIs ==
    ASSUME NEW j \in 1..3
    PROVE  /\ EditOK(FastCounts[j]) /\ FastCounts[j].how = "counts"
           /\ FastCounts[j].find \in {"block_counts", "host_byte_counts", "disk_byte_counts"}
<1>1. PICK e, p, q, r, find :
              /\ e = FastCounts[j] /\ EditOK(e) /\ e.how = "counts"
              /\ find \in {"block_counts", "host_byte_counts", "disk_byte_counts"}
              /\ e.find = find /\ find = (CASE j = 1 -> "block_counts" [] j = 2 -> "host_byte_counts"
                                        [] OTHER -> "disk_byte_counts")
              /\ Len(e.path) = 2
              /\ p \in Lines /\ q \in Lines /\ r \in Lines /\ "original" \in Words
              /\ p.is = "if num_replicas == 1" /\ q.is = "one count" /\ r.is = "else"
              /\ p.indent = 3 /\ q.indent = 4 /\ r.indent = 3
              /\ e.new = <<p, q, r, Line(1, "original")>>
  BY FastShape
<1> QED
  BY <1>1

LEMMA KvIs ==
    /\ EditOK(KvSnapshotCall[1]) /\ KvSnapshotCall[1].how = "before"
    /\ EditOK(KvSnapshotCall[2]) /\ KvSnapshotCall[2].how = "header"
    /\ KvSnapshotCall[1].find = "if kv_cache is not None"
    /\ KvSnapshotCall[2].find = "if kv_cache is not None"
<1>1. PICK b, h, p, q, r, s :
        /\ b = KvSnapshotCall[1] /\ h = KvSnapshotCall[2] /\ EditOK(b) /\ EditOK(h)
        /\ b.how = "before" /\ h.how = "header"
        /\ b.path = <<"class BatchMetrics", "def compute_values">> /\ h.path = b.path
        /\ Len(b.path) = 2
        /\ b.find = "if kv_cache is not None" /\ h.find = "if kv_cache is not None"
        /\ b.new = <<p, q, r>> /\ h.new = <<s>>
        /\ p \in Lines /\ q \in Lines /\ r \in Lines /\ s \in Lines
        /\ p.is = "_kv_snapshot" /\ q.is = "if _kv_snapshot" /\ r.is = "snapshot values"
        /\ s.is = "elif kv_cache is not None"
        /\ p.indent = 2 /\ q.indent = 2 /\ r.indent = 3 /\ s.indent = 2
  BY KvShape
<1> QED
  BY <1>1

LEMMA FlagsKeepPair ==
    ASSUME NEW before, NEW is,
           {"sum", "assert", "if kv_cache is not None"} \cap {before, is} = {}
    PROVE  /\ \A j \in 1..3 : FastCounts[j].find \notin {before, is} => KeepsPair(FastCounts[j], before, is)
           /\ \A j \in 1..2 : KeepsPair(KvSnapshotCall[j], before, is)
<1>1. ASSUME NEW j \in 1..3, FastCounts[j].find \notin {before, is}
      PROVE  KeepsPair(FastCounts[j], before, is)
  <2>1. EditOK(FastCounts[j]) /\ FastCounts[j].how = "counts"
    BY FastIs
  <2>2. {FastCounts[j].find, "sum", "assert"} \cap {before, is} = {}
    BY <1>1
  <2> QED
    BY <2>1, <2>2 DEF KeepsPair
<1>2. ASSUME NEW j \in 1..2
      PROVE  KeepsPair(KvSnapshotCall[j], before, is)
  <2>1. j = 1 \/ j = 2
    BY ONLY j \in 1..2
  <2>2. /\ EditOK(KvSnapshotCall[1]) /\ KvSnapshotCall[1].how = "before"
        /\ EditOK(KvSnapshotCall[2]) /\ KvSnapshotCall[2].how = "header"
        /\ KvSnapshotCall[1].find = "if kv_cache is not None"
        /\ KvSnapshotCall[2].find = "if kv_cache is not None"
    BY KvIs
  <2>3. EditOK(KvSnapshotCall[j]) /\ KvSnapshotCall[j].how \in {"before", "header"}
    BY <2>1, <2>2
  <2>4. {KvSnapshotCall[j].find, "sum", "assert"} \cap {before, is} = {}
    BY <2>1, <2>2
  <2> QED
    BY <2>3, <2>4 DEF KeepsPair
<1> QED
  BY <1>1, <1>2

\* The return of a recorded step stands before what log_metrics did first.
LEMMA ReturnWritten ==
    ASSUME NEW text \in Seq(Lines), NEW fl \in Flags, NEW t, NEW es, UtilsRun(t, es, text, fl),
           AsExpected("utils", text)
    PROVE  t[6] \in Seq(Lines) /\ Directly(t[6], "return", "metrics = create")
<1>1. PICK e, a, b, p, q, r, s :
          /\ e = UtilsEdits[3] /\ a = UtilsEdits[4] /\ b = UtilsEdits[5]
          /\ p = Line(2, "_t0") /\ q = Line(2, "if _REC_PATH") /\ r = Line(3, "_rec_append")
          /\ s = Line(3, "return")
  OBVIOUS
<1>2. p \in Lines /\ q \in Lines /\ r \in Lines /\ s \in Lines
  BY <1>1, LineIn, WordsOfEdits DEF NewWords
<1>3. /\ p.is = "_t0" /\ q.is = "if _REC_PATH" /\ r.is = "_rec_append" /\ s.is = "return"
      /\ q.indent = 2
  BY <1>1, LineOf
<1>4. PICK log, word, is : log = "def log_metrics" /\ word = "with METRICS.transaction" /\ is = "metrics = create"
  OBVIOUS
<1>5. /\ e.how = "before" /\ e.path = <<log>> /\ e.find = is /\ e.new = <<p, q, r, s>>
      /\ a.how = "around" /\ a.find = word /\ b.how = "after" /\ b.find = log
  BY <1>1, <1>4, ThirdUtils, FourthUtils, FifthUtils
<1>6. EditOK(e) /\ EditOK(a) /\ EditOK(b)
  <2>1. 3 \in 1..6 /\ 4 \in 1..6 /\ 5 \in 1..6
    OBVIOUS
  <2> QED
    BY <1>1, <2>1, UtilsAreOK
<1>7. PICK x, y, z, w : x = t[2] /\ y = t[3] /\ z = t[4] /\ w = t[5]
  OBVIOUS
<1>8. /\ y = Edit(x, e) /\ z = Edit(y, a) /\ w = Edit(z, b) /\ t[6] = Edit(w, UtilsEdits[6])
      /\ x # NotFound /\ y # NotFound /\ z # NotFound /\ w # NotFound /\ t[6] # NotFound
      /\ x \in Seq(Lines) /\ y \in Seq(Lines) /\ z \in Seq(Lines)
  <2>1. /\ t[3] = Edit(t[2], UtilsEdits[3]) /\ t[4] = Edit(t[3], UtilsEdits[4])
        /\ t[5] = Edit(t[4], UtilsEdits[5]) /\ t[6] = Edit(t[5], UtilsEdits[6])
    BY UtilsSix
  <2>2. /\ t[2] # NotFound /\ t[3] # NotFound /\ t[4] # NotFound /\ t[5] # NotFound /\ t[6] # NotFound
        /\ t[2] \in Seq(Lines) /\ t[3] \in Seq(Lines) /\ t[4] \in Seq(Lines)
    BY UtilsSix
  <2> QED
    BY <1>1, <1>7, <2>1, <2>2
<1>9. PICK m, n : m = 2 /\ n = 1
  OBVIOUS
<1>10. m \in Nat /\ n \in Nat /\ q.indent <= m
  <2>1. q.indent = 2
    BY <1>3
  <2> QED
    BY ONLY <1>9, <2>1
<1>11. Indented(x, log, n) /\ Indented(z, log, n) /\ Indented(y, word, m)
  <2>1. OnceAt(x, log, n) /\ OnceAt(z, log, n) /\ ClearAt(y, word, m, "if kv_cache is not None")
    BY <1>4, <1>7, <1>9, UtilsOnce
  <2> QED
    BY <2>1 DEF OnceAt, ClearAt, Clear, Indented
<1>12. log \in Headers
  BY <1>4, WordsOfEdits DEF BlockWords
<1>13. /\ q.is # word /\ r.is # word /\ s.is # word /\ "original" \notin {p.is, q.is, r.is, s.is}
       /\ is # word
  BY <1>3, <1>4
<1>14. Guarded(y, word, s.is, is, m, n)
  BY <1>2, <1>5, <1>6, <1>8, <1>10, <1>11, <1>12, <1>13, GuardWritten
<1>15. PairIn(z, s.is, is, n)
  <2>1. Guarded(y, a.find, s.is, is, m, n) /\ Indented(y, a.find, m) /\ is # a.find
    BY <1>5, <1>11, <1>13, <1>14
  <2> QED
    BY <1>5, <1>6, <1>8, <1>10, <2>1, GuardTimed
<1>16. w \in Seq(Lines) /\ Directly(w, s.is, is)
  BY <1>5, <1>6, <1>8, <1>10, <1>11, <1>15, PairAfter
<1>17. KeepsPair(UtilsEdits[6], s.is, is)
  <2>1. 6 \in 1..6
    OBVIOUS
  <2> QED
    BY <2>1, UtilsAreOK, SixthUtils DEF KeepsPair
<1>18. Directly(t[6], s.is, is)
  BY <1>8, <1>16, <1>17, EditKeepsPair
<1>19. t[6] \in Seq(Lines)
  BY UtilsSix
<1> QED
  BY <1>3, <1>4, <1>18, <1>19

LEMMA ReturnStands ==
    ASSUME NEW text \in Seq(Lines), NEW fl \in Flags, NEW t, NEW es, UtilsRun(t, es, text, fl),
           AsExpected("utils", text)
    PROVE  Directly(t[Len(es)], "return", "metrics = create")
<1>1. PICK before, is : before = "return" /\ is = "metrics = create"
  OBVIOUS
<1> DEFINE Q == {x \in Seq(Lines) : Directly(x, before, is)}
<1>2. t[6] \in Q
  BY <1>1, ReturnWritten
<1>3. ASSUME NEW x \in Q, NEW j \in 1..3, x # NotFound, Edit(x, FastCounts[j]) # NotFound
      PROVE  Edit(x, FastCounts[j]) \in Q
  <2>1. KeepsPair(FastCounts[j], before, is)
    <3>1. FastCounts[j].find \in {"block_counts", "host_byte_counts", "disk_byte_counts"}
      BY FastIs
    <3>2. FastCounts[j].find \notin {before, is}
      BY <1>1, <3>1
    <3>3. {"sum", "assert", "if kv_cache is not None"} \cap {before, is} = {}
      BY <1>1
    <3> QED
      BY <3>2, <3>3, FlagsKeepPair
  <2>2. EditOK(FastCounts[j])
    BY <2>1 DEF KeepsPair
  <2>3. Edit(x, FastCounts[j]) \in Seq(Lines)
    BY <1>3, <2>2, EditIn DEF Texts
  <2> QED
    BY <1>3, <2>1, <2>3, EditKeepsPair
<1>4. ASSUME NEW x \in Q, NEW j \in 1..2, x # NotFound, Edit(x, KvSnapshotCall[j]) # NotFound
      PROVE  Edit(x, KvSnapshotCall[j]) \in Q
  <2>1. KeepsPair(KvSnapshotCall[j], before, is)
    <3>1. {"sum", "assert", "if kv_cache is not None"} \cap {before, is} = {}
      BY <1>1
    <3> QED
      BY <3>1, FlagsKeepPair
  <2>2. EditOK(KvSnapshotCall[j])
    BY <2>1 DEF KeepsPair
  <2>3. Edit(x, KvSnapshotCall[j]) \in Seq(Lines)
    BY <1>4, <2>2, EditIn DEF Texts
  <2> QED
    BY <1>4, <2>1, <2>3, EditKeepsPair
<1>5. t[Len(es)] \in Q
  <2>1. Q \in SUBSET Seq(Lines)
    OBVIOUS
  <2> HIDE DEF Q
  <2> QED
    BY <1>2, <1>3, <1>4, <2>1, FlagsStay
<1> QED
  BY <1>1, <1>5

\* What reads the counts of a tier is the other branch of a test.
LEMMA CountsPuts ==
    ASSUME NEW j \in 1..3
    PROVE  Puts(FastCounts[j], "else", FastCounts[j].find)
<1>1. PICK e, p, q, r, find :
              /\ e = FastCounts[j] /\ EditOK(e) /\ e.how = "counts"
              /\ find \in {"block_counts", "host_byte_counts", "disk_byte_counts"}
              /\ e.find = find /\ find = (CASE j = 1 -> "block_counts" [] j = 2 -> "host_byte_counts"
                                        [] OTHER -> "disk_byte_counts")
              /\ Len(e.path) = 2
              /\ p \in Lines /\ q \in Lines /\ r \in Lines /\ "original" \in Words
              /\ p.is = "if num_replicas == 1" /\ q.is = "one count" /\ r.is = "else"
              /\ p.indent = 3 /\ q.indent = 4 /\ r.indent = 3
              /\ e.new = <<p, q, r, Line(1, "original")>>
  BY FastShape
<1>2. /\ EditOK(e) /\ e.how \in {"counts", "here", "replace"} /\ 1 \in Nat
      /\ p \in Lines /\ q \in Lines /\ r \in Lines /\ "original" \in Words /\ r.is # "original"
  BY <1>1
<1>3. e.new = <<p, q, r, Line(1, "original")>>
  BY <1>1
<1>4. Puts(e, r.is, e.find)
  BY ONLY <1>2, <1>3, PutsElse
<1> QED
  BY <1>1, <1>4

LEMMA CountsFinds ==
    /\ FastCounts[1].find = "block_counts" /\ FastCounts[2].find = "host_byte_counts"
    /\ FastCounts[3].find = "disk_byte_counts"
<1> QED
  BY DEF FastCounts, Counts

LEMMA CountsStand ==
    ASSUME NEW text \in Seq(Lines), NEW fl \in Flags, NEW t, NEW es, UtilsRun(t, es, text, fl),
           "fast" \in fl, t[Len(es)] = FoldLeft(Edit, text, es),
           NEW count \in {"block_counts", "host_byte_counts", "disk_byte_counts"}
    PROVE  Directly(t[Len(es)], "else", count)
<1>1. PICK j \in 1..3 : FastCounts[j].find = count
  <2>1. 1 \in 1..3 /\ 2 \in 1..3 /\ 3 \in 1..3
    OBVIOUS
  <2>2. count = "block_counts" \/ count = "host_byte_counts" \/ count = "disk_byte_counts"
    OBVIOUS
  <2> QED
    BY <2>1, <2>2, CountsFinds
<1>2. /\ GoodEdits(es) /\ t[Len(es)] # NotFound /\ Len(es) \in Nat /\ Len(es) >= 9
      /\ \A l \in 1..3 : es[6 + l] = FastCounts[l]
      /\ \A i \in 10 .. Len(es) : \E l \in 1..2 : es[i] = KvSnapshotCall[l]
  BY DEF UtilsRun
<1>3. PICK k \in 1..Len(es) : k = 6 + j
  <2>1. 6 + j \in 1..Len(es)
    BY <1>2
  <2> QED
    BY <2>1
<1>4. Puts(es[k], "else", count)
  BY <1>1, <1>2, <1>3, CountsPuts
<1>5. ASSUME NEW i \in k + 1 .. Len(es)
      PROVE  KeepsPair(es[i], "else", count)
  <2>1. {"sum", "assert", "if kv_cache is not None"} \cap {"else", count} = {}
    OBVIOUS
  <2>2. CASE i \in 10..Len(es)
    BY <1>2, <2>1, <2>2, FlagsKeepPair
  <2>3. CASE i \notin 10..Len(es)
    <3>1. PICK l \in 1..3 : i = 6 + l /\ l # j
      <4>1. i - 6 \in 1..3 /\ i = 6 + (i - 6) /\ i - 6 # j
        BY <1>2, <1>3, <2>3
      <4> QED
        BY <4>1
    <3>2. FastCounts[l].find \notin {"else", count}
      <4>1. (l = 1 \/ l = 2 \/ l = 3) /\ (j = 1 \/ j = 2 \/ j = 3)
        BY ONLY l \in 1..3, j \in 1..3
      <4> QED
        BY <1>1, <3>1, <4>1, CountsFinds
    <3> QED
      BY <1>2, <2>1, <3>1, <3>2, FlagsKeepPair
  <2> QED
    BY <2>2, <2>3
<1>6. FoldLeft(Edit, text, es) # NotFound
  BY <1>2
<1> QED
  BY <1>2, <1>4, <1>5, <1>6, PairStands

LEMMA UtilsEachOK ==
    /\ EditOK(UtilsEdits[2]) /\ EditOK(UtilsEdits[3]) /\ EditOK(UtilsEdits[4]) /\ EditOK(UtilsEdits[5])
    /\ EditOK(UtilsEdits[6]) /\ \A i \in 2..6 : i = 2 \/ i = 3 \/ i = 4 \/ i = 5 \/ i = 6
<1>1. 2 \in 1..6 /\ 3 \in 1..6 /\ 4 \in 1..6 /\ 5 \in 1..6 /\ 6 \in 1..6
  OBVIOUS
<1>2. \A i \in 1..6 : EditOK(UtilsEdits[i])
  BY UtilsAreOK
<1>3. \A i \in 2..6 : i = 2 \/ i = 3 \/ i = 4 \/ i = 5 \/ i = 6
  OBVIOUS
<1> QED
  BY <1>1, <1>2, <1>3

\* None of the edits between the first of utils and those of kv_snapshot_call bring the word.
LEMMA UtilsBring ==
    ASSUME NEW is, is = "def compute_values"
    PROVE  (\A i \in 2..6 : BringsNo(UtilsEdits[i], is)) /\ \A j \in 1..3 : BringsNo(FastCounts[j], is)
<1>2. BringsNo(UtilsEdits[2], is)
  <2>1. EditOK(UtilsEdits[2])
    BY UtilsEachOK
  <2> QED
    BY <2>1, SecondUtils DEF BringsNo, AddedBy
<1>3. BringsNo(UtilsEdits[3], is)
  <2>1. EditOK(UtilsEdits[3])
    BY UtilsEachOK
  <2> QED
    BY <2>1, ThirdUtils DEF BringsNo, AddedBy
<1>4. BringsNo(UtilsEdits[4], is)
  <2>1. EditOK(UtilsEdits[4])
    BY UtilsEachOK
  <2> QED
    BY <2>1, FourthUtils DEF BringsNo, AddedBy
<1>5. BringsNo(UtilsEdits[5], is)
  <2>1. EditOK(UtilsEdits[5])
    BY UtilsEachOK
  <2> QED
    BY <2>1, FifthUtils DEF BringsNo, AddedBy
<1>6. BringsNo(UtilsEdits[6], is)
  <2>1. EditOK(UtilsEdits[6])
    BY UtilsEachOK
  <2> QED
    BY <2>1, SixthUtils DEF BringsNo, AddedBy
<1>7. \A i \in 2..6 : i = 2 \/ i = 3 \/ i = 4 \/ i = 5 \/ i = 6
  BY UtilsEachOK
<1>8. \A i \in 2..6 : BringsNo(UtilsEdits[i], is)
  BY <1>2, <1>3, <1>4, <1>5, <1>6, <1>7
<1>9. ASSUME NEW j \in 1..3
      PROVE  BringsNo(FastCounts[j], is)
  <2>1. PICK e, p, q, r, count :
              /\ e = FastCounts[j] /\ EditOK(e) /\ e.how = "counts"
              /\ count \in {"block_counts", "host_byte_counts", "disk_byte_counts"}
              /\ e.find = count /\ count = (CASE j = 1 -> "block_counts" [] j = 2 -> "host_byte_counts"
                                        [] OTHER -> "disk_byte_counts")
              /\ Len(e.path) = 2
              /\ p \in Lines /\ q \in Lines /\ r \in Lines /\ "original" \in Words
              /\ p.is = "if num_replicas == 1" /\ q.is = "one count" /\ r.is = "else"
              /\ p.indent = 3 /\ q.indent = 4 /\ r.indent = 3
              /\ e.new = <<p, q, r, Line(1, "original")>>
    BY FastShape
  <2>7. PICK o : o = Line(1, "original")
    OBVIOUS
  <2>8. e.new = <<p, q, r, o>>
    BY <2>1, <2>7
  <2>2. WordsOf(e.new) = {p.is, q.is, r.is, o.is}
    BY ONLY <2>8, WordsOfTuples
  <2>3. o.is = "original"
    BY <2>7 DEF Line
  <2>4. is \notin WordsOf(e.new) /\ is \notin {e.find, "sum", "assert"}
    BY <2>1, <2>2, <2>3
  <2>5. EditOK(e) /\ e.how = "counts"
    BY <2>1
  <2>6. BringsNo(e, is)
    BY <2>4, <2>5 DEF BringsNo, AddedBy
  <2> QED
    BY <2>1, <2>6
<1> QED
  BY <1>8, <1>9

\* compute_values is indented as it was written when kv_snapshot_call comes to it.
LEMMA ComputeIndented ==
    ASSUME NEW text \in Seq(Lines), NEW fl \in Flags, NEW t, NEW es, UtilsRun(t, es, text, fl),
           es = Edits("utils", text, fl), AsExpected("utils", text), "snapshot" \in fl
    PROVE  Indented(t[Len(es) - 2], "def compute_values", 1)
<1>1. PICK word, f : word = "def compute_values" /\ f = "utils"
  OBVIOUS
<1>2. PICK m \in Nat, one \in Nat : one = 1 /\ Len(es) = m + 2 /\ m >= 6
  <2>1. Len(es) \in Nat /\ Len(es) >= 8
    BY DEF UtilsRun
  <2>2. Len(es) - 2 \in Nat /\ Len(es) = Len(es) - 2 + 2 /\ Len(es) - 2 >= 6
    BY ONLY <2>1
  <2> QED
    BY <2>2
<1>3. /\ (\A i \in 0..Len(es) : t[i] # NotFound /\ t[i] \in Seq(Lines))
      /\ (\A i \in 1..Len(es) : t[i] = Edit(t[i - 1], es[i]))
      /\ (\A i \in 1..6 : es[i] = UtilsEdits[i])
      /\ t[0] = text
  BY DEF UtilsRun
<1>4. \A i \in 7 .. Len(es) - 2 : \E j \in 1..3 : es[i] = FastCounts[j]
  BY DEF UtilsRun
<1>5. es[1] = UtilsEdits[1] /\ t[1] = Edit(text, es[1]) /\ t[1] # NotFound /\ text # NotFound
  <2>1. 1 \in 1..6 /\ 1 \in 1..Len(es) /\ 1 - 1 = 0 /\ 1 \in 0..Len(es) /\ 0 \in 0..Len(es)
    BY ONLY <1>2
  <2> QED
    BY <1>3, <2>1
<1>6. word \notin WordsOf(text)
  <2>1. AddedBy(Edits(f, text, fl)[1]) \cap WordsOf(text) \subseteq Replaced(f)
    <3>1. GoodEdits(es)
      BY DEF UtilsRun
    <3>2. DOMAIN es = 1..Len(es)
      BY ONLY <3>1 DEF GoodEdits
    <3>3. 1 \in DOMAIN Edits(f, text, fl)
      <4>1. 1 \in 1..Len(es)
        BY ONLY <1>2
      <4> QED
        BY <1>1, <3>2, <4>1
    <3> QED
      BY <1>1, <3>3 DEF AsExpected
  <2>2. AddedBy(UtilsEdits[1]) \cap WordsOf(text) \subseteq Replaced(f)
    BY <1>1, <1>5, <2>1
  <2>3. word \in AddedBy(UtilsEdits[1])
    BY <1>1, FirstUtils DEF AddedBy
  <2>4. word \notin Replaced(f)
    BY <1>1 DEF Replaced
  <2> QED
    BY <2>2, <2>3, <2>4
<1>7. Indented(t[1], word, one)
  <2>1. PICK e : e = UtilsEdits[1]
    OBVIOUS
  <2>2. EditOK(e)
    BY <2>1, UtilsAreOK
  <2>3. e.how = "header" /\ WordsOf(e.new) = {word} /\ Len(e.new) = 1 /\ e.new[1].indent = one
        /\ word # "original"
    BY <1>1, <1>2, <2>1, FirstUtils
  <2>4. Edit(text, e) # NotFound
    BY <1>5, <2>1
  <2>5. Indented(Edit(text, e), word, one)
    BY <1>5, <1>6, <2>2, <2>3, <2>4, HeaderIndents
  <2> QED
    BY <1>5, <2>1, <2>5
<1>8. \A i \in 2..m : BringsNo(es[i], word)
  <2> SUFFICES ASSUME NEW i \in 2..m
               PROVE  BringsNo(es[i], word)
    OBVIOUS
  <2>1. CASE i <= 6
    <3>1. i \in 2..6 /\ i \in 1..6
      BY ONLY <2>1, i \in 2..m
    <3> QED
      BY <1>1, <1>3, <3>1, UtilsBring
  <2>2. CASE i > 6
    <3>1. i \in 7 .. Len(es) - 2
      BY ONLY <1>2, <2>2, i \in 2..m
    <3> QED
      BY <1>1, <1>4, <3>1, UtilsBring
  <2>3. i <= 6 \/ i > 6
    BY ONLY i \in 2..m
  <2> QED
    BY <2>1, <2>2, <2>3
<1>9. \A i \in 1..m : Indented(t[i], word, one)
  <2> DEFINE T == {i \in 1..m : ~Indented(t[i], word, one)}
  <2> SUFFICES ASSUME T # {}
               PROVE  FALSE
    OBVIOUS
  <2>1. PICK k \in T : \A y \in T : k <= y
    <3>1. T \in SUBSET Nat
      BY ONLY m \in Nat
    <3> HIDE DEF T
    <3> QED
      BY <3>1, HasLeast
  <2>2. k \in 1..m /\ ~Indented(t[k], word, one)
    BY <2>1
  <2>3. k # 1
    BY <1>7, <2>2
  <2>4. k \in 2..m /\ k - 1 \in 1..m /\ ~(k <= k - 1) /\ k - 1 \in 0..Len(es) /\ k \in 0..Len(es)
        /\ k \in 1..Len(es)
    BY ONLY <1>2, <2>2, <2>3
  <2>5. k - 1 \notin T
    <3> HIDE DEF T
    <3> QED
      BY <2>1, <2>4
  <2>6. Indented(t[k - 1], word, one)
    BY <2>4, <2>5
  <2>7. t[k] = Edit(t[k - 1], es[k]) /\ t[k] # NotFound /\ t[k - 1] # NotFound /\ t[k - 1] \in Seq(Lines)
    BY <1>3, <2>4
  <2>8. BringsNo(es[k], word)
    BY <1>8, <2>4
  <2>9. PICK u \in Seq(Lines) : u = t[k - 1]
    BY <2>7
  <2>10. Indented(Edit(u, es[k]), word, one)
    BY <2>6, <2>7, <2>8, <2>9, IndentKeeps
  <2> QED
    BY <2>2, <2>7, <2>9, <2>10
<1>10. Indented(t[m], word, one)
  <2>1. m \in 1..m
    BY ONLY <1>2
  <2> QED
    BY <1>9, <2>1
<1>11. Len(es) - 2 = m
  BY ONLY <1>2
<1> QED
  BY <1>1, <1>2, <1>10, <1>11

\* What kv_snapshot_call looks in and for.
LEMMA KvPlaces ==
    /\ "class BatchMetrics" \in Headers \ Statements /\ "def compute_values" \in Headers \ Statements
    /\ "if kv_cache is not None" \in Statements
<1>1. {"class BatchMetrics", "def compute_values"} \subseteq BlockWords
  BY DEF BlockWords
<1>2. BlockWords \subseteq Headers
  BY WordsOfEdits
<1> QED
  BY <1>1, <1>2 DEF Statements

LEMMA SnapshotStands ==
    ASSUME NEW text \in Seq(Lines), NEW fl \in Flags, NEW t, NEW es, UtilsRun(t, es, text, fl),
           es = Edits("utils", text, fl), AsExpected("utils", text), "snapshot" \in fl
    PROVE  Directly(t[Len(es)], "snapshot values", "elif kv_cache is not None")
<1>1. PICK a, d, before, is, find :
          /\ a \in Headers /\ d \in Headers
          /\ a = "class BatchMetrics" /\ d = "def compute_values" /\ before = "snapshot values"
          /\ is = "elif kv_cache is not None" /\ find = "if kv_cache is not None"
          /\ a \notin Statements /\ d \notin Statements /\ find \in Statements
  BY KvPlaces
<1>2. PICK b, h, p, q, r, s :
        /\ b = KvSnapshotCall[1] /\ h = KvSnapshotCall[2] /\ EditOK(b) /\ EditOK(h)
        /\ b.how = "before" /\ h.how = "header"
        /\ b.path = <<"class BatchMetrics", "def compute_values">> /\ h.path = b.path
        /\ Len(b.path) = 2
        /\ b.find = "if kv_cache is not None" /\ h.find = "if kv_cache is not None"
        /\ b.new = <<p, q, r>> /\ h.new = <<s>>
        /\ p \in Lines /\ q \in Lines /\ r \in Lines /\ s \in Lines
        /\ p.is = "_kv_snapshot" /\ q.is = "if _kv_snapshot" /\ r.is = "snapshot values"
        /\ s.is = "elif kv_cache is not None"
        /\ p.indent = 2 /\ q.indent = 2 /\ r.indent = 3 /\ s.indent = 2
  BY KvShape
<1>3. Len(es) \in Nat /\ Len(es) >= 8 /\ es[Len(es) - 1] = b /\ es[Len(es)] = h
  <2>1. Len(es) \in Nat
    BY DEF UtilsRun
  <2>2. Len(es) >= 8 /\ es[Len(es) - 1] = KvSnapshotCall[1] /\ es[Len(es)] = KvSnapshotCall[2]
    BY DEF UtilsRun
  <2> QED
    BY <1>2, <2>1, <2>2
<1>4. PICK m, l : m = Len(es) - 2 /\ l = Len(es) - 1
  OBVIOUS
<1>5. /\ t[m] \in Seq(Lines) /\ t[m] # NotFound /\ t[l] = Edit(t[m], b) /\ t[l] # NotFound
      /\ t[Len(es)] = Edit(t[l], h) /\ t[Len(es)] # NotFound
  <2>1. \A i \in 0..Len(es) : t[i] # NotFound /\ t[i] \in Seq(Lines)
    BY DEF UtilsRun
  <2>2. \A i \in 1..Len(es) : t[i] = Edit(t[i - 1], es[i])
    BY DEF UtilsRun
  <2>3. Len(es) \in Nat /\ Len(es) >= 8
    BY <1>3
  <2>4. /\ m \in 0..Len(es) /\ l \in 0..Len(es) /\ Len(es) \in 0..Len(es) /\ l \in 1..Len(es)
        /\ Len(es) \in 1..Len(es) /\ l - 1 = m /\ Len(es) - 1 = l
    BY ONLY <1>4, <2>3
  <2>5. t[l] = Edit(t[l - 1], es[l]) /\ t[Len(es)] = Edit(t[Len(es) - 1], es[Len(es)])
    BY ONLY <2>2, <2>4
  <2>6. es[l] = b /\ es[Len(es)] = h
    BY <1>3, <1>4
  <2>7. t[l] = Edit(t[m], b) /\ t[Len(es)] = Edit(t[l], h)
    BY ONLY <2>4, <2>5, <2>6
  <2> QED
    BY <2>1, <2>4, <2>7
<1>6. PICK n \in Nat : n = 1 /\ 2 > n /\ 3 > n
  OBVIOUS
<1>7. Indented(t[m], d, n)
  BY <1>1, <1>4, <1>6, ComputeIndented
<1>8. PICK x \in Seq(Lines) : x = t[m]
  BY <1>5
<1>9. PICK path : path = <<a, d>>
  OBVIOUS
<1>10. b.path = path /\ h.path = path
  BY <1>1, <1>2, <1>9
<1>11. b.find \in Statements /\ h.find = b.find
  BY <1>1, <1>2
<1>12. p.indent > n /\ q.indent > n /\ r.indent > n
  BY <1>2, <1>6
<1>13. "original" \notin {p.is, q.is, r.is, s.is}
  BY <1>2
<1>14. /\ EditOK(b) /\ EditOK(h) /\ b.how = "before" /\ h.how = "header"
       /\ b.new = <<p, q, r>> /\ h.new = <<s>>
       /\ p \in Lines /\ q \in Lines /\ r \in Lines /\ s \in Lines
  BY <1>2
<1>15. x # NotFound /\ Edit(x, b) # NotFound /\ Edit(Edit(x, b), h) # NotFound /\ Indented(x, d, n)
       /\ t[Len(es)] = Edit(Edit(x, b), h)
  BY <1>5, <1>7, <1>8
<1>16. a \in Headers /\ d \in Headers /\ a \notin Statements /\ d \notin Statements
  BY <1>1
<1>17. Directly(Edit(Edit(x, b), h), r.is, s.is)
  BY <1>9, <1>10, <1>11, <1>12, <1>13, <1>14, <1>15, <1>16, BeforeThenHeader
<1>18. r.is = before /\ s.is = is
  BY <1>1, <1>2
<1> QED
  BY <1>1, <1>15, <1>17, <1>18

\* Every edit of utils stands where it was meant to.
LEMMA UtilsLands ==
    ASSUME NEW text \in Seq(Lines), NEW fl \in Flags, AsExpected("utils", text),
           Patched("utils", text, fl) # NotFound
    PROVE  UtilsStand(Patched("utils", text, fl), fl)
<1>1. PICK t, es : /\ UtilsRun(t, es, text, fl) /\ t[Len(es)] = Patched("utils", text, fl)
                   /\ es = Edits("utils", text, fl)
  BY UtilsRuns
<1>2. PICK out : out = t[Len(es)]
  OBVIOUS
<1>3. t[Len(es)] = FoldLeft(Edit, text, es)
  <2>1. PICK f \in Files : f = "utils"
    BY NamesOfFiles
  <2>2. PICK es2 : /\ es2 = Edits(f, text, fl) /\ GoodEdits(es2)
                   /\ FoldLeft(Edit, text, es2) = Patched(f, text, fl)
                   /\ Patched(f, text, fl) \in Seq(Lines) /\ Compiles(Patched(f, text, fl))
                   /\ text # NotFound
    BY <2>1, FileEdits
  <2> QED
    BY <1>1, <2>1, <2>2
<1>4. Directly(out, "return", "metrics = create")
  BY <1>1, <1>2, ReturnStands
<1>5. LogMeant(out)
  BY <1>2, <1>1, LogStands
<1>6. "fast" \in fl => \A count \in {"block_counts", "host_byte_counts", "disk_byte_counts"} :
                          Directly(out, "else", count)
  BY <1>1, <1>2, <1>3, CountsStand
<1>7. "snapshot" \in fl => Directly(out, "snapshot values", "elif kv_cache is not None")
  BY <1>1, <1>2, SnapshotStands
<1>8. UtilsStand(out, fl)
  BY <1>4, <1>5, <1>6, <1>7 DEF UtilsStand, LogMeant
<1> QED
  BY <1>1, <1>2, <1>8

-----------------------------------------------------------------------------
(* Where the edits stand.                                                  *)

LEMMA LandedIs ==
    ASSUME NEW f, NEW text, NEW out, NEW fl, Own(out, Mine(f, text)) = Own(text, Mine(f, text)),
           Stand(f, out, fl)
    PROVE  Landed(f, text, out, fl)
BY DEF Landed, Mine

\* What a run writes for a file keeps MAX's own lines, and its edits stand.
LEMMA FileLands ==
    ASSUME NEW text \in Seq(Lines), NEW fl \in Flags, NEW f \in Files, AsExpected(f, text),
           Patched(f, text, fl) # NotFound
    PROVE  Landed(f, text, Patched(f, text, fl), fl)
<1>1. PICK out : out = Patched(f, text, fl)
  OBVIOUS
<1>2. CASE f = "utils"
  <2>1. Own(out, Mine(f, text)) = Own(text, Mine(f, text))
    BY <1>1, <1>2, OwnUtils
  <2>2. UtilsStand(out, fl)
    BY <1>1, <1>2, UtilsLands
  <2>3. Stand(f, out, fl)
    BY <1>2, <2>2 DEF Stand
  <2> QED
    BY <1>1, <2>1, <2>3, LandedIs
<1>3. CASE f = "process_controller"
  <2>1. Own(out, Mine(f, text)) = Own(text, Mine(f, text))
    BY <1>1, <1>3, OwnProcess
  <2>2. /\ Directly(out, "else", "for m in ms")
        /\ Directly(out, "tail_measurements", "return process_telemetry")
        /\ HasLine(out, "import os")
    BY <1>1, <1>3, ProcessLands
  <2>3. Stand(f, out, fl)
    BY <1>3, <2>2 DEF Stand
  <2> QED
    BY <1>1, <2>1, <2>3, LandedIs
<1>4. CASE f = "model_worker"
  <2>1. Own(out, Mine(f, text)) = Own(text, Mine(f, text))
    BY <1>1, <1>4, OwnPlainFiles
  <2>2. Directly(out, "if NO_PROGRESS", "_rec_idle_flush")
    BY <1>1, <1>4, WorkerLands
  <2>3. Stand(f, out, fl)
    BY <1>4, <2>2 DEF Stand
  <2> QED
    BY <1>1, <2>1, <2>3, LandedIs
<1>5. CASE f = "telemetry_worker"
  <2>1. Own(out, Mine(f, text)) = Own(text, Mine(f, text))
    BY <1>1, <1>5, OwnPlainFiles
  <2>2. Directly(out, "else", "yield") /\ HasLine(out, "import os")
    BY <1>1, <1>5, TelemetryLands
  <2>3. Stand(f, out, fl)
    BY <1>5, <2>2 DEF Stand
  <2> QED
    BY <1>1, <2>1, <2>3, LandedIs
<1>6. CASE f = "inputs"
  <2>1. /\ Own(out, Mine(f, text)) = Own(text, Mine(f, text))
        /\ "fast" \in fl => HasLine(out, "one pass")
    BY <1>1, <1>6, InputsLand
  <2>3. Stand(f, out, fl)
    BY <1>6, <2>1 DEF Stand
  <2> QED
    BY <1>1, <2>1, <2>3, LandedIs
<1>7. CASE f = "block_manager"
  <2>1. /\ Own(out, Mine(f, text)) = Own(text, Mine(f, text))
        /\ "fast" \in fl => Directly(out, "return _metrics", "return sum of metrics")
    BY <1>1, <1>7, BlockLands
  <2>3. Stand(f, out, fl)
    BY <1>7, <2>1 DEF Stand
  <2> QED
    BY <1>1, <2>1, <2>3, LandedIs
<1>8. CASE f = "cache_manager"
  <2>1. Own(out, Mine(f, text)) = Own(text, Mine(f, text))
    BY <1>1, <1>8, OwnPlainFiles
  <2>2. "snapshot" \in fl => Directly(out, "return out", "def get_metrics_aggregated")
    BY <1>1, <1>8, CacheLands
  <2>3. Stand(f, out, fl)
    BY <1>8, <2>2 DEF Stand
  <2> QED
    BY <1>1, <2>1, <2>3, LandedIs
<1> QED
  BY <1>2, <1>3, <1>4, <1>5, <1>6, <1>7, <1>8, NamesOfFiles

\* If what the scripts rely on without looking for it is so in every release (AsExpected),
\* then after a run that finishes over pristine backups MAX's own lines are all there, in
\* their order, but for those an edit replaces, and every edit stands where it was meant
\* to, whatever else the files hold and whatever runs came before.
THEOREM EditsLandAlways ==
    ASSUME \A r \in Releases, f \in Files : AsExpected(f, MaxTexts[r][f])
    PROVE  PatcherSpec => []EditsLand
<1>1. ASSUME PatcherInv, TypeInv
      PROVE  EditsLand
  <2> SUFFICES ASSUME finished, Pristine, NEW f \in Files
               PROVE  Landed(f, MaxTexts[release][f], pkg[f].lines, flags)
    BY DEF EditsLand
  <2>1. release \in Releases /\ flags \in Flags
    BY <1>1 DEF TypeInv, PatcherTypeOK
  <2>2. PICK text \in Seq(Lines) : text = MaxTexts[release][f]
    BY <2>1, MaxIsUnpatched
  <2>3. pkg[f] = Right(f) /\ Takes(f)
    BY <1>1 DEF PatcherInv, Progress
  <2>4. pkg[f].lines = Patched(f, text, flags) /\ Patched(f, text, flags) # NotFound
    BY <2>2, <2>3 DEF Right, Takes
  <2>5. AsExpected(f, text)
    BY <2>1, <2>2
  <2> QED
    BY <2>1, <2>2, <2>4, <2>5, FileLands
<1> QED
  BY <1>1, PatcherInvAlways, TypeAlways, PTL
=============================================================================
