---------------------------- MODULE RecordValues ----------------------------
(***************************************************************************)
(* What becomes of the values of a scheduler step on their way through the  *)
(* record log of design 1: the flat tuple of the worker (record_spec.py),    *)
(* the record the generated code makes of it and the tuple it makes of the   *)
(* record (gen_record_code.py over pyconv.mojo), and the BatchMetrics the     *)
(* telemetry process rebuilds (record_publish.py).                           *)
(*                                                                         *)
(* A BatchMetrics is a function from field names to values.  A float is any   *)
(* value that comes back as it went; an int has a sign and a width.  An        *)
(* Optional of the record is a sequence of at most one value.                   *)
(***************************************************************************)
EXTENDS Integers, Sequences

CONSTANTS
    None,     \* Python's
    Floats,
    Half    \* 2^63: as_int takes -Half .. Half - 1, a UInt64 is 0 .. 2 * Half - 1

ASSUME RecordConstants == Half \in Nat \ {0}

\* record_spec.py in its order, with one or more fields of every kind.
FIELDS ==
  << <<"batch_type", "batch_type">>, <<"batch_size", "u64">>,
     <<"num_input_tokens", "u64">>, <<"num_context_tokens", "u64">>,
     <<"used_kv_pct", "f64">>, <<"total_kv_blocks", "u64">>,
     <<"cache_hit_tokens", "u64">>, <<"device_blocks_served", "u64">>,
     <<"used_host_kv_pct", "f64">>, <<"total_host_kv_bytes", "u64">>,
     <<"acceptance_rate_per_position", "f64_list">>,
     <<"nixl_read_latency_avg_ms", "f64">>, <<"overlap_active", "bool">>,
     <<"completed", "completed">>, <<"dp_active_token_occupancy_pct", "opt_f64">> >>
COMPLETED_FIELDS ==
  << <<"batch_type", "batch_type">>, <<"batch_size", "u64">>,
     <<"num_context_tokens", "u64">>, <<"num_output_tokens", "opt_u64">>,
     <<"acceptance_rate_per_position", "f64_list">> >>
VISION_FIELDS == << <<"num_images_total", "u64">> >>
VIDEO_FIELDS == << <<"num_clips_total", "u64">>, <<"frame_counts", "u64_list">> >>
EXTRA ==
  << <<"published_in_worker", "bool">>, <<"vision_metrics", "vision">>,
     <<"video_metrics", "video">> >>
SUBRECORDS == [completed |-> COMPLETED_FIELDS, vision |-> VISION_FIELDS,
               video |-> VIDEO_FIELDS]

AllFields == FIELDS \o EXTRA
Names(fields) == {fields[i][1] : i \in DOMAIN fields}
Index(fields, name) == CHOOSE i \in DOMAIN fields : fields[i][1] = name

-----------------------------------------------------------------------------
\* What the object of a completed batch, of images or of a video is.
Completed ==
    [batch_type : {"CE", "TG"}, batch_size : Int, num_context_tokens : Int,
     num_output_tokens : Int \cup {None}, acceptance_rate_per_position : Seq(Floats)]
Vision == [num_images_total : Int]
Video == [num_clips_total : Int, frame_counts : Seq(Int)]

\* None is none of the tuples they come back as.
ASSUME NoneIsNoTuple ==
    /\ None \notin {0, 1} \X Int \X Int \X (Int \cup {None}) \X Seq(Floats)
    /\ None \notin Seq(Int) /\ None \notin Int \X Seq(Int)

-----------------------------------------------------------------------------
\* The conversions of one value, by kind: READ and WRITE of gen_record_code.py.

\* Int -> UInt64 and back.
Unsigned(v) == v % (2 * Half)
Signed(s) == IF s >= Half THEN s - 2 * Half ELSE s

\* as_int raises for an int that is no Py_ssize_t.
IntFits(v) == v \in (0 - Half) .. (Half - 1)
Fits(kind, v) ==
    CASE kind = "u64" -> IntFits(v)
      [] kind = "opt_u64" -> v = None \/ IntFits(v)
      [] kind = "u64_list" -> \A i \in DOMAIN v : IntFits(v[i])
      [] OTHER -> TRUE

\* An empty list is stored absent: the encoding does not distinguish the two.
Stored(kind, v) ==
    CASE kind = "u64" -> Unsigned(v)
      [] kind = "opt_u64" -> IF v = None THEN <<>> ELSE <<Unsigned(v)>>
      [] kind = "opt_f64" -> IF v = None THEN <<>> ELSE <<v>>
      [] kind = "batch_type" -> IF v = "TG" THEN 1 ELSE 0
      [] kind = "f64_list" -> IF v = <<>> THEN <<>> ELSE <<v>>
      [] kind = "u64_list" ->
           IF v = <<>> THEN <<>> ELSE << [i \in DOMAIN v |-> Unsigned(v[i])] >>
      [] OTHER -> v

\* A plausible mistake that no definition uses: an absent list comes back as None.
FaultyRestored(kind, s) ==
    CASE kind = "u64" -> Signed(s)
      [] kind \in {"opt_u64", "opt_f64", "f64_list", "u64_list"} ->
           IF s = <<>> THEN None ELSE s[1]
      [] OTHER -> s
Restored(kind, s) ==
    CASE kind = "u64" -> Signed(s)
      [] kind = "opt_u64" -> IF s = <<>> THEN None ELSE Signed(s[1])
      [] kind = "opt_f64" -> IF s = <<>> THEN None ELSE s[1]
      [] kind = "f64_list" -> IF s = <<>> THEN <<>> ELSE s[1]
      [] kind = "u64_list" ->
           IF s = <<>> THEN <<>> ELSE [i \in DOMAIN s[1] |-> Signed(s[1][i])]
      [] OTHER -> s

\* A sub-record is read by name from the object and written as a tuple.
SubStored(fields, v) == [i \in DOMAIN fields |-> Stored(fields[i][2], v[fields[i][1]])]
SubRestored(fields, s) == [i \in DOMAIN fields |-> Restored(fields[i][2], s[i])]
FieldFits(kind, v) ==
    IF kind \notin DOMAIN SUBRECORDS THEN Fits(kind, v)
    ELSE \/ v = None
         \/ \A i \in DOMAIN SUBRECORDS[kind] :
                Fits(SUBRECORDS[kind][i][2], v[SUBRECORDS[kind][i][1]])
FieldStored(kind, v) ==
    IF kind \notin DOMAIN SUBRECORDS THEN Stored(kind, v)
    ELSE IF v = None THEN <<>> ELSE <<SubStored(SUBRECORDS[kind], v)>>
FieldRestored(kind, s) ==
    IF kind \notin DOMAIN SUBRECORDS THEN Restored(kind, s)
    ELSE IF s = <<>> THEN None ELSE SubRestored(SUBRECORDS[kind], s[1])

-----------------------------------------------------------------------------
\* The worker: compute_values returns the tuple of FIELDS, log_metrics adds EXTRA.
Values(m) ==
    [i \in DOMAIN FIELDS |-> m[FIELDS[i][1]]]
        \o <<FALSE, m["vision_metrics"], m["video_metrics"]>>

\* values_to_rec raises if one value does; rec_to_values.
Encodes(values) == \A i \in DOMAIN AllFields : FieldFits(AllFields[i][2], values[i])
ToRecord(values) == [i \in DOMAIN AllFields |-> FieldStored(AllFields[i][2], values[i])]
FromRecord(rec) == [i \in DOMAIN AllFields |-> FieldRestored(AllFields[i][2], rec[i])]

\* to_metrics: dict(zip(NAMES, values)), then the parts that are no plain values.
BatchTypes == <<"CE", "TG">>
ByName(fields, values) == [name \in Names(fields) |-> values[Index(fields, name)]]
Typed(f) == [f EXCEPT !["batch_type"] = BatchTypes[@ + 1]]
Rebuilt(fields, v) == IF v = None THEN None ELSE ByName(fields, v)
ToMetrics(values) ==
    LET n == Len(FIELDS)
        kw == Typed(ByName(FIELDS, values))
        c == kw["completed"]
    IN  [name \in Names(FIELDS) \cup {"vision_metrics", "video_metrics"} |->
            CASE name = "vision_metrics" -> Rebuilt(VISION_FIELDS, values[n + 2])
              [] name = "video_metrics" -> Rebuilt(VIDEO_FIELDS, values[n + 3])
              [] name = "completed" ->
                   IF c = None THEN None ELSE Typed(ByName(COMPLETED_FIELDS, c))
              [] OTHER -> kw[name]]

\* publish returns without publishing what the worker has published.
Publishes(values) == values[Len(FIELDS) + 1] = FALSE
=============================================================================
