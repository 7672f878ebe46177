------------------------- MODULE PatchedServer_proofs -------------------------
(***************************************************************************)
(* Theorems about SchedulerStep, for all servers, steps and widths: a step    *)
(* arrives as it was computed, through the record log and through the slot,   *)
(* the counters of the KV cache are reported once, and the speedups compute    *)
(* what MAX computes.                                                          *)
(*                                                                         *)
(* Then about PatchedServer: the patch script and the server together do what  *)
(* each of them does alone, so what is proved of either holds of both.          *)
(***************************************************************************)
EXTENDS PatchedServer, Patcher_proofs


-----------------------------------------------------------------------------
(* One value.                                                                *)

\* A number below the modulus is its own remainder, and one just below zero is
\* the remainder of the modulus more.
LEMMA SmallRemainder ==
    ASSUME NEW m \in Nat \ {0}, NEW a \in 0 .. m - 1
    PROVE  a % m = a
<1>1. a = m * (a \div m) + (a % m) /\ a % m \in 0 .. m - 1 /\ a \div m \in Int
  OBVIOUS
<1>2. a \div m = 0
  <2>1. CASE a \div m >= 1
    <3>1. m * (a \div m) >= m
      BY <1>1, <2>1
    <3> QED
      BY <1>1, <3>1
  <2>2. CASE a \div m <= -1
    <3>1. m * (a \div m) <= -m
      BY <1>1, <2>2
    <3> QED
      BY <1>1, <3>1
  <2> QED
    BY <1>1, <2>1, <2>2
<1> QED
  BY <1>1, <1>2

LEMMA NegativeRemainder ==
    ASSUME NEW m \in Nat \ {0}, NEW a \in (0 - m) .. -1
    PROVE  a % m = a + m
<1>1. a = m * (a \div m) + (a % m) /\ a % m \in 0 .. m - 1 /\ a \div m \in Int
  OBVIOUS
<1>2. a \div m = -1
  <2>1. CASE a \div m >= 0
    <3>1. m * (a \div m) >= 0
      BY <1>1, <2>1
    <3> QED
      BY <1>1, <3>1
  <2>2. CASE a \div m <= -2
    <3>1. m * (a \div m) <= m * (-2)
      BY <1>1, <2>2
    <3> QED
      BY <1>1, <3>1
  <2> QED
    BY <1>1, <2>1, <2>2
<1> QED
  BY <1>1, <1>2

\* An int that as_int takes comes back from its UInt64.
LEMMA IntRoundTrip ==
    ASSUME NEW v, IntFits(v)
    PROVE  v \in Int /\ Signed(Unsigned(v)) = v
<1>1. Half \in Nat \ {0} /\ v \in (0 - Half) .. (Half - 1)
  BY RecordConstants DEF IntFits
<1>2. CASE v >= 0
  <2>1. v % (2 * Half) = v
    BY <1>1, <1>2, SmallRemainder
  <2> QED
    BY <1>1, <1>2, <2>1 DEF Signed, Unsigned
<1>3. CASE v < 0
  <2>0. 2 * Half \in Nat \ {0} /\ v \in (0 - 2 * Half) .. -1
    BY <1>1, <1>3
  <2>1. v % (2 * Half) = v + 2 * Half
    BY <2>0, NegativeRemainder
  <2> QED
    BY <1>1, <1>3, <2>1 DEF Signed, Unsigned
<1> QED
  BY <1>1, <1>2, <1>3

\* What comes back of a value: an enum member as its number, everything else as it went.
PlainKinds == {"u64", "f64", "bool", "batch_type", "opt_u64", "opt_f64", "f64_list", "u64_list"}
Back(k, v) == IF k = "batch_type" THEN (IF v = "TG" THEN 1 ELSE 0) ELSE v

LEMMA ValueRoundTrip ==
    ASSUME NEW k \in PlainKinds, NEW v, Fits(k, v), k = "u64_list" => v \in Seq(Int)
    PROVE  Restored(k, Stored(k, v)) = Back(k, v)
<1>1. CASE k = "u64"
  BY <1>1, IntRoundTrip DEF Fits, Stored, Restored, Back
<1>2. CASE k = "opt_u64"
  BY <1>2, IntRoundTrip DEF Fits, Stored, Restored, Back
<1>3. CASE k = "u64_list"
  <2>1. CASE v = <<>>
    BY <1>3, <2>1 DEF Stored, Restored, Back
  <2>2. CASE v # <<>>
    <3>1. \A i \in DOMAIN v : Signed(Unsigned(v[i])) = v[i]
      BY <1>3, IntRoundTrip DEF Fits
    <3>2. Stored(k, v) = << [i \in DOMAIN v |-> Unsigned(v[i])] >>
      BY <1>3, <2>2 DEF Stored
    <3>3. Restored(k, Stored(k, v)) = [i \in DOMAIN v |-> Signed(Unsigned(v[i]))]
      BY <1>3, <3>2 DEF Restored
    <3>4. v = [i \in DOMAIN v |-> v[i]]
      BY <1>3
    <3> QED
      BY <1>3, <3>1, <3>3, <3>4 DEF Back
  <2> QED
    BY <2>1, <2>2
<1>4. CASE k \in {"f64", "bool", "batch_type", "opt_f64", "f64_list"}
  BY <1>4 DEF Stored, Restored, Back
<1> QED
  BY <1>1, <1>2, <1>3, <1>4 DEF PlainKinds

-----------------------------------------------------------------------------
(* The parts of a step.                                                      *)

\* A completed batch comes back as itself, its kind of batch as a number first.
LEMMA CompletedRoundTrip ==
    ASSUME NEW v \in Completed \cup {None}, FieldFits("completed", v),
           NEW s, s = FieldRestored("completed", FieldStored("completed", v))
    PROVE  (IF s = None THEN None ELSE Typed(ByName(COMPLETED_FIELDS, s))) = v
<1>1. CASE v = None
  BY <1>1 DEF FieldStored, FieldRestored, SUBRECORDS
<1>2. CASE v # None
  <2>1. v \in Completed
    BY <1>2
  <2>2. /\ FieldStored("completed", v) = <<SubStored(COMPLETED_FIELDS, v)>>
        /\ s = SubRestored(COMPLETED_FIELDS, SubStored(COMPLETED_FIELDS, v))
        /\ \A i \in DOMAIN COMPLETED_FIELDS :
              Fits(COMPLETED_FIELDS[i][2], v[COMPLETED_FIELDS[i][1]])
    BY <1>2 DEF FieldStored, FieldRestored, FieldFits, SUBRECORDS
  <2>3. DOMAIN COMPLETED_FIELDS = 1 .. 5
    BY DEF COMPLETED_FIELDS
  <2>4. \A i \in 1 .. 5 : /\ COMPLETED_FIELDS[i][2] \in PlainKinds
                          /\ COMPLETED_FIELDS[i][2] # "u64_list"
    BY DEF COMPLETED_FIELDS, PlainKinds
  <2>5. \A i \in 1 .. 5 : s[i] = Back(COMPLETED_FIELDS[i][2], v[COMPLETED_FIELDS[i][1]])
    BY <2>2, <2>3, <2>4, ValueRoundTrip DEF SubStored, SubRestored
  <2>6. s = << IF v.batch_type = "TG" THEN 1 ELSE 0, v.batch_size, v.num_context_tokens,
               v.num_output_tokens, v.acceptance_rate_per_position >>
    <3>1. /\ COMPLETED_FIELDS[1] = <<"batch_type", "batch_type">>
          /\ COMPLETED_FIELDS[2] = <<"batch_size", "u64">>
          /\ COMPLETED_FIELDS[3] = <<"num_context_tokens", "u64">>
          /\ COMPLETED_FIELDS[4] = <<"num_output_tokens", "opt_u64">>
          /\ COMPLETED_FIELDS[5] = <<"acceptance_rate_per_position", "f64_list">>
      BY DEF COMPLETED_FIELDS
    <3>2. s = [i \in 1 .. 5 |-> s[i]]
      BY <2>2, <2>3 DEF SubRestored
    <3>3. /\ s[1] = IF v.batch_type = "TG" THEN 1 ELSE 0
          /\ s[2] = v.batch_size /\ s[3] = v.num_context_tokens
          /\ s[4] = v.num_output_tokens /\ s[5] = v.acceptance_rate_per_position
      BY <2>5, <3>1 DEF Back
    <3> QED
      BY <3>2, <3>3
  <2>7. s # None
    BY <2>1, <2>6, NoneIsNoTuple DEF Completed
  <2>8. \A i \in 1 .. 5 : Index(COMPLETED_FIELDS, COMPLETED_FIELDS[i][1]) = i
    BY <2>3 DEF COMPLETED_FIELDS, Index
  <2>9. Names(COMPLETED_FIELDS) = {"batch_type", "batch_size", "num_context_tokens",
                                   "num_output_tokens", "acceptance_rate_per_position"}
    BY <2>3 DEF COMPLETED_FIELDS, Names
  <2>10. ByName(COMPLETED_FIELDS, s) = [v EXCEPT !.batch_type = IF @ = "TG" THEN 1 ELSE 0]
    <3>1. /\ Index(COMPLETED_FIELDS, "batch_type") = 1
          /\ Index(COMPLETED_FIELDS, "batch_size") = 2
          /\ Index(COMPLETED_FIELDS, "num_context_tokens") = 3
          /\ Index(COMPLETED_FIELDS, "num_output_tokens") = 4
          /\ Index(COMPLETED_FIELDS, "acceptance_rate_per_position") = 5
      BY <2>8 DEF COMPLETED_FIELDS
    <3>2. /\ s[1] = IF v.batch_type = "TG" THEN 1 ELSE 0
          /\ s[2] = v.batch_size /\ s[3] = v.num_context_tokens
          /\ s[4] = v.num_output_tokens /\ s[5] = v.acceptance_rate_per_position
      BY <2>6
    <3>3. ByName(COMPLETED_FIELDS, s) =
             [name \in {"batch_type", "batch_size", "num_context_tokens",
                        "num_output_tokens", "acceptance_rate_per_position"} |->
                s[Index(COMPLETED_FIELDS, name)]]
      BY <2>9 DEF ByName
    <3> QED
      BY <2>1, <3>1, <3>2, <3>3 DEF Completed
  <2>11. Typed(ByName(COMPLETED_FIELDS, s)) = v
    BY <2>1, <2>10 DEF Typed, BatchTypes, Completed
  <2> QED
    BY <1>2, <2>7, <2>11
<1> QED
  BY <1>1, <1>2

LEMMA VisionRoundTrip ==
    ASSUME NEW v \in Vision \cup {None}, FieldFits("vision", v)
    PROVE  Rebuilt(VISION_FIELDS, FieldRestored("vision", FieldStored("vision", v))) = v
<1>1. CASE v = None
  BY <1>1 DEF FieldStored, FieldRestored, SUBRECORDS, Rebuilt
<1>2. CASE v # None
  <2> DEFINE s == FieldRestored("vision", FieldStored("vision", v))
  <2>1. v \in Vision
    BY <1>2
  <2>2. /\ s = SubRestored(VISION_FIELDS, SubStored(VISION_FIELDS, v))
        /\ Fits("u64", v.num_images_total)
    BY <1>2 DEF FieldStored, FieldRestored, FieldFits, SUBRECORDS, VISION_FIELDS
  <2>3. s = <<v.num_images_total>>
    BY <2>2, ValueRoundTrip DEF SubStored, SubRestored, VISION_FIELDS, PlainKinds, Back
  <2>4. s # None
    <3>1. v.num_images_total \in Int
      BY <2>1 DEF Vision
    <3> HIDE DEF s
    <3>2. s \in Seq(Int)
      BY <2>3, <3>1
    <3> QED
      BY <3>2, NoneIsNoTuple
  <2>5. ByName(VISION_FIELDS, s) = v
    BY <2>1, <2>3 DEF ByName, Index, Names, VISION_FIELDS, Vision
  <2> QED
    BY <2>4, <2>5 DEF Rebuilt
<1> QED
  BY <1>1, <1>2

LEMMA VideoRoundTrip ==
    ASSUME NEW v \in Video \cup {None}, FieldFits("video", v)
    PROVE  Rebuilt(VIDEO_FIELDS, FieldRestored("video", FieldStored("video", v))) = v
<1>1. CASE v = None
  BY <1>1 DEF FieldStored, FieldRestored, SUBRECORDS, Rebuilt
<1>2. CASE v # None
  <2> DEFINE s == FieldRestored("video", FieldStored("video", v))
  <2>1. v \in Video
    BY <1>2
  <2>2. /\ s = SubRestored(VIDEO_FIELDS, SubStored(VIDEO_FIELDS, v))
        /\ Fits("u64", v.num_clips_total) /\ Fits("u64_list", v.frame_counts)
    BY <1>2 DEF FieldStored, FieldRestored, FieldFits, SUBRECORDS, VIDEO_FIELDS
  <2>3. s = <<v.num_clips_total, v.frame_counts>>
    BY <2>1, <2>2, ValueRoundTrip
       DEF SubStored, SubRestored, VIDEO_FIELDS, PlainKinds, Back, Video
  <2>4. s # None
    BY <2>1, <2>3, NoneIsNoTuple DEF Video
  <2>5. ByName(VIDEO_FIELDS, s) = v
    BY <2>1, <2>3 DEF ByName, Index, Names, VIDEO_FIELDS, Video
  <2> QED
    BY <2>4, <2>5 DEF Rebuilt
<1> QED
  BY <1>1, <1>2

-----------------------------------------------------------------------------
(* A whole step, through the record.                                         *)

MetricNames == Names(FIELDS) \cup {"vision_metrics", "video_metrics"}
WellFormed(m) ==
    /\ m = [name \in MetricNames |-> m[name]]
    /\ m["batch_type"] \in {"CE", "TG"} /\ m["overlap_active"] \in BOOLEAN
    /\ m["completed"] \in Completed \cup {None}
    /\ m["vision_metrics"] \in Vision \cup {None}
    /\ m["video_metrics"] \in Video \cup {None}

LEMMA FieldShapes ==
    /\ DOMAIN FIELDS = 1 .. 15 /\ Len(FIELDS) = 15 /\ DOMAIN AllFields = 1 .. 18
    /\ \A i \in 1 .. 15 : AllFields[i] = FIELDS[i]
    /\ AllFields[16] = <<"published_in_worker", "bool">>
    /\ AllFields[17] = <<"vision_metrics", "vision">>
    /\ AllFields[18] = <<"video_metrics", "video">>
BY DEF FIELDS, EXTRA, AllFields

LEMMA FieldKinds ==
    /\ FIELDS[14] = <<"completed", "completed">>
    /\ FIELDS[1] = <<"batch_type", "batch_type">>
    /\ \A i \in 1 .. 15 : i # 14 =>
          /\ FIELDS[i][2] \in PlainKinds /\ FIELDS[i][2] # "u64_list"
          /\ FIELDS[i][1] # "completed"
    /\ \A i \in 2 .. 15 : FIELDS[i][2] # "batch_type" /\ FIELDS[i][1] # "batch_type"
    /\ \A i \in 1 .. 15 : FIELDS[i][1] \notin {"vision_metrics", "video_metrics"}
BY DEF FIELDS, PlainKinds

LEMMA FieldIndex == \A i \in 1 .. 15 : Index(FIELDS, FIELDS[i][1]) = i
<1>1. \A i, j \in 1 .. 15 : FIELDS[i][1] = FIELDS[j][1] => i = j
  BY DEF FIELDS
<1> QED
  BY <1>1, FieldShapes DEF Index

LEMMA ValuesOf ==
    ASSUME NEW m
    PROVE  /\ \A i \in 1 .. 15 : Values(m)[i] = m[FIELDS[i][1]]
           /\ Values(m)[16] = FALSE
           /\ Values(m)[17] = m["vision_metrics"] /\ Values(m)[18] = m["video_metrics"]
<1> DEFINE f == [i \in DOMAIN FIELDS |-> m[FIELDS[i][1]]]
           x == <<FALSE, m["vision_metrics"], m["video_metrics"]>>
<1>1. Len(f) = 15 /\ Len(x) = 3 /\ DOMAIN f = 1 .. 15
  BY FieldShapes
<1>2. Values(m) = f \o x
  BY DEF Values
<1>3. \A i \in 1 .. 15 : (f \o x)[i] = f[i]
  BY <1>1
<1>4. \A i \in 16 .. 18 : (f \o x)[i] = x[i - 15]
  BY <1>1
<1>5. \A i \in 1 .. 15 : f[i] = m[FIELDS[i][1]]
  BY FieldShapes
<1>6. x[16 - 15] = FALSE /\ x[17 - 15] = m["vision_metrics"] /\ x[18 - 15] = m["video_metrics"]
  OBVIOUS
<1>7. \A i \in 1 .. 15 : Values(m)[i] = m[FIELDS[i][1]]
  BY <1>2, <1>3, <1>5
<1> HIDE DEF f, x
<1>8. \A i \in 16 .. 18 : Values(m)[i] = x[i - 15]
  BY <1>2, <1>4
<1>9. /\ Values(m)[16] = x[16 - 15] /\ Values(m)[17] = x[17 - 15]
      /\ Values(m)[18] = x[18 - 15]
  BY <1>8
<1> QED
  BY <1>6, <1>7, <1>9

LEMMA FieldsRoundTrip ==
    ASSUME NEW m, WellFormed(m), Encodes(Values(m)),
           NEW r, r = FromRecord(ToRecord(Values(m)))
    PROVE  /\ \A i \in 1 .. 15 : i # 14 => r[i] = Back(FIELDS[i][2], m[FIELDS[i][1]])
           /\ r[14] = FieldRestored("completed", FieldStored("completed", m["completed"]))
           /\ FieldFits("completed", m["completed"])
           /\ r[16] = FALSE
           /\ r[17] = FieldRestored("vision", FieldStored("vision", m["vision_metrics"]))
           /\ FieldFits("vision", m["vision_metrics"])
           /\ r[18] = FieldRestored("video", FieldStored("video", m["video_metrics"]))
           /\ FieldFits("video", m["video_metrics"])
<1> DEFINE v == Values(m)
<1>1. \A i \in 1 .. 18 :
         /\ r[i] = FieldRestored(AllFields[i][2], FieldStored(AllFields[i][2], v[i]))
         /\ FieldFits(AllFields[i][2], v[i])
  BY FieldShapes DEF FromRecord, ToRecord, Encodes
<1> HIDE DEF v
<1>2. ASSUME NEW k \in PlainKinds, NEW x
      PROVE  /\ FieldStored(k, x) = Stored(k, x)
             /\ FieldRestored(k, x) = Restored(k, x)
             /\ FieldFits(k, x) = Fits(k, x)
  <2>1. k \notin DOMAIN SUBRECORDS
    BY DEF PlainKinds, SUBRECORDS
  <2> QED
    BY <2>1 DEF FieldStored, FieldRestored, FieldFits
<1>3. ASSUME NEW i \in 1 .. 15, i # 14
      PROVE  r[i] = Back(FIELDS[i][2], m[FIELDS[i][1]])
  <2>1. FIELDS[i][2] \in PlainKinds /\ FIELDS[i][2] # "u64_list" /\ AllFields[i] = FIELDS[i]
    BY <1>3, FieldKinds, FieldShapes
  <2>2. v[i] = m[FIELDS[i][1]]
    BY ValuesOf DEF v
  <2>3. /\ r[i] = Restored(FIELDS[i][2], Stored(FIELDS[i][2], v[i]))
        /\ Fits(FIELDS[i][2], v[i])
    BY <1>1, <1>2, <2>1
  <2> QED
    BY <2>1, <2>2, <2>3, ValueRoundTrip
<1>0. /\ \A i \in 1 .. 15 : v[i] = m[FIELDS[i][1]]
      /\ v[16] = FALSE
      /\ v[17] = m["vision_metrics"] /\ v[18] = m["video_metrics"]
  BY ValuesOf DEF v
<1>4. v[14] = m["completed"] /\ AllFields[14][2] = "completed"
  BY <1>0, FieldKinds, FieldShapes
<1>5. /\ v[16] = FALSE /\ AllFields[16][2] = "bool"
      /\ v[17] = m["vision_metrics"] /\ AllFields[17][2] = "vision"
      /\ v[18] = m["video_metrics"] /\ AllFields[18][2] = "video"
  BY <1>0, FieldShapes
<1>6. r[16] = FALSE
  <2>1. FieldRestored("bool", FieldStored("bool", FALSE)) = FALSE
    BY DEF FieldRestored, FieldStored, Restored, Stored, SUBRECORDS
  <2>2. r[16] = FieldRestored(AllFields[16][2], FieldStored(AllFields[16][2], v[16]))
    BY <1>1
  <2> QED
    BY <1>5, <2>1, <2>2
<1> QED
  BY <1>1, <1>3, <1>4, <1>5, <1>6

LEMMA StepRoundTrip ==
    ASSUME NEW m, WellFormed(m), Encodes(Values(m))
    PROVE  /\ ToMetrics(FromRecord(ToRecord(Values(m)))) = m
           /\ Publishes(FromRecord(ToRecord(Values(m))))
<1> DEFINE r == FromRecord(ToRecord(Values(m)))
           f == ByName(FIELDS, r)
           kw == Typed(f)
<1>1. /\ \A i \in 1 .. 15 : i # 14 => r[i] = Back(FIELDS[i][2], m[FIELDS[i][1]])
      /\ r[14] = FieldRestored("completed", FieldStored("completed", m["completed"]))
      /\ FieldFits("completed", m["completed"])
      /\ r[16] = FALSE
      /\ r[17] = FieldRestored("vision", FieldStored("vision", m["vision_metrics"]))
      /\ FieldFits("vision", m["vision_metrics"])
      /\ r[18] = FieldRestored("video", FieldStored("video", m["video_metrics"]))
      /\ FieldFits("video", m["video_metrics"])
  BY FieldsRoundTrip
<1>2. /\ Rebuilt(VISION_FIELDS, r[17]) = m["vision_metrics"]
      /\ Rebuilt(VIDEO_FIELDS, r[18]) = m["video_metrics"]
      /\ (IF r[14] = None THEN None ELSE Typed(ByName(COMPLETED_FIELDS, r[14]))) = m["completed"]
  BY <1>1, VisionRoundTrip, VideoRoundTrip, CompletedRoundTrip DEF WellFormed
<1> HIDE DEF r
<1>3. \A i \in 1 .. 15 : FIELDS[i][1] \in DOMAIN f /\ f[FIELDS[i][1]] = r[i]
  BY FieldIndex, FieldShapes DEF ByName, Names
<1>4. DOMAIN f = Names(FIELDS) /\ f = [name \in Names(FIELDS) |-> f[name]]
  BY DEF ByName
<1> HIDE DEF f
<1>5. /\ \A i \in 2 .. 15 : kw[FIELDS[i][1]] = r[i]
      /\ kw["batch_type"] = BatchTypes[r[1] + 1]
  BY <1>3, <1>4, FieldKinds DEF Typed
<1> HIDE DEF kw
<1>6. BatchTypes[r[1] + 1] = m["batch_type"]
  BY <1>1, FieldKinds DEF Back, BatchTypes, WellFormed
<1>7. \A i \in 1 .. 15 : i # 14 => kw[FIELDS[i][1]] = m[FIELDS[i][1]]
  BY <1>1, <1>5, <1>6, FieldKinds DEF Back
<1>8. kw["completed"] = r[14]
  BY <1>5, FieldKinds
<1> DEFINE rebuilt(name) ==
      CASE name = "vision_metrics" -> Rebuilt(VISION_FIELDS, r[15 + 2])
        [] name = "video_metrics" -> Rebuilt(VIDEO_FIELDS, r[15 + 3])
        [] name = "completed" ->
             IF kw["completed"] = None THEN None
             ELSE Typed(ByName(COMPLETED_FIELDS, kw["completed"]))
        [] OTHER -> kw[name]
<1>9. ToMetrics(r) = [name \in MetricNames |-> rebuilt(name)]
  BY FieldShapes DEF ToMetrics, MetricNames, kw, f
<1>10. \A name \in MetricNames : rebuilt(name) = m[name]
  <2>1. rebuilt("vision_metrics") = m["vision_metrics"] /\ rebuilt("video_metrics") = m["video_metrics"]
        /\ rebuilt("completed") = m["completed"]
    BY <1>2, <1>8
  <2>2. ASSUME NEW i \in 1 .. 15
        PROVE  rebuilt(FIELDS[i][1]) = m[FIELDS[i][1]]
    BY <1>7, <2>1, FieldKinds
  <2> HIDE DEF rebuilt
  <2>3. ASSUME NEW name \in Names(FIELDS)
        PROVE  rebuilt(name) = m[name]
    BY <2>2, FieldShapes DEF Names
  <2> QED
    BY <2>1, <2>3 DEF MetricNames
<1> HIDE DEF rebuilt
<1>11. ToMetrics(r) = m
  BY <1>9, <1>10 DEF WellFormed
<1>12. Publishes(r)
  BY <1>1, FieldShapes DEF Publishes
<1> QED
  BY <1>11, <1>12 DEF r

-----------------------------------------------------------------------------
(* A whole step, through the slot.                                           *)

\* If all numbers fit, every writer leaves the same slot, whatever it was before.
LEMMA WritersAgree ==
    ASSUME NEW m, SlotFits(m), NEW s
    PROVE  /\ StructWrite(s, m) = CellsOf(m)
           /\ NumpyWrite(s, m) = CellsOf(m)
           /\ DagrPyWrite(s, m) = CellsOf(m)
<1>1. \A cell \in Cells : CellFits(m, cell)
  BY DEF SlotFits
<1>2. CellsOf(m) = [cell \in Cells |-> CellsOf(m)[cell]]
  BY DEF CellsOf
<1>3. Cells \subseteq StoredBefore(StructOrder, m)
  <2>1. \A j \in 1 .. 8 : CellFits(m, StructOrder[j])
    BY <1>1 DEF StructOrder, Cells
  <2>2. {j \in DOMAIN StructOrder : \A k \in 1 .. j : CellFits(m, StructOrder[k])} = 1 .. 8
    BY <2>1 DEF StructOrder
  <2>3. StoredBefore(StructOrder, m) = {StructOrder[i] : i \in 1 .. 8}
    BY <2>2 DEF StoredBefore
  <2> QED
    BY <2>3 DEF StructOrder, Cells
<1>4. Cells \subseteq StoredBefore(NumpyOrder, m)
  <2>1. \A j \in 1 .. 8 : CellFits(m, NumpyOrder[j])
    BY <1>1 DEF NumpyOrder, Cells
  <2>2. {j \in DOMAIN NumpyOrder : \A k \in 1 .. j : CellFits(m, NumpyOrder[k])} = 1 .. 8
    BY <2>1 DEF NumpyOrder
  <2>3. StoredBefore(NumpyOrder, m) = {NumpyOrder[i] : i \in 1 .. 8}
    BY <2>2 DEF StoredBefore
  <2> QED
    BY <2>3 DEF NumpyOrder, Cells
<1> QED
  BY <1>2, <1>3, <1>4 DEF StructWrite, NumpyWrite, DagrPyWrite

\* What commit() reads from it is what append() makes of the object.
LEMMA SlotRoundTrip ==
    ASSUME NEW m, WellFormed(m), SlotFits(m)
    PROVE  FromSlot(CellsOf(m)) = FromMetrics(m)
<1> DEFINE c == m["completed"]
           slt == CellsOf(m)
<1>1. Two32 \in Nat \ {0} /\ 2 * Half \in Nat \ {0}
  BY SlotConstants, RecordConstants
<1>2. /\ slt["num_context_tokens"] = m["num_context_tokens"]
      /\ slt["batch_size"] = m["batch_size"]
      /\ slt["cache_hit_tokens"] = m["cache_hit_tokens"]
      /\ slt["c_context"] = IF c = None THEN 0 ELSE c["num_context_tokens"]
      /\ slt["c_size"] = IF c = None THEN 0 ELSE c["batch_size"]
      /\ slt["c_bits"] = IF c = None THEN {}
                          ELSE {"always"} \cup (IF c["batch_type"] = "TG" THEN {"TG"} ELSE {})
      /\ slt["presence"] = {"always"} \cup (IF m["cache_hit_tokens"] # 0 THEN {"hit"} ELSE {})
                                       \cup (IF c # None THEN {"completed"} ELSE {})
      /\ slt["kinds"] = (IF m["batch_type"] = "TG" THEN {"TG"} ELSE {})
                          \cup (IF m["overlap_active"] THEN {"overlap"} ELSE {})
  BY DEF CellsOf, Cells
<1>3. /\ slt["num_context_tokens"] \in 0 .. 2 * Half - 1
      /\ slt["c_context"] \in 0 .. 2 * Half - 1
      /\ slt["batch_size"] \in 0 .. Two32 - 1 /\ slt["c_size"] \in 0 .. Two32 - 1
      /\ slt["cache_hit_tokens"] \in 0 .. Two32 - 1
  BY DEF SlotFits, CellFits, Cells, Cells32, Cells64
<1> HIDE DEF slt
<1>4. /\ Unsigned(m["num_context_tokens"]) = m["num_context_tokens"]
      /\ Wrapped(m["batch_size"]) = m["batch_size"]
      /\ Wrapped(m["cache_hit_tokens"]) = m["cache_hit_tokens"]
  BY <1>1, <1>2, <1>3, SmallRemainder DEF Unsigned, Wrapped
<1>5. c # None => /\ Unsigned(c["num_context_tokens"]) = c["num_context_tokens"]
                  /\ Wrapped(c["batch_size"]) = c["batch_size"]
  BY <1>1, <1>2, <1>3, SmallRemainder DEF Unsigned, Wrapped
<1>6. c # None => c["batch_type"] \in {"CE", "TG"}
  BY DEF WellFormed, Completed
<1> HIDE DEF c
<1>7. m["batch_type"] \in {"CE", "TG"} /\ m["overlap_active"] \in BOOLEAN
  BY DEF WellFormed
<1>8. /\ FromSlot(slt).batch_type = m["batch_type"]
      /\ FromSlot(slt).overlap_active = m["overlap_active"]
  BY <1>2, <1>7 DEF FromSlot
<1>9. FromSlot(slt).cache_hit_tokens =
         IF m["cache_hit_tokens"] = 0 THEN None ELSE Wrapped(m["cache_hit_tokens"])
  BY <1>2, <1>4 DEF FromSlot
<1>10. FromSlot(slt).completed =
         IF c = None THEN None
         ELSE [batch_type |-> c["batch_type"], batch_size |-> Wrapped(c["batch_size"]),
               context_tokens |-> Unsigned(c["num_context_tokens"])]
  BY <1>2, <1>5, <1>6 DEF FromSlot
<1> QED
  BY <1>2, <1>4, <1>8, <1>9, <1>10 DEF FromSlot, FromMetrics, slt, c

-----------------------------------------------------------------------------
(* The counters.                                                             *)

\* Latencies are counted where they are measured.
Measured(m) == m.nixl_read_latency_count = 0 => m.nixl_read_latency_total_ms = 0
KvOK(k, q) ==
    /\ q \in [own : CounterValues, theirs : CounterValues]
    /\ Measured(q.own) /\ Measured(q.theirs)
    /\ ~k.metrics => q.theirs = ZeroMetrics

LEMMA CounterNames ==
    /\ DOMAIN ZeroMetrics = {"device_blocks_served", "nixl_read_latency_total_ms",
                             "nixl_read_latency_count"}
    /\ ZeroMetrics \in CounterValues /\ Measured(ZeroMetrics)
    /\ \A c \in DOMAIN ZeroMetrics : ZeroMetrics[c] = 0
BY DEF ZeroMetrics, CounterValues, Measured

LEMMA AddOK ==
    ASSUME NEW a \in CounterValues, NEW b \in CounterValues
    PROVE  /\ Add(a, b) \in CounterValues
           /\ \A c \in DOMAIN ZeroMetrics : Add(a, b)[c] = a[c] + b[c]
           /\ Measured(a) /\ Measured(b) => Measured(Add(a, b))
<1>1. /\ Add(a, b) \in CounterValues
      /\ \A c \in DOMAIN ZeroMetrics : Add(a, b)[c] = a[c] + b[c]
  BY DEF Add, CounterValues
<1>2. \A x \in {a, b} : /\ x["nixl_read_latency_count"] \in Nat
                        /\ x["nixl_read_latency_total_ms"] \in Nat
  BY CounterNames DEF CounterValues
<1>3. /\ Add(a, b)["nixl_read_latency_count"] =
            a["nixl_read_latency_count"] + b["nixl_read_latency_count"]
      /\ Add(a, b)["nixl_read_latency_total_ms"] =
            a["nixl_read_latency_total_ms"] + b["nixl_read_latency_total_ms"]
  BY <1>1, CounterNames
<1> QED
  BY <1>1, <1>2, <1>3 DEF Measured

\* What a step reports of the counters it read.
LEMMA PartOfValues ==
    ASSUME NEW b, NEW h, NEW m \in CounterValues, Measured(m)
    PROVE  Part(KvValues(b, h, m)) = m
<1>1. /\ m["nixl_read_latency_count"] \in Nat /\ m["nixl_read_latency_total_ms"] \in Nat
      /\ m = [c \in DOMAIN ZeroMetrics |-> m[c]]
  BY CounterNames DEF CounterValues
<1>2. Quotient(m["nixl_read_latency_total_ms"], m["nixl_read_latency_count"]) =
         <<m["nixl_read_latency_total_ms"], m["nixl_read_latency_count"]>>
  BY <1>1 DEF Quotient, Measured
<1>3. /\ Part(KvValues(b, h, m)) = [device_blocks_served |-> m["device_blocks_served"],
            nixl_read_latency_total_ms |-> m["nixl_read_latency_total_ms"],
            nixl_read_latency_count |-> m["nixl_read_latency_count"]]
  BY <1>2 DEF Part, KvValues
<1> QED
  BY <1>1, <1>3, CounterNames

\* Read and reset, whichever way: what is left and what was read is what there was,
\* unless the connector's counters are read and never reset.
LEMMA ReadAndReset ==
    ASSUME NEW c, NEW k \in CacheKinds, NEW use, NEW q, KvOK(k, q),
           NEW p, p = KvPart(c, k, use, q)
    PROVE  /\ KvOK(k, p.kv) /\ Part(p.values) \in CounterValues
           /\ Resets(k) => \A x \in DOMAIN ZeroMetrics :
                 Part(p.values)[x] + p.kv.own[x] + p.kv.theirs[x] = q.own[x] + q.theirs[x]
<1> DEFINE Fine(values, left) ==
             /\ KvOK(k, left) /\ Part(values) \in CounterValues
             /\ Resets(k) => \A x \in DOMAIN ZeroMetrics :
                   Part(values)[x] + left.own[x] + left.theirs[x] = q.own[x] + q.theirs[x]
<1>1. /\ q.own \in CounterValues /\ Measured(q.own)
      /\ q.theirs \in CounterValues /\ Measured(q.theirs)
      /\ \A x \in DOMAIN ZeroMetrics : q.own[x] \in Nat /\ q.theirs[x] \in Nat
      /\ q = [own |-> q.own, theirs |-> q.theirs]
      /\ ~k.metrics => q.theirs = ZeroMetrics
  BY DEF KvOK, CounterValues
<1>2. /\ Counters(k, q) \in CounterValues /\ Measured(Counters(k, q))
      /\ \A x \in DOMAIN ZeroMetrics : Counters(k, q)[x] = q.own[x] + q.theirs[x]
  BY <1>1, AddOK, CounterNames DEF Counters
<1>3. /\ ManagerMetrics(c, k, q) \in CounterValues /\ Measured(ManagerMetrics(c, k, q))
      /\ \A x \in DOMAIN ZeroMetrics : ManagerMetrics(c, k, q)[x] = q.own[x] + q.theirs[x]
  BY <1>1, <1>2, CounterNames DEF ManagerMetrics, EmptyMetrics
<1>4. /\ KvOK(k, ResetMetrics(k, q))
      /\ Resets(k) => \A x \in DOMAIN ZeroMetrics :
            ResetMetrics(k, q).own[x] = 0 /\ ResetMetrics(k, q).theirs[x] = 0
  BY <1>1, CounterNames DEF KvOK, ResetMetrics, Resets
<1>5. CASE ~k.present
  <2>1. p = [values |-> NoKvValues, kv |-> q]
    BY <1>5 DEF KvPart
  <2>2. Part(NoKvValues) = ZeroMetrics
    BY PartOfValues, CounterNames DEF NoKvValues
  <2> QED
    BY <1>1, <2>1, <2>2, CounterNames
<1>6. ASSUME NEW b, NEW h, NEW m \in CounterValues, Measured(m), NEW left, KvOK(k, left),
             \A x \in DOMAIN ZeroMetrics : m[x] = q.own[x] + q.theirs[x],
             Resets(k) => \A x \in DOMAIN ZeroMetrics : left.own[x] = 0 /\ left.theirs[x] = 0
      PROVE  Fine(KvValues(b, h, m), left)
  <2>1. Part(KvValues(b, h, m)) = m
    BY <1>6, PartOfValues
  <2>2. \A x \in DOMAIN ZeroMetrics : m[x] \in Nat
    BY DEF CounterValues
  <2> QED
    BY <1>6, <2>1, <2>2
<1>7. CASE k.present /\ ~(c.utilsSnapshot /\ c.cacheSnapshot)
  <2>1. p = PerCall(c, k, use, q)
    BY <1>7 DEF KvPart
  <2>2. Fine(PerCall(c, k, use, q).values, PerCall(c, k, use, q).kv)
    <3> HIDE DEF Fine
    <3> QED
      BY <1>3, <1>4, <1>6 DEF PerCall
  <2> QED
    BY <2>1, <2>2
<1>8. CASE k.present /\ c.utilsSnapshot /\ c.cacheSnapshot
  <2>1. p = Snapshot(c, k, use, q)
    BY <1>8 DEF KvPart
  <2>2. /\ SnapshotMetrics(c, k, q) \in CounterValues /\ Measured(SnapshotMetrics(c, k, q))
        /\ \A x \in DOMAIN ZeroMetrics :
              SnapshotMetrics(c, k, q)[x] = q.own[x] + q.theirs[x]
    <3>1. CASE Simple(k)
      <4>1. SnapshotMetrics(c, k, q) = q.own /\ q.theirs = ZeroMetrics
        BY <1>1, <3>1 DEF Simple, SnapshotFlags, EmptyMetrics, SnapshotMetrics, OwnAttribute
      <4> QED
        BY <1>1, <4>1, CounterNames
    <3>2. CASE ~Simple(k)
      BY <1>3, <3>2 DEF SnapshotMetrics
    <3> QED
      BY <3>1, <3>2
  <2>3. /\ KvOK(k, SnapshotReset(k, q))
        /\ Resets(k) => \A x \in DOMAIN ZeroMetrics :
              SnapshotReset(k, q).own[x] = 0 /\ SnapshotReset(k, q).theirs[x] = 0
    <3>1. CASE Simple(k)
      <4>1. /\ SnapshotReset(k, q) = [own |-> ZeroMetrics, theirs |-> q.theirs]
            /\ q.theirs = ZeroMetrics
        BY <1>1, <3>1 DEF Simple, SnapshotFlags, EmptyMetrics, SnapshotReset
      <4> QED
        BY <1>1, <4>1, CounterNames DEF KvOK
    <3>2. CASE ~Simple(k)
      BY <1>4, <3>2 DEF SnapshotReset
    <3> QED
      BY <3>1, <3>2
  <2>4. Fine(Snapshot(c, k, use, q).values, Snapshot(c, k, use, q).kv)
    <3> HIDE DEF Fine
    <3> QED
      BY <2>2, <2>3, <1>6 DEF Snapshot
  <2> QED
    BY <2>1, <2>4
<1> QED
  BY <1>5, <1>7, <1>8

-----------------------------------------------------------------------------
(* Sums.                                                                   *)

\* Of the subsets of a finite set in a family, one is the smallest.
LEMMA Smallest ==
    ASSUME NEW S, IsFiniteSet(S), NEW F \in SUBSET (SUBSET S), F # {}
    PROVE  \E T \in F : \A x \in T : T \ {x} \notin F
<1>1. \A T \in F : IsFiniteSet(T) /\ Cardinality(T) \in Nat
  BY FS_Subset, FS_CardinalityType
<1> DEFINE N == {Cardinality(T) : T \in F}
<1>2. N \in SUBSET Nat /\ N # {} /\ \A T \in F : Cardinality(T) \in N
  BY <1>1
<1>3. PICK T \in F : \A U \in F : Cardinality(T) <= Cardinality(U)
  <2>1. \A n \in N : \E T \in F : n = Cardinality(T)
    OBVIOUS
  <2> HIDE DEF N
  <2>2. PICK n \in N : \A m \in N : n <= m
    BY <1>2, HasLeast
  <2>3. PICK T \in F : n = Cardinality(T)
    BY <2>1
  <2> QED
    BY <1>2, <2>2, <2>3
<1>4. ASSUME NEW x \in T
      PROVE  T \ {x} \notin F
  <2>1. Cardinality(T \ {x}) = Cardinality(T) - 1
    BY <1>1, FS_RemoveElement
  <2>2. ~(Cardinality(T) <= Cardinality(T) - 1)
    BY <1>1
  <2> QED
    BY <1>3, <2>1, <2>2
<1> QED
  BY <1>4

\* h gives for each set of places the sum of what v has there.
SumsOf(h, v) ==
    /\ h \in [SUBSET (DOMAIN v) -> Int] /\ h[{}] = 0
    /\ \A s \in SUBSET (DOMAIN v) : \A x \in DOMAIN v \ s : h[s \cup {x}] = h[s] + v[x]

\* With sums for all places but one there are sums for all.
LEMMA OneMoreSums ==
    ASSUME NEW v, \A y \in DOMAIN v : v[y] \in Int, NEW x \in DOMAIN v,
           NEW h, SumsOf(h, [y \in DOMAIN v \ {x} |-> v[y]])
    PROVE  \E g : SumsOf(g, v)
<1> DEFINE S == DOMAIN v
           g == [s \in SUBSET S |-> IF x \in s THEN h[s \ {x}] + v[x] ELSE h[s]]
<1>1. /\ h \in [SUBSET (S \ {x}) -> Int] /\ h[{}] = 0
      /\ \A s \in SUBSET (S \ {x}) : \A y \in (S \ {x}) \ s : h[s \cup {y}] = h[s] + v[y]
  BY DEF SumsOf
<1>2. g \in [SUBSET S -> Int] /\ g[{}] = 0
  BY <1>1
<1>3. ASSUME NEW s \in SUBSET S, NEW y \in S \ s
      PROVE  g[s \cup {y}] = g[s] + v[y]
  <2>1. s \cup {y} \in SUBSET S
    OBVIOUS
  <2>2. CASE y = x
    <3>1. (s \cup {y}) \ {x} = s
      BY <2>2
    <3> QED
      BY <2>1, <2>2, <3>1
  <2>3. CASE y # x /\ x \in s
    <3>1. (s \cup {y}) \ {x} = (s \ {x}) \cup {y}
      BY <2>3
    <3>2. h[(s \ {x}) \cup {y}] = h[s \ {x}] + v[y]
      BY <1>1, <2>3
    <3>3. h[s \ {x}] \in Int /\ v[x] \in Int /\ v[y] \in Int
      BY <1>1
    <3>4. g[s \cup {y}] = h[(s \ {x}) \cup {y}] + v[x] /\ g[s] = h[s \ {x}] + v[x]
      BY <2>1, <2>3, <3>1
    <3> HIDE DEF g
    <3> QED
      BY <3>2, <3>3, <3>4
  <2>4. CASE y # x /\ x \notin s
    BY <1>1, <2>1, <2>4
  <2> QED
    BY <2>2, <2>3, <2>4
<1> HIDE DEF g
<1>4. SumsOf(g, v)
  BY <1>2, <1>3 DEF SumsOf
<1> QED
  BY <1>4

\* Numbers at finitely many places have sums.
LEMMA SumsExist ==
    ASSUME NEW S, IsFiniteSet(S), NEW v \in [S -> Int]
    PROVE  \E h : SumsOf(h, v)
<1> DEFINE On(T) == [x \in T |-> v[x]]
           F == {T \in SUBSET S : ~ \E h : SumsOf(h, On(T))}
<1>1. CASE F # {}
  <2>1. PICK T \in F : \A x \in T : T \ {x} \notin F
    <3>1. F \in SUBSET (SUBSET S)
      OBVIOUS
    <3> HIDE DEF F
    <3> QED
      BY <1>1, <3>1, Smallest
  <2>2. T # {}
    <3>1. SumsOf([s \in {{}} |-> 0], On({}))
      BY DEF SumsOf
    <3> QED
      BY <2>1, <3>1
  <2>3. PICK x \in T : TRUE
    BY <2>2
  <2>4. PICK h : SumsOf(h, On(T \ {x}))
    BY <2>1
  <2>5. On(T \ {x}) = [y \in DOMAIN On(T) \ {x} |-> On(T)[y]]
    OBVIOUS
  <2>6. \A y \in DOMAIN On(T) : On(T)[y] \in Int
    BY <2>1
  <2>7. x \in DOMAIN On(T)
    OBVIOUS
  <2>8. PICK w : w = On(T)
    OBVIOUS
  <2>9. \E g : SumsOf(g, w)
    <3> HIDE DEF On
    <3>1. SumsOf(h, [y \in DOMAIN w \ {x} |-> w[y]]) /\ x \in DOMAIN w
      BY <2>4, <2>5, <2>7, <2>8
    <3>2. \A y \in DOMAIN w : w[y] \in Int
      BY <2>6, <2>8
    <3> QED
      BY ONLY <3>1, <3>2, OneMoreSums
  <2> QED
    BY <2>1, <2>8, <2>9
<1>2. CASE F = {}
  <2>1. On(S) = v
    OBVIOUS
  <2>2. \E h : SumsOf(h, On(S))
    BY <1>2
  <2> QED
    BY <2>1, <2>2
<1> QED
  BY <1>1, <1>2

\* c sums one place after the other, in the order in which CHOOSE takes them, as the
\* library's definition does.
One(s) == CHOOSE x \in s : TRUE
Unrolls(c, v, T) ==
    /\ c[{}] = 0
    /\ \A s \in SUBSET T : s # {} => c[s] = v[One(s)] + c[s \ {One(s)}]

\* The sum is the same, whatever the order it is taken in.
LEMMA SumsUnroll ==
    ASSUME NEW v, NEW h, SumsOf(h, v), \A x \in DOMAIN v : v[x] \in Int,
           NEW T \in SUBSET DOMAIN v
    PROVE  Unrolls(h, v, T)
<1>1. ASSUME NEW s \in SUBSET T, s # {}
      PROVE  h[s] = v[One(s)] + h[s \ {One(s)}]
  <2>1. One(s) \in s
    BY <1>1 DEF One
  <2> HIDE DEF One
  <2>2. /\ s \ {One(s)} \in SUBSET DOMAIN v /\ One(s) \in DOMAIN v \ (s \ {One(s)})
        /\ (s \ {One(s)}) \cup {One(s)} = s
    BY <2>1
  <2>3. h[(s \ {One(s)}) \cup {One(s)}] = h[s \ {One(s)}] + v[One(s)]
    BY <2>2 DEF SumsOf
  <2>4. h[s \ {One(s)}] \in Int /\ v[One(s)] \in Int
    BY <2>2 DEF SumsOf
  <2>5. h[s] = h[s \ {One(s)}] + v[One(s)]
    BY <2>2, <2>3
  <2> QED
    BY ONLY <2>4, <2>5
<1> QED
  BY <1>1 DEF Unrolls, SumsOf

\* Whatever unrolls like that is the sum.
LEMMA SumIs ==
    ASSUME NEW v, NEW h, SumsOf(h, v), \A x \in DOMAIN v : v[x] \in Int,
           NEW T \in SUBSET DOMAIN v, IsFiniteSet(T), NEW c, Unrolls(c, v, T)
    PROVE  c[T] = h[T]
<1> DEFINE F == {s \in SUBSET T : c[s] # h[s]}
<1>1. Unrolls(h, v, T)
  BY SumsUnroll
<1>2. CASE F # {}
  <2>1. PICK s \in F : \A x \in s : s \ {x} \notin F
    <3>1. F \in SUBSET (SUBSET T)
      OBVIOUS
    <3> HIDE DEF F
    <3> QED
      BY <1>2, <3>1, Smallest
  <2>2. s # {}
    BY <1>1, <2>1 DEF Unrolls
  <2>3. c[s \ {One(s)}] = h[s \ {One(s)}]
    <3>1. One(s) \in s
      BY <2>2 DEF One
    <3> QED
      BY <2>1, <3>1
  <2>4. c[s] = v[One(s)] + c[s \ {One(s)}] /\ h[s] = v[One(s)] + h[s \ {One(s)}]
    BY <1>1, <2>1, <2>2 DEF Unrolls
  <2> QED
    BY <2>1, <2>3, <2>4
<1>3. CASE F = {}
  BY <1>3
<1> QED
  BY <1>2, <1>3

\* What the model's two sums are.
LEMMA SumOf ==
    ASSUME NEW f, IsFiniteSet(DOMAIN f), \A x \in DOMAIN f : f[x] \in Int,
           NEW h, SumsOf(h, f)
    PROVE  Sum(f) = h[DOMAIN f]
<1> DEFINE S == DOMAIN f
           Is(g) == g = [s \in SUBSET S |-> IF s = {} THEN 0
                                            ELSE f[CHOOSE x \in s : TRUE] + g[s \ {CHOOSE x \in s : TRUE}]]
           c == CHOOSE g : Is(g)
<1>1. Sum(f) = c[S]
  BY DEF Sum, MapThenSumSet, MapThenFoldSet
<1>2. Is(h)
  <2>1. Unrolls(h, f, S)
    BY SumsUnroll
  <2> QED
    BY <2>1 DEF Unrolls, One, SumsOf
<1> HIDE DEF Is
<1>3. Is(c)
  BY <1>2
<1> HIDE DEF c
<1>4. Unrolls(c, f, S)
  BY <1>3 DEF Is, Unrolls, One
<1> QED
  BY <1>1, <1>4, SumIs

\* One of the numbers of every context, at its place.
NumberAt(batches, field) == [p \in Contexts(batches) |-> batches[p[1]][p[2]][field]]

LEMMA OverIs ==
    ASSUME NEW batches, NEW field, NEW chosen \in SUBSET Contexts(batches), IsFiniteSet(chosen),
           NEW h, SumsOf(h, NumberAt(batches, field)),
           \A p \in Contexts(batches) : batches[p[1]][p[2]][field] \in Int
    PROVE  Over(batches, chosen, field) = h[chosen]
<1> DEFINE Is(g) == g = [s \in SUBSET chosen |-> IF s = {} THEN 0
                            ELSE batches[(CHOOSE x \in s : TRUE)[1]][(CHOOSE x \in s : TRUE)[2]][field]
                                 + g[s \ {CHOOSE x \in s : TRUE}]]
           c == CHOOSE g : Is(g)
           v == NumberAt(batches, field)
<1>1. Over(batches, chosen, field) = c[chosen]
  BY DEF Over, MapThenSumSet, MapThenFoldSet
<1>2. /\ DOMAIN v = Contexts(batches)
      /\ \A p \in Contexts(batches) : v[p] = batches[p[1]][p[2]][field] /\ v[p] \in Int
  BY DEF NumberAt
<1>3. \A s \in SUBSET chosen : s # {} =>
         v[One(s)] = batches[(CHOOSE x \in s : TRUE)[1]][(CHOOSE x \in s : TRUE)[2]][field]
  <2>1. ASSUME NEW s \in SUBSET chosen, s # {}
        PROVE  One(s) \in Contexts(batches)
    BY <2>1 DEF One
  <2> QED
    BY <1>2, <2>1 DEF One
<1> HIDE DEF v
<1> DEFINE hh == [s \in SUBSET chosen |-> h[s]]
<1>4. Is(hh)
  <2>1. Unrolls(h, v, chosen)
    BY <1>2, SumsUnroll DEF v
  <2>2. \A s \in SUBSET chosen : s \ {One(s)} \in SUBSET chosen
    OBVIOUS
  <2>3. hh[{}] = 0
    BY <2>1 DEF Unrolls
  <2>4. ASSUME NEW s \in SUBSET chosen, s # {}
        PROVE  hh[s] = batches[(CHOOSE x \in s : TRUE)[1]][(CHOOSE x \in s : TRUE)[2]][field]
                       + hh[s \ {CHOOSE x \in s : TRUE}]
    <3>1. hh[s] = v[One(s)] + hh[s \ {One(s)}]
      BY <2>1, <2>2, <2>4 DEF Unrolls
    <3>2. v[One(s)] = batches[(CHOOSE x \in s : TRUE)[1]][(CHOOSE x \in s : TRUE)[2]][field]
      BY <1>3, <2>4
    <3> QED
      BY <3>1, <3>2 DEF One
  <2>5. hh = [s \in SUBSET chosen |-> hh[s]]
    OBVIOUS
  <2> HIDE DEF hh
  <2> QED
    BY <2>3, <2>4, <2>5
<1> HIDE DEF Is
<1>5. Is(c)
  BY <1>4
<1> HIDE DEF c
<1>6. Unrolls(c, v, chosen)
  BY <1>3, <1>5 DEF Is, Unrolls, One
<1> QED
  BY <1>1, <1>2, <1>6, SumIs DEF v

-----------------------------------------------------------------------------
(* One pass over the contexts, step by step.                                 *)

Ctx == [active : Nat, processed : Nat, generated : Nat, padding : BOOLEAN]
Accs == [input_tokens : Nat, context_tokens : Nat, num_padding : Nat, is_ce : BOOLEAN,
         replica_input : Nat, replica_context : Nat,
         per_replica_input_tokens : Seq(Nat), per_replica_context_tokens : Seq(Nat)]

\* What a context adds, field by field.
Visited(acc, ctx, next) ==
    /\ next \in Accs
    /\ next.input_tokens = acc.input_tokens + ctx.active
    /\ next.context_tokens = acc.context_tokens + ctx.processed
    /\ next.is_ce <=> acc.is_ce \/ ctx.generated = 0
    /\ next.num_padding = IF ctx.padding THEN acc.num_padding + 1 ELSE acc.num_padding
    /\ next.replica_input = IF ctx.padding THEN acc.replica_input
                            ELSE acc.replica_input + ctx.active
    /\ next.replica_context = IF ctx.padding THEN acc.replica_context
                              ELSE acc.replica_context + ctx.processed
    /\ next.per_replica_input_tokens = acc.per_replica_input_tokens
    /\ next.per_replica_context_tokens = acc.per_replica_context_tokens

LEMMA VisitIs ==
    ASSUME NEW acc \in Accs, NEW ctx \in Ctx
    PROVE  Visited(acc, ctx, Visit(acc, ctx))
<1> DEFINE ce == acc.is_ce \/ ctx.generated = 0
           seen == [acc EXCEPT !.input_tokens = acc.input_tokens + ctx.active,
                               !.context_tokens = acc.context_tokens + ctx.processed,
                               !.is_ce = acc.is_ce \/ ctx.generated = 0]
<1>1. /\ acc.input_tokens + ctx.active \in Nat /\ acc.context_tokens + ctx.processed \in Nat
      /\ acc.num_padding + 1 \in Nat /\ acc.replica_input + ctx.active \in Nat
      /\ acc.replica_context + ctx.processed \in Nat
  <2>1. /\ acc.input_tokens \in Nat /\ acc.context_tokens \in Nat /\ acc.num_padding \in Nat
        /\ acc.replica_input \in Nat /\ acc.replica_context \in Nat
    BY DEF Accs
  <2>2. ctx.active \in Nat /\ ctx.processed \in Nat
    BY DEF Ctx
  <2> QED
    BY ONLY <2>1, <2>2
<1>2. PICK c \in BOOLEAN : c = ce /\ (c <=> ce)
  OBVIOUS
<1>3. seen = [acc EXCEPT !.input_tokens = acc.input_tokens + ctx.active,
                         !.context_tokens = acc.context_tokens + ctx.processed, !.is_ce = c]
  BY <1>2
<1> HIDE DEF seen
<1>4. /\ seen \in Accs /\ seen.input_tokens = acc.input_tokens + ctx.active
      /\ seen.context_tokens = acc.context_tokens + ctx.processed
      /\ seen.num_padding = acc.num_padding /\ seen.replica_input = acc.replica_input
      /\ seen.replica_context = acc.replica_context
      /\ seen.per_replica_input_tokens = acc.per_replica_input_tokens
      /\ seen.per_replica_context_tokens = acc.per_replica_context_tokens
  BY <1>1, <1>3 DEF Accs
<1>5. seen.is_ce = c
  BY <1>3 DEF Accs
<1>6. Visit(acc, ctx) = IF ctx.padding THEN [seen EXCEPT !.num_padding = acc.num_padding + 1]
                        ELSE [seen EXCEPT !.replica_input = acc.replica_input + ctx.active,
                                          !.replica_context = acc.replica_context + ctx.processed]
  BY <1>4 DEF Visit, seen
<1> HIDE DEF ce
<1>7. CASE ctx.padding
  <2> DEFINE next == [seen EXCEPT !.num_padding = acc.num_padding + 1]
  <2>1. /\ next \in Accs /\ next.num_padding = acc.num_padding + 1
        /\ next.input_tokens = seen.input_tokens /\ next.context_tokens = seen.context_tokens
        /\ next.replica_input = seen.replica_input /\ next.replica_context = seen.replica_context
        /\ next.per_replica_input_tokens = seen.per_replica_input_tokens
        /\ next.per_replica_context_tokens = seen.per_replica_context_tokens
    BY <1>1, <1>4 DEF Accs
  <2>2. next.is_ce = c
    BY <1>4, <1>5 DEF Accs
  <2>3. Visit(acc, ctx) = next
    BY <1>6, <1>7
  <2> HIDE DEF next
  <2>4. next.is_ce <=> acc.is_ce \/ ctx.generated = 0
    BY <1>2, <2>2 DEF ce
  <2> QED
    BY <1>4, <1>7, <2>1, <2>3, <2>4 DEF Visited
<1>8. CASE ~ctx.padding
  <2> DEFINE next == [seen EXCEPT !.replica_input = acc.replica_input + ctx.active,
                                  !.replica_context = acc.replica_context + ctx.processed]
  <2>1. /\ next \in Accs /\ next.num_padding = seen.num_padding
        /\ next.input_tokens = seen.input_tokens /\ next.context_tokens = seen.context_tokens
        /\ next.replica_input = acc.replica_input + ctx.active
        /\ next.replica_context = acc.replica_context + ctx.processed
        /\ next.per_replica_input_tokens = seen.per_replica_input_tokens
        /\ next.per_replica_context_tokens = seen.per_replica_context_tokens
    BY <1>1, <1>4 DEF Accs
  <2>2. next.is_ce = c
    BY <1>4, <1>5 DEF Accs
  <2>3. Visit(acc, ctx) = next
    BY <1>6, <1>8
  <2> HIDE DEF next
  <2>4. next.is_ce <=> acc.is_ce \/ ctx.generated = 0
    BY <1>2, <2>2 DEF ce
  <2> QED
    BY <1>4, <1>8, <2>1, <2>3, <2>4 DEF Visited
<1> QED
  BY <1>7, <1>8

LEMMA VisitIn ==
    ASSUME NEW acc \in Accs, NEW ctx \in Ctx
    PROVE  Visit(acc, ctx) \in Accs
BY VisitIs DEF Visited

\* t is what the pass knows after each context of a batch.
VisitRun(t, acc, b) ==
    /\ t \in [0..Len(b) -> Accs] /\ t[0] = acc
    /\ \A i \in 1..Len(b) : t[i] = Visit(t[i - 1], b[i])

LEMMA VisitRuns ==
    ASSUME NEW acc \in Accs, NEW b \in Batch
    PROVE  \E t : VisitRun(t, acc, b) /\ t[Len(b)] = FoldLeft(Visit, acc, b)
<1> DEFINE n == Len(b)
           F == [x \in Accs \X (1..n) |-> Visit(x[1], b[x[2]])]
           Is(c) == c = [s \in SUBSET (1..n) |->
                            IF s = {} THEN acc ELSE Visit(c[s \ {Max(s)}], b[Max(s)])]
           chosen == CHOOSE c : Is(c)
<1>1. FoldLeft(Visit, acc, b) = chosen[1..n]
  <2>1. DOMAIN b = 1..n
    BY LenProperties DEF Batch, Ctx
  <2> QED
    BY <2>1 DEF FoldLeft, MapThenFoldSet
<1>2. n \in Nat /\ \A i \in 1..n : b[i] \in Ctx
  BY LenProperties, ElementOfSeq DEF Batch, Ctx
<1>3. \A x \in Accs, i \in 1..n : F[<<x, i>>] = Visit(x, b[i]) /\ F[<<x, i>>] \in Accs
  BY <1>2, VisitIn
<1> HIDE DEF F, n
<1>4. PICK g : FoldOf(g, n, Accs, acc, F)
  BY <1>2, <1>3, FoldExists
<1>5. Is(g)
  <2>1. ASSUME NEW s \in SUBSET (1..n), s # {}
        PROVE  g[s] = Visit(g[s \ {Max(s)}], b[Max(s)])
    <3>1. Max(s) \in 1..n /\ s \ {Max(s)} \in SUBSET (1..n)
      BY <1>2, <2>1, MaxOfPositions
    <3> QED
      BY <1>3, <1>4, <2>1, <3>1 DEF FoldOf
  <2> QED
    BY <1>4, <2>1 DEF FoldOf
<1> HIDE DEF Is
<1>6. PICK c : c = chosen /\ Is(c)
  BY <1>5
<1> HIDE DEF chosen
<1>7. c[1..n] = g[1..n]
  <2>1. c[{}] = acc
    BY <1>6 DEF Is
  <2>2. ASSUME NEW s \in SUBSET (1..n), s # {}, c[s \ {Max(s)}] = g[s \ {Max(s)}]
        PROVE  c[s] = F[<<g[s \ {Max(s)}], Max(s)>>]
    <3>1. Max(s) \in 1..n /\ s \ {Max(s)} \in SUBSET (1..n)
      BY <1>2, <2>2, MaxOfPositions
    <3>2. g[s \ {Max(s)}] \in Accs
      BY <1>4, <3>1 DEF FoldOf
    <3>3. c[s] = Visit(c[s \ {Max(s)}], b[Max(s)])
      BY <1>6, <2>2 DEF Is
    <3>4. F[<<g[s \ {Max(s)}], Max(s)>>] = Visit(g[s \ {Max(s)}], b[Max(s)])
      BY <1>3, <3>1, <3>2
    <3> QED
      BY <2>2, <3>3, <3>4
  <2>3. Follows(c, g, n, acc, F)
    BY <2>1, <2>2 DEF Follows
  <2> QED
    BY <1>2, <1>4, <2>3, FoldUnique
<1>8. PICK t : TakesSteps(t, n, Accs, acc, F) /\ Reaches(t, n, g)
  BY <1>2, <1>3, <1>4, FoldSteps
<1>9. VisitRun(t, acc, b)
  <2>1. ASSUME NEW i \in 1..n
        PROVE  t[i] = Visit(t[i - 1], b[i])
    <3>1. t[i - 1] \in Accs /\ t[i] = F[<<t[i - 1], i>>]
      BY <1>2, <1>8 DEF TakesSteps
    <3> QED
      BY <1>3, <3>1
  <2> QED
    BY <1>8, <2>1 DEF VisitRun, TakesSteps, n
<1> QED
  BY <1>1, <1>6, <1>7, <1>8, <1>9 DEF n, Reaches

LEMMA VisitBatchIn ==
    ASSUME NEW acc \in Accs, NEW b \in Batch
    PROVE  VisitBatch(acc, b) \in Accs
<1> DEFINE start == [acc EXCEPT !.replica_input = 0, !.replica_context = 0]
           end == FoldLeft(Visit, start, b)
<1>1. start \in Accs
  BY DEF Accs
<1> HIDE DEF start
<1>2. PICK t : VisitRun(t, start, b) /\ t[Len(b)] = end
  BY <1>1, VisitRuns
<1>3. end \in Accs
  <2>1. Len(b) \in 0..Len(b)
    BY LenProperties DEF Batch
  <2> QED
    BY <1>2, <2>1 DEF VisitRun
<1> HIDE DEF end
<1>4. /\ Append(end.per_replica_input_tokens, end.replica_input) \in Seq(Nat)
      /\ Append(end.per_replica_context_tokens, end.replica_context) \in Seq(Nat)
  BY <1>3, AppendProperties DEF Accs
<1>5. [end EXCEPT !.per_replica_input_tokens = Append(end.per_replica_input_tokens, end.replica_input),
                  !.per_replica_context_tokens =
                      Append(end.per_replica_context_tokens, end.replica_context)] \in Accs
  BY <1>3, <1>4 DEF Accs
<1> QED
  BY <1>5 DEF VisitBatch, start, end

\* t is what it knows after each batch.
VisitBatchRun(t, acc, b) ==
    /\ t \in [0..Len(b) -> Accs] /\ t[0] = acc
    /\ \A i \in 1..Len(b) : t[i] = VisitBatch(t[i - 1], b[i])

LEMMA VisitBatchRuns ==
    ASSUME NEW acc \in Accs, NEW b \in Seq(Batch)
    PROVE  \E t : VisitBatchRun(t, acc, b) /\ t[Len(b)] = FoldLeft(VisitBatch, acc, b)
<1> DEFINE n == Len(b)
           F == [x \in Accs \X (1..n) |-> VisitBatch(x[1], b[x[2]])]
           Is(c) == c = [s \in SUBSET (1..n) |->
                            IF s = {} THEN acc ELSE VisitBatch(c[s \ {Max(s)}], b[Max(s)])]
           chosen == CHOOSE c : Is(c)
<1>1. FoldLeft(VisitBatch, acc, b) = chosen[1..n]
  <2>1. DOMAIN b = 1..n
    BY LenProperties
  <2> QED
    BY <2>1 DEF FoldLeft, MapThenFoldSet
<1>2. n \in Nat /\ \A i \in 1..n : b[i] \in Batch
  BY LenProperties, ElementOfSeq
<1>3. \A x \in Accs, i \in 1..n : F[<<x, i>>] = VisitBatch(x, b[i]) /\ F[<<x, i>>] \in Accs
  BY <1>2, VisitBatchIn
<1> HIDE DEF F, n
<1>4. PICK g : FoldOf(g, n, Accs, acc, F)
  BY <1>2, <1>3, FoldExists
<1>5. Is(g)
  <2>1. ASSUME NEW s \in SUBSET (1..n), s # {}
        PROVE  g[s] = VisitBatch(g[s \ {Max(s)}], b[Max(s)])
    <3>1. Max(s) \in 1..n /\ s \ {Max(s)} \in SUBSET (1..n)
      BY <1>2, <2>1, MaxOfPositions
    <3> QED
      BY <1>3, <1>4, <2>1, <3>1 DEF FoldOf
  <2> QED
    BY <1>4, <2>1 DEF FoldOf
<1> HIDE DEF Is
<1>6. PICK c : c = chosen /\ Is(c)
  BY <1>5
<1> HIDE DEF chosen
<1>7. c[1..n] = g[1..n]
  <2>1. c[{}] = acc
    BY <1>6 DEF Is
  <2>2. ASSUME NEW s \in SUBSET (1..n), s # {}, c[s \ {Max(s)}] = g[s \ {Max(s)}]
        PROVE  c[s] = F[<<g[s \ {Max(s)}], Max(s)>>]
    <3>1. Max(s) \in 1..n /\ s \ {Max(s)} \in SUBSET (1..n)
      BY <1>2, <2>2, MaxOfPositions
    <3>2. g[s \ {Max(s)}] \in Accs
      BY <1>4, <3>1 DEF FoldOf
    <3>3. c[s] = VisitBatch(c[s \ {Max(s)}], b[Max(s)])
      BY <1>6, <2>2 DEF Is
    <3>4. F[<<g[s \ {Max(s)}], Max(s)>>] = VisitBatch(g[s \ {Max(s)}], b[Max(s)])
      BY <1>3, <3>1, <3>2
    <3> QED
      BY <2>2, <3>3, <3>4
  <2>3. Follows(c, g, n, acc, F)
    BY <2>1, <2>2 DEF Follows
  <2> QED
    BY <1>2, <1>4, <2>3, FoldUnique
<1>8. PICK t : TakesSteps(t, n, Accs, acc, F) /\ Reaches(t, n, g)
  BY <1>2, <1>3, <1>4, FoldSteps
<1>9. VisitBatchRun(t, acc, b)
  <2>1. ASSUME NEW i \in 1..n
        PROVE  t[i] = VisitBatch(t[i - 1], b[i])
    <3>1. t[i - 1] \in Accs /\ t[i] = F[<<t[i - 1], i>>]
      BY <1>2, <1>8 DEF TakesSteps
    <3> QED
      BY <1>3, <3>1
  <2> QED
    BY <1>8, <2>1 DEF VisitBatchRun, TakesSteps, n
<1> QED
  BY <1>1, <1>6, <1>7, <1>8, <1>9 DEF n, Reaches

-----------------------------------------------------------------------------
(* The contexts, in the order of the pass.                                   *)

\* Those that are not padding, those of one replica, and those the pass has seen when
\* it has visited context i of batch k.
Real(b) == {p \in Contexts(b) : ~b[p[1]][p[2]].padding}
Of(b, k) == {p \in Real(b) : p[1] = k}
Places(b, k, i) == {p \in Contexts(b) : p[1] < k \/ (p[1] = k /\ p[2] <= i)}

LEMMA ContextsAre ==
    ASSUME NEW b \in Seq(Batch)
    PROVE  /\ \A p \in Contexts(b) : /\ p[1] \in 1..Len(b) /\ p[2] \in 1..Len(b[p[1]])
                                     /\ p = <<p[1], p[2]>>
                                     /\ b[p[1]][p[2]] \in Ctx
           /\ \A k \in 1..Len(b) : /\ b[k] \in Batch /\ Len(b[k]) \in Nat
                                   /\ \A i \in 1..Len(b[k]) : <<k, i>> \in Contexts(b)
           /\ Len(b) \in Nat /\ DOMAIN b = 1..Len(b)
<1>1. Len(b) \in Nat /\ DOMAIN b = 1..Len(b) /\ \A k \in 1..Len(b) : b[k] \in Batch
  BY LenProperties, ElementOfSeq
<1>2. \A k \in 1..Len(b) : Len(b[k]) \in Nat /\ DOMAIN b[k] = 1..Len(b[k])
  BY <1>1, LenProperties DEF Batch
<1>3. \A k \in 1..Len(b) : \A i \in 1..Len(b[k]) : b[k][i] \in Ctx
  BY <1>1, <1>2, ElementOfSeq DEF Batch, Ctx
<1>4. ASSUME NEW p \in Contexts(b)
      PROVE  p[1] \in 1..Len(b) /\ p[2] \in 1..Len(b[p[1]]) /\ p = <<p[1], p[2]>>
  <2>1. PICK k \in DOMAIN b : p \in {k} \X DOMAIN b[k]
    BY DEF Contexts
  <2> QED
    BY <1>1, <1>2, <2>1
<1>5. \A k \in 1..Len(b) : \A i \in 1..Len(b[k]) : <<k, i>> \in Contexts(b)
  BY <1>1, <1>2 DEF Contexts
<1> QED
  BY <1>1, <1>2, <1>3, <1>4, <1>5

LEMMA ContextsFinite ==
    ASSUME NEW b \in Seq(Batch)
    PROVE  IsFiniteSet(Contexts(b))
<1>1. DOMAIN b = 1..Len(b) /\ Len(b) \in Nat
  BY ContextsAre
<1> DEFINE f == [k \in 1..Len(b) |-> {k} \X DOMAIN b[k]]
           T == {{k} \X DOMAIN b[k] : k \in DOMAIN b}
<1>2. IsFiniteSet(T)
  <2>1. IsFiniteSet(1..Len(b))
    BY <1>1, FS_Interval
  <2>2. f \in Surjection(1..Len(b), T)
    BY <1>1 DEF Surjection
  <2> QED
    BY <2>1, <2>2, FS_Surjection
<1>3. \A s \in T : IsFiniteSet(s)
  <2>1. ASSUME NEW k \in 1..Len(b)
        PROVE  IsFiniteSet({k} \X DOMAIN b[k])
    <3>1. b[k] \in Batch /\ DOMAIN b[k] = 1..Len(b[k]) /\ Len(b[k]) \in Nat
      BY ContextsAre, LenProperties DEF Batch
    <3>2. IsFiniteSet(1..Len(b[k]))
      <4>1. PICK l \in Nat : l = Len(b[k])
        BY <3>1
      <4>2. IsFiniteSet(1..l)
        BY FS_Interval
      <4> QED
        BY <4>1, <4>2
    <3>3. IsFiniteSet({k})
      BY FS_Singleton
    <3>4. IsFiniteSet({k} \X (1..Len(b[k])))
      BY <3>2, <3>3, FS_Product
    <3> QED
      BY <3>1, <3>4
  <2> QED
    BY <1>1, <2>1
<1> QED
  BY <1>2, <1>3, FS_UNION DEF Contexts

LEMMA PlacesAre ==
    ASSUME NEW b \in Seq(Batch)
    PROVE  /\ Places(b, 1, 0) = {} /\ Places(b, Len(b) + 1, 0) = Contexts(b)
           /\ \A k \in 1..Len(b) :
                 /\ Places(b, k, Len(b[k])) = Places(b, k + 1, 0)
                 /\ \A i \in 1..Len(b[k]) :
                       /\ Places(b, k, i) = Places(b, k, i - 1) \cup {<<k, i>>}
                       /\ <<k, i>> \notin Places(b, k, i - 1)
<1>1. /\ \A p \in Contexts(b) : /\ p[1] \in 1..Len(b) /\ p[2] \in 1..Len(b[p[1]])
                                /\ p = <<p[1], p[2]>>
      /\ \A k \in 1..Len(b) : /\ Len(b[k]) \in Nat
                              /\ \A i \in 1..Len(b[k]) : <<k, i>> \in Contexts(b)
      /\ Len(b) \in Nat
  BY ContextsAre
<1> DEFINE C == Contexts(b)
<1> HIDE DEF C
<1>2. Places(b, 1, 0) = {}
  BY <1>1 DEF Places, C
<1>3. Places(b, Len(b) + 1, 0) = Contexts(b)
  BY <1>1 DEF Places
<1>4. ASSUME NEW k \in 1..Len(b)
      PROVE  Places(b, k, Len(b[k])) = Places(b, k + 1, 0)
  <2>1. ASSUME NEW p \in Contexts(b)
        PROVE  (p[1] < k \/ (p[1] = k /\ p[2] <= Len(b[k]))) <=> (p[1] < k + 1 \/ (p[1] = k + 1 /\ p[2] <= 0))
    BY <1>1
  <2> QED
    BY <2>1 DEF Places
<1>5. ASSUME NEW k \in 1..Len(b), NEW i \in 1..Len(b[k])
      PROVE  /\ Places(b, k, i) = Places(b, k, i - 1) \cup {<<k, i>>}
             /\ <<k, i>> \notin Places(b, k, i - 1)
  <2>1. Len(b[k]) \in Nat /\ i \in Nat /\ k \in Nat /\ <<k, i>> \in Contexts(b)
    BY <1>1
  <2>2. ASSUME NEW p \in Contexts(b)
        PROVE  (p[1] < k \/ (p[1] = k /\ p[2] <= i))
               <=> ((p[1] < k \/ (p[1] = k /\ p[2] <= i - 1)) \/ p = <<k, i>>)
    <3>1. p[1] \in Nat /\ p[2] \in Nat /\ p = <<p[1], p[2]>>
      BY <1>1
    <3>2. p = <<k, i>> <=> p[1] = k /\ p[2] = i
      BY <3>1
    <3> QED
      BY <2>1, <3>1, <3>2
  <2>3. <<k, i>> \notin Places(b, k, i - 1)
    BY <2>1 DEF Places
  <2>4. Places(b, k, i) = Places(b, k, i - 1) \cup {<<k, i>>}
    BY <2>1, <2>2 DEF Places
  <2> QED
    BY <2>3, <2>4
<1> QED
  BY <1>2, <1>3, <1>4, <1>5

\* hA and hP sum the two numbers of every context.
Sums(b, hA, hP) ==
    SumsOf(hA, NumberAt(b, "active")) /\ SumsOf(hP, NumberAt(b, "processed"))

\* What the pass knows of the contexts s it has seen: their sums, their kinds,
Totals(b, hA, hP, acc, s) ==
    /\ acc.input_tokens = hA[s] /\ acc.context_tokens = hP[s]
    /\ acc.is_ce <=> \E p \in s : b[p[1]][p[2]].generated = 0
    /\ Cardinality(s \cap Real(b)) + acc.num_padding = Cardinality(s)
\* the sums of those of replica k,
Here(b, hA, hP, acc, k, s) ==
    acc.replica_input = hA[s \cap Of(b, k)] /\ acc.replica_context = hP[s \cap Of(b, k)]
\* and of the replicas up to k.
Lists(b, hA, hP, acc, k) ==
    /\ Len(acc.per_replica_input_tokens) = k /\ Len(acc.per_replica_context_tokens) = k
    /\ \A r \in 1..k : /\ acc.per_replica_input_tokens[r] = hA[Of(b, r)]
                       /\ acc.per_replica_context_tokens[r] = hP[Of(b, r)]

\* The sums of one more place.
LEMMA SumsAdd ==
    ASSUME NEW b \in Seq(Batch), NEW hA, NEW hP, Sums(b, hA, hP),
           NEW s \in SUBSET Contexts(b), NEW p \in Contexts(b), p \notin s
    PROVE  /\ hA[s] \in Int /\ hP[s] \in Int
           /\ hA[s \cup {p}] = hA[s] + b[p[1]][p[2]].active
           /\ hP[s \cup {p}] = hP[s] + b[p[1]][p[2]].processed
<1>1. /\ DOMAIN NumberAt(b, "active") = Contexts(b) /\ DOMAIN NumberAt(b, "processed") = Contexts(b)
      /\ NumberAt(b, "active")[p] = b[p[1]][p[2]].active
      /\ NumberAt(b, "processed")[p] = b[p[1]][p[2]].processed
  BY DEF NumberAt
<1> QED
  BY <1>1 DEF Sums, SumsOf

\* One context.
LEMMA VisitSees ==
    ASSUME NEW b \in Seq(Batch), NEW hA, NEW hP, Sums(b, hA, hP), NEW k,
           NEW s \in SUBSET Contexts(b), NEW p \in Contexts(b), p \notin s, p[1] = k,
           NEW acc \in Accs, NEW next, Visited(acc, b[p[1]][p[2]], next),
           Totals(b, hA, hP, acc, s), Here(b, hA, hP, acc, k, s)
    PROVE  Totals(b, hA, hP, next, s \cup {p}) /\ Here(b, hA, hP, next, k, s \cup {p})
<1> DEFINE ctx == b[p[1]][p[2]]
           t == s \cup {p}
<1>1. ctx \in Ctx /\ ctx.active \in Nat /\ ctx.processed \in Nat /\ ctx.padding \in BOOLEAN
  BY ContextsAre DEF Ctx
<1>7. /\ next.input_tokens = acc.input_tokens + ctx.active
      /\ next.context_tokens = acc.context_tokens + ctx.processed
      /\ next.num_padding = IF ctx.padding THEN acc.num_padding + 1 ELSE acc.num_padding
      /\ next.replica_input = IF ctx.padding THEN acc.replica_input
                              ELSE acc.replica_input + ctx.active
      /\ next.replica_context = IF ctx.padding THEN acc.replica_context
                                ELSE acc.replica_context + ctx.processed
  BY Zenon DEF Visited
<1>8. /\ acc.input_tokens = hA[s] /\ acc.context_tokens = hP[s]
      /\ Cardinality(s \cap Real(b)) + acc.num_padding = Cardinality(s)
  BY Zenon DEF Totals
<1>2. next.input_tokens = hA[t] /\ next.context_tokens = hP[t]
  BY <1>7, <1>8, SumsAdd
<1>3. next.is_ce <=> \E q \in t : b[q[1]][q[2]].generated = 0
  BY DEF Visited, Totals
<1>4. p \in Real(b) <=> ~ctx.padding
  BY DEF Real
<1>5. Cardinality(t \cap Real(b)) + next.num_padding = Cardinality(t)
  <2>1. IsFiniteSet(s) /\ Cardinality(t) = Cardinality(s) + 1 /\ Cardinality(s) \in Nat
    BY ContextsFinite, FS_Subset, FS_AddElement, FS_CardinalityType
  <2>2. IsFiniteSet(s \cap Real(b)) /\ Cardinality(s \cap Real(b)) \in Nat
    BY <2>1, FS_Subset, FS_CardinalityType
  <2>3. acc.num_padding \in Nat
    BY DEF Accs
  <2>4. CASE ctx.padding
    <3>1. t \cap Real(b) = s \cap Real(b)
      BY <1>4, <2>4
    <3>2. Cardinality(t \cap Real(b)) = Cardinality(s \cap Real(b))
      BY <3>1
    <3>3. next.num_padding = acc.num_padding + 1
      BY <1>7, <2>4
    <3> HIDE DEF t
    <3> QED
      BY <1>8, <2>1, <2>2, <2>3, <3>2, <3>3
  <2>5. CASE ~ctx.padding
    <3>1. t \cap Real(b) = (s \cap Real(b)) \cup {p} /\ p \notin s \cap Real(b)
      BY <1>4, <2>5
    <3>2. Cardinality(t \cap Real(b)) = Cardinality(s \cap Real(b)) + 1
      BY <2>2, <3>1, FS_AddElement
    <3> QED
      BY <2>1, <2>2, <2>3, <2>5, <3>2, <1>7, <1>8
  <2> QED
    BY <2>4, <2>5
<1>6. next.replica_input = hA[t \cap Of(b, k)] /\ next.replica_context = hP[t \cap Of(b, k)]
  <2>1. s \cap Of(b, k) \in SUBSET Contexts(b) /\ p \notin s \cap Of(b, k)
    OBVIOUS
  <2>2. CASE ctx.padding
    <3>1. t \cap Of(b, k) = s \cap Of(b, k)
      BY <1>4, <2>2 DEF Of
    <3> QED
      BY <2>2, <3>1, <1>7 DEF Here
  <2>3. CASE ~ctx.padding
    <3>1. t \cap Of(b, k) = (s \cap Of(b, k)) \cup {p}
      BY <1>4, <2>3 DEF Of
    <3>2. PICK u : u = s \cap Of(b, k)
      OBVIOUS
    <3>4. u \in SUBSET Contexts(b) /\ p \notin u
      BY <2>1, <3>2
    <3>3. hA[u \cup {p}] = hA[u] + ctx.active /\ hP[u \cup {p}] = hP[u] + ctx.processed
      <4> HIDE <2>3
      <4> QED
        BY ONLY <3>4, Sums(b, hA, hP), b \in Seq(Batch), p \in Contexts(b), SumsAdd
    <3> QED
      BY <2>3, <3>1, <3>2, <3>3, <1>7 DEF Here
  <2> QED
    BY <2>2, <2>3
<1> QED
  BY <1>2, <1>3, <1>5, <1>6 DEF Totals, Here

\* One batch, context by context.
LEMMA BatchSees ==
    ASSUME NEW b \in Seq(Batch), NEW hA, NEW hP, Sums(b, hA, hP), NEW k \in 1..Len(b),
           NEW acc \in Accs, Totals(b, hA, hP, acc, Places(b, k, 0)),
           Here(b, hA, hP, acc, k, Places(b, k, 0)),
           NEW t, VisitRun(t, acc, b[k])
    PROVE  LET end == t[Len(b[k])] IN
           /\ end \in Accs
           /\ Totals(b, hA, hP, end, Places(b, k + 1, 0))
           /\ Here(b, hA, hP, end, k, Places(b, k + 1, 0))
           /\ end.per_replica_input_tokens = acc.per_replica_input_tokens
           /\ end.per_replica_context_tokens = acc.per_replica_context_tokens
<1> DEFINE n == Len(b[k])
           Good(i) == /\ Totals(b, hA, hP, t[i], Places(b, k, i))
                      /\ Here(b, hA, hP, t[i], k, Places(b, k, i))
                      /\ t[i].per_replica_input_tokens = acc.per_replica_input_tokens
                      /\ t[i].per_replica_context_tokens = acc.per_replica_context_tokens
           Bad == {i \in 0..n : ~Good(i)}
<1>1. n \in Nat /\ k \in Nat /\ \A i \in 1..n : <<k, i>> \in Contexts(b) /\ b[k][i] \in Ctx
  <2>1. n \in Nat /\ \A i \in 1..n : <<k, i>> \in Contexts(b)
    BY ContextsAre
  <2>2. Len(b) \in Nat
    BY ContextsAre
  <2>3. \A i \in 1..n : b[k][i] \in Ctx
    <3>1. ASSUME NEW i \in 1..n
          PROVE  b[k][i] \in Ctx
      <4>1. PICK p \in Contexts(b) : p = <<k, i>>
        BY <2>1
      <4>2. b[p[1]][p[2]] \in Ctx
        BY ContextsAre
      <4> QED
        BY <4>1, <4>2
    <3> QED
      BY <3>1
  <2> QED
    BY <2>1, <2>2, <2>3
<1>2. Good(0)
  BY DEF VisitRun
<1>3. ASSUME NEW i \in 1..n, Good(i - 1)
      PROVE  Good(i)
  <2> DEFINE s == Places(b, k, i - 1)
  <2>1. i - 1 \in 0..n /\ t[i - 1] \in Accs /\ t[i] = Visit(t[i - 1], b[k][i])
    BY <1>1 DEF VisitRun
  <2>2. Visited(t[i - 1], b[k][i], t[i])
    BY <1>1, <2>1, VisitIs
  <2>3. PICK p \in Contexts(b) : p = <<k, i>> /\ p[1] = k /\ b[p[1]][p[2]] = b[k][i]
    BY <1>1
  <2>4. Places(b, k, i) = s \cup {p} /\ p \notin s
    BY <2>3, PlacesAre
  <2>5. s \in SUBSET Contexts(b)
    BY DEF Places
  <2>6. Totals(b, hA, hP, t[i], s \cup {p}) /\ Here(b, hA, hP, t[i], k, s \cup {p})
    <3> HIDE DEF s
    <3>1. Visited(t[i - 1], b[p[1]][p[2]], t[i])
      BY <2>2, <2>3
    <3>2. Totals(b, hA, hP, t[i - 1], s) /\ Here(b, hA, hP, t[i - 1], k, s)
      BY <1>3 DEF s
    <3> QED
      BY <2>1, <2>3, <2>4, <2>5, <3>1, <3>2, VisitSees
  <2> QED
    BY <1>3, <2>2, <2>4, <2>6 DEF Visited
<1>4. Bad = {}
  <2>1. SUFFICES ASSUME Bad # {}
                 PROVE  FALSE
    OBVIOUS
  <2>2. PICK i \in Bad : \A j \in Bad : i <= j
    <3>1. Bad \in SUBSET Nat
      BY <1>1
    <3> HIDE DEF Bad
    <3> QED
      BY <2>1, <3>1, HasLeast
  <2>3. i \in 1..n /\ i - 1 \in 0..n
    BY <1>1, <1>2, <2>2
  <2>4. Good(i - 1)
    <3> HIDE DEF Good
    <3> QED
      BY <2>2, <2>3
  <2> HIDE DEF Good
  <2> QED
    BY <1>3, <2>2, <2>3, <2>4
<1>5. n \in 0..n /\ t[n] \in Accs /\ Good(n)
  <2> HIDE DEF Good
  <2> QED
    BY <1>1, <1>4 DEF VisitRun
<1>6. Places(b, k, n) = Places(b, k + 1, 0)
  BY PlacesAre
<1> QED
  BY <1>5, <1>6

\* The batch of one replica, whose sums are then listed.
LEMMA VisitBatchSees ==
    ASSUME NEW b \in Seq(Batch), NEW hA, NEW hP, Sums(b, hA, hP), NEW k \in 1..Len(b),
           NEW acc \in Accs, Totals(b, hA, hP, acc, Places(b, k, 0)),
           Lists(b, hA, hP, acc, k - 1)
    PROVE  LET next == VisitBatch(acc, b[k]) IN
           Totals(b, hA, hP, next, Places(b, k + 1, 0)) /\ Lists(b, hA, hP, next, k)
<1> DEFINE start == [acc EXCEPT !.replica_input = 0, !.replica_context = 0]
<1>1. /\ start \in Accs /\ start.input_tokens = acc.input_tokens
      /\ start.context_tokens = acc.context_tokens /\ start.num_padding = acc.num_padding
      /\ start.replica_input = 0 /\ start.replica_context = 0
      /\ start.per_replica_input_tokens = acc.per_replica_input_tokens
      /\ start.per_replica_context_tokens = acc.per_replica_context_tokens
  BY DEF Accs
<1>2. start.is_ce <=> acc.is_ce
  BY DEF Accs
<1>3. VisitBatch(acc, b[k]) =
         LET end == FoldLeft(Visit, start, b[k]) IN
         [end EXCEPT !.per_replica_input_tokens =
                         Append(end.per_replica_input_tokens, end.replica_input),
                     !.per_replica_context_tokens =
                         Append(end.per_replica_context_tokens, end.replica_context)]
  BY DEF VisitBatch
<1> HIDE DEF start
<1>4. k \in Nat /\ k \in 1..Len(b) /\ b[k] \in Batch
  BY ContextsAre
<1>5. Places(b, k, 0) \cap Of(b, k) = {} /\ Places(b, k + 1, 0) \cap Of(b, k) = Of(b, k)
  <2>1. \A p \in Contexts(b) : p[1] \in Nat /\ p[2] \in Nat /\ p[2] >= 1
    BY ContextsAre
  <2>2. Of(b, k) \subseteq Contexts(b)
    BY DEF Of, Real
  <2> QED
    BY <1>4, <2>1, <2>2 DEF Places, Of
<1>6. hA[{}] = 0 /\ hP[{}] = 0
  BY DEF Sums, SumsOf
<1>7. Totals(b, hA, hP, start, Places(b, k, 0))
  <2>1. start.is_ce <=> \E p \in Places(b, k, 0) : b[p[1]][p[2]].generated = 0
    BY <1>2 DEF Totals
  <2> QED
    BY <1>1, <2>1 DEF Totals
<1>8. Here(b, hA, hP, start, k, Places(b, k, 0))
  BY <1>1, <1>5, <1>6 DEF Here
<1>9. PICK t : VisitRun(t, start, b[k]) /\ t[Len(b[k])] = FoldLeft(Visit, start, b[k])
  BY <1>1, <1>4, VisitRuns
<1>10. PICK end : end = t[Len(b[k])]
  OBVIOUS
<1>11. /\ end \in Accs
       /\ Totals(b, hA, hP, end, Places(b, k + 1, 0))
       /\ Here(b, hA, hP, end, k, Places(b, k + 1, 0))
       /\ end.per_replica_input_tokens = acc.per_replica_input_tokens
       /\ end.per_replica_context_tokens = acc.per_replica_context_tokens
  <2>1. VisitRun(t, start, b[k])
    BY <1>9
  <2>2. LET e == t[Len(b[k])] IN
           /\ e \in Accs
           /\ Totals(b, hA, hP, e, Places(b, k + 1, 0))
           /\ Here(b, hA, hP, e, k, Places(b, k + 1, 0))
           /\ e.per_replica_input_tokens = start.per_replica_input_tokens
           /\ e.per_replica_context_tokens = start.per_replica_context_tokens
    BY ONLY <1>1, <1>4, <1>7, <1>8, <2>1, Sums(b, hA, hP), b \in Seq(Batch), BatchSees
  <2> QED
    BY <1>1, <1>10, <2>2
<1> DEFINE ins == Append(end.per_replica_input_tokens, end.replica_input)
           cons == Append(end.per_replica_context_tokens, end.replica_context)
           next == [end EXCEPT !.per_replica_input_tokens = ins,
                               !.per_replica_context_tokens = cons]
<1>12. VisitBatch(acc, b[k]) = next
  BY <1>3, <1>9, <1>10
<1>13. /\ Len(ins) = k /\ \A r \in 1..k : ins[r] = hA[Of(b, r)]
       /\ Len(cons) = k /\ \A r \in 1..k : cons[r] = hP[Of(b, r)]
  <2>1. end.replica_input = hA[Of(b, k)] /\ end.replica_context = hP[Of(b, k)]
    BY <1>5, <1>11 DEF Here
  <2>2. PICK li \in Seq(Nat) : li = end.per_replica_input_tokens
    BY <1>11 DEF Accs
  <2>3. PICK lc \in Seq(Nat) : lc = end.per_replica_context_tokens
    BY <1>11 DEF Accs
  <2>4. /\ Len(li) = k - 1 /\ Len(lc) = k - 1
        /\ \A r \in 1..(k - 1) : li[r] = hA[Of(b, r)] /\ lc[r] = hP[Of(b, r)]
    BY <1>11, <2>2, <2>3 DEF Lists
  <2>5. end.replica_input \in Nat /\ end.replica_context \in Nat
    BY <1>11 DEF Accs
  <2>6. /\ Len(ins) = k /\ ins[k] = hA[Of(b, k)]
        /\ \A r \in 1..(k - 1) : ins[r] = li[r]
    BY <1>4, <2>1, <2>2, <2>4, <2>5, AppendProperties
  <2>7. /\ Len(cons) = k /\ cons[k] = hP[Of(b, k)]
        /\ \A r \in 1..(k - 1) : cons[r] = lc[r]
    BY <1>4, <2>1, <2>3, <2>4, <2>5, AppendProperties
  <2>8. \A r \in 1..k : r = k \/ r \in 1..(k - 1)
    BY <1>4
  <2> HIDE DEF ins, cons
  <2> QED
    BY <2>4, <2>6, <2>7, <2>8
<1>14. /\ next.input_tokens = end.input_tokens /\ next.context_tokens = end.context_tokens
       /\ next.num_padding = end.num_padding
       /\ next.per_replica_input_tokens = ins /\ next.per_replica_context_tokens = cons
  BY <1>11 DEF Accs
<1>15. next.is_ce <=> end.is_ce
  BY <1>11 DEF Accs
<1> HIDE DEF next, ins, cons
<1>16. Lists(b, hA, hP, next, k)
  BY <1>13, <1>14 DEF Lists
<1>17. Totals(b, hA, hP, next, Places(b, k + 1, 0))
  <2>1. next.is_ce <=> \E p \in Places(b, k + 1, 0) : b[p[1]][p[2]].generated = 0
    BY <1>11, <1>15 DEF Totals
  <2> QED
    BY <1>11, <1>14, <2>1 DEF Totals
<1> QED
  BY <1>12, <1>16, <1>17

\* All batches.
LEMMA PassSees ==
    ASSUME NEW b \in Seq(Batch), NEW hA, NEW hP, Sums(b, hA, hP)
    PROVE  LET end == FoldLeft(VisitBatch, Start, b) IN
           /\ end \in Accs /\ Totals(b, hA, hP, end, Contexts(b))
           /\ Lists(b, hA, hP, end, Len(b))
<1>1. Start \in Accs
  BY DEF Start, Accs
<1>2. Len(b) \in Nat
  BY ContextsAre
<1>3. PICK t : VisitBatchRun(t, Start, b) /\ t[Len(b)] = FoldLeft(VisitBatch, Start, b)
  BY <1>1, VisitBatchRuns
<1> DEFINE n == Len(b)
           Good(i) == Totals(b, hA, hP, t[i], Places(b, i + 1, 0)) /\ Lists(b, hA, hP, t[i], i)
           Bad == {i \in 0..n : ~Good(i)}
<1>4. Good(0)
  <2>1. t[0] = Start /\ 0 + 1 = 1
    BY <1>3 DEF VisitBatchRun
  <2>2. Lists(b, hA, hP, Start, 0)
    BY DEF Lists, Start
  <2>3. Totals(b, hA, hP, Start, {})
    <3>1. Cardinality({}) = 0 /\ {} \cap Real(b) = {}
      BY FS_EmptySet
    <3>2. hA[{}] = 0 /\ hP[{}] = 0
      BY DEF Sums, SumsOf
    <3>3. ~Start.is_ce
      BY DEF Start
    <3>4. Start.input_tokens = 0 /\ Start.context_tokens = 0 /\ Start.num_padding = 0
      BY DEF Start
    <3>5. Start.is_ce <=> \E p \in {} : b[p[1]][p[2]].generated = 0
      BY <3>3
    <3> QED
      BY <3>1, <3>2, <3>4, <3>5 DEF Totals
  <2> QED
    BY <2>1, <2>2, <2>3, PlacesAre
<1>5. ASSUME NEW i \in 1..n, Good(i - 1)
      PROVE  Good(i)
  <2>1. i - 1 \in 0..n /\ t[i - 1] \in Accs /\ t[i] = VisitBatch(t[i - 1], b[i]) /\ i - 1 + 1 = i
    BY <1>2, <1>3 DEF VisitBatchRun
  <2>2. Totals(b, hA, hP, t[i - 1], Places(b, i, 0)) /\ Lists(b, hA, hP, t[i - 1], i - 1)
    BY <1>5, <2>1
  <2> QED
    BY <2>1, <2>2, VisitBatchSees
<1>6. Bad = {}
  <2>1. SUFFICES ASSUME Bad # {}
                 PROVE  FALSE
    OBVIOUS
  <2>2. PICK i \in Bad : \A j \in Bad : i <= j
    <3>1. Bad \in SUBSET Nat
      BY <1>2
    <3> HIDE DEF Bad
    <3> QED
      BY <2>1, <3>1, HasLeast
  <2>3. i \in 1..n /\ i - 1 \in 0..n
    BY <1>2, <1>4, <2>2
  <2> HIDE DEF Good
  <2>4. Good(i - 1)
    BY <2>2, <2>3
  <2> QED
    BY <1>5, <2>2, <2>3, <2>4
<1>7. n \in 0..n /\ t[n] \in Accs /\ Good(n)
  <2> HIDE DEF Good
  <2> QED
    BY <1>2, <1>3, <1>6 DEF VisitBatchRun
<1> QED
  BY <1>3, <1>7, PlacesAre

\* There are as many contexts as the lengths of the batches say.
LEMMA Sizes ==
    ASSUME NEW b \in Seq(Batch)
    PROVE  Sum([i \in DOMAIN b |-> Len(b[i])]) = Cardinality(Contexts(b))
<1> DEFINE n == Len(b)
           f == [i \in DOMAIN b |-> Len(b[i])]
<1>1. n \in Nat /\ DOMAIN b = 1..n /\ \A i \in 1..n : Len(b[i]) \in Nat /\ DOMAIN b[i] = 1..Len(b[i])
  <2>1. n \in Nat /\ DOMAIN b = 1..n /\ \A i \in 1..n : b[i] \in Batch
    BY ContextsAre
  <2> QED
    BY <2>1, LenProperties DEF Batch
<1>2. f \in [1..n -> Int] /\ DOMAIN f = 1..n /\ \A i \in 1..n : f[i] = Len(b[i])
  BY <1>1
<1>3. IsFiniteSet(1..n)
  BY <1>1, FS_Interval
<1> HIDE DEF f
<1>4. PICK h : SumsOf(h, f)
  BY <1>2, <1>3, SumsExist
<1>5. Sum(f) = h[1..n]
  BY <1>2, <1>3, <1>4, SumOf
<1> DEFINE Good(i) == Cardinality(Places(b, i + 1, 0)) = h[1..i]
           Bad == {i \in 0..n : ~Good(i)}
<1>6. Good(0)
  <2>1. 0 + 1 = 1 /\ 1..0 = {} /\ Cardinality({}) = 0 /\ h[{}] = 0
    BY <1>4, FS_EmptySet DEF SumsOf
  <2> QED
    BY <2>1, PlacesAre
<1>7. ASSUME NEW i \in 1..n, Good(i - 1)
      PROVE  Good(i)
  <2> DEFINE P == Places(b, i, 0)
             Q == {i} \X (1..Len(b[i]))
  <2>1. i \in Nat /\ Len(b[i]) \in Nat /\ i - 1 + 1 = i
    BY <1>1
  <2>2. Places(b, i + 1, 0) = P \cup Q /\ P \cap Q = {}
    <3>1. \A p \in Contexts(b) : /\ p[1] \in 1..n /\ p[2] \in 1..Len(b[p[1]])
                                 /\ p = <<p[1], p[2]>>
      BY ContextsAre
    <3>2. Q \subseteq Contexts(b)
      BY <1>1 DEF Contexts
    <3>3. \A p \in Contexts(b) : p \in Q <=> p[1] = i
      BY <3>1
    <3> HIDE DEF Q
    <3>4. \A p \in Contexts(b) :
             (p[1] < i + 1 \/ (p[1] = i + 1 /\ p[2] <= 0))
             <=> ((p[1] < i \/ (p[1] = i /\ p[2] <= 0)) \/ p[1] = i)
      BY <2>1, <3>1
    <3>5. \A p \in Contexts(b) : p[1] = i => ~(p[1] < i \/ (p[1] = i /\ p[2] <= 0))
      BY <2>1, <3>1
    <3> QED
      BY <3>2, <3>3, <3>4, <3>5 DEF Places
  <2>3. IsFiniteSet(P) /\ Cardinality(P) = h[1..(i - 1)]
    <3>1. P \subseteq Contexts(b)
      BY DEF Places
    <3> QED
      BY <1>7, <2>1, <3>1, ContextsFinite, FS_Subset
  <2>4. IsFiniteSet(Q) /\ Cardinality(Q) = Len(b[i])
    <3>1. IsFiniteSet(1..Len(b[i])) /\ Cardinality(1..Len(b[i])) = Len(b[i])
      <4>1. PICK l \in Nat : l = Len(b[i])
        BY <2>1
      <4>2. IsFiniteSet(1..l)
        BY FS_Interval
      <4>3. Cardinality(1..l) = IF 1 > l THEN 0 ELSE l - 1 + 1
        BY FS_Interval
      <4>4. Cardinality(1..l) = l
        BY <4>3
      <4> QED
        BY <4>1, <4>2, <4>4
    <3>2. IsFiniteSet({i}) /\ Cardinality({i}) = 1
      BY FS_Singleton
    <3>3. IsFiniteSet(Q) /\ Cardinality(Q) = Cardinality({i}) * Cardinality(1..Len(b[i]))
      BY <3>1, <3>2, FS_Product
    <3> QED
      BY <2>1, <3>1, <3>2, <3>3
  <2>5. Cardinality(P \cup Q) = Cardinality(P) + Cardinality(Q)
    <3>1. Cardinality(P \cup Q) = Cardinality(P) + Cardinality(Q) - Cardinality(P \cap Q)
      BY <2>3, <2>4, FS_Union
    <3>2. Cardinality(P \cap Q) = 0
      BY <2>2, FS_EmptySet
    <3>3. Cardinality(P) \in Nat /\ Cardinality(Q) \in Nat
      BY <2>3, <2>4, FS_CardinalityType
    <3> QED
      BY <3>1, <3>2, <3>3
  <2>6. h[1..i] = h[1..(i - 1)] + Len(b[i])
    <3>1. 1..(i - 1) \in SUBSET (1..n) /\ i \in (1..n) \ (1..(i - 1)) /\ (1..(i - 1)) \cup {i} = 1..i
      BY <1>1
    <3>2. h[(1..(i - 1)) \cup {i}] = h[1..(i - 1)] + f[i]
      BY <1>2, <1>4, <3>1 DEF SumsOf
    <3> QED
      BY <1>2, <3>1, <3>2
  <2> QED
    BY <2>2, <2>3, <2>4, <2>5, <2>6
<1>8. Bad = {}
  <2>1. SUFFICES ASSUME Bad # {}
                 PROVE  FALSE
    OBVIOUS
  <2>2. PICK i \in Bad : \A j \in Bad : i <= j
    <3>1. Bad \in SUBSET Nat
      BY <1>1
    <3> HIDE DEF Bad
    <3> QED
      BY <2>1, <3>1, HasLeast
  <2>3. i \in 1..n /\ i - 1 \in 0..n
    BY <1>1, <1>6, <2>2
  <2> HIDE DEF Good
  <2>4. Good(i - 1)
    BY <2>2, <2>3
  <2> QED
    BY <1>7, <2>2, <2>3, <2>4
<1>9. Good(n)
  <2> HIDE DEF Good
  <2> QED
    BY <1>1, <1>8
<1> QED
  BY <1>5, <1>9, PlacesAre DEF f

\* The one pass of the patched TextGenerationInputs gives what MAX's passes give.
LEMMA OnePassIsPristine ==
    ASSUME NEW b \in Seq(Batch)
    PROVE  OnePass(b) = PristineInputs(b)
<1>1. IsFiniteSet(Contexts(b))
  BY ContextsFinite
<1>2. /\ \A p \in Contexts(b) : b[p[1]][p[2]].active \in Int /\ b[p[1]][p[2]].processed \in Int
      /\ Len(b) \in Nat /\ DOMAIN b = 1..Len(b)
  BY ContextsAre DEF Ctx
<1>3. /\ NumberAt(b, "active") \in [Contexts(b) -> Int]
      /\ NumberAt(b, "processed") \in [Contexts(b) -> Int]
  BY <1>2 DEF NumberAt
<1>4. PICK hA : SumsOf(hA, NumberAt(b, "active"))
  BY <1>1, <1>3, SumsExist
<1>5. PICK hP : SumsOf(hP, NumberAt(b, "processed"))
  BY <1>1, <1>3, SumsExist
<1>6. Sums(b, hA, hP)
  BY <1>4, <1>5 DEF Sums
<1>7. PICK end \in Accs : /\ end = FoldLeft(VisitBatch, Start, b)
                          /\ Totals(b, hA, hP, end, Contexts(b))
                          /\ Lists(b, hA, hP, end, Len(b))
  BY <1>6, PassSees
<1>8. ASSUME NEW chosen \in SUBSET Contexts(b)
      PROVE  Over(b, chosen, "active") = hA[chosen] /\ Over(b, chosen, "processed") = hP[chosen]
  <2>1. IsFiniteSet(chosen)
    BY <1>1, FS_Subset
  <2>2. Over(b, chosen, "active") = hA[chosen]
    <3>1. \A p \in Contexts(b) : b[p[1]][p[2]]["active"] \in Int
      BY <1>2
    <3> QED
      BY <1>4, <2>1, <3>1, OverIs
  <2>3. Over(b, chosen, "processed") = hP[chosen]
    <3>1. \A p \in Contexts(b) : b[p[1]][p[2]]["processed"] \in Int
      BY <1>2
    <3> QED
      BY <1>5, <2>1, <3>1, OverIs
  <2> QED
    BY <2>2, <2>3
<1>9. /\ end.input_tokens = Over(b, Contexts(b), "active")
      /\ end.context_tokens = Over(b, Contexts(b), "processed")
  BY <1>7, <1>8 DEF Totals
<1>10. /\ end.per_replica_input_tokens = [i \in DOMAIN b |-> Over(b, Of(b, i), "active")]
       /\ end.per_replica_context_tokens = [i \in DOMAIN b |-> Over(b, Of(b, i), "processed")]
  <2>1. \A i : Of(b, i) \in SUBSET Contexts(b)
    BY DEF Of, Real
  <2>2. PICK li \in Seq(Nat) : li = end.per_replica_input_tokens
    BY DEF Accs
  <2>3. PICK lc \in Seq(Nat) : lc = end.per_replica_context_tokens
    BY DEF Accs
  <2>4. /\ Len(li) = Len(b) /\ Len(lc) = Len(b)
        /\ \A i \in 1..Len(b) : li[i] = Over(b, Of(b, i), "active") /\ lc[i] = Over(b, Of(b, i), "processed")
    BY <1>7, <1>8, <2>1, <2>2, <2>3 DEF Lists
  <2>5. li = [i \in 1..Len(li) |-> li[i]] /\ lc = [i \in 1..Len(lc) |-> lc[i]]
    BY LenProperties
  <2> QED
    BY <1>2, <2>2, <2>3, <2>4, <2>5
<1>11. Sum([i \in DOMAIN b |-> Len(b[i])]) - end.num_padding = Cardinality(Real(b))
  <2>1. Contexts(b) \cap Real(b) = Real(b)
    BY DEF Real
  <2>2. Cardinality(Real(b)) \in Nat /\ Cardinality(Contexts(b)) \in Nat
    <3>1. Real(b) \subseteq Contexts(b)
      BY DEF Real
    <3>2. IsFiniteSet(Real(b))
      BY <1>1, <3>1, FS_Subset
    <3> QED
      BY <1>1, <3>2, FS_CardinalityType
  <2>3. Cardinality(Real(b)) + end.num_padding = Cardinality(Contexts(b)) /\ end.num_padding \in Nat
    BY <1>7, <2>1 DEF Totals, Accs
  <2>4. Sum([i \in DOMAIN b |-> Len(b[i])]) = Cardinality(Contexts(b))
    BY Sizes
  <2> QED
    BY <2>2, <2>3, <2>4
<1>12. end.is_ce <=> \E p \in Contexts(b) : b[p[1]][p[2]].generated = 0
  BY <1>7 DEF Totals
<1>13. OnePass(b) =
          [input_tokens |-> end.input_tokens, context_tokens |-> end.context_tokens,
           per_replica_input_tokens |-> end.per_replica_input_tokens,
           per_replica_context_tokens |-> end.per_replica_context_tokens,
           batch_size |-> Sum([i \in DOMAIN b |-> Len(b[i])]) - end.num_padding,
           batch_type |-> IF end.is_ce THEN "CE" ELSE "TG"]
  BY <1>7 DEF OnePass
<1>14. PristineInputs(b) =
          [input_tokens |-> Over(b, Contexts(b), "active"),
           context_tokens |-> Over(b, Contexts(b), "processed"),
           per_replica_input_tokens |-> [i \in DOMAIN b |-> Over(b, Of(b, i), "active")],
           per_replica_context_tokens |-> [i \in DOMAIN b |-> Over(b, Of(b, i), "processed")],
           batch_size |-> Cardinality(Real(b)),
           batch_type |->
              IF \E p \in Contexts(b) : b[p[1]][p[2]].generated = 0 THEN "CE" ELSE "TG"]
  BY DEF PristineInputs, Of, Real
<1>15. (IF end.is_ce THEN "CE" ELSE "TG") =
          IF \E p \in Contexts(b) : b[p[1]][p[2]].generated = 0 THEN "CE" ELSE "TG"
  BY <1>12
<1> QED
  BY <1>9, <1>10, <1>11, <1>13, <1>14, <1>15

-----------------------------------------------------------------------------
(* The KV cache.                                                             *)

\* Sums over a single replica, and of nothing but zeros.
LEMMA SumOfOne ==
    ASSUME NEW x \in Int
    PROVE  Sum([i \in 1..1 |-> x]) = x
<1> DEFINE f == [i \in 1..1 |-> x]
<1>1. f \in [1..1 -> Int] /\ DOMAIN f = 1..1 /\ f[1] = x /\ IsFiniteSet(1..1)
  <2>1. IsFiniteSet({1})
    BY FS_Singleton
  <2>2. 1..1 = {1}
    OBVIOUS
  <2> QED
    BY <2>1, <2>2
<1> HIDE DEF f
<1>2. PICK h : SumsOf(h, f)
  BY <1>1, SumsExist
<1>3. Sum(f) = h[1..1]
  BY <1>1, <1>2, SumOf
<1>4. h[{} \cup {1}] = h[{}] + f[1] /\ h[{}] = 0 /\ {} \cup {1} = 1..1
  BY <1>1, <1>2 DEF SumsOf
<1> QED
  BY <1>1, <1>3, <1>4 DEF f

LEMMA SumOfZeros ==
    ASSUME NEW n \in Nat
    PROVE  Sum([i \in 1..n |-> 0]) = 0
<1> DEFINE f == [i \in 1..n |-> 0]
           h == [s \in SUBSET (1..n) |-> 0]
<1>1. DOMAIN f = 1..n /\ IsFiniteSet(1..n) /\ \A x \in DOMAIN f : f[x] \in Int
  BY FS_Interval
<1>2. SumsOf(h, f) /\ h[1..n] = 0
  BY DEF SumsOf
<1> HIDE DEF f, h
<1>3. Sum(f) = h[DOMAIN f]
  BY <1>1, <1>2, SumOf
<1> QED
  BY <1>1, <1>2, <1>3 DEF f

\* The numbers a step has for each replica of the cache.
UsedOf(k, use) ==
    /\ use.free \in Seq(Nat) /\ k.dp <= Len(use.free)
    /\ use.host \in Seq([total : Nat, used : Nat]) /\ k.dp <= Len(use.host)

LEMMA BlocksAsPristine ==
    ASSUME NEW k \in CacheKinds, NEW use, UsedOf(k, use)
    PROVE  FastBlocks(k, use) = PristineBlocks(k, use)
<1>1. CASE OneReplica(k)
  <2>1. k.dp = 1 /\ Blocks \in Int
    BY <1>1, ValuesConstants DEF OneReplica
  <2>2. PICK x \in Int : x = Blocks - use.free[1]
    BY <2>1, ElementOfSeq DEF UsedOf
  <2>3. [i \in 1 .. 1 |-> Blocks - use.free[i]] = [i \in 1..1 |-> x]
    BY <2>2
  <2>4. Sum([i \in 1..1 |-> x]) = x /\ Sum([i \in 1..1 |-> Blocks]) = Blocks
    BY <2>1, SumOfOne
  <2>5. PristineBlocks(k, use) = [total |-> Blocks, used |-> x]
    BY <2>1, <2>3, <2>4 DEF PristineBlocks
  <2> QED
    BY <1>1, <2>2, <2>5 DEF FastBlocks
<1>2. CASE ~OneReplica(k)
  BY <1>2 DEF FastBlocks
<1> QED
  BY <1>1, <1>2

LEMMA NoHostAsPristine ==
    ASSUME NEW k \in CacheKinds, NEW use, ~k.counts
    PROVE  PristineHost(k, use) = [total |-> 0, used |-> 0]
<1>1. k.dp \in Nat
  BY DEF CacheKinds
<1>2. \A i \in 1..k.dp : ByteCounts(k, use)[i] = [total |-> 0, used |-> 0]
  BY DEF ByteCounts
<1>3. /\ [i \in 1..k.dp |-> ByteCounts(k, use)[i].total] = [i \in 1..k.dp |-> 0]
      /\ [i \in 1..k.dp |-> ByteCounts(k, use)[i].used] = [i \in 1..k.dp |-> 0]
  BY <1>2
<1> QED
  BY <1>1, <1>3, SumOfZeros DEF PristineHost

LEMMA HostAsPristine ==
    ASSUME NEW k \in CacheKinds, NEW use, UsedOf(k, use)
    PROVE  FastHost(k, use) = PristineHost(k, use)
<1>1. CASE OneReplica(k)
  <2>1. k.dp = 1
    BY <1>1 DEF OneReplica
  <2>2. PICK x \in [total : Nat, used : Nat] : x = ByteCounts(k, use)[1]
    <3>1. CASE k.counts
      <4>1. use.host[1] \in [total : Nat, used : Nat]
        <5>1. PICK h \in Seq([total : Nat, used : Nat]) : h = use.host
          BY DEF UsedOf
        <5>2. Len(h) \in Nat /\ 1 \in 1..Len(h)
          BY <2>1, <5>1, LenProperties DEF UsedOf
        <5>3. h[1] \in [total : Nat, used : Nat]
          BY <5>2, ElementOfSeq
        <5> QED
          BY <5>1, <5>3
      <4> QED
        BY <3>1, <4>1 DEF ByteCounts
    <3>2. CASE ~k.counts
      <4>1. ByteCounts(k, use) = [i \in 1 .. 1 |-> [total |-> 0, used |-> 0]]
        BY <2>1, <3>2 DEF ByteCounts
      <4>2. ByteCounts(k, use)[1] = [total |-> 0, used |-> 0]
        BY <4>1
      <4> QED
        BY <4>2
    <3> QED
      BY <3>1, <3>2
  <2>3. x.total \in Int /\ x.used \in Int /\ x = [total |-> x.total, used |-> x.used]
    OBVIOUS
  <2>4. /\ [i \in 1..1 |-> ByteCounts(k, use)[i].total] = [i \in 1..1 |-> x.total]
        /\ [i \in 1..1 |-> ByteCounts(k, use)[i].used] = [i \in 1..1 |-> x.used]
    BY <2>2
  <2>5. Sum([i \in 1..1 |-> x.total]) = x.total /\ Sum([i \in 1..1 |-> x.used]) = x.used
    BY <2>3, SumOfOne
  <2>6. PristineHost(k, use) = [total |-> x.total, used |-> x.used]
    BY <2>1, <2>4, <2>5 DEF PristineHost
  <2> QED
    BY <1>1, <2>2, <2>3, <2>6 DEF FastHost
<1>2. CASE ~OneReplica(k)
  BY <1>2 DEF FastHost
<1> QED
  BY <1>1, <1>2

\* Whichever files are patched, the cache is read and reset as MAX does it.
LEMMA KvAsPristine ==
    ASSUME NEW c, NEW k \in CacheKinds, NEW use, UsedOf(k, use),
           NEW q \in [own : CounterValues, theirs : CounterValues]
    PROVE  KvPart(c, k, use, q) = PristineKv(k, use, q)
<1>1. q = [own |-> q.own, theirs |-> q.theirs]
  OBVIOUS
<1>2. ManagerMetrics(c, k, q) = Counters(k, q)
  BY DEF ManagerMetrics, EmptyMetrics, Counters
<1>3. CASE Simple(k)
  <2>1. ~k.metrics /\ ~k.reset /\ ~k.manager
    BY <1>3 DEF Simple, SnapshotFlags, EmptyMetrics
  <2>2. SnapshotMetrics(c, k, q) = Counters(k, q)
    BY <1>3, <2>1 DEF SnapshotMetrics, OwnAttribute, Counters
  <2>3. SnapshotReset(k, q) = ResetMetrics(k, q)
    BY <1>1, <1>3, <2>1 DEF SnapshotReset, ResetMetrics
  <2> QED
    BY <1>2, <2>2, <2>3, BlocksAsPristine, HostAsPristine, NoHostAsPristine
       DEF KvPart, PristineKv, Snapshot, PerCall, SnapshotFlags
<1>4. CASE ~Simple(k)
  BY <1>2, <1>4, BlocksAsPristine, HostAsPristine, NoHostAsPristine
     DEF KvPart, PristineKv, Snapshot, PerCall, SnapshotFlags, SnapshotMetrics, SnapshotReset
<1> QED
  BY <1>3, <1>4

-----------------------------------------------------------------------------
(* The invariant.                                                            *)

\* A batch in progress has the parts a step can have.
Scheduled ==
    /\ step.completed \in Completed \cup {None} /\ step.vision \in Vision \cup {None}
    /\ step.video \in Video \cup {None} /\ step.overlap_active \in BOOLEAN
    /\ inputs.batch_type \in {"CE", "TG"}

\* Nothing has been counted before the server is up.
Uncounted ==
    /\ kv = [own |-> ZeroMetrics, theirs |-> ZeroMetrics]
    /\ reported = ZeroMetrics /\ events = ZeroMetrics

StepInv ==
    /\ StepTypeOK
    /\ IF phase = "down" THEN Uncounted ELSE KvOK(kind, kv)
    /\ phase = "scheduled" => Scheduled
    /\ phase \in {"computed", "handed"} => WellFormed(metrics)
    /\ CountedOnce /\ LoggedAsAppended /\ PublishedAsComputed

\* What MAX makes of a batch with compute_values is well formed.
LEMMA MetricsWellFormed ==
    ASSUME Scheduled, NEW values
    PROVE  WellFormed(Metrics(inputs, step, values))
<1>1. MetricNames = {"batch_type", "batch_size", "num_input_tokens", "num_context_tokens",
        "used_kv_pct", "total_kv_blocks", "cache_hit_tokens", "device_blocks_served",
        "used_host_kv_pct", "total_host_kv_bytes", "acceptance_rate_per_position",
        "nixl_read_latency_avg_ms", "overlap_active", "completed",
        "dp_active_token_occupancy_pct", "vision_metrics", "video_metrics"}
  <2>1. Names(FIELDS) = {FIELDS[i][1] : i \in 1 .. 15}
    BY FieldShapes DEF Names
  <2> QED
    BY <2>1 DEF MetricNames, FIELDS
<1>2. Metrics(inputs, step, values) =
        [name \in MetricNames |-> Metrics(inputs, step, values)[name]]
  BY <1>1 DEF Metrics
<1> QED
  BY <1>2 DEF Metrics, WellFormed, Scheduled

\* The cells keep their width, whatever is written and whoever raises.
LEMMA CellsKeepWidth ==
    ASSUME NEW m, NEW s,
           \A c \in Cells32 : s[c] \in 0 .. Two32 - 1,
           \A c \in Cells64 : s[c] \in 0 .. 2 * Half - 1,
           NEW w, w \in {StructWrite(s, m), NumpyWrite(s, m), DagrPyWrite(s, m)}
    PROVE  /\ \A c \in Cells32 : w[c] \in 0 .. Two32 - 1
           /\ \A c \in Cells64 : w[c] \in 0 .. 2 * Half - 1
<1>1. ASSUME NEW cells \in Seq(Cells), NEW c \in StoredBefore(cells, m)
      PROVE  CellFits(m, c)
  BY DEF StoredBefore
<1>2. StructOrder \in Seq(Cells) /\ NumpyOrder \in Seq(Cells)
  BY DEF StructOrder, NumpyOrder, Cells
<1>3. Cells32 \subseteq Cells /\ Cells64 \subseteq Cells
  BY DEF Cells, Cells32, Cells64
<1>4. \A c \in Cells32 \cup Cells64 : ZeroSlot[c] = 0
  BY <1>3 DEF ZeroSlot, Cells32, Cells64
<1>5. 0 \in 0 .. Two32 - 1 /\ 0 \in 0 .. 2 * Half - 1
  BY SlotConstants, RecordConstants
<1>6. CASE w = StructWrite(s, m)
  BY <1>1, <1>2, <1>3, <1>4, <1>5, <1>6 DEF StructWrite, CellFits
<1>7. CASE w = NumpyWrite(s, m)
  BY <1>1, <1>2, <1>3, <1>7 DEF NumpyWrite, CellFits
<1>8. CASE w = DagrPyWrite(s, m)
  BY <1>3, <1>8 DEF DagrPyWrite, SlotFits, CellFits
<1> QED
  BY <1>6, <1>7, <1>8

LEMMA StartsFromNothing == StepInit => StepInv
<1> SUFFICES ASSUME StepInit PROVE StepInv
  OBVIOUS
<1>1. Uncounted
  BY DEF StepInit, Uncounted
<1>2. StepTypeOK
  <2>1. /\ \A c \in Cells32 : slot[c] = 0
        /\ \A c \in Cells64 : slot[c] = 0
    BY DEF StepInit, ZeroSlot, Cells, Cells32, Cells64
  <2>2. 0 \in 0 .. Two32 - 1 /\ 0 \in 0 .. 2 * Half - 1
    BY SlotConstants, RecordConstants
  <2>3. Counted = 0
    BY DEF Counted, StepInit, ZeroMetrics
  <2> QED
    BY <2>1, <2>2, <2>3, StepConstants, CounterNames DEF StepInit, StepTypeOK, Phases
<1> QED
  BY <1>1, <1>2 DEF StepInit, StepInv, CountedOnce, LoggedAsAppended, PublishedAsComputed

LEMMA StartServerKeeps ==
    ASSUME StepInv, NEW c \in Code, StartServer(c)
    PROVE  StepInv'
<1>1. PICK s \in Servers : kind' = s[1] /\ route' = s[2]
  BY DEF StartServer
<1>2. s = <<kind', route'>> /\ kind' \in CacheKinds
  BY <1>1, StepConstants
<1>3. Uncounted
  BY DEF StepInv, StartServer
<1>4. KvOK(kind, kv)'
  BY <1>3, CounterNames DEF KvOK, Uncounted, StartServer
<1>5. CountedOnce'
  <2>1. \A x \in DOMAIN ZeroMetrics :
           reported'[x] + kv'.own[x] + kv'.theirs[x] = events'[x]
    BY <1>3, CounterNames DEF Uncounted, StartServer
  <2> QED
    BY <2>1 DEF CountedOnce
<1>6. StepTypeOK'
  <2>1. Counted' = Counted
    BY DEF Counted, StartServer
  <2> QED
    BY <1>2, <2>1 DEF StepInv, StepTypeOK, StartServer, Phases
<1> QED
  BY <1>4, <1>5, <1>6 DEF StepInv, StartServer, LoggedAsAppended, PublishedAsComputed

LEMMA ScheduleKeeps ==
    ASSUME StepInv, Schedule
    PROVE  StepInv'
<1>1. PICK s \in Steps : /\ step' = Replicas(s)
                         /\ inputs' = NewInputs(code, Replicas(s).batches)
  BY DEF Schedule
<1>2. s \in StepKinds
  BY StepConstants
<1>3. <<kind, route>> \in Servers /\ kind.dp \in Nat \ {0} /\ kind.dp <= Len(s.batches)
  <2>1. <<kind, route>> \in Servers
    BY DEF StepInv, StepTypeOK, Schedule
  <2> QED
    BY <2>1, StepConstants DEF CacheKinds
<1>4. /\ Replicas(s).batches = SubSeq(s.batches, 1, kind.dp)
      /\ Replicas(s).completed = s.completed /\ Replicas(s).vision = s.vision
      /\ Replicas(s).video = s.video /\ Replicas(s).overlap_active = s.overlap_active
  BY <1>2 DEF Replicas, StepKinds
<1>5. Len(step'.batches) = kind.dp
  <2>1. s.batches \in Seq(Batch)
    BY <1>2 DEF StepKinds
  <2> QED
    BY <1>1, <1>3, <1>4, <2>1
<1>6. Scheduled'
  <2>1. NewInputs(code, Replicas(s).batches).batch_type \in {"CE", "TG"}
    BY DEF NewInputs, OnePass, PristineInputs
  <2>2. /\ s.completed \in Completed \cup {None} /\ s.vision \in Vision \cup {None}
        /\ s.video \in Video \cup {None} /\ s.overlap_active \in BOOLEAN
    BY <1>2 DEF StepKinds
  <2> QED
    BY <1>1, <1>4, <2>1, <2>2 DEF Scheduled
<1>7. StepTypeOK'
  <2>1. Counted' = Counted
    BY DEF Counted, Schedule
  <2> QED
    BY <1>5, <2>1 DEF StepInv, StepTypeOK, Schedule, Phases
<1>8. KvOK(kind, kv)' /\ CountedOnce'
  BY DEF StepInv, Schedule, CountedOnce
<1> QED
  BY <1>6, <1>7, <1>8 DEF StepInv, Schedule, LoggedAsAppended, PublishedAsComputed

LEMMA CountKeeps ==
    ASSUME StepInv, NEW by \in {"own", "theirs"}, Count(by)
    PROVE  StepInv'
<1>1. PICK e \in {Served, Transferred} : kv' = [kv EXCEPT ![by] = Add(@, e)]
                                          /\ events' = Add(events, e)
  BY DEF Count
<1>2. /\ Served \in CounterValues /\ Transferred \in CounterValues
      /\ Measured(Served) /\ Measured(Transferred)
      /\ \A x \in {Served, Transferred} :
            x["device_blocks_served"] + x["nixl_read_latency_count"] = 1
  <2>1. /\ Served["device_blocks_served"] = 1 /\ Served["nixl_read_latency_total_ms"] = 0
        /\ Served["nixl_read_latency_count"] = 0
        /\ DOMAIN Served = DOMAIN ZeroMetrics
        /\ Served = [x \in DOMAIN ZeroMetrics |-> Served[x]]
    BY CounterNames DEF Served
  <2>2. /\ Transferred["device_blocks_served"] = 0
        /\ Transferred["nixl_read_latency_total_ms"] = 2
        /\ Transferred["nixl_read_latency_count"] = 1
        /\ Transferred = [x \in DOMAIN ZeroMetrics |-> Transferred[x]]
    BY CounterNames DEF Transferred
  <2>3. Served \in CounterValues /\ Transferred \in CounterValues
    BY <2>1, <2>2, CounterNames DEF CounterValues
  <2>4. Measured(Served) /\ Measured(Transferred)
    BY <2>1, <2>2 DEF Measured
  <2> QED
    BY <2>1, <2>2, <2>4, <2>3
<1>3. /\ KvOK(kind, kv) /\ kv \in [own : CounterValues, theirs : CounterValues]
      /\ reported \in CounterValues /\ events \in CounterValues
  BY DEF StepInv, StepTypeOK, Count, KvOK
<1>4. by = "theirs" => kind.metrics
  BY DEF Count
<1>5. KvOK(kind, kv)'
  BY <1>1, <1>2, <1>3, <1>4, AddOK DEF KvOK, Count
<1>6. CountedOnce'
  <2> SUFFICES ASSUME Resets(kind), NEW x \in DOMAIN ZeroMetrics
               PROVE  reported[x] + kv'.own[x] + kv'.theirs[x] = events'[x]
    BY DEF CountedOnce, Count
  <2>1. reported[x] + kv.own[x] + kv.theirs[x] = events[x]
    BY DEF StepInv, CountedOnce, Count
  <2>2. Add(kv.own, e)[x] = kv.own[x] + e[x] /\ Add(kv.theirs, e)[x] = kv.theirs[x] + e[x]
        /\ Add(events, e)[x] = events[x] + e[x]
    BY <1>2, <1>3, AddOK
  <2>3. /\ reported[x] \in Nat /\ kv.own[x] \in Nat /\ kv.theirs[x] \in Nat
        /\ events[x] \in Nat /\ e[x] \in Nat
    BY <1>2, <1>3 DEF CounterValues
  <2>4. CASE by = "own"
    BY <1>1, <1>3, <2>1, <2>2, <2>3, <2>4
  <2>5. CASE by = "theirs"
    BY <1>1, <1>3, <2>1, <2>2, <2>3, <2>5
  <2> QED
    BY <2>4, <2>5
<1>7. StepTypeOK'
  <2>1. kv' \in [own : CounterValues, theirs : CounterValues] /\ events' \in CounterValues
    BY <1>1, <1>2, <1>3, AddOK
  <2>2. Counted' <= MaxEvents
    <3>1. /\ events'["device_blocks_served"] = events["device_blocks_served"] + e["device_blocks_served"]
          /\ events'["nixl_read_latency_count"] =
                events["nixl_read_latency_count"] + e["nixl_read_latency_count"]
      BY <1>1, <1>2, <1>3, AddOK, CounterNames
    <3>2. /\ e["device_blocks_served"] \in Nat /\ e["nixl_read_latency_count"] \in Nat
          /\ events["device_blocks_served"] \in Nat /\ events["nixl_read_latency_count"] \in Nat
      BY <1>2, <1>3, CounterNames DEF CounterValues
    <3>3. Counted < MaxEvents /\ MaxEvents \in Nat
      BY StepConstants DEF Count
    <3> QED
      BY <1>2, <3>1, <3>2, <3>3 DEF Counted
  <2> QED
    BY <2>1, <2>2 DEF StepInv, StepTypeOK, Count, Phases
<1>8. Scheduled'
  BY DEF StepInv, Count, Scheduled
<1> QED
  BY <1>5, <1>6, <1>7, <1>8 DEF StepInv, Count, LoggedAsAppended, PublishedAsComputed

LEMMA ComputeKeeps ==
    ASSUME StepInv, Compute
    PROVE  StepInv'
<1> DEFINE part == KvPart(code, kind, step, kv)
<1>1. /\ KvOK(kind, kv) /\ reported \in CounterValues /\ events \in CounterValues
      /\ kv \in [own : CounterValues, theirs : CounterValues]
      /\ <<kind, route>> \in Servers /\ Scheduled
  BY DEF StepInv, StepTypeOK, Compute, KvOK
<1>2. kind \in CacheKinds
  BY <1>1, StepConstants
<1>3. /\ KvOK(kind, part.kv) /\ Part(part.values) \in CounterValues
      /\ Resets(kind) => \A x \in DOMAIN ZeroMetrics :
            Part(part.values)[x] + part.kv.own[x] + part.kv.theirs[x] = kv.own[x] + kv.theirs[x]
  BY <1>1, <1>2, ReadAndReset
<1>4. /\ metrics' = Metrics(inputs, step, part.values) /\ kv' = part.kv
      /\ reported' = IF Resets(kind) THEN Add(reported, Part(part.values)) ELSE reported
      /\ UNCHANGED <<code, kind, route, step, inputs, slot, out, events>>
      /\ phase = "scheduled" /\ phase' = "computed"
  BY DEF Compute
<1>5. WellFormed(metrics')
  BY <1>1, <1>4, MetricsWellFormed
<1> HIDE DEF part
<1>6. CountedOnce'
  <2> SUFFICES ASSUME Resets(kind), NEW x \in DOMAIN ZeroMetrics
               PROVE  reported'[x] + kv'.own[x] + kv'.theirs[x] = events[x]
    BY <1>4 DEF CountedOnce
  <2>1. reported[x] + kv.own[x] + kv.theirs[x] = events[x]
    BY <1>4 DEF StepInv, CountedOnce
  <2>2. reported'[x] = reported[x] + Part(part.values)[x]
    BY <1>1, <1>3, <1>4, AddOK
  <2>3. /\ reported[x] \in Nat /\ kv.own[x] \in Nat /\ kv.theirs[x] \in Nat
        /\ part.kv.own[x] \in Nat /\ part.kv.theirs[x] \in Nat /\ Part(part.values)[x] \in Nat
    BY <1>1, <1>3 DEF CounterValues, KvOK
  <2> QED
    BY <1>3, <1>4, <2>1, <2>2, <2>3
<1>7. StepTypeOK'
  <2>1. kv' \in [own : CounterValues, theirs : CounterValues] /\ reported' \in CounterValues
    BY <1>1, <1>3, <1>4, AddOK DEF KvOK
  <2>2. Counted' = Counted
    BY <1>4 DEF Counted
  <2> QED
    BY <1>4, <2>1, <2>2 DEF StepInv, StepTypeOK, Phases
<1> QED
  BY <1>3, <1>4, <1>5, <1>6, <1>7 DEF StepInv, LoggedAsAppended, PublishedAsComputed

\* The step arrives, or is left out because a number does not fit.
LEMMA HandKeeps ==
    ASSUME StepInv, Hand
    PROVE  StepInv'
<1>1. /\ phase = "computed" /\ phase' = "handed" /\ WellFormed(metrics)
      /\ UNCHANGED <<code, kind, route, step, inputs, kv, metrics, reported, events>>
  BY DEF StepInv, Hand, Record, AppendObject, StructStep, NumpyStep, DagrPyStep, Commit
<1>2. /\ \A c \in Cells32 : slot[c] \in 0 .. Two32 - 1
      /\ \A c \in Cells64 : slot[c] \in 0 .. 2 * Half - 1
  BY DEF StepInv, StepTypeOK
<1>3. \/ Record \/ AppendObject
      \/ \E w \in {StructWrite(slot, metrics), NumpyWrite(slot, metrics),
                    DagrPyWrite(slot, metrics)} :
            /\ route # "record" /\ slot' = w
            /\ out' = IF SlotFits(metrics) THEN <<FromSlot(slot')>> ELSE <<>>
  BY DEF Hand, StructStep, NumpyStep, DagrPyStep, Commit
<1>4. /\ PublishedAsComputed' /\ LoggedAsAppended'
      /\ \A c \in Cells32 : slot'[c] \in 0 .. Two32 - 1
      /\ \A c \in Cells64 : slot'[c] \in 0 .. 2 * Half - 1
  <2>1. CASE Record
    <3>1. PublishedAsComputed'
      BY <1>1, <2>1, StepRoundTrip DEF Record, PublishedAsComputed
    <3>2. LoggedAsAppended' /\ slot' = slot
      BY <1>1, <2>1 DEF Record, LoggedAsAppended
    <3> QED
      BY <1>2, <3>1, <3>2
  <2>2. CASE AppendObject
    <3>1. PublishedAsComputed' /\ slot' = slot
      BY <1>1, <2>2 DEF AppendObject, PublishedAsComputed
    <3>2. LoggedAsAppended'
      BY <1>1, <2>2 DEF AppendObject, LoggedAsAppended
    <3> QED
      BY <1>2, <3>1, <3>2
  <2>3. CASE ~Record /\ ~AppendObject
    <3>1. PICK w \in {StructWrite(slot, metrics), NumpyWrite(slot, metrics),
                      DagrPyWrite(slot, metrics)} :
              /\ route # "record" /\ slot' = w
              /\ out' = IF SlotFits(metrics) THEN <<FromSlot(slot')>> ELSE <<>>
      BY <1>3, <2>3
    <3>2. /\ \A c \in Cells32 : slot'[c] \in 0 .. Two32 - 1
          /\ \A c \in Cells64 : slot'[c] \in 0 .. 2 * Half - 1
      BY <1>2, <3>1, CellsKeepWidth
    <3>3. SlotFits(metrics) => slot' = CellsOf(metrics)
      BY <3>1, WritersAgree
    <3>4. out' = IF SlotFits(metrics) THEN <<FromMetrics(metrics)>> ELSE <<>>
      BY <1>1, <3>1, <3>3, SlotRoundTrip
    <3>5. LoggedAsAppended'
      BY <1>1, <3>4 DEF LoggedAsAppended
    <3>6. PublishedAsComputed'
      BY <1>1, <3>1 DEF PublishedAsComputed
    <3> QED
      BY <3>2, <3>5, <3>6
  <2> QED
    BY <2>1, <2>2, <2>3
<1>5. StepTypeOK'
  <2>1. Counted' = Counted
    BY <1>1 DEF Counted
  <2> QED
    BY <1>1, <1>4, <2>1 DEF StepInv, StepTypeOK, Phases
<1>6. CountedOnce' /\ KvOK(kind, kv)'
  BY <1>1 DEF StepInv, CountedOnce
<1> QED
  BY <1>1, <1>4, <1>5, <1>6 DEF StepInv

LEMMA StutterKeeps ==
    ASSUME StepInv, UNCHANGED stepVars
    PROVE  StepInv'
BY DEF StepInv, stepVars, StepTypeOK, Counted, Uncounted, Scheduled, CountedOnce,
       LoggedAsAppended, PublishedAsComputed

LEMMA StepKeeps ==
    ASSUME StepInv, [StepNext]_stepVars
    PROVE  StepInv'
BY StartServerKeeps, ScheduleKeeps, CountKeeps, ComputeKeeps, HandKeeps, StutterKeeps
   DEF StepNext, Work

LEMMA StepInvAlways == StepSpec => []StepInv
BY StartsFromNothing, StepKeeps, PTL DEF StepSpec

-----------------------------------------------------------------------------
\* The type invariant, for all servers and steps: no cell of the slot ever holds a number
\* wider than it is, and the counters stay natural numbers.
THEOREM StepTypeCorrect == StepSpec => []StepTypeOK
<1>1. StepInv => StepTypeOK
  BY DEF StepInv
<1> QED
  BY <1>1, StepInvAlways, PTL

\* What the counters count is reported with exactly one step, for every cache kind that
\* resets, with any mixture of patched and pristine files.
THEOREM CountedOnceAlways == StepSpec => []CountedOnce
<1>1. StepInv => CountedOnce
  BY DEF StepInv
<1> QED
  BY <1>1, StepInvAlways, PTL

\* Every hand-off of the batch log logs what append logs, for all values, widths and
\* leftovers in the slot: the writers agree, and reading the slot gives the record.
THEOREM LoggedAsAppendedAlways == StepSpec => []LoggedAsAppended
<1>1. StepInv => LoggedAsAppended
  BY DEF StepInv
<1> QED
  BY <1>1, StepInvAlways, PTL

\* The telemetry process rebuilds the worker's BatchMetrics, for all of its values: the
\* tuple, the record and the tuple again lose nothing that fits.
THEOREM PublishedAsComputedAlways == StepSpec => []PublishedAsComputed
<1>1. StepInv => PublishedAsComputed
  BY DEF StepInv
<1> QED
  BY <1>1, StepInvAlways, PTL

-----------------------------------------------------------------------------
(* The speedups.                                                             *)

\* A batch that is scheduled has the inputs of MAX's own passes, and what the cache is
\* asked for has as many replicas as the cache.
AsPristine ==
    phase = "scheduled" => UsedOf(kind, step) /\ inputs = PristineInputs(step.batches)

LEMMA ScheduledAsPristine ==
    ASSUME StepInv, Schedule
    PROVE  AsPristine'
<1>1. PICK s \in Steps : /\ step' = Replicas(s)
                         /\ inputs' = NewInputs(code, Replicas(s).batches)
  BY DEF Schedule
<1>2. s \in StepKinds /\ kind' = kind
  BY StepConstants DEF Schedule
<1>3. /\ <<kind, route>> \in Servers /\ kind.dp \in Nat \ {0} /\ kind.dp <= Len(s.batches)
      /\ kind.dp <= Len(s.free) /\ kind.dp <= Len(s.host)
  <2>1. <<kind, route>> \in Servers
    BY DEF StepInv, StepTypeOK, Schedule
  <2> QED
    BY <2>1, StepConstants DEF CacheKinds
<1>4. /\ Replicas(s).batches = SubSeq(s.batches, 1, kind.dp)
      /\ Replicas(s).free = s.free /\ Replicas(s).host = s.host
  BY <1>2 DEF Replicas, StepKinds
<1>5. Replicas(s).batches \in Seq(Batch)
  <2>1. s.batches \in Seq(Batch)
    BY <1>2 DEF StepKinds
  <2> QED
    BY <1>3, <1>4, <2>1, SubSeqProperties
<1>6. inputs' = PristineInputs(step'.batches)
  BY <1>1, <1>5, OnePassIsPristine DEF NewInputs
<1>7. UsedOf(kind, Replicas(s))
  BY <1>2, <1>3, <1>4 DEF UsedOf, StepKinds
<1> QED
  BY <1>1, <1>2, <1>6, <1>7 DEF AsPristine

LEMMA AsPristineKept ==
    ASSUME StepInv, AsPristine, [StepNext]_stepVars
    PROVE  AsPristine'
<1>1. CASE Schedule
  BY <1>1, ScheduledAsPristine
<1>2. CASE ~Schedule
  <2>1. phase' = "scheduled" => phase = "scheduled" /\ UNCHANGED <<kind, step, inputs>>
    BY <1>2 DEF StepNext, Work, StartServer, Count, Compute, Hand, Record, AppendObject,
                StructStep, NumpyStep, DagrPyStep, Commit, stepVars
  <2> QED
    BY <2>1 DEF AsPristine
<1> QED
  BY <1>1, <1>2

\* The speedups are exact, for all caches, batches and mixtures of patched and pristine
\* files: one pass over the contexts gives the sums, counts and kinds MAX's own passes
\* give, one replica's numbers are the sums over one replica, and the snapshot of the
\* cache reads and resets the counters MAX's own calls read and reset.
THEOREM ComputedAsPristineAlways == StepSpec => ComputedAsPristine
<1>1. AsPristine /\ StepInv /\ [StepNext]_stepVars =>
         [phase = "scheduled" /\ phase' = "computed" =>
             LET part == PristineKv(kind, step, kv) IN
             /\ metrics' = Metrics(PristineInputs(step.batches), step, part.values)
             /\ kv' = part.kv]_stepVars
  <2> SUFFICES ASSUME AsPristine, StepInv, StepNext, phase = "scheduled", phase' = "computed"
               PROVE  LET part == PristineKv(kind, step, kv) IN
                      /\ metrics' = Metrics(PristineInputs(step.batches), step, part.values)
                      /\ kv' = part.kv
    OBVIOUS
  <2>1. Compute
    BY DEF StepNext, Work, StartServer, Schedule, Count, Hand, Record, AppendObject,
           StructStep, NumpyStep, DagrPyStep, Commit
  <2>2. /\ kind \in CacheKinds /\ kv \in [own : CounterValues, theirs : CounterValues]
        /\ UsedOf(kind, step) /\ inputs = PristineInputs(step.batches)
    BY StepConstants DEF StepInv, StepTypeOK, AsPristine
  <2>3. KvPart(code, kind, step, kv) = PristineKv(kind, step, kv)
    BY <2>2, KvAsPristine
  <2> QED
    BY <2>1, <2>2, <2>3 DEF Compute
<1>2. StepInit => AsPristine
  BY DEF StepInit, AsPristine
<1>3. StepInv /\ AsPristine /\ [StepNext]_stepVars => AsPristine'
  BY AsPristineKept
<1> QED
  BY <1>1, <1>2, <1>3, StepInvAlways, PTL DEF StepSpec, ComputedAsPristine

-----------------------------------------------------------------------------
(* The script and the server.                                              *)

\* Whatever the files hold, a server that starts from them is one SchedulerStep knows.
LEMMA SomeCode == \A files : CodeOf(files) \in Code
BY DEF CodeOf, Code, Has, HasLine

\* The composition implements the patch script: no server disturbs its files.
THEOREM ImplementsPatcher == Spec => PatcherSpec
<1>1. Init => PatcherInit
  BY DEF Init
<1>2. [Next]_vars => [PatcherNext]_patcherVars
  BY DEF Next, vars, PatchStep, StartPatched, ServerStep
<1> QED
  BY <1>1, <1>2, PTL DEF Spec, PatcherSpec

\* The composition implements the scheduler's steps: whatever package a run of the script
\* left behind, also one that was killed between two files, the server is one that
\* SchedulerStep allows.
THEOREM ImplementsSchedulerStep == Spec => StepSpec
<1>1. Init => StepInit
  BY DEF Init
<1>2. [Next]_vars => [StepNext]_stepVars
  BY SomeCode DEF Next, vars, PatchStep, StartPatched, ServerStep, StepNext
<1> QED
  BY <1>1, <1>2, PTL DEF Spec, StepSpec

\* Whatever runs and servers have done, the files are texts, the cells of the slot hold
\* no number wider than they are, and the counters are natural numbers.
THEOREM TypeCorrect == Spec => []TypeOK
<1>1. PatcherTypeOK /\ StepTypeOK => TypeOK
  BY DEF TypeOK
<1> QED
  BY <1>1, ImplementsPatcher, ImplementsSchedulerStep, PatcherTypeCorrect, StepTypeCorrect, PTL

\* A run that finishes leaves what was asked for, one that is killed no worker that imports
\* what is not there, and a server started from what any runs left computes every step as
\* MAX does, loses no count, and publishes and logs the step as it was computed.
THEOREM PatchedServerCorrect ==
    Spec => /\ [](/\ PatchedAsAsked /\ WorkerImports
                  /\ CountedOnce /\ LoggedAsAppended /\ PublishedAsComputed)
            /\ ComputedAsPristine
BY ImplementsPatcher, ImplementsSchedulerStep, PatchedAsAskedAlways, WorkerImportsAlways,
   CountedOnceAlways, LoggedAsAppendedAlways, PublishedAsComputedAlways,
   ComputedAsPristineAlways, PTL
=============================================================================
