------------------------------ MODULE StepSlot ------------------------------
(***************************************************************************)
(* The 20-field batch log: one slot that Python fills in place for every     *)
(* step (slot_writers.py, laid out by BATCH_STEP_SLOT of schema.py) and the   *)
(* extension reads (batch_log.mojo), next to the path on which the extension  *)
(* reads the object itself.  The slot is never cleared between two steps.     *)
(*                                                                         *)
(* A cell of the slot is named after the field it holds; "presence" is byte   *)
(* 133, "kinds" byte 134, and c_... are the cells of the completed batch.      *)
(***************************************************************************)
EXTENDS RecordValues

CONSTANT Two32    \* 2^32

ASSUME SlotConstants == Two32 \in Nat \ {0}

Cells == {"num_context_tokens", "batch_size", "cache_hit_tokens", "presence", "kinds",
          "c_context", "c_size", "c_bits"}
Cells32 == {"batch_size", "cache_hit_tokens", "c_size"}
Cells64 == {"num_context_tokens", "c_context"}

\* new_slot: all bytes zero.
ZeroSlot == [c \in Cells |-> IF c \in {"presence", "kinds", "c_bits"} THEN {} ELSE 0]

-----------------------------------------------------------------------------
\* What every writer stores for the step m; 0x43 and 0xFF are the bit "always".
CellsOf(m) ==
    LET c == m["completed"] IN
    [cell \in Cells |->
        CASE cell = "c_context" -> IF c = None THEN 0 ELSE c["num_context_tokens"]
          [] cell = "c_size" -> IF c = None THEN 0 ELSE c["batch_size"]
          [] cell = "c_bits" ->
               IF c = None THEN {}
               ELSE {"always"} \cup (IF c["batch_type"] = "TG" THEN {"TG"} ELSE {})
          [] cell = "presence" ->
               {"always"} \cup (IF m["cache_hit_tokens"] # 0 THEN {"hit"} ELSE {})
                          \cup (IF c # None THEN {"completed"} ELSE {})
          [] cell = "kinds" -> (IF m["batch_type"] = "TG" THEN {"TG"} ELSE {})
                                 \cup (IF m["overlap_active"] THEN {"overlap"} ELSE {})
          [] OTHER -> m[cell]]

\* A plausible mistake that no definition uses: a number that is too large is stored.
FaultyCellFits(m, cell) == TRUE

\* A number that does not fit its cell raises, and nothing after it is stored.
CellFits(m, cell) ==
    /\ cell \in Cells32 => CellsOf(m)[cell] \in 0 .. Two32 - 1
    /\ cell \in Cells64 => CellsOf(m)[cell] \in 0 .. 2 * Half - 1
SlotFits(m) == \A cell \in Cells : CellFits(m, cell)
StoredBefore(order, m) ==
    {order[i] : i \in {j \in DOMAIN order : \A k \in 1 .. j : CellFits(m, order[k])}}

StructOrder == <<"num_context_tokens", "c_context", "c_size", "c_bits", "batch_size",
                 "cache_hit_tokens", "presence", "kinds">>
NumpyOrder == <<"num_context_tokens", "batch_size", "cache_hit_tokens", "c_context",
                "c_size", "c_bits", "presence", "kinds">>

\* A plausible mistake that no definition uses: the presence bits are or-ed onto
\* those of the step before.
FaultyNumpyWrite(slot, m) ==
    [CellsOf(m) EXCEPT !["presence"] = @ \cup slot["presence"]]

\* pack_into clears the record before it packs value after value.
StructWrite(slot, m) ==
    [c \in Cells |-> IF c \in StoredBefore(StructOrder, m) THEN CellsOf(m)[c] ELSE ZeroSlot[c]]
\* The views store one field after the other over what is there.
NumpyWrite(slot, m) ==
    [c \in Cells |-> IF c \in StoredBefore(NumpyOrder, m) THEN CellsOf(m)[c] ELSE slot[c]]
\* write_region makes a whole region, or raises before it is copied.
DagrPyWrite(slot, m) == IF SlotFits(m) THEN CellsOf(m) ELSE slot

\* _from_slot, what commit() logs.
FromSlot(slot) ==
    [batch_type |-> IF "TG" \in slot["kinds"] THEN "TG" ELSE "CE",
     overlap_active |-> "overlap" \in slot["kinds"],
     batch_size |-> slot["batch_size"],
     context_tokens |-> slot["num_context_tokens"],
     cache_hit_tokens |-> IF "hit" \in slot["presence"] THEN slot["cache_hit_tokens"] ELSE None,
     completed |->
        IF "completed" \notin slot["presence"] THEN None
        ELSE [batch_type |-> IF "TG" \in slot["c_bits"] THEN "TG" ELSE "CE",
              batch_size |-> slot["c_size"], context_tokens |-> slot["c_context"]]]

\* _from_metrics, what append() logs: _as_int raises as as_int does, UInt32(Int) and
\* UInt64(Int) keep the low bits.
AppendFits(m) ==
    /\ IntFits(m["batch_size"]) /\ IntFits(m["num_context_tokens"])
    /\ IntFits(m["cache_hit_tokens"])
    /\ m["completed"] # None => /\ IntFits(m["completed"]["batch_size"])
                                /\ IntFits(m["completed"]["num_context_tokens"])
Wrapped(v) == v % Two32
FromMetrics(m) ==
    LET c == m["completed"]
        hit == m["cache_hit_tokens"]
    IN  [batch_type |-> m["batch_type"],
         overlap_active |-> m["overlap_active"],
         batch_size |-> Wrapped(m["batch_size"]),
         context_tokens |-> Unsigned(m["num_context_tokens"]),
         cache_hit_tokens |-> IF hit = 0 THEN None ELSE Wrapped(hit),
         completed |->
            IF c = None THEN None
            ELSE [batch_type |-> c["batch_type"], batch_size |-> Wrapped(c["batch_size"]),
                  context_tokens |-> Unsigned(c["num_context_tokens"])]]
=============================================================================
