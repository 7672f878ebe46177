--------------------------- MODULE RecordDecoding ---------------------------
(***************************************************************************)
(* What both tails ask of the decoder of a stream: measurement_log.mojo's   *)
(* decode_measurements and metrics_log.mojo's decode_records return the     *)
(* records all of whose bytes are in the buffer, and where the rest starts.  *)
(* A byte is the number of the record it belongs to, and decoding starts      *)
(* where a record starts, so a record is complete when its last byte is there. *)
(* `from` is the number of bytes of the stream before the buffer.               *)
(***************************************************************************)
EXTENDS Naturals, Sequences, FiniteSets, SequencesExt

\* Definitions named Faulty... have a plausible mistake in them: they are no part
\* of a specification, and a property of a module that uses this one refutes each.

\* A record is decoded as soon as its first byte is there.
FaultyComplete(stream, data, from) == ToSet(data)

\* The bytes of an incomplete record are dropped.
FaultyLeftover(stream, data, from) == <<>>

\* The places in the buffer where a record ends: the next byte is another's.
Ends(stream, data, from) ==
    {i \in DOMAIN data : from + i = Len(stream) \/ stream[from + i + 1] # data[i]}

Complete(stream, data, from) == {data[i] : i \in Ends(stream, data, from)}

\* The rest starts behind the last complete record.
Leftover(stream, data, from) ==
    SubSeq(data, Max(Ends(stream, data, from) \cup {0}) + 1, Len(data))

\* The records in the order of their numbers, which is that of the stream.
InOrder(records) ==
    CHOOSE s \in [1..Cardinality(records) -> records] :
        \A i \in 1..Len(s) - 1 : s[i] < s[i + 1]

\* Decoding starts at a record boundary of the stream, on the stream's bytes.
Sound(stream, data, from) ==
    /\ from + Len(data) <= Len(stream)
    /\ \A i \in DOMAIN data : data[i] = stream[from + i]
    /\ from = 0 \/ data = <<>> \/ stream[from] # stream[from + 1]
=============================================================================
