--------------------------- MODULE MeasurementTail ---------------------------
(***************************************************************************)
(* One producer's measurement file followed by the telemetry process        *)
(* (measurement_publish.py: _Producer and tail_measurements).  The reader   *)
(* shares nothing with the writer but the two files: it samples the sidecar, *)
(* reads the log up to the sampled length with pread, and decodes every      *)
(* COMPLETE record, keeping the bytes of an incomplete one for the next turn. *)
(*                                                                         *)
(* The first write() of a stream is its framing and header, every later one  *)
(* is one record: the write number, which every byte carries, names it.       *)
(***************************************************************************)
EXTENDS MmapDestination, RecordDecoding

VARIABLES
    followed,   \* the path is in `producers`: both descriptors are open
    sampled,    \* committed_len once it is read and the log is not yet, else 0
    offset,     \* _Producer.offset
    pending,    \* _Producer.pending
    started,    \* _Producer.pos is not None: the header was consumed
    delivered,  \* history: the records handed to commit, in order
    garbled     \* history: bytes were decoded that are not the stream's

reader == <<followed, sampled, offset, pending, started, delivered, garbled>>
tailVars == <<vars, reader>>

\* The first record of the stream is its framing and header.
HeaderRecord == stream[1]

TailInit ==
    /\ Init
    /\ followed = FALSE /\ sampled = 0 /\ offset = 0
    /\ pending = <<>> /\ started = FALSE
    /\ delivered = <<>> /\ garbled = FALSE

-----------------------------------------------------------------------------
\* The glob finds the log; the file is followed once its sidecar exists.
Discover ==
    /\ ~followed /\ lenOf > 0
    /\ followed' = TRUE
    /\ UNCHANGED <<vars, sampled, offset, pending, started, delivered, garbled>>

\* Definitions named Faulty... have a plausible mistake in them: they are no part
\* of the specification, and a property below refutes each.

\* The file size is taken for the committed length.
FaultySampleSize ==
    /\ followed /\ sampled = 0
    /\ Len(log) > offset
    /\ sampled' = Len(log)
    /\ UNCHANGED <<vars, followed, offset, pending, started, delivered, garbled>>

\* One byte more than the committed length is asked for.
FaultySampleOneMore ==
    /\ followed /\ sampled = 0
    /\ published > offset
    /\ sampled' = published + 1
    /\ UNCHANGED <<vars, followed, offset, pending, started, delivered, garbled>>

\* pread of the sidecar; nothing to do when it is not past the offset.  What the
\* code makes of bytes that are not the stream's is not modelled any further.
SampleLength ==
    /\ followed /\ sampled = 0 /\ ~garbled
    /\ published > offset
    /\ sampled' = published
    /\ UNCHANGED <<vars, followed, offset, pending, started, delivered, garbled>>

\* The header is the first thing consumed; then every complete record is
\* decoded and committed, and the rest waits.
Consume(data, from) ==
    LET whole == Complete(stream, data, from)
        ready == started \/ HeaderRecord \in whole
    IN  /\ started' = ready
        /\ pending' = IF ready THEN Leftover(stream, data, from) ELSE data
        /\ delivered' = IF ready THEN delivered \o InOrder(whole \ {HeaderRecord})
                                 ELSE delivered

\* pread of the log from the offset: it may return fewer bytes than asked for,
\* and none at all past the end of a file that was cut meanwhile.
ReadChunk ==
    /\ sampled > 0
    /\ sampled' = 0
    /\ \/ /\ Len(log) <= offset
          /\ UNCHANGED <<offset, pending, started, delivered, garbled>>
       \/ \E end \in offset + 1 .. sampled :
             /\ end <= Len(log)
             /\ offset' = end
             /\ LET data == pending \o SubSeq(log, offset + 1, end)
                    from == offset - Len(pending)
                IN  IF Sound(stream, data, from)
                    THEN Consume(data, from) /\ UNCHANGED garbled
                    ELSE garbled' = TRUE /\ UNCHANGED <<pending, started, delivered>>
    /\ UNCHANGED <<vars, followed>>

-----------------------------------------------------------------------------
Reader == Discover \/ SampleLength \/ ReadChunk

TailNext == Reader \/ (Next /\ UNCHANGED reader)

\* The tail thread polls for ever; the writer's own thread runs to the end of a
\* write() it has begun unless its process dies.
Fairness ==
    /\ WF_tailVars(Discover)
    /\ WF_tailVars(SampleLength)
    /\ WF_tailVars(ReadChunk)

TailSpec == TailInit /\ [][TailNext]_tailVars /\ Fairness

-----------------------------------------------------------------------------
TailTypeOK ==
    /\ followed \in BOOLEAN /\ started \in BOOLEAN /\ garbled \in BOOLEAN
    /\ sampled \in 0..MaxOffset /\ offset \in 0..MaxOffset
    /\ pending \in Seq(Nat) /\ delivered \in Seq(Nat)

\* A pread never returns bytes the writer has not put in place, and however the
\* reads are cut, decoding resumes exactly at a record boundary.
NeverGarbled == ~garbled

\* No byte is skipped or decoded twice: the records delivered and the bytes
\* pending are together the stream up to the offset.
EveryByteOnce ==
    started => \A i \in 1..offset :
                  \/ stream[i] = HeaderRecord
                  \/ stream[i] \in ToSet(delivered) /\ stream[i] \notin ToSet(pending)
                  \/ stream[i] \notin ToSet(delivered) /\ stream[i] \in ToSet(pending)

\* The records whose write() is published, without the header.
PublishedRecords ==
    InOrder({r \in ToSet(SubSeq(stream, 1, published)) : r # HeaderRecord})

\* The file implements a record channel: in order, at most once, and for a
\* writer that lives or dies at any point, every published record in the end.
Channel == INSTANCE RecordChannel WITH sent <- PublishedRecords
ImplementsChannel == Channel!Spec
=============================================================================
