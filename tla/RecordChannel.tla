---------------------------- MODULE RecordChannel ----------------------------
(***************************************************************************)
(* What a log file is for: a channel from one producing process to one     *)
(* reader.  Records are sent, one or several at a time; the reader takes    *)
(* them in the order they were sent, each once, and every one in the end.   *)
(***************************************************************************)
EXTENDS Naturals, Sequences

VARIABLES sent, delivered

Init == sent = <<>> /\ delivered = <<>>

Send == /\ Len(sent') > Len(sent)
        /\ SubSeq(sent', 1, Len(sent)) = sent
        /\ UNCHANGED delivered

\* The reader catches up by one record or more.
Deliver == /\ \E n \in 1..Len(sent) :
                 n > Len(delivered) /\ delivered' = SubSeq(sent, 1, n)
           /\ UNCHANGED sent

Next == Send \/ Deliver

\* In order, each once; the rest of what a channel promises is fairness.
Safety == Init /\ [][Next]_<<sent, delivered>>

Spec == Safety /\ WF_<<sent, delivered>>(Deliver)
=============================================================================
