---------------------------- MODULE MCMetricClient ----------------------------
(* The client on small instances: the threads, names and dicts are symmetric. *)
EXTENDS MetricClient, TLC

Symmetry == Permutations(Senders) \cup Permutations(Names) \cup Permutations(Dicts)
               \cup Permutations(Contents \ {NoAttrs})
===============================================================================
