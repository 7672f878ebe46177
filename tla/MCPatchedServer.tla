--------------------------- MODULE MCPatchedServer ---------------------------
(* Servers and steps small enough for TLC, and large enough for every case. *)
EXTENDS PatchedServer, MCPatcher

\* Without a cache, the default manager with connectors that override one thing or
\* another, a tiered connector, one that counts and never resets, another manager.
Cache(counts, m, reset, manager, dp) ==
    [present |-> TRUE, counts |-> counts, metrics |-> m, reset |-> reset,
     manager |-> manager, dp |-> dp]
NullCache == Cache(FALSE, FALSE, FALSE, FALSE, 1)
Caches ==
    {[NullCache EXCEPT !.present = FALSE], NullCache, [NullCache EXCEPT !.dp = 2],
     Cache(TRUE, TRUE, TRUE, FALSE, 1), Cache(TRUE, TRUE, TRUE, FALSE, 2),
     Cache(TRUE, FALSE, FALSE, FALSE, 2), Cache(FALSE, FALSE, TRUE, FALSE, 1),
     Cache(FALSE, TRUE, FALSE, FALSE, 1), Cache(FALSE, FALSE, FALSE, TRUE, 2)}
MCServers ==
    (Caches \X {"record"}) \cup ({NullCache} \X (Routes \ {"record"}))

Context(active, processed, generated, padding) ==
    [active |-> active, processed |-> processed, generated |-> generated,
     padding |-> padding]
Prefill == Context(3, 1, 0, FALSE)
Decode == Context(1, 4, 2, FALSE)
Padding == Context(1, 0, 1, TRUE)

Done(type, size, output, rates) ==
    [batch_type |-> type, batch_size |-> size, num_context_tokens |-> 5,
     num_output_tokens |-> output, acceptance_rate_per_position |-> rates]
Step(batches, free, hits, acceptance, overlap, completed, vision, video) ==
    [batches |-> batches, free |-> free,
     host |-> <<[total |-> 4, used |-> 1], [total |-> 4, used |-> 3]>>,
     cache_hit_tokens |-> hits, acceptance |-> acceptance, overlap_active |-> overlap,
     completed |-> completed, vision |-> vision, video |-> video]

\* Plain; everything there is; a number for which 32 bits are too few, and one for which
\* 64 are, after fields that fit and before others.
MCSteps ==
    {Step(<< <<Prefill, Decode>>, <<Padding>> >>, <<1, 2>>, 0, <<>>, FALSE, None, None, None),
     Step(<< <<Decode>>, <<Decode, Padding>> >>, <<0, 1>>, 7, <<"r1">>, TRUE,
          Done("TG", 3, None, <<"r2">>), [num_images_total |-> 2],
          [num_clips_total |-> 1, frame_counts |-> <<0, Half - 1>>]),
     Step(<< <<Padding>>, <<Prefill>> >>, <<2, 2>>, 0, <<"r1">>, FALSE,
          Done("CE", Two32 + 2, 0, <<>>), None,
          [num_clips_total |-> 0, frame_counts |-> <<>>]),
     Step(<< <<Decode>>, <<>> >>, <<1, 0>>, Half, <<>>, TRUE,
          Done("CE", 1, 1, <<>>), None, None)}

\* The script does not run once the server is up, and a server that is up does not
\* look at its files again.
MCView == IF phase = "down" THEN <<patcherVars, stepVars>> ELSE <<stepVars>>
=============================================================================
