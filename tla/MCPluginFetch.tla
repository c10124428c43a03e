--------------------------- MODULE MCPluginFetch ---------------------------
(* Two interchangeable requests, two sessions, over two accounts. *)
EXTENDS PluginFetch

CONSTANTS f1, f2, k1, k2, h1, h2

MCPool == <<h1, h2>>
MCWorkspaces == [a \in {h1, h2} |-> 0]
MCSymmetry == Permutations({f1, f2}) \cup Permutations({k1, k2})

\* A request that is over is told apart only by what FetchSafe says of it.
MCView ==
  <<hostPool, hostRow, sticky, stickyVersion, poolPause, burst, refundable, failoverMode, removedTwice,
    [f \in Fetches |-> IF fetches[f].pc = "over"
       THEN <<fetches[f].sends, fetches[f].voices, fetches[f].net, fetches[f].resent>> ELSE fetches[f]]>>
=============================================================================
