---------------------------- MODULE MCRateLimiter ----------------------------
(***************************************************************************)
(* Instances of RateLimiter for TLC.                                       *)
(***************************************************************************)
EXTENDS RateLimiter, TLC

CONSTANTS k1, k2, t1, t2, global, fast

\* One request in a window of two ticks, pruned as soon as there are two keys.
Policy(max, window) ==
  [enabled |-> TRUE, max_requests |-> max, window |-> window,
   cleanup_threshold |-> 1]

MCGlobal == global :> Policy(1, 2)
\* An endpoint whose own window is shorter than the global one.
MCOverride == (global :> Policy(2, 4)) @@ (fast :> Policy(1, 1))

\* Keys and tasks are interchangeable.
Symmetry == Permutations({k1, k2}) \cup Permutations({t1, t2})

=============================================================================
