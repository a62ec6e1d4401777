---------------------------- MODULE MCOAuth2Flow ----------------------------
(***************************************************************************)
(* Instances of OAuth2Flow for TLC.                                        *)
(***************************************************************************)
EXTENDS OAuth2Flow, TLC

CONSTANTS f1, f2, b1, b2

Set(oauth2, jwt, ttl, max) ==
  [oauth2 |-> oauth2, jwt |-> jwt, state_ttl |-> ttl, max_pending_states |-> max]

\* A reload that halves the limit, shortens state_ttl and drops auth.jwt, then
\* one that drops auth.oauth2.
MCSettings == <<Set(TRUE, TRUE, 3, 2), Set(TRUE, FALSE, 2, 1), Set(FALSE, TRUE, 3, 2)>>

\* Flows and callbacks are interchangeable.
Symmetry == Permutations({f1, f2}) \cup Permutations({b1, b2})
=============================================================================
