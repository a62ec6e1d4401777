----------------------------- MODULE MCHotReload -----------------------------
(***************************************************************************)
(* Instances of HotReload for TLC.                                         *)
(***************************************************************************)
EXTENDS HotReload, TLC

CONSTANTS r1, r2, q1, s1, s2

\* Two stores: the second content changes what store_config_eq compares of
\* s1 and drops s2.
MCStoresOf ==
  [c \in 1 .. NumConfigs |->
     IF c = 1 THEN [s \in {s1, s2} |-> [id |-> 1, rest |-> 1]]
     ELSE [s \in {s1} |-> [id |-> c, rest |-> 1]]]

\* A request that runs four statements, and one that holds the registry across
\* its statements.
MCKindRegister == q1 :> "register"
MCKindCreate == q1 :> "create"
=============================================================================
