------------------------------ MODULE MCProcess ------------------------------
(***************************************************************************)
(* The process (Lifecycle) and what its clean-up task is for, the tokens   *)
(* that were revoked (TokenRevocation). The two share no variable: a       *)
(* behaviour is one of one part. While the one moves, nothing of the other *)
(* has begun.                                                              *)
(***************************************************************************)
EXTENDS MCTokenRevocation, Lifecycle

CONSTANTS k1, k2

VARIABLE part

ProcessAtRest ==
  /\ settings = [mode |-> "serve", databases |-> FALSE, revocation |-> "none",
                 interval |-> FALSE, tls |-> FALSE, keepAlive |-> FALSE]
  /\ LifeInit

TokensAtRest == store = "none" /\ Init

MCInit ==
  \/ part = "tokens" /\ Init /\ ProcessAtRest
  \/ part = "process" /\ TokensAtRest /\ LifeInit

MCNext ==
  \/ part = "tokens" /\ Next /\ UNCHANGED <<part, lifeVars>>
  \/ part = "process" /\ LifeNext /\ UNCHANGED <<part, vars>>

MCSpec == MCInit /\ [][MCNext]_<<part, vars, lifeVars>> /\ LifeFairness
=============================================================================
