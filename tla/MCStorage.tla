----------------------------- MODULE MCStorage ------------------------------
(***************************************************************************)
(* Two calls on a store with a directory d, in it a directory e and a file *)
(* that is called d as well, and next to it a file dx, whose name goes on  *)
(* where that of d ends; and two callers of the GCS backend's token. The   *)
(* token shares no variable with the store: a behaviour is one of either.  *)
(***************************************************************************)
EXTENDS Storage, GcsToken, TLC

MCDirs == {<<"d">>, <<"d", "e">>}
MCFiles == {<<"dx">>, <<"d", "d">>}
MCCut == (<<"dx", "d">> :> "x")
MCBackends == {"memory", "native", "s3", "azure", "gcs"}

Untouched == calls = [c \in Calls |-> NoCall] /\ \A k \in Keys : objects[k] = Absent

MCInit == Init /\ TokenInit

MCNext ==
  \/ TokenInit /\ Next /\ UNCHANGED tokenVars
  \/ Untouched /\ backend = "gcs" /\ TokenNext /\ UNCHANGED vars

MCSpec == MCInit /\ [][MCNext]_<<vars, tokenVars>>
=============================================================================
