---------------------------- MODULE MCMediaFiles ----------------------------
(***************************************************************************)
(* The handlers that keep a table and a store in agreement: the media      *)
(* library and the file store. They share no state, so that a behaviour    *)
(* is one of either part.                                                  *)
(*                                                                         *)
(* Media: two items, one more path, two users and two requests at a time.  *)
(* Four requests in all: enough for two uploads and two handlers that      *)
(* overlap, or for an upload, a handler cut short and two more.            *)
(*                                                                         *)
(* File store: two ids, one of which may have a row already, two paths,    *)
(* two users and an admin. Three requests in all, two at a time: enough    *)
(* for two that overlap and one before or after them. Owners change, and   *)
(* are missing at first, where the routes of the entries are mixed and     *)
(* there is no trash.                                                      *)
(***************************************************************************)
EXTENDS MediaFiles, FileStore, TLC

CONSTANTS i1, i2, n1, u1, u2, r1, r2, p1, p2, admin

VARIABLE part

MCItems == {i1, i2}
MCNames == {n1}
MCUsers == {u1, u2}
MCRequests == {r1, r2}
MCPaths == {p1, p2}
MCSubjects == MCUsers \cup {admin}

MCMixes == {{"create", "update", "delete", "get_one", "list"},
            {"update", "delete", "restore", "purge", "empty"},
            {"delete", "attach", "detach"}}

\* Where owners change, and where they are missing at first.
OwnersMove == "get_one" \in mix /\ settings.adminOverride /\ ~settings.trash

MCInit ==
  /\ Init /\ StoreInit
  /\ part \in {"media", "file_store"}
  /\ part = "media" => /\ settings = [trash |-> TRUE, prefix |-> ".trash",
                                      owned |-> TRUE, adminOverride |-> TRUE]
                       /\ mix = {"delete", "attach", "detach"}
                       /\ entries[1] = Nothing /\ entries[2] = Nothing
  /\ settings.owned
  /\ settings.prefix = "bin" => "restore" \in mix
  /\ ~settings.adminOverride => "get_one" \in mix /\ ~settings.trash
  /\ (\E i \in Ids : owners[i] = {Nothing}) => OwnersMove
  /\ part = "file_store" => config = [trash |-> TRUE, onDelete |-> "detach"]

MCNext ==
  \/ part = "media" /\ Next /\ UNCHANGED <<part, storeVars>>
  \/ /\ part = "file_store" /\ StoreNext /\ UNCHANGED <<part, vars>>
     /\ OwnersMove \/ \A i \in Ids : owners[i] \in {{}, owners'[i]}

MCSpec == MCInit /\ [][MCNext]_<<part, vars, storeVars>>

Symmetry ==
  Permutations(MCItems) \cup Permutations(MCUsers) \cup Permutations(MCRequests)
    \cup Permutations(MCPaths)
=============================================================================
