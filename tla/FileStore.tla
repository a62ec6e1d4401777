----------------------------- MODULE FileStore ------------------------------
(***************************************************************************)
(* The file store: a table that catalogues files of a store. Its handlers  *)
(* create, change, delete and restore the rows; the files themselves come  *)
(* from elsewhere and are only moved to the trash, back, or deleted.       *)
(*                                                                         *)
(* Every statement and every call of the store is an await. Requests       *)
(* interleave there, and each may end there because the call fails or the  *)
(* client has gone (Stop). A file's content is the path it had at first.   *)
(* The body of a create or an update may set any column but id, the path   *)
(* and, in an update, the owner among them. An owner that is NULL or not a *)
(* string is Nothing.                                                      *)
(***************************************************************************)
EXTENDS Naturals

CONSTANTS
  Ids,            \* ids the database gives to new rows
  FilePaths,      \* values of file_path
  Subjects,       \* subjects of requests
  Admins,         \* those of them with the first role of the endpoint
  Slots,          \* requests under way at one time
  MaxDispatched,  \* bound: requests in all
  Mixes,          \* bound: the kinds of requests that one behaviour mixes
  Nothing         \* no row, no file, no path, no owner

VARIABLES
  settings,       \* what FileStoreConfig says of trash and ownership
  mix,            \* the kinds of requests of this behaviour
  entries,        \* the table
  stored,         \* the store
  attached,       \* the association table: an id and its order
  requests,       \* requests under way
  dispatched,     \* requests so far
  claims,         \* history: the ids that ever had a path
  purged,         \* history: ids that requests set out to delete for good
  owners,         \* history: the owners of each id
  accesses        \* history: who changed or saw a row through its own routes

storeVars == <<settings, mix, entries, stored, attached, requests, dispatched,
               claims, purged, owners, accesses>>
storeHistory == <<claims, purged, owners, accesses>>

\* delete.rs moves a file to .trash, trash.rs looks under trash.prefix.
Live(p) == <<"", p>>
TrashDest(p) == <<".trash", p>>
TrashPath(p) == <<settings.prefix, p>>
Prefixes == {".trash", "bin"}
Places == ({""} \cup Prefixes) \X FilePaths

\* The handlers: of the entries, of the trash and of the content references.
Operations == {"create", "update", "delete", "get_one", "list", "restore",
               "purge", "empty", "attach", "detach"}

NoRequest ==
  [op |-> "none", user |-> Nothing, id |-> Nothing, pc |-> "idle",
   path |-> Nothing, ids |-> {}, order |-> 0, early |-> FALSE, alone |-> FALSE]

StoreInit ==
  /\ settings \in [trash : BOOLEAN, prefix : Prefixes, owned : BOOLEAN,
                   adminOverride : BOOLEAN]
  /\ mix \in Mixes /\ mix \subseteq Operations
  /\ settings.trash \/ settings.prefix = ".trash"
  /\ settings.owned \/ settings.adminOverride
  /\ \E u \in (Subjects \ Admins) \cup {Nothing}, p \in FilePaths, has \in SUBSET {CHOOSE i \in Ids : TRUE} :
       /\ entries = [i \in Ids |-> IF i \in has
                       THEN [path |-> p, owner |-> u, trashed |-> FALSE] ELSE Nothing]
       /\ claims = [o \in FilePaths |-> IF o = p THEN has ELSE {}]
       /\ owners = [i \in Ids |-> IF i \in has THEN {u} ELSE {}]
  /\ stored = [l \in Places |-> IF l[1] = "" THEN l[2] ELSE Nothing]
  /\ attached = {}
  /\ requests = [r \in Slots |-> NoRequest]
  /\ dispatched = 0
  /\ purged = {}
  /\ accesses = {}

-----------------------------------------------------------------------------
\* Dispatch.

\* The first step of each handler. The management endpoints answer 405
\* without trash.
FirstStep(op) ==
  CASE op = "create" -> "insert"
    [] op \in {"update", "delete", "get_one"} -> "owner"
    [] op = "list" -> "list"
    [] op \in {"restore", "purge"} -> "select_trashed"
    [] op = "empty" -> "select_ids"
    [] op = "attach" -> "max_order"
    [] op = "detach" -> "delete_ref"

ForOneEntry(op) == op \notin {"create", "list", "empty"}
ByAnyone(op) == op \in {"restore", "purge", "empty", "attach", "detach"}

\* A request for op arrives, from the user u, for the entry i.
DispatchFor(r, op, u, i) ==
  /\ requests[r] = NoRequest /\ dispatched < MaxDispatched
  /\ op \in {"restore", "purge", "empty"} => settings.trash
  /\ ~ForOneEntry(op) => i = CHOOSE j \in Ids : TRUE
  /\ ByAnyone(op) <=> u = Nothing
  /\ requests' = [o \in Slots |->
       IF o = r THEN [NoRequest EXCEPT !.op = op, !.user = u, !.pc = FirstStep(op),
                        !.id = IF ForOneEntry(op) THEN i ELSE Nothing,
                        !.alone = \A q \in Slots \ {r} : requests[q] = NoRequest]
       ELSE [requests[o] EXCEPT !.alone = FALSE]]
  /\ purged' = IF op = "purge" \/ (op = "delete" /\ ~settings.trash)
                 THEN purged \cup {i} ELSE purged
  /\ dispatched' = dispatched + 1
  /\ UNCHANGED <<settings, mix, entries, stored, attached, claims, owners, accesses>>

Dispatch(r) ==
  \E op \in mix, u \in Subjects \cup {Nothing}, i \in Ids : DispatchFor(r, op, u, i)

At(r, pc) == requests[r].pc = pc
GoOn(r, pc) == requests' = [requests EXCEPT ![r].pc = pc]
Respond(r) == requests' = [requests EXCEPT ![r] = NoRequest]

GiveUp(r) ==
  /\ requests[r] # NoRequest
  /\ Respond(r)
  /\ UNCHANGED <<settings, mix, entries, stored, attached, dispatched, storeHistory>>

-----------------------------------------------------------------------------
\* check_file_store_ownership: a row that is not there passes, and so does
\* everybody at a row whose owner is no string.

\* get_one only asks where admin_override is set.
AsksUnlessReading(q) ==
  settings.owned /\ q.user \notin Admins /\ q.op # "get_one"
AsksForOwner(q) ==
  /\ settings.owned /\ q.user \notin Admins
  /\ q.op = "get_one" => settings.adminOverride

\* Without trash, delete asks twice.
AfterOwner(q) ==
  CASE q.op = "update" -> "update"
    [] q.op = "get_one" -> "read"
    [] q.op = "delete" /\ ~settings.trash /\ q.pc = "owner" -> "owner_again"
    [] OTHER -> "select_path"

CheckOwnership(r) ==
  LET q == requests[r]
      row == entries[q.id]
  IN /\ At(r, "owner") \/ At(r, "owner_again")
     /\ IF AsksForOwner(q) /\ row # Nothing /\ row.owner \notin {q.user, Nothing}
          THEN Respond(r)
          ELSE requests' = [requests EXCEPT ![r].pc = AfterOwner(q),
                                            ![r].early = (row = Nothing)]
     /\ UNCHANGED <<settings, mix, entries, stored, attached, dispatched, storeHistory>>

InsertEntry(r) ==
  LET q == requests[r] IN
  /\ At(r, "insert")
  /\ \E i \in Ids, p \in FilePaths :
       /\ entries[i] = Nothing /\ owners[i] = {}
       /\ entries' = [entries EXCEPT ![i] = [path |-> p, owner |-> q.user, trashed |-> FALSE]]
       /\ claims' = [claims EXCEPT ![p] = @ \cup {i}]
       /\ owners' = [owners EXCEPT ![i] = {q.user}]
  /\ Respond(r)
  /\ UNCHANGED <<settings, mix, stored, attached, dispatched, purged, accesses>>

Accessed(q) == accesses \cup {[user |-> q.user, id |-> q.id, early |-> q.early]}

Update(r) ==
  LET q == requests[r] IN
  /\ At(r, "update")
  /\ IF entries[q.id] = Nothing THEN UNCHANGED <<entries, claims, owners, accesses>>
     ELSE \E p \in FilePaths, u \in Subjects \cup {Nothing} :
       /\ entries' = [entries EXCEPT ![q.id].path = p, ![q.id].owner = u]
       /\ claims' = [claims EXCEPT ![p] = @ \cup {q.id}]
       /\ owners' = [owners EXCEPT ![q.id] = @ \cup {u}]
       /\ accesses' = Accessed(q)
  /\ Respond(r)
  /\ UNCHANGED <<settings, mix, stored, attached, dispatched, purged>>

ReadRow(r) ==
  LET q == requests[r] IN
  /\ At(r, "read")
  /\ accesses' = IF entries[q.id] # Nothing /\ settings.adminOverride
                  THEN Accessed(q) ELSE accesses
  /\ Respond(r)
  /\ UNCHANGED <<settings, mix, entries, stored, attached, dispatched, claims, purged, owners>>

\* A filter on the owner column; entries in the trash are left out of the
\* page afterwards.
ListRows(r) ==
  LET q == requests[r]
      shown == {i \in Ids : /\ entries[i] # Nothing /\ ~entries[i].trashed
                            /\ settings.owned /\ q.user \notin Admins =>
                                 entries[i].owner = q.user}
  IN /\ At(r, "list")
     /\ accesses' = accesses \cup
          {[user |-> q.user, id |-> i, early |-> FALSE] : i \in shown}
     /\ Respond(r)
     /\ UNCHANGED <<settings, mix, entries, stored, attached, dispatched, claims, purged, owners>>

-----------------------------------------------------------------------------
\* DELETE /{id}.

\* Where the file of the path that was read lies, for each handler.
FileSource(q) ==
  IF q.op = "delete" THEN Live(q.path) ELSE TrashPath(q.path)

\* What follows the work on the file.
RowStep(q) ==
  CASE q.op = "delete" -> (IF settings.trash THEN "set_trashed" ELSE "delete_row")
    [] q.op = "restore" -> "set_restored"
    [] OTHER -> "delete_row"

WithFile(q) ==
  IF q.op = "restore" \/ (q.op = "delete" /\ settings.trash) THEN "rename" ELSE "unlink"

SelectPath(r) ==
  LET q == requests[r]
      row == entries[q.id]
  IN /\ At(r, "select_path")
     /\ requests' = [requests EXCEPT
          ![r].path = IF row = Nothing THEN Nothing ELSE row.path,
          ![r].pc = IF row = Nothing THEN RowStep(q) ELSE "exists"]
     /\ UNCHANGED <<settings, mix, entries, stored, attached, dispatched, storeHistory>>

\* restore and permanent delete: no row in the trash is an empty path. The
\* directory of the trash, if it is there, cannot be moved onto the root.
SelectTrashed(r) ==
  LET q == requests[r]
      row == entries[q.id]
      inTrash == row # Nothing /\ row.trashed
  IN /\ At(r, "select_trashed")
     /\ requests' = [requests EXCEPT
          ![r].path = IF inTrash THEN row.path ELSE Nothing,
          ![r].pc = IF inTrash THEN "exists" ELSE RowStep(q)]
     /\ UNCHANGED <<settings, mix, entries, stored, attached, dispatched, storeHistory>>

FileExists(r) ==
  LET q == requests[r] IN
  /\ At(r, "exists")
  /\ GoOn(r, IF stored[FileSource(q)] = Nothing THEN RowStep(q) ELSE WithFile(q))
  /\ UNCHANGED <<settings, mix, entries, stored, attached, dispatched, storeHistory>>

MovedBesides(from, to) == [stored EXCEPT ![from] = Nothing]
Moved(from, to) == [stored EXCEPT ![to] = stored[from], ![from] = Nothing]

\* A delete goes on when the rename fails, a restore does not.
RenameToTrash(r) ==
  LET q == requests[r] IN
  /\ At(r, "rename") /\ q.op = "delete"
  /\ \/ /\ stored[FileSource(q)] # Nothing
        /\ stored' = Moved(FileSource(q), TrashDest(q.path))
     \/ UNCHANGED stored
  /\ GoOn(r, RowStep(q))
  /\ UNCHANGED <<settings, mix, entries, attached, dispatched, storeHistory>>

RenameBackOrNot(r) ==
  LET q == requests[r] IN
  /\ At(r, "rename") /\ q.op = "restore"
  /\ GoOn(r, RowStep(q))
  /\ UNCHANGED <<settings, mix, entries, stored, attached, dispatched, storeHistory>>
RenameBack(r) ==
  LET q == requests[r] IN
  /\ At(r, "rename") /\ q.op = "restore"
  /\ stored[FileSource(q)] # Nothing
  /\ stored' = Moved(FileSource(q), Live(q.path))
  /\ GoOn(r, RowStep(q))
  /\ UNCHANGED <<settings, mix, entries, attached, dispatched, storeHistory>>

\* A delete without trash ends when the file cannot be deleted; the other
\* handlers go on.
UnlinkFile(r) ==
  LET q == requests[r] IN
  /\ At(r, "unlink")
  /\ \/ stored' = [stored EXCEPT ![FileSource(q)] = Nothing]
     \/ q.op # "delete" /\ UNCHANGED stored
  /\ GoOn(r, RowStep(q))
  /\ UNCHANGED <<settings, mix, entries, attached, dispatched, storeHistory>>

SetTrashed(r) ==
  LET q == requests[r] IN
  /\ At(r, "set_trashed")
  /\ IF entries[q.id] = Nothing THEN UNCHANGED <<entries, accesses>>
     ELSE /\ entries' = [entries EXCEPT ![q.id].trashed = TRUE]
          /\ accesses' = Accessed(q)
  /\ Respond(r)
  /\ UNCHANGED <<settings, mix, stored, attached, dispatched, claims, purged, owners>>

SetRestored(r) ==
  LET q == requests[r] IN
  /\ At(r, "set_restored")
  /\ entries' = IF entries[q.id] = Nothing THEN entries
                ELSE [entries EXCEPT ![q.id].trashed = FALSE]
  /\ GoOn(r, "restored")
  /\ UNCHANGED <<settings, mix, stored, attached, dispatched, storeHistory>>

Answer(r) ==
  /\ At(r, "restored")
  /\ Respond(r)
  /\ UNCHANGED <<settings, mix, entries, stored, attached, dispatched, storeHistory>>

\* The row of a permanent delete goes whether or not it is in the trash.
DeleteEntry(r) ==
  LET q == requests[r] IN
  /\ At(r, "delete_row") /\ q.op \in {"delete", "purge"}
  /\ entries' = [entries EXCEPT ![q.id] = Nothing]
  /\ accesses' = IF q.op = "delete" /\ entries[q.id] # Nothing THEN Accessed(q) ELSE accesses
  /\ Respond(r)
  /\ UNCHANGED <<settings, mix, stored, attached, dispatched, claims, purged, owners>>

-----------------------------------------------------------------------------
\* DELETE /_main-serve/file-store/trash: one id after the other, each
\* removed whether or not it is still in the trash.

SelectIds(r) ==
  LET ids == {i \in Ids : entries[i] # Nothing /\ entries[i].trashed} IN
  /\ At(r, "select_ids")
  /\ requests' = [requests EXCEPT ![r].ids = ids, ![r].pc = "each"]
  /\ purged' = purged \cup ids
  /\ UNCHANGED <<settings, mix, entries, stored, attached, dispatched, claims, owners, accesses>>

NextId(r) ==
  LET q == requests[r] IN
  /\ At(r, "each")
  /\ \/ q.ids = {} /\ Respond(r)
     \/ \E i \in q.ids :
          requests' = [requests EXCEPT ![r].id = i, ![r].ids = @ \ {i},
                                       ![r].path = Nothing, ![r].pc = "select_path"]
  /\ UNCHANGED <<settings, mix, entries, stored, attached, dispatched, storeHistory>>

DeleteTrashedEntry(r) ==
  LET q == requests[r] IN
  /\ At(r, "delete_row") /\ q.op = "empty"
  /\ entries' \in {entries, [entries EXCEPT ![q.id] = Nothing]}
  /\ GoOn(r, "each")
  /\ UNCHANGED <<settings, mix, stored, attached, dispatched, storeHistory>>

-----------------------------------------------------------------------------
\* Content references.

MaxOrder(r) ==
  LET orders == {f.order : f \in attached} IN
  /\ At(r, "max_order")
  /\ requests' = [requests EXCEPT
       ![r].order = 1 + (IF orders = {} THEN 0
                         ELSE CHOOSE n \in orders : \A m \in orders : m <= n),
       ![r].pc = "insert_ref"]
  /\ UNCHANGED <<settings, mix, entries, stored, attached, dispatched, storeHistory>>

InsertRef(r) ==
  /\ At(r, "insert_ref")
  /\ attached' = attached \cup {[id |-> requests[r].id, order |-> requests[r].order]}
  /\ Respond(r)
  /\ UNCHANGED <<settings, mix, entries, stored, dispatched, storeHistory>>

\* The statement has three parameters and is given two: the driver refuses
\* it or it finds nothing.
DeleteRef(r) ==
  /\ At(r, "delete_ref")
  /\ Respond(r)
  /\ UNCHANGED <<settings, mix, entries, stored, attached, dispatched, storeHistory>>

-----------------------------------------------------------------------------

StoreStep(r) ==
  \/ Dispatch(r) \/ GiveUp(r) \/ CheckOwnership(r) \/ ListRows(r)
  \/ InsertEntry(r) \/ Update(r) \/ ReadRow(r) \/ SelectPath(r) \/ SelectTrashed(r)
  \/ FileExists(r) \/ RenameToTrash(r) \/ RenameBack(r) \/ UnlinkFile(r)
  \/ SetTrashed(r) \/ SetRestored(r) \/ Answer(r) \/ DeleteEntry(r)
  \/ SelectIds(r) \/ NextId(r) \/ DeleteTrashedEntry(r)
  \/ MaxOrder(r) \/ InsertRef(r) \/ DeleteRef(r)

StoreNext == \E r \in Slots : StoreStep(r)

StoreSpec == StoreInit /\ [][StoreNext]_storeVars

-----------------------------------------------------------------------------

\* A file is still in the store, under its path or in the trash, as long as no
\* request has set out to delete for good one of the entries that ever named
\* it - however deletes and restores of them overlap, fail or are cut short,
\* and whatever trash.prefix says (delete.rs:53, trash.rs:124).
CataloguedFilesKept ==
  \A p \in FilePaths : claims[p] \cap purged = {} => \E l \in Places : stored[l] = p

\* Where rows have owners, nobody but an owner the row has had or an admin
\* changes, deletes or reads it through the entry routes, with two exceptions
\* that mod.rs:307-330 makes: a row that some time had no owner (NULL, or no
\* string) is everybody's, and so is one that was not there yet when the
\* request asked for its owner. An update may hand a row to anybody.
OwnersOnly ==
  settings.owned =>
    \A c \in accesses :
      c.user \in owners[c.id] \cup Admins \/ Nothing \in owners[c.id] \/ c.early

\* A restore that nothing overlapped leaves nothing of the entry behind in
\* the trash, whatever earlier requests were cut short (trash.rs:104).
RestoreIsWhole ==
  \A r \in Slots :
    LET q == requests[r] IN
    At(r, "restored") /\ q.alone /\ q.path # Nothing =>
      stored[TrashPath(q.path)] = Nothing
=============================================================================
