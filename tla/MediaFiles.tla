----------------------------- MODULE MediaFiles -----------------------------
(***************************************************************************)
(* The media library: every item is a row in a table and a file in a      *)
(* store, and no handler changes both in one step.                         *)
(*                                                                         *)
(* A handler reads file_path from the row, works on the file and then      *)
(* updates the row; each of these is an await, so that handlers for one    *)
(* item interleave, and a handler may end after any of them because a      *)
(* statement or a storage call fails or because the client goes away       *)
(* (Stop). Paths are flat names: an upload's path is the fresh UUID name   *)
(* upload.rs gives it, here the item itself, and Names are paths a user    *)
(* chooses in a move or a rename. A file's content is the item it was      *)
(* uploaded for. Ids are text, as handle_media_trash_empty needs them.     *)
(***************************************************************************)
EXTENDS Naturals, FiniteSets

CONSTANTS
  Items,        \* the items that may be uploaded
  Names,        \* paths chosen by users
  Users,        \* subjects of requests
  Requests,     \* requests under way at one time
  MaxRequests,  \* bound: requests in all
  None          \* no file, no row

ASSUME ItemsAreFresh == None \notin Items \cup Names /\ Items \cap Names = {}

VARIABLES
  config,     \* trash.enabled and content_references.on_delete
  files,      \* the store: which item's content lies where
  rows,       \* the media table
  refs,       \* items with a content reference
  request,    \* the handlers under way
  begun,      \* requests so far
  movedOnto,  \* history: the items moved onto a path
  removed,    \* history: items whose file was deleted for good
  trashedBy,  \* history: who moved an item's file to the trash
  torn        \* history: items whose move was cut short or overlapped

vars == <<config, files, rows, refs, request, begun,
          movedOnto, removed, trashedBy, torn>>
history == <<movedOnto, removed, trashedBy, torn>>

Paths == Items \cup Names

\* root/path, and root/{prefix}/{subject}/path for each subject.
Root == "root"
Locations == ({Root} \cup Users) \X Paths

OnDelete == {"detach", "cascade", "error"}

Idle == [pc |-> "idle", op |-> "none", item |-> None, user |-> None,
         path |-> None, dest |-> None, ids |-> {}, solo |-> FALSE]

\* sanitized_filename: a new UUID in front of the client's name.
UploadNameOfClient(i) == CHOOSE n \in Names : TRUE
UploadName(i) == i

Init ==
  /\ config \in [trash : BOOLEAN, onDelete : OnDelete]
  /\ files = [l \in Locations |-> None]
  /\ rows = [i \in Items |-> None]
  /\ refs = {}
  /\ request = [r \in Requests |-> Idle]
  /\ begun = 0
  /\ movedOnto = [p \in Paths |-> {}]
  /\ removed = {}
  /\ trashedBy = [i \in Items |-> {}]
  /\ torn = {}

-----------------------------------------------------------------------------
\* Requests arrive.

FileOps == {"delete", "restore", "purge", "move"}

\* Both may touch the same item's file or row.
Overlap(q1, q2) ==
  /\ {q1.op, q2.op} \subseteq FileOps \cup {"empty", "upload"}
  /\ q1.item = q2.item \/ "empty" \in {q1.op, q2.op}

StartPc(op) ==
  CASE op = "upload" -> "write"
    [] op = "delete" -> "refs"
    [] op = "empty"  -> "ids"
    [] op \in {"restore", "purge", "move"} -> "select"

\* The management endpoints answer 405 without trash.
Enabled(op) == op \in {"restore", "purge", "empty"} => config.trash

Arrive(r, q) ==
  LET met == {o \in Requests : Overlap(request[o], q)}
      moves == {request[o].item : o \in {m \in met : request[m].op = "move"}}
      own == IF q.op = "move" /\ met # {} THEN {q.item} ELSE {}
  IN /\ request[r] = Idle
     /\ begun < MaxRequests
     /\ Enabled(q.op)
     /\ begun' = begun + 1
     /\ request' = [o \in Requests |->
          IF o = r THEN [q EXCEPT !.solo = (met = {})]
          ELSE IF o \in met THEN [request[o] EXCEPT !.solo = FALSE]
          ELSE request[o]]
     /\ torn' = torn \cup moves \cup own
     /\ UNCHANGED <<config, files, rows, refs, movedOnto, removed, trashedBy>>

\* A UUID is only used once.
Fresh(i) ==
  /\ rows[i] = None /\ i \notin removed /\ trashedBy[i] = {}
  /\ movedOnto[UploadName(i)] = {} /\ \A p \in Paths : i \notin movedOnto[p]
  /\ \A l \in Locations : files[l] # i
  /\ \A r \in Requests : request[r].item # i

ArriveUpload(r, i) ==
  /\ Fresh(i)
  /\ Arrive(r, [Idle EXCEPT !.pc = StartPc("upload"), !.op = "upload",
                            !.item = i])

\* DELETE /{id}, and restore and DELETE of /_main-serve/media/trash/{id}.
ArriveFor(r, op, i, u) ==
  /\ op \in {"delete", "restore", "purge"}
  /\ Arrive(r, [Idle EXCEPT !.pc = StartPc(op), !.op = op,
                            !.item = i, !.user = u])

\* POST /{id}/move and PATCH /{id}/rename, onto a path of the user's choice
\* or onto one that is in use, but not onto a UUID that does not exist yet.
ArriveMove(r, i, d) ==
  /\ d \in Items => ~Fresh(d)
  /\ Arrive(r, [Idle EXCEPT !.pc = StartPc("move"), !.op = "move",
                            !.item = i, !.dest = d])

ArriveEmpty(r) ==
  Arrive(r, [Idle EXCEPT !.pc = StartPc("empty"), !.op = "empty"])

\* attach inserts a reference, without asking whether the item exists;
\* detach deletes it.
Attach(i) ==
  /\ refs' = refs \cup {i}
  /\ UNCHANGED <<config, files, rows, request, begun, history>>

Detach(i) ==
  /\ i \in refs
  /\ refs' = refs \ {i}
  /\ UNCHANGED <<config, files, rows, request, begun, history>>

-----------------------------------------------------------------------------
\* The steps of the handlers.

Goto(r, pc) == request' = [request EXCEPT ![r].pc = pc]
Finish(r) == request' = [request EXCEPT ![r] = Idle]

\* Where the handler looks for the file and where it moves it.
Source(q) ==
  IF q.op \in {"restore", "purge"} THEN <<q.user, q.path>>
                                   ELSE <<Root, q.path>>
Target(q) ==
  CASE q.op = "delete"  -> <<q.user, q.path>>
    [] q.op = "restore" -> <<Root, q.path>>
    [] q.op = "move"    -> <<Root, q.dest>>

\* Delete without trash, and delete of a trashed item.
ForGood(q) == q.op = "purge" \/ (q.op = "delete" /\ ~config.trash)

AfterFile(q) ==
  CASE q.op = "move" -> "setpath"
    [] ForGood(q)    -> "row"
    [] OTHER         -> "flag"

Write(r) ==
  LET q == request[r] IN
  /\ q.pc = "write"
  /\ files' = [files EXCEPT ![<<Root, UploadName(q.item)>>] = q.item]
  /\ Goto(r, "insert")
  /\ UNCHANGED <<config, rows, refs, begun, history>>

Insert(r) ==
  LET q == request[r] IN
  /\ q.pc = "insert"
  /\ rows' = [rows EXCEPT
       ![q.item] = [path |-> UploadName(q.item), trashed |-> FALSE]]
  /\ Finish(r)
  /\ UNCHANGED <<config, files, refs, begun, history>>

\* on_delete: error refuses with 409; detach and cascade are not looked at.
CheckReferences(r) ==
  LET q == request[r] IN
  /\ q.pc = "refs"
  /\ IF config.onDelete = "error" /\ q.item \in refs
       THEN Finish(r)
       ELSE Goto(r, "select")
  /\ UNCHANGED <<config, files, rows, refs, begun, history>>

\* move goes straight to the rename, the others ask for the file first.
FileStepSkippedByRestore(q) ==
  IF q.op = "move" THEN "rename"
  ELSE IF q.op = "restore" THEN "flag" ELSE "exists"
FileStep(q) == IF q.op = "move" THEN "rename" ELSE "exists"

\* SELECT file_path; restore and purge only see trashed rows.
SelectFilePath(r) ==
  LET q == request[r]
      found == /\ rows[q.item] # None
               /\ q.op \in {"restore", "purge"} => rows[q.item].trashed
  IN /\ q.pc = "select"
     /\ \/ /\ found
           /\ request' = [request EXCEPT ![r].path = rows[q.item].path,
                                         ![r].pc = FileStep(q)]
        \/ /\ ~found
           /\ IF q.op = "delete" /\ ForGood(q)
                THEN Goto(r, "row")
                ELSE Finish(r)
     /\ UNCHANGED <<config, files, rows, refs, begun, history>>

Exists(r) ==
  LET q == request[r] IN
  /\ q.pc = "exists"
  /\ Goto(r, IF files[Source(q)] = None THEN AfterFile(q)
             ELSE IF ForGood(q) THEN "unlink" ELSE "rename")
  /\ UNCHANGED <<config, files, rows, refs, begun, history>>

\* rename(2): fails if the source has gone, replaces what is at the target.
RenamedFile(from, to) ==
  IF from = to THEN files
  ELSE [files EXCEPT ![to] = files[from], ![from] = None]

Rename(r) ==
  LET q == request[r] IN
  /\ q.pc = "rename"
  /\ IF files[Source(q)] = None
       THEN Finish(r) /\ UNCHANGED <<files, movedOnto, trashedBy>>
       ELSE /\ files' = RenamedFile(Source(q), Target(q))
            /\ Goto(r, AfterFile(q))
            /\ movedOnto' = IF q.op # "move" THEN movedOnto
                 ELSE [movedOnto EXCEPT ![q.dest] = @ \cup {q.item}]
            /\ trashedBy' = IF q.op # "delete" THEN trashedBy
                 ELSE [trashedBy EXCEPT ![files[Source(q)]] = @ \cup {q.user}]
  /\ UNCHANGED <<config, rows, refs, begun, removed, torn>>

\* A file that has gone makes delete fail; purge ignores every error.
Unlink(r) ==
  LET q == request[r] IN
  /\ q.pc = "unlink"
  /\ files' = [files EXCEPT ![Source(q)] = None]
  /\ removed' = IF files[Source(q)] = None THEN removed
                ELSE removed \cup {q.item}
  /\ IF files[Source(q)] = None /\ q.op = "delete"
       THEN Finish(r)
       ELSE Goto(r, "row")
  /\ UNCHANGED <<config, rows, refs, begun, movedOnto, trashedBy, torn>>

UnlinkFails(r) ==
  /\ request[r].pc = "unlink" /\ request[r].op = "purge"
  /\ Goto(r, "row")
  /\ UNCHANGED <<config, files, rows, refs, begun, history>>

\* build_set_trashed and build_set_restored: WHERE id, whatever the flag is.
SetFlag(r) ==
  LET q == request[r] IN
  /\ q.pc = "flag"
  /\ rows' = IF rows[q.item] = None THEN rows
       ELSE [rows EXCEPT ![q.item].trashed = (q.op = "delete")]
  /\ Finish(r)
  /\ UNCHANGED <<config, files, refs, begun, history>>

\* build_set_file_path: WHERE id; an item that has gone is no error.
SetFilePath(r) ==
  LET q == request[r] IN
  /\ q.pc = "setpath"
  /\ rows' = IF rows[q.item] = None THEN rows
       ELSE [rows EXCEPT ![q.item].path = q.dest]
  /\ Finish(r)
  /\ UNCHANGED <<config, files, refs, begun, history>>

DeleteRow(r) ==
  LET q == request[r] IN
  /\ q.pc = "row"
  /\ rows' = [rows EXCEPT ![q.item] = None]
  /\ Finish(r)
  /\ UNCHANGED <<config, files, refs, begun, history>>

\* Emptying the trash: the ids first, then one DELETE after the other, with
\* its error ignored; files stay.
SelectTrashedIds(r) ==
  LET ids == {i \in Items : rows[i] # None /\ rows[i].trashed} IN
  /\ request[r].pc = "ids"
  /\ IF ids = {} THEN Finish(r)
     ELSE request' = [request EXCEPT ![r].ids = ids, ![r].pc = "loop"]
  /\ UNCHANGED <<config, files, rows, refs, begun, history>>

DeleteTrashedRow(r, i) ==
  LET q == request[r] IN
  /\ q.pc = "loop" /\ i \in q.ids
  /\ rows' \in {rows, [rows EXCEPT ![i] = None]}
  /\ IF q.ids = {i} THEN Finish(r)
     ELSE request' = [request EXCEPT ![r].ids = @ \ {i}]
  /\ UNCHANGED <<config, files, refs, begun, history>>

\* A failed statement or storage call, or a client that has gone.
Stop(r) ==
  LET q == request[r] IN
  /\ q # Idle
  /\ Finish(r)
  /\ torn' = IF q.pc = "setpath" THEN torn \cup {q.item} ELSE torn
  /\ UNCHANGED <<config, files, rows, refs, begun,
                 movedOnto, removed, trashedBy>>

-----------------------------------------------------------------------------
Step(r) ==
  \/ Write(r) \/ Insert(r)
  \/ CheckReferences(r) \/ SelectFilePath(r) \/ Exists(r)
  \/ Rename(r) \/ Unlink(r) \/ UnlinkFails(r)
  \/ SetFlag(r) \/ SetFilePath(r) \/ DeleteRow(r)
  \/ SelectTrashedIds(r)
  \/ \E i \in Items : DeleteTrashedRow(r, i)
  \/ Stop(r)

Next ==
  \/ \E r \in Requests :
       \/ Step(r)
       \/ \E i \in Items : ArriveUpload(r, i)
       \/ \E i \in Items, u \in Users, op \in FileOps : ArriveFor(r, op, i, u)
       \/ \E i \in Items, d \in Paths : ArriveMove(r, i, d)
       \/ ArriveEmpty(r)
  \/ \E i \in Items : Attach(i) \/ Detach(i)

Spec == Init /\ [][Next]_vars

-----------------------------------------------------------------------------
\* Every variable has its type.
TypeOK ==
  /\ config \in [trash : BOOLEAN, onDelete : OnDelete]
  /\ files \in [Locations -> Items \cup {None}]
  /\ rows \in [Items -> [path : Paths, trashed : BOOLEAN] \cup {None}]
  /\ refs \subseteq Items
  /\ request \in [Requests ->
       [pc : {"idle", "write", "insert", "refs", "select", "exists", "rename",
              "unlink", "flag", "setpath", "row", "ids", "loop"},
        op : FileOps \cup {"none", "upload", "empty"},
        item : Items \cup {None}, user : Users \cup {None},
        path : Paths \cup {None}, dest : Paths \cup {None},
        ids : SUBSET Items, solo : BOOLEAN]]
  /\ begun \in 0..MaxRequests
  /\ movedOnto \in [Paths -> SUBSET Items]
  /\ removed \subseteq Items
  /\ trashedBy \in [Items -> SUBSET Users]
  /\ torn \subseteq Items

\* The paths an item has had, and whether another item came to one of them
\* through a move.
PathsOf(i) == {UploadName(i)} \cup {p \in Paths : i \in movedOnto[p]}
Shared(i) ==
  \E p \in PathsOf(i) : \E j \in Items \ {i} :
    p \in PathsOf(j) /\ movedOnto[p] # {}

Stored(i) == \E l \in Locations : files[l] = i

\* However handlers overlap, fail or are cancelled, the file of an item in
\* the table is somewhere in the store, unless a permanent delete of this
\* very item removed it, or a move brought another item to one of its paths
\* (upload.rs, delete.rs, trash.rs: each handler works on a path it read
\* earlier).
KeptUnlessDeleted ==
  \A i \in Items :
    rows[i] # None => Stored(i) \/ i \in removed \/ Shared(i)

\* Moving to the trash and restoring repair what went wrong before: when one
\* of them completes with nothing else going on for the item, the file is
\* where the flag says, even after deletes and restores that overlapped, were
\* cancelled or failed half-way (handle_media_trash_delete and
\* handle_media_trash_restore go on when the file is not where they look).
\* Not covered: items moved half-way or to a shared path, and a trash filled
\* by another user.
TrashHeals ==
  [][\A r \in Requests :
       LET q == request[r]
           covered == /\ q.solo /\ rows[q.item] # None
                      /\ q.item \notin torn \cup removed
                      /\ ~Shared(q.item)
                      /\ trashedBy[q.item] \subseteq {q.user}
       IN (SetFlag(r) /\ covered) => files'[Target(q)] = q.item]_vars
=============================================================================
