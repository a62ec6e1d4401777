------------------------------ MODULE Storage -------------------------------
(***************************************************************************)
(* The backends of the trait Storage: memory, native, S3, Azure and GCS.   *)
(*                                                                         *)
(* A store is a set of keys with content; a key is the sequence of the     *)
(* components of a path, and a directory marker of an object store is a    *)
(* key that ends in an empty component ("d/" is <<"d", "">>). Every await  *)
(* of a call is a step of its own, and at each of them the call may fail   *)
(* or its future may be dropped (Fail). Content is the sequence of the     *)
(* calls whose data it consists of.                                        *)
(*                                                                         *)
(* The file system and the services are external: what a request does is   *)
(* taken from how the backends use it. Calls on the memory backend overlap *)
(* freely, and so do appends to a native file. Otherwise callers keep      *)
(* apart what they do on one path: a call on an object store is not atomic *)
(* (gcs.rs:577), nor is a write of the file system.                        *)
(***************************************************************************)
EXTENDS Naturals, Sequences, SequencesExt

CONSTANTS
  Backends,  \* the backends a store may have
  Calls,     \* calls of the trait's methods
  Files,     \* paths of files
  Dirs,      \* paths of directories
  Cut,       \* names that go on where another ends: what is left of them
  Absent     \* no content

\* The name of a component of a path (".dir" is GCS's marker of a directory),
\* and what stands behind a last slash.
Names == STRING \ {"", ".dir"}
NoName == ""

\* What a path lies in is a directory.
ASSUME PathsAssumption ==
  /\ Files \cap Dirs = {}
  /\ Files \cup Dirs \subseteq Seq(Names) \ {<<>>}
  /\ \A p \in Files \cup Dirs : \A i \in 1..(Len(p) - 1) :
       SubSeq(p, 1, i) \in Dirs

\* Cut[<<"dx", "d">>] = "x".
ASSUME CutAssumption == \A x \in DOMAIN Cut :
  x \in Names \X Names /\ x[1] # x[2] /\ Cut[x] \in Names

ASSUME AbsentAssumption == Absent \notin Seq(Calls \cup {"old"})

VARIABLES
  backend,  \* StoreConfig.backend
  objects,  \* files, blobs or objects: the content of each key, or Absent
  dirs,     \* MemoryStorage.dirs, and the directories of the file system
  calls     \* the calls under way and those that have ended

vars == <<backend, objects, dirs, calls>>

Cloud == {"s3", "azure", "gcs"}

ASSUME BackendsAssumption == Backends \subseteq {"memory", "native"} \cup Cloud

\* d + "/" for S3 and Azure, d + "/.dir/" for GCS.
Slash(d) == Append(d, NoName)
DotDir(d) == d \o <<".dir", NoName>>

Keys == Files \cup Dirs \cup {Slash(d) : d \in Dirs} \cup {DotDir(d) : d \in Dirs}

Parent(p) == SubSeq(p, 1, Len(p) - 1)
Ancestors(p) == {SubSeq(p, 1, i) : i \in 1..Len(p)}
Below(d) == {k \in Keys : IsStrictPrefix(d, k) /\ objects[k] # Absent}
Content(x) == IF x = Absent THEN <<>> ELSE x

-----------------------------------------------------------------------------
\* The methods that only look.

Entry(name, isDir) == [name |-> name, is_dir |-> isDir]

MemoryExists(p) ==
  objects[p] # Absent \/ p \in dirs \/ Below(p) # {}

MemoryMetadata(p) ==
  IF objects[p] # Absent THEN "file" ELSE IF p \in dirs THEN "dir" ELSE "none"

MemoryList(d) ==
  {Entry(Last(e), TRUE) : e \in {e \in dirs : Parent(e) = d}} \cup
  {Entry(Last(k), FALSE) :
     k \in {k \in Keys : objects[k] # Absent /\ Parent(k) = d}}

NativeExists(p) == objects[p] # Absent \/ p \in dirs

NativeMetadata(p) ==
  IF p \in dirs THEN "dir" ELSE IF objects[p] # Absent THEN "file" ELSE "none"

NativeList(d) ==
  {Entry(Last(e), TRUE) : e \in {e \in dirs : Parent(e) = d}} \cup
  {Entry(Last(k), FALSE) :
     k \in {k \in Files : objects[k] # Absent /\ Parent(k) = d}}

\* What list_objects answers for a prefix that ends in "/", with the
\* delimiter: the keys with no further slash, and the rest rolled up.
Contents(d) == {k \in Below(d) : Len(k) = Len(d) + 1}
RolledUp(d) ==
  {SubSeq(k, 1, Len(d) + 1) : k \in {k \in Below(d) : Len(k) > Len(d) + 1}}

S3Exists(p) == objects[p] # Absent

S3IsDir(d) ==
  objects[Slash(d)] # Absent \/ Contents(d) # {} \/ RolledUp(d) # {}

S3Read(p) == objects[p]

S3Metadata(p) == IF objects[p] = Absent THEN "none" ELSE "file"

S3ListWithMarker(d) ==
  {Entry(Last(k), FALSE) : k \in Contents(d)} \cup
  {Entry(Last(e), TRUE) : e \in RolledUp(d)}
S3List(d) ==
  {Entry(Last(k), FALSE) : k \in Contents(d) \ {Slash(d)}} \cup
  {Entry(Last(e), TRUE) : e \in RolledUp(d)}

AzureExists(p) == objects[p] # Absent

AzureRead(p) == objects[p]

AzureMetadata(p) == IF objects[p] = Absent THEN "none" ELSE "file"

\* parse_list_xml: the prefix without its slash is cut off, the suffix of a
\* blob loses its slash again, that of a prefix does not.
AzureListFiles(d) == {k \in Contents(d) : Last(k) # NoName}
AzureListDirs(d) == {<<"/", Last(e)>> : e \in RolledUp(d)}

AzureIsDir(d) == AzureListFiles(d) # {} \/ AzureListDirs(d) # {}

GcsExists(p) == objects[p] # Absent

GcsMetadata(p) == IF objects[p] = Absent THEN "none" ELSE "file"

\* The prefix is sent without a slash: what lies below d is rolled up into d
\* itself. An object called d has no name in the list, and what begins with
\* d's name is in it too: an object with the rest of its name, a directory
\* with the whole.
GcsMatches(d) == {k \in Keys :
  /\ objects[k] # Absent /\ Len(k) >= Len(d) /\ IsPrefix(Parent(d), k)
  /\ k[Len(d)] = Last(d) \/ <<k[Len(d)], Last(d)>> \in DOMAIN Cut}

GcsList(d) ==
  LET here == {k \in GcsMatches(d) : Len(k) = Len(d)}
      rest(n) == IF n = Last(d) THEN "" ELSE Cut[<<n, Last(d)>>]
  IN {Entry(n, TRUE) : n \in {k[Len(d)] : k \in GcsMatches(d) \ here} \ {".dir"}} \cup
     {Entry(rest(Last(k)), FALSE) : k \in here}

\* The object name goes into the URL of a download as it is: one with a
\* slash does not address the object.
GcsReadable(p) == Len(p) = 1 /\ objects[p] # Absent

-----------------------------------------------------------------------------
\* Calls.

NoCall == [op |-> "none", from |-> <<>>, to |-> <<>>, seen |-> Absent,
           todo |-> {}, pc |-> "idle"]

Init ==
  /\ backend \in Backends
  /\ \E old \in SUBSET Files, marked \in SUBSET Dirs :
       /\ \A d \in marked : Ancestors(d) \subseteq marked
       /\ backend = "native" => \A p \in old : Ancestors(Parent(p)) \subseteq marked
       /\ dirs = IF backend \in Cloud THEN {} ELSE marked
       /\ objects = [k \in Keys |->
            IF k \in old THEN <<"old">>
            ELSE IF \E d \in marked : \/ backend \in {"s3", "azure"} /\ k = Slash(d)
                                      \/ backend = "gcs" /\ k = DotDir(d)
            THEN <<>> ELSE Absent]
  /\ calls = [c \in Calls |-> NoCall]

\* A call ends with success, with an error or, having passed over errors, with
\* a success that says nothing ("tried").
Active(c) == calls[c].pc \notin {"idle", "ok", "err", "tried"}

Related(p, q) == p # <<>> /\ q # <<>> /\ (IsPrefix(p, q) \/ IsPrefix(q, p))
KeepsApart(q) == \A o \in Calls : Active(o) =>
  \/ backend = "native" /\ q.op = "append" /\ calls[o].op = "append"
  \/ \A p \in {q.from, q.to}, r \in {calls[o].from, calls[o].to} : ~Related(p, r)

Begin(c) ==
  /\ calls[c] = NoCall
  /\ \E q \in
       [op : {"write", "append", "delete"}, from : Files, to : {<<>>}] \cup
       [op : {"rename", "copy"}, from : Files, to : Files] \cup
       [op : {"create_dir", "create_dir_all", "remove_dir", "remove_dir_all",
              "delete"}, from : Dirs, to : {<<>>}] :
       /\ q.from # q.to
       /\ q.op = "delete" /\ q.from \in Dirs => backend = "memory"
       /\ backend # "memory" => KeepsApart(q)
       /\ calls' = [calls EXCEPT ![c] =
            [NoCall EXCEPT !.op = q.op, !.from = q.from, !.to = q.to,
                           !.pc = "start"]]
  /\ UNCHANGED <<backend, objects, dirs>>

At(c, b, op, pc) == backend = b /\ calls[c].op = op /\ calls[c].pc = pc
Goto(c, pc) == calls' = [calls EXCEPT ![c].pc = pc]
Put(k, x) == objects' = [objects EXCEPT ![k] = x]
Erase(S) == objects' = [k \in Keys |-> IF k \in S THEN Absent ELSE objects[k]]

\* An I/O error, an error of the service, or a caller that has gone.
Fail(c) ==
  /\ Active(c)
  /\ Goto(c, "err")
  /\ UNCHANGED <<backend, objects, dirs>>

Refuse(c) == Goto(c, "err") /\ UNCHANGED <<backend, objects, dirs>>

-----------------------------------------------------------------------------
\* MemoryStorage: each lock is an await. rename holds data when it asks for
\* dirs; remove_dir and remove_dir_all (and create_dir, to read) hold dirs
\* when they ask for data.

DataFree(c) == \A o \in Calls \ {c} : ~At(o, "memory", "rename", "dirs")
DirsReadable(c) == \A o \in Calls \ {c} :
  ~At(o, "memory", "remove_dir", "data") /\ ~At(o, "memory", "remove_dir_all", "data")
DirsFree(c) == DirsReadable(c)
  /\ \A o \in Calls \ {c} : ~At(o, "memory", "create_dir", "data")

MemoryWrite(c) ==
  /\ At(c, "memory", "write", "start") /\ DataFree(c)
  /\ Put(calls[c].from, <<c>>)
  /\ Goto(c, "ok")
  /\ UNCHANGED <<backend, dirs>>

MemoryAppend(c) ==
  /\ At(c, "memory", "append", "start") /\ DataFree(c)
  /\ Put(calls[c].from, Append(Content(objects[calls[c].from]), c))
  /\ Goto(c, "ok")
  /\ UNCHANGED <<backend, dirs>>

\* A path that is no file but a directory goes with all that lies in it,
\* the directories under one lock and the files under the next.
MemoryDelete(c) ==
  LET p == calls[c].from IN
  /\ At(c, "memory", "delete", "start") /\ DataFree(c)
  /\ IF objects[p] # Absent THEN Put(p, Absent) /\ Goto(c, "ok")
     ELSE Goto(c, "dirs") /\ UNCHANGED objects
  /\ UNCHANGED <<backend, dirs>>

MemoryDeleteDirs(c) ==
  LET p == calls[c].from IN
  /\ At(c, "memory", "delete", "dirs") /\ DirsFree(c)
  /\ IF p \in dirs THEN /\ dirs' = {e \in dirs : ~IsPrefix(p, e)}
                         /\ Goto(c, "sweep") /\ UNCHANGED <<backend, objects>>
     ELSE Refuse(c)

MemoryDeleteSweep(c) ==
  /\ At(c, "memory", "delete", "sweep") /\ DataFree(c)
  /\ Erase(Below(calls[c].from))
  /\ Goto(c, "ok")
  /\ UNCHANGED <<backend, dirs>>

MemoryCreateDirCheck(c) ==
  /\ At(c, "memory", "create_dir", "start") /\ DirsReadable(c)
  /\ Goto(c, IF calls[c].from \in dirs THEN "err" ELSE "parent")
  /\ UNCHANGED <<backend, objects, dirs>>

MemoryCreateDirLock(c) ==
  /\ At(c, "memory", "create_dir", "parent") /\ DirsReadable(c)
  /\ Goto(c, "data")
  /\ UNCHANGED <<backend, objects, dirs>>

\* The root of relative paths is the empty path, which only files make a
\* parent.
MemoryCreateDirParent(c) ==
  LET parent == Parent(calls[c].from) IN
  /\ At(c, "memory", "create_dir", "data") /\ DataFree(c)
  /\ Goto(c, IF parent \in dirs \/ Below(parent) # {} THEN "mkdir" ELSE "err")
  /\ UNCHANGED <<backend, objects, dirs>>

MemoryCreateDir(c) ==
  /\ At(c, "memory", "create_dir", "mkdir") /\ DirsFree(c)
  /\ dirs' = dirs \cup {calls[c].from}
  /\ Goto(c, "ok")
  /\ UNCHANGED <<backend, objects>>

MemoryCreateDirAll(c) ==
  /\ At(c, "memory", "create_dir_all", "start") /\ DirsFree(c)
  /\ dirs' = dirs \cup Ancestors(calls[c].from)
  /\ Goto(c, "ok")
  /\ UNCHANGED <<backend, objects>>

MemoryRemoveLock(c) ==
  /\ At(c, "memory", "remove_dir", "start") \/ At(c, "memory", "remove_dir_all", "start")
  /\ DirsFree(c)
  /\ Goto(c, "data")
  /\ UNCHANGED <<backend, objects, dirs>>

MemoryRemoveDir(c) ==
  LET p == calls[c].from IN
  /\ At(c, "memory", "remove_dir", "data") /\ DataFree(c)
  /\ IF p \in dirs /\ Below(p) = {} /\ ~\E e \in dirs : IsStrictPrefix(p, e)
       THEN /\ dirs' = dirs \ {p} /\ Goto(c, "ok")
            /\ UNCHANGED <<backend, objects>>
       ELSE Refuse(c)

MemoryRemoveDirAll(c) ==
  LET p == calls[c].from IN
  /\ At(c, "memory", "remove_dir_all", "data") /\ DataFree(c)
  /\ Erase(Below(p))
  /\ dirs' = {e \in dirs : ~IsPrefix(p, e)}
  /\ Goto(c, "ok")
  /\ UNCHANGED backend

MemoryRenameLock(c) ==
  /\ At(c, "memory", "rename", "start") /\ DataFree(c)
  /\ Goto(c, "dirs")
  /\ UNCHANGED <<backend, objects, dirs>>

MemoryRename(c) ==
  LET q == calls[c] IN
  /\ At(c, "memory", "rename", "dirs") /\ DirsFree(c)
  /\ IF objects[q.from] = Absent THEN Refuse(c)
     ELSE /\ objects' = [objects EXCEPT ![q.to] = objects[q.from],
                                        ![q.from] = Absent]
          /\ Goto(c, "ok")
          /\ UNCHANGED <<backend, dirs>>

MemoryCopyRead(c) ==
  LET p == calls[c].from IN
  /\ At(c, "memory", "copy", "start") /\ DataFree(c)
  /\ calls' = [calls EXCEPT
       ![c].seen = objects[p],
       ![c].pc = IF objects[p] = Absent THEN "err" ELSE "insert"]
  /\ UNCHANGED <<backend, objects, dirs>>

MemoryCopyInsert(c) ==
  /\ At(c, "memory", "copy", "insert") /\ DataFree(c)
  /\ Put(calls[c].to, calls[c].seen)
  /\ Goto(c, "ok")
  /\ UNCHANGED <<backend, dirs>>

-----------------------------------------------------------------------------
\* NativeStorage: the system calls of tokio::fs.

HasParent(p) == Len(p) > 1 => Parent(p) \in dirs

\* fs::write opens the file, which empties it, and then writes.
NativeTruncate(c) ==
  LET p == calls[c].from IN
  /\ At(c, "native", "write", "start")
  /\ IF HasParent(p)
       THEN Put(p, <<>>) /\ Goto(c, "write") /\ UNCHANGED <<backend, dirs>>
       ELSE Refuse(c)

NativeWrite(c) ==
  /\ At(c, "native", "write", "write")
  /\ Put(calls[c].from, <<c>>)
  /\ Goto(c, "ok")
  /\ UNCHANGED <<backend, dirs>>

NativeAppendOpen(c) ==
  LET p == calls[c].from IN
  /\ At(c, "native", "append", "start")
  /\ IF HasParent(p)
       THEN /\ Put(p, Content(objects[p])) /\ Goto(c, "write")
            /\ UNCHANGED <<backend, dirs>>
       ELSE Refuse(c)

NativeAppend(c) ==
  LET p == calls[c].from IN
  /\ At(c, "native", "append", "write")
  /\ Put(p, Append(objects[p], c))
  /\ Goto(c, "ok")
  /\ UNCHANGED <<backend, dirs>>

NativeDelete(c) ==
  LET p == calls[c].from IN
  /\ At(c, "native", "delete", "start")
  /\ IF objects[p] = Absent THEN Refuse(c)
     ELSE Put(p, Absent) /\ Goto(c, "ok") /\ UNCHANGED <<backend, dirs>>

NativeCreateDir(c) ==
  LET p == calls[c].from IN
  /\ At(c, "native", "create_dir", "start")
  /\ IF HasParent(p) /\ p \notin dirs
       THEN dirs' = dirs \cup {p} /\ Goto(c, "ok") /\ UNCHANGED <<backend, objects>>
       ELSE Refuse(c)

NativeCreateDirAll(c) ==
  /\ At(c, "native", "create_dir_all", "start")
  /\ dirs' = dirs \cup Ancestors(calls[c].from)
  /\ Goto(c, "ok")
  /\ UNCHANGED <<backend, objects>>

NativeRemoveDir(c) ==
  LET p == calls[c].from IN
  /\ At(c, "native", "remove_dir", "start")
  /\ IF p \in dirs /\ NativeList(p) = {}
       THEN dirs' = dirs \ {p} /\ Goto(c, "ok") /\ UNCHANGED <<backend, objects>>
       ELSE Refuse(c)

\* One entry after the other.
NativeRemoveDirAll(c) ==
  LET p == calls[c].from IN
  /\ At(c, "native", "remove_dir_all", "start")
  /\ \/ p \notin dirs /\ Refuse(c)
     \/ /\ p \in dirs
        /\ \E k \in Below(p) : Put(k, Absent)
        /\ UNCHANGED <<backend, dirs, calls>>
     \/ /\ p \in dirs /\ Below(p) = {}
        /\ dirs' = {e \in dirs : ~IsPrefix(p, e)}
        /\ Goto(c, "ok")
        /\ UNCHANGED <<backend, objects>>

NativeRename(c) ==
  LET q == calls[c] IN
  /\ At(c, "native", "rename", "start")
  /\ IF objects[q.from] = Absent \/ ~HasParent(q.to) THEN Refuse(c)
     ELSE /\ objects' = [objects EXCEPT ![q.to] = objects[q.from],
                                        ![q.from] = Absent]
          /\ Goto(c, "ok")
          /\ UNCHANGED <<backend, dirs>>

\* fs::copy opens the source, empties the target and copies.
NativeCopyOpen(c) ==
  LET q == calls[c] IN
  /\ At(c, "native", "copy", "start")
  /\ IF objects[q.from] = Absent \/ ~HasParent(q.to) THEN Goto(c, "err")
     ELSE calls' = [calls EXCEPT ![c].seen = objects[q.from],
                                 ![c].pc = "truncate"]
  /\ UNCHANGED <<backend, objects, dirs>>

NativeCopyTruncate(c) ==
  /\ At(c, "native", "copy", "truncate")
  /\ Put(calls[c].to, <<>>)
  /\ Goto(c, "write")
  /\ UNCHANGED <<backend, dirs>>

NativeCopy(c) ==
  /\ At(c, "native", "copy", "write")
  /\ Put(calls[c].to, calls[c].seen)
  /\ Goto(c, "ok")
  /\ UNCHANGED <<backend, dirs>>

-----------------------------------------------------------------------------
\* S3Storage: each request is a step.

S3Write(c) ==
  /\ At(c, "s3", "write", "start")
  /\ Put(calls[c].from, <<c>>)
  /\ Goto(c, "ok")
  /\ UNCHANGED <<backend, dirs>>

\* read fails for an object that is not there, and so does append.
S3AppendRead(c) ==
  LET p == calls[c].from IN
  /\ At(c, "s3", "append", "start")
  /\ calls' = [calls EXCEPT
       ![c].seen = S3Read(p),
       ![c].pc = IF S3Read(p) = Absent THEN "err" ELSE "put"]
  /\ UNCHANGED <<backend, objects, dirs>>

S3AppendWrite(c) ==
  /\ At(c, "s3", "append", "put")
  /\ Put(calls[c].from, Append(calls[c].seen, c))
  /\ Goto(c, "ok")
  /\ UNCHANGED <<backend, dirs>>

\* The service answers success for a key that is not there.
S3Delete(c) ==
  /\ \/ At(c, "s3", "delete", "start")
     \/ At(c, "s3", "rename", "drop")
  /\ Put(calls[c].from, Absent)
  /\ Goto(c, "ok")
  /\ UNCHANGED <<backend, dirs>>

S3CreateDir(c) ==
  /\ At(c, "s3", "create_dir", "start")
  /\ Put(Slash(calls[c].from), <<>>)
  /\ Goto(c, "ok")
  /\ UNCHANGED <<backend, dirs>>

\* One marker after the other, whether or not a request succeeds.
S3CreateDirAll(c) ==
  LET p == calls[c].from
      left == {d \in Ancestors(p) : d \notin calls[c].todo}
  IN /\ At(c, "s3", "create_dir_all", "start")
     /\ IF left = {} THEN Goto(c, "ok") /\ UNCHANGED <<backend, objects, dirs>>
        ELSE \E d \in left :
             /\ \A e \in left : Len(d) <= Len(e)
             /\ Put(Slash(d), <<>>) \/ UNCHANGED objects
             /\ calls' = [calls EXCEPT ![c].todo = @ \cup {d}]
             /\ UNCHANGED <<backend, dirs>>

\* The listing has the marker itself: what create_dir made is not empty.
S3RemoveDir(c) ==
  LET p == calls[c].from IN
  /\ At(c, "s3", "remove_dir", "start")
  /\ IF Below(p) # {} THEN Refuse(c)
     ELSE /\ Put(Slash(p), Absent)
          /\ Goto(c, "ok")
          /\ UNCHANGED <<backend, dirs>>

\* One page of the listing (up to 1000 keys), then the keys one by one,
\* whether or not a request succeeds.
S3RemoveDirAllList(c) ==
  /\ At(c, "s3", "remove_dir_all", "start")
  /\ calls' = [calls EXCEPT ![c].todo = Below(calls[c].from), ![c].pc = "each"]
  /\ UNCHANGED <<backend, objects, dirs>>

S3RemoveDirAllDelete(c) ==
  LET todo == calls[c].todo IN
  /\ At(c, "s3", "remove_dir_all", "each")
  /\ \/ todo = {} /\ Goto(c, "tried") /\ UNCHANGED <<backend, objects, dirs>>
     \/ \E k \in todo :
          /\ Put(k, Absent) \/ UNCHANGED objects
          /\ calls' = [calls EXCEPT ![c].todo = @ \ {k}]
          /\ UNCHANGED <<backend, dirs>>

S3AfterCopy(op) == IF op = "rename" THEN "drop" ELSE "ok"

\* copy asks for the content type first. rename is copy, then delete.
S3CopyHeadUnchecked(c) ==
  LET p == calls[c].from IN
  /\ At(c, "s3", "copy", "start") \/ At(c, "s3", "rename", "start")
  /\ Goto(c, IF objects[p] = Absent THEN S3AfterCopy(calls[c].op) ELSE "copy")
  /\ UNCHANGED <<backend, objects, dirs>>
S3CopyHead(c) ==
  LET p == calls[c].from IN
  /\ At(c, "s3", "copy", "start") \/ At(c, "s3", "rename", "start")
  /\ Goto(c, IF objects[p] = Absent THEN "err" ELSE "copy")
  /\ UNCHANGED <<backend, objects, dirs>>

S3Copy(c) ==
  LET q == calls[c] IN
  /\ At(c, "s3", "copy", "copy") \/ At(c, "s3", "rename", "copy")
  /\ Put(q.to, objects[q.from])
  /\ Goto(c, S3AfterCopy(q.op))
  /\ UNCHANGED <<backend, dirs>>

-----------------------------------------------------------------------------
\* GcsStorage. A request needs a token first; without one the call fails.

GcsWrite(c) ==
  /\ At(c, "gcs", "write", "start")
  /\ Put(calls[c].from, <<c>>)
  /\ Goto(c, "ok")
  /\ UNCHANGED <<backend, dirs>>

GcsAppendRead(c) ==
  LET p == calls[c].from IN
  /\ At(c, "gcs", "append", "start")
  /\ calls' = [calls EXCEPT
       ![c].seen = IF GcsReadable(p) THEN objects[p] ELSE Absent,
       ![c].pc = IF GcsReadable(p) THEN "put" ELSE "err"]
  /\ UNCHANGED <<backend, objects, dirs>>

GcsAppendWrite(c) ==
  /\ At(c, "gcs", "append", "put")
  /\ Put(calls[c].from, Append(calls[c].seen, c))
  /\ Goto(c, "ok")
  /\ UNCHANGED <<backend, dirs>>

GcsDelete(c) ==
  LET p == calls[c].from IN
  /\ At(c, "gcs", "delete", "start") \/ At(c, "gcs", "rename", "drop")
  /\ IF objects[p] = Absent THEN Refuse(c)
     ELSE Put(p, Absent) /\ Goto(c, "ok") /\ UNCHANGED <<backend, dirs>>

GcsCreateDir(c) ==
  /\ At(c, "gcs", "create_dir", "start")
  /\ Put(DotDir(calls[c].from), <<>>)
  /\ Goto(c, "ok")
  /\ UNCHANGED <<backend, dirs>>

\* One marker after the other; an error ends the call.
GcsCreateDirAll(c) ==
  LET p == calls[c].from
      left == {d \in Ancestors(p) : d \notin calls[c].todo}
  IN /\ At(c, "gcs", "create_dir_all", "start")
     /\ IF left = {} THEN Goto(c, "ok") /\ UNCHANGED <<backend, objects, dirs>>
        ELSE \E d \in left :
             /\ \A e \in left : Len(d) <= Len(e)
             /\ Put(DotDir(d), <<>>)
             /\ calls' = [calls EXCEPT ![c].todo = @ \cup {d}]
             /\ UNCHANGED <<backend, dirs>>

\* No entry of list ends in "/.dir", so that any entry is content.
GcsRemoveDir(c) ==
  /\ At(c, "gcs", "remove_dir", "start")
  /\ Goto(c, IF GcsList(calls[c].from) = {} THEN "ok" ELSE "err")
  /\ UNCHANGED <<backend, objects, dirs>>

\* Each entry of the list is deleted as if it lay in d, the directories
\* first: d itself is taken for d/d. The first that is no object ends the
\* call; if there is none it succeeds, whatever else lies in d.
GcsRemoveDirAllList(c) ==
  /\ At(c, "gcs", "remove_dir_all", "start")
  /\ calls' = [calls EXCEPT ![c].todo = GcsList(calls[c].from), ![c].pc = "each"]
  /\ UNCHANGED <<backend, objects, dirs>>

GcsRemoveDirAllDelete(c) ==
  LET todo == calls[c].todo IN
  /\ At(c, "gcs", "remove_dir_all", "each")
  /\ \/ todo = {} /\ Goto(c, "tried") /\ UNCHANGED <<backend, objects, dirs>>
     \/ \E e \in todo :
          LET k == Append(calls[c].from, e.name) IN
          /\ e.is_dir \/ \A f \in todo : ~f.is_dir
          /\ \/ /\ k \in Keys /\ objects[k] # Absent
                /\ Put(k, Absent)
                /\ calls' = [calls EXCEPT ![c].todo = @ \ {e}]
                /\ UNCHANGED <<backend, dirs>>
             \/ /\ ~(k \in Keys /\ objects[k] # Absent)
                /\ Refuse(c)

GcsCopy(c) ==
  LET q == calls[c] IN
  /\ At(c, "gcs", "copy", "start") \/ At(c, "gcs", "rename", "start")
  /\ IF objects[q.from] = Absent THEN Refuse(c)
     ELSE /\ Put(q.to, objects[q.from])
          /\ Goto(c, IF q.op = "rename" THEN "drop" ELSE "ok")
          /\ UNCHANGED <<backend, dirs>>

-----------------------------------------------------------------------------
\* AzureStorage. handle_response takes every status it does not know for
\* success: a request the service refuses with such a status has no effect
\* and the call goes on.

Unknown(c, pc) == Goto(c, pc) /\ UNCHANGED <<backend, objects, dirs>>

AzureWrite(c) ==
  /\ At(c, "azure", "write", "start")
  /\ \/ Put(calls[c].from, <<c>>) /\ Goto(c, "ok") /\ UNCHANGED <<backend, dirs>>
     \/ Unknown(c, "ok")

\* HEAD, then GET unless HEAD failed or found nothing.
AzureAppendHead(c) ==
  LET p == calls[c].from IN
  /\ At(c, "azure", "append", "start")
  /\ \E answered \in BOOLEAN :
       calls' = [calls EXCEPT
         ![c].seen = IF answered /\ AzureExists(p) THEN AzureRead(p) ELSE <<>>,
         ![c].pc = "put"]
  /\ UNCHANGED <<backend, objects, dirs>>

AzureAppendWrite(c) ==
  /\ At(c, "azure", "append", "put")
  /\ \/ /\ Put(calls[c].from, Append(calls[c].seen, c)) /\ Goto(c, "ok")
        /\ UNCHANGED <<backend, dirs>>
     \/ Unknown(c, "ok")

AzureDelete(c) ==
  LET p == calls[c].from IN
  /\ At(c, "azure", "delete", "start") \/ At(c, "azure", "rename", "drop")
  /\ \/ objects[p] = Absent /\ Refuse(c)
     \/ objects[p] # Absent /\ Put(p, Absent) /\ Goto(c, "ok")
        /\ UNCHANGED <<backend, dirs>>
     \/ Unknown(c, "ok")

AzureCreateDir(c) ==
  /\ \/ At(c, "azure", "create_dir", "start")
     \/ At(c, "azure", "create_dir_all", "mkdir")
  /\ \/ /\ Put(Slash(calls[c].from), <<>>) /\ Goto(c, "ok")
        /\ UNCHANGED <<backend, dirs>>
     \/ Unknown(c, "ok")

\* A listing that fails, or that shows nothing, leads to create_dir.
AzureCreateDirAll(c) ==
  /\ At(c, "azure", "create_dir_all", "start")
  /\ \E answered \in BOOLEAN :
       Goto(c, IF answered /\ AzureIsDir(calls[c].from) THEN "ok" ELSE "mkdir")
  /\ UNCHANGED <<backend, objects, dirs>>

\* The files of the directory go, then its marker.
AzureRemoveDirList(c) ==
  /\ At(c, "azure", "remove_dir", "start")
  /\ calls' = [calls EXCEPT ![c].todo = AzureListFiles(calls[c].from),
                            ![c].pc = "each"]
  /\ UNCHANGED <<backend, objects, dirs>>

AzureRemoveDirDelete(c) ==
  LET q == calls[c] IN
  /\ At(c, "azure", "remove_dir", "each")
  /\ \/ \E k \in q.todo :
          /\ Put(k, Absent)
          /\ calls' = [calls EXCEPT ![c].todo = @ \ {k}]
          /\ UNCHANGED <<backend, dirs>>
     \/ /\ q.todo = {} /\ objects[Slash(q.from)] # Absent
        /\ Put(Slash(q.from), Absent)
        /\ Goto(c, "ok")
        /\ UNCHANGED <<backend, dirs>>
     \/ /\ q.todo = {} /\ objects[Slash(q.from)] = Absent
        /\ Refuse(c)

\* A round deletes the files of the directory. Subdirectories are asked for
\* under a name with two slashes, where nothing lies, and as long as there
\* are any the loop goes round again.
AzureRemoveDirAllList(c) ==
  /\ At(c, "azure", "remove_dir_all", "start")
  /\ \/ /\ calls' = [calls EXCEPT ![c].todo = AzureListFiles(calls[c].from),
                                  ![c].pc = "each"]
        /\ UNCHANGED <<backend, objects, dirs>>
     \/ Unknown(c, "ok")

AzureRemoveDirAllDelete(c) ==
  LET q == calls[c] IN
  /\ At(c, "azure", "remove_dir_all", "each")
  /\ \/ \E k \in q.todo :
          /\ Put(k, Absent)
          /\ calls' = [calls EXCEPT ![c].todo = @ \ {k}]
          /\ UNCHANGED <<backend, dirs>>
     \/ /\ q.todo = {}
        /\ Goto(c, IF AzureListDirs(q.from) = {} THEN "ok" ELSE "start")
        /\ UNCHANGED <<backend, objects, dirs>>

\* PUT ?comp=copy without a source: nothing is copied. The answer is an
\* error, or one that handle_response takes for success; where it names a
\* copy status the call polls it, 60 times at most.
AzureCopy(c) ==
  /\ At(c, "azure", "copy", "start") \/ At(c, "azure", "rename", "start")
  /\ Unknown(c, "poll")

AzurePoll(c) ==
  LET q == calls[c] IN
  /\ At(c, "azure", "copy", "poll") \/ At(c, "azure", "rename", "poll")
  /\ Goto(c, IF q.op = "rename" THEN "drop" ELSE "ok")
  /\ UNCHANGED <<backend, objects, dirs>>

-----------------------------------------------------------------------------

Step(c) ==
  \/ Begin(c) \/ Fail(c)
  \/ MemoryWrite(c) \/ MemoryAppend(c) \/ MemoryDelete(c)
  \/ MemoryDeleteDirs(c) \/ MemoryDeleteSweep(c) \/ MemoryCreateDirCheck(c)
  \/ MemoryCreateDirLock(c) \/ MemoryCreateDirParent(c) \/ MemoryCreateDir(c)
  \/ MemoryCreateDirAll(c) \/ MemoryRemoveLock(c) \/ MemoryRemoveDir(c)
  \/ MemoryRemoveDirAll(c) \/ MemoryRenameLock(c) \/ MemoryRename(c)
  \/ MemoryCopyRead(c) \/ MemoryCopyInsert(c)
  \/ NativeTruncate(c) \/ NativeWrite(c) \/ NativeAppendOpen(c)
  \/ NativeAppend(c) \/ NativeDelete(c) \/ NativeCreateDir(c)
  \/ NativeCreateDirAll(c) \/ NativeRemoveDir(c) \/ NativeRemoveDirAll(c)
  \/ NativeRename(c) \/ NativeCopyOpen(c) \/ NativeCopyTruncate(c)
  \/ NativeCopy(c)
  \/ S3Write(c) \/ S3AppendRead(c) \/ S3AppendWrite(c) \/ S3Delete(c)
  \/ S3CreateDir(c) \/ S3CreateDirAll(c) \/ S3RemoveDir(c)
  \/ S3RemoveDirAllList(c) \/ S3RemoveDirAllDelete(c) \/ S3CopyHead(c)
  \/ S3Copy(c)
  \/ GcsWrite(c) \/ GcsAppendRead(c) \/ GcsAppendWrite(c) \/ GcsDelete(c)
  \/ GcsCreateDir(c) \/ GcsCreateDirAll(c) \/ GcsRemoveDir(c)
  \/ GcsRemoveDirAllList(c) \/ GcsRemoveDirAllDelete(c) \/ GcsCopy(c)
  \/ AzureWrite(c) \/ AzureAppendHead(c) \/ AzureAppendWrite(c)
  \/ AzureDelete(c) \/ AzureCreateDir(c) \/ AzureCreateDirAll(c)
  \/ AzureRemoveDirList(c) \/ AzureRemoveDirDelete(c)
  \/ AzureRemoveDirAllList(c) \/ AzureRemoveDirAllDelete(c)
  \/ AzureCopy(c) \/ AzurePoll(c)

Next == \E c \in Calls : Step(c)

Spec == Init /\ [][Next]_vars

-----------------------------------------------------------------------------

\* How far a call is, in the terms of the contract. S3 and GCS report that
\* remove_dir_all has succeeded when content may be left (s3.rs:474, whose
\* failed requests are passed over; gcs.rs:836): the contract holds them to
\* no success.
Phase(pc) ==
  CASE pc \in {"idle", "ok", "err"} -> pc
    [] pc = "tried" -> "err"
    [] pc = "drop" -> "copied"
    [] OTHER -> "open"

\* Azure is not held to the contract: its copy copies nothing (see
\* AzureCopy) and its calls succeed without effect.
Held == backend # "azure"

ContractFiles == [p \in Files |-> IF Held THEN objects[p] ELSE Absent]

ContractCall(q) ==
  [op |-> q.op, from |-> q.from, to |-> q.to, seen |-> q.seen, phase |-> Phase(q.pc)]
ContractCalls == [c \in Calls |-> ContractCall(IF Held THEN calls[c] ELSE NoCall)]

Contract == INSTANCE StoreContract WITH files <- ContractFiles, calls <- ContractCalls

\* The memory, native, S3 and GCS backends keep the contract of the trait
\* Storage (storage/mod.rs:25) about the content of files, whatever await a
\* call fails or is dropped at: no content is lost, mixed or invented, and a
\* call that reports success has had its whole effect. The one success that
\* is not held to this is that of remove_dir_all on S3 and GCS ("tried"):
\* they too remove nothing but what lies in the directory, but not all of it.
KeepsContract == Contract!Spec

\* The methods that look agree. A file that exists has the metadata of a
\* file. On memory, native, S3 and Azure a directory lists the files that
\* exist in it and no others: markers never show, whatever calls were cut
\* short. On memory, native and S3 it lists the directories in it that
\* metadata (S3: is_dir) takes for such. GCS does not list what lies in a
\* directory (gcs.rs:675), but an empty list, on which remove_dir and is_dir
\* rely, means that nothing does.
ListingsAgree ==
  LET exists(p) == CASE backend = "memory" -> MemoryExists(p)
                     [] backend = "native" -> NativeExists(p)
                     [] backend = "s3"     -> S3Exists(p)
                     [] backend = "azure"  -> AzureExists(p)
                     [] backend = "gcs"    -> GcsExists(p)
      kind(p) == CASE backend = "memory" -> MemoryMetadata(p)
                   [] backend = "native" -> NativeMetadata(p)
                   [] backend = "s3"     -> S3Metadata(p)
                   [] backend = "azure"  -> AzureMetadata(p)
                   [] backend = "gcs"    -> GcsMetadata(p)
      isDir(e) == IF backend = "s3" THEN S3IsDir(e) ELSE kind(e) = "dir"
      listed(d) == CASE backend = "memory" -> MemoryList(d)
                     [] backend = "native" -> NativeList(d)
                     [] backend = "s3"     -> S3List(d)
                     [] backend = "azure"  -> {Entry(Last(k), FALSE) : k \in AzureListFiles(d)}
                     [] backend = "gcs"    -> GcsList(d)
      named(d, dir) == {e.name : e \in {e \in listed(d) : e.is_dir = dir}}
  IN /\ \A p \in Files : exists(p) => kind(p) = "file"
     /\ \A d \in Dirs :
          /\ backend # "gcs" =>
               named(d, FALSE) = {Last(p) : p \in {p \in Files : Parent(p) = d /\ exists(p)}}
          /\ backend \in {"memory", "native", "s3"} =>
               named(d, TRUE) = {Last(e) : e \in {e \in Dirs : Parent(e) = d /\ isDir(e)}}
          /\ backend = "gcs" /\ listed(d) = {} => Below(d) = {}
=============================================================================
