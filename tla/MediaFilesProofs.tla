-------------------------- MODULE MediaFilesProofs ---------------------------
(***************************************************************************)
(* Proofs about the media library: no handler loses the file of another's  *)
(* item, whatever overlaps, fails or is cancelled; and moving to the trash *)
(* and restoring repair what was left half done before them.               *)
(***************************************************************************)
EXTENDS MediaFiles, FileStore, TLAPS

AnyPc ==
  {"idle", "write", "insert", "refs", "select", "exists", "rename", "unlink", "flag",
   "setpath", "row", "ids", "loop"}

Records(C, O, I, U, P) ==
  [pc : C, op : O, item : I, user : U, path : P, dest : P, ids : SUBSET Items, solo : BOOLEAN]

AnyRequest ==
  Records(AnyPc, FileOps \cup {"none", "upload", "empty"}, Items \cup {None},
          Users \cup {None}, Paths \cup {None})

\* The handlers that may be at a step, and what they know there.
Suits(q) ==
  /\ q.pc \in {"write", "insert"} => q.op = "upload"
  /\ q.pc = "refs" => q.op = "delete"
  /\ q.pc = "select" => q.op \in FileOps
  /\ q.pc = "exists" => q.op \in {"delete", "restore", "purge"}
  /\ q.pc = "rename" => q.op = "move" \/ (q.op \in {"delete", "restore"} /\ ~ForGood(q))
  /\ q.pc = "unlink" => ForGood(q)
  /\ q.pc = "flag" => q.op \in {"delete", "restore"} /\ ~ForGood(q)
  /\ q.pc = "setpath" => q.op = "move"
  /\ q.pc = "row" => ForGood(q)
  /\ q.pc \in {"ids", "loop"} => q.op = "empty"
  /\ q.op \in FileOps \cup {"upload"} => q.item \in Items
  /\ q.op \in {"delete", "restore", "purge"} => q.user \in Users
  /\ q.op = "move" => q.dest \in Paths

Kept(i) == Stored(i) \/ i \in removed \/ Shared(i)

\* A handler works on a path its item has had.
Working == {"exists", "rename", "unlink", "flag", "setpath"}

Points(q) ==
  /\ q.pc \in Working => q.path \in PathsOf(q.item)
  /\ q.pc = "setpath" => q.item \in movedOnto[q.dest]
  /\ q.pc = "insert" => Kept(q.item)

ReqOK(q) == q \in AnyRequest /\ Suits(q) /\ Points(q)

RowOK(i) ==
  rows[i] # None =>
    /\ rows[i] \in [path : Paths, trashed : BOOLEAN]
    /\ rows[i].path \in PathsOf(i)
    /\ Kept(i)

\* A file lies under a path its item has had, or was carried along by an item
\* that shares a path.
AtHome(p, i) ==
  \/ p \in PathsOf(i)
  \/ Shared(i) /\ \E m \in movedOnto[p] : Shared(m)

FileOK(l) == files[l] # None => files[l] \in Items /\ AtHome(l[2], files[l])

Inv ==
  /\ config \in [trash : BOOLEAN, onDelete : OnDelete]
  /\ DOMAIN files = Locations /\ DOMAIN rows = Items /\ DOMAIN request = Requests
  /\ movedOnto \in [Paths -> SUBSET Items]
  /\ \A l \in Locations : FileOK(l)
  /\ \A i \in Items : RowOK(i)
  /\ \A r \in Requests : ReqOK(request[r])

-----------------------------------------------------------------------------
\* Paths.

\* The paths items have had only become more.
Grows ==
  /\ config' = config
  /\ movedOnto' \in [Paths -> SUBSET Items]
  /\ \A p \in Paths : movedOnto[p] \subseteq movedOnto'[p]

\* What could be the path of an item can still be it after a step.
LEMMA PathsGrow ==
  ASSUME Inv, Grows
  PROVE  /\ \A i \in Items : PathsOf(i) \subseteq PathsOf(i)'
         /\ \A i \in Items : Shared(i) => Shared(i)'
         /\ \A p \in Paths, i \in Items : AtHome(p, i) => AtHome(p, i)'
<1>1. ASSUME NEW i \in Items PROVE PathsOf(i) \subseteq PathsOf(i)' /\ PathsOf(i) \subseteq Paths
  BY DEF Grows, PathsOf, UploadName, Paths
<1>2. ASSUME NEW i \in Items, Shared(i) PROVE Shared(i)'
  <2>1. PICK p \in PathsOf(i), j \in Items \ {i} : p \in PathsOf(j) /\ movedOnto[p] # {}
    BY <1>2 DEF Shared
  <2>2. p \in PathsOf(i)' /\ p \in PathsOf(j)' /\ p \in Paths
    BY <1>1, <2>1
  <2>3. movedOnto'[p] # {}
    BY <2>1, <2>2 DEF Grows
  <2>4. QED
    BY <2>1, <2>2, <2>3 DEF Shared
<1>3. ASSUME NEW p \in Paths, NEW i \in Items, AtHome(p, i) PROVE AtHome(p, i)'
  <2>1. CASE p \in PathsOf(i)
    BY <1>1, <2>1 DEF AtHome
  <2>2. CASE Shared(i) /\ \E m \in movedOnto[p] : Shared(m)
    <3>1. PICK m \in movedOnto[p] : Shared(m)
      BY <2>2
    <3>2. m \in Items /\ m \in movedOnto'[p]
      BY <3>1 DEF Grows, Inv
    <3>3. Shared(m)' /\ Shared(i)'
      BY <1>2, <2>2, <3>1, <3>2
    <3>4. QED
      BY <3>2, <3>3 DEF AtHome
  <2>3. QED
    BY <1>3, <2>1, <2>2 DEF AtHome
<1>4. QED
  BY <1>1, <1>2, <1>3

\* A file at a path of another item: both share a path.
LEMMA Strangers ==
  ASSUME Inv, NEW l \in Locations, NEW i \in Items, NEW k \in Items, i # k,
         files[l] = i, l[2] \in PathsOf(k)
  PROVE  Shared(i) /\ Shared(k)
<1> DEFINE p == l[2]
<1>1. p \in Paths
  BY DEF Locations
<1>2. AtHome(p, i)
  BY ItemsAreFresh DEF Inv, FileOK
<1> HIDE DEF p
<1>3. p \in PathsOf(k)
  BY DEF p
<1>4. CASE p \in PathsOf(i)
  <2>1. movedOnto[p] # {}
    BY <1>3, <1>4 DEF PathsOf, UploadName
  <2>2. QED
    BY <1>3, <1>4, <2>1 DEF Shared
<1>5. CASE Shared(i) /\ \E m \in movedOnto[p] : Shared(m)
  <2>1. PICK m \in movedOnto[p] : Shared(m)
    BY <1>5
  <2>2. CASE m = k
    BY <1>5, <2>1, <2>2
  <2>3. CASE m # k
    <3>1. m \in Items /\ p \in PathsOf(m)
      BY <1>1, <2>1 DEF Inv, PathsOf
    <3>2. Shared(k)
      BY <1>3, <2>1, <2>3, <3>1 DEF Shared
    <3>3. QED
      BY <1>5, <3>2
  <2>4. QED
    BY <2>2, <2>3
<1>6. QED
  BY <1>2, <1>4, <1>5 DEF AtHome

-----------------------------------------------------------------------------
\* The moves of a request, and what they leave of it.
SetPc(q, c) == [q EXCEPT !.pc = c]
SetPath(q, x, c) == [q EXCEPT !.path = x, !.pc = c]
SetIds(q, s) == [q EXCEPT !.ids = s]
SetIdsPc(q, s, c) == [q EXCEPT !.ids = s, !.pc = c]
SetSolo(q, b) == [q EXCEPT !.solo = b]

SameFields(e, q) ==
  e.op = q.op /\ e.item = q.item /\ e.user = q.user /\ e.dest = q.dest

\* What the updates of a record leave of it, for any sets its fields are of.
LEMMA Fields ==
  ASSUME NEW C, NEW O, NEW I, NEW U, NEW P, NEW q \in Records(C, O, I, U, P)
  PROVE  /\ \A c \in C : LET e == SetPc(q, c) IN
              /\ e \in Records(C, O, I, U, P) /\ SameFields(e, q)
              /\ e.pc = c /\ e.path = q.path
         /\ \A x \in P, c \in C : LET e == SetPath(q, x, c) IN
              /\ e \in Records(C, O, I, U, P) /\ SameFields(e, q)
              /\ e.pc = c /\ e.path = x
         /\ \A s \in SUBSET Items : LET e == SetIds(q, s) IN
              /\ e \in Records(C, O, I, U, P) /\ SameFields(e, q)
              /\ e.pc = q.pc /\ e.path = q.path
         /\ \A s \in SUBSET Items, c \in C : LET e == SetIdsPc(q, s, c) IN
              /\ e \in Records(C, O, I, U, P) /\ SameFields(e, q)
              /\ e.pc = c /\ e.path = q.path
         /\ \A b \in BOOLEAN : LET e == SetSolo(q, b) IN
              /\ e \in Records(C, O, I, U, P) /\ SameFields(e, q)
              /\ e.pc = q.pc /\ e.path = q.path
<1>1. \A c \in C : LET e == SetPc(q, c) IN
        /\ e \in Records(C, O, I, U, P) /\ SameFields(e, q) /\ e.pc = c /\ e.path = q.path
  BY DEF Records, SetPc, SameFields
<1>2. \A x \in P, c \in C : LET e == SetPath(q, x, c) IN
        /\ e \in Records(C, O, I, U, P) /\ SameFields(e, q) /\ e.pc = c /\ e.path = x
  BY DEF Records, SetPath, SameFields
<1>3. \A s \in SUBSET Items : LET e == SetIds(q, s) IN
        /\ e \in Records(C, O, I, U, P) /\ SameFields(e, q)
        /\ e.pc = q.pc /\ e.path = q.path
  BY DEF Records, SetIds, SameFields
<1>4. \A s \in SUBSET Items, c \in C : LET e == SetIdsPc(q, s, c) IN
        /\ e \in Records(C, O, I, U, P) /\ SameFields(e, q) /\ e.pc = c /\ e.path = q.path
  BY DEF Records, SetIdsPc, SameFields
<1>5. \A b \in BOOLEAN : LET e == SetSolo(q, b) IN
        /\ e \in Records(C, O, I, U, P) /\ SameFields(e, q)
        /\ e.pc = q.pc /\ e.path = q.path
  BY DEF Records, SetSolo, SameFields
<1>6. QED
  BY <1>1, <1>2, <1>3, <1>4, <1>5

\* What the updates of a request leave of it.
LEMMA RequestFields ==
  ASSUME NEW q \in AnyRequest
  PROVE  /\ \A c \in AnyPc : LET e == SetPc(q, c) IN
              e \in AnyRequest /\ SameFields(e, q) /\ e.pc = c /\ e.path = q.path
         /\ \A x \in Paths \cup {None}, c \in AnyPc : LET e == SetPath(q, x, c) IN
              e \in AnyRequest /\ SameFields(e, q) /\ e.pc = c /\ e.path = x
         /\ \A s \in SUBSET Items : LET e == SetIds(q, s) IN
              e \in AnyRequest /\ SameFields(e, q) /\ e.pc = q.pc /\ e.path = q.path
         /\ \A s \in SUBSET Items, c \in AnyPc : LET e == SetIdsPc(q, s, c) IN
              e \in AnyRequest /\ SameFields(e, q) /\ e.pc = c /\ e.path = q.path
         /\ \A b \in BOOLEAN : LET e == SetSolo(q, b) IN
              e \in AnyRequest /\ SameFields(e, q) /\ e.pc = q.pc /\ e.path = q.path
<1> DEFINE O == FileOps \cup {"none", "upload", "empty"}
           I == Items \cup {None}
           U == Users \cup {None}
           P == Paths \cup {None}
<1>1. AnyRequest = Records(AnyPc, O, I, U, P)
  BY DEF AnyRequest
<1> HIDE DEF O, I, U, P
<1>2. /\ \A c \in AnyPc : LET e == SetPc(q, c) IN
           e \in AnyRequest /\ SameFields(e, q) /\ e.pc = c /\ e.path = q.path
      /\ \A x \in P, c \in AnyPc : LET e == SetPath(q, x, c) IN
           e \in AnyRequest /\ SameFields(e, q) /\ e.pc = c /\ e.path = x
      /\ \A s \in SUBSET Items : LET e == SetIds(q, s) IN
           e \in AnyRequest /\ SameFields(e, q) /\ e.pc = q.pc /\ e.path = q.path
      /\ \A s \in SUBSET Items, c \in AnyPc : LET e == SetIdsPc(q, s, c) IN
           e \in AnyRequest /\ SameFields(e, q) /\ e.pc = c /\ e.path = q.path
      /\ \A b \in BOOLEAN : LET e == SetSolo(q, b) IN
           e \in AnyRequest /\ SameFields(e, q) /\ e.pc = q.pc /\ e.path = q.path
  <2>1. q \in Records(AnyPc, O, I, U, P)
    BY <1>1
  <2>2. QED
    BY <1>1, <2>1, Fields
<1>3. QED
  BY <1>2 DEF P

\* What a slot is without a request.
LEMMA IdleFields ==
  /\ Idle \in AnyRequest /\ Idle.pc = "idle" /\ Idle.op = "none"
  /\ Idle.item = None /\ Idle.user = None /\ Idle.path = None /\ Idle.dest = None
<1>1. Idle \in AnyRequest
  BY DEF Idle, AnyRequest, Records, AnyPc
<1>2. QED
  BY <1>1 DEF Idle

\* A slot without a request is in order.
LEMMA IdleOK == ReqOK(Idle) /\ ReqOK(Idle)'
<1>1. Suits(Idle) /\ Suits(Idle)'
  BY IdleFields DEF Suits, FileOps
<1>2. Points(Idle) /\ Points(Idle)'
  BY IdleFields DEF Points, Working
<1>3. QED
  BY <1>1, <1>2, IdleFields DEF ReqOK

-----------------------------------------------------------------------------
\* What a step leaves alone.
KeptStays == \A i \in Items : Kept(i) => Kept(i)'

\* Files that stay, with no fewer removed, are kept.
LEMMA KeptSame ==
  ASSUME Inv, Grows, files' = files, removed \subseteq removed'
  PROVE  KeptStays
<1>1. \A i \in Items : Stored(i) => Stored(i)'
  BY DEF Stored
<1>2. QED
  BY <1>1, PathsGrow DEF KeptStays, Kept

\* A request that does nothing, while others do.
LEMMA WaitingOK ==
  ASSUME Inv, Grows, KeptStays, NEW q, ReqOK(q)
  PROVE  ReqOK(q)'
<1>1. q.pc \in Working \cup {"insert"} => q.item \in Items
  BY DEF ReqOK, Suits, Working, FileOps, ForGood
<1>2. Suits(q)'
  BY DEF ReqOK, Suits, Grows, ForGood
<1>3. Points(q)'
  <2>1. q.pc \in Working => q.path \in PathsOf(q.item)'
    BY <1>1, PathsGrow DEF ReqOK, Points
  <2>2. q.pc = "setpath" => q.item \in movedOnto'[q.dest]
    BY DEF ReqOK, Points, Suits, Grows
  <2>3. q.pc = "insert" => Kept(q.item)'
    BY <1>1 DEF ReqOK, Points, KeptStays
  <2>4. QED
    BY <2>1, <2>2, <2>3 DEF Points
<1>4. QED
  BY <1>2, <1>3 DEF ReqOK

ReqsOK == DOMAIN request = Requests /\ \A r \in Requests : ReqOK(request[r])
RowsOK == DOMAIN rows = Items /\ \A i \in Items : RowOK(i)
FilesOK == DOMAIN files = Locations /\ \A l \in Locations : FileOK(l)

\* The parts of the invariant make the whole of it.
LEMMA InvPrimed ==
  ASSUME Inv, Grows, ReqsOK', RowsOK', FilesOK'
  PROVE  Inv'
BY DEF Inv, Grows, ReqsOK, RowsOK, FilesOK

\* A step that moves one request to a state in order keeps all in order.
LEMMA OneRequest ==
  ASSUME Inv, Grows, KeptStays, NEW r \in Requests,
         NEW e, request' = [request EXCEPT ![r] = e], ReqOK(e)'
  PROVE  ReqsOK'
<1>1. DOMAIN request' = Requests /\ request'[r] = e
      /\ \A o \in Requests \ {r} : request'[o] = request[o]
  BY DEF Inv
<1>2. \A q : ReqOK(q) => ReqOK(q)'
  BY WaitingOK
<1>3. ASSUME NEW o \in Requests PROVE ReqOK(request[o])'
  <2>1. CASE o = r
    BY <1>1, <2>1
  <2>2. CASE o # r
    <3>1. request'[o] = request[o] /\ ReqOK(request[o])
      BY <1>1, <2>2 DEF Inv
    <3>2. QED
      BY <1>2, <3>1
  <2>3. QED
    BY <2>1, <2>2
<1>4. QED
  BY <1>1, <1>3 DEF ReqsOK

\* A request that ends leaves all in order.
LEMMA FinishOK ==
  ASSUME Inv, Grows, KeptStays, NEW r \in Requests, Finish(r)
  PROVE  ReqsOK'
<1> DEFINE e == Idle
<1>1. ReqOK(e)' /\ request' = [request EXCEPT ![r] = e]
  BY IdleOK DEF Finish
<1> HIDE DEF e
<1>2. QED
  BY <1>1, OneRequest

\* The handler goes on to a step it may be at.
LEMMA GotoOK ==
  ASSUME Inv, Grows, KeptStays, NEW r \in Requests, NEW c \in AnyPc, Goto(r, c),
         NEW q, q = request[r], Suits(SetPc(q, c))', Points(SetPc(q, c))'
  PROVE  ReqsOK'
<1> DEFINE e == SetPc(q, c)
<1>1. request' = [request EXCEPT ![r] = e]
  BY DEF Goto, SetPc, Inv
<1>2. e \in AnyRequest
  BY RequestFields DEF Inv, ReqOK
<1>3. ReqOK(e)'
  BY <1>2 DEF ReqOK
<1> HIDE DEF e
<1>4. QED
  BY <1>1, <1>3, OneRequest

\* Rows nobody touched stay in order.
LEMMA RowsSame ==
  ASSUME Inv, Grows, KeptStays, rows' = rows
  PROVE  RowsOK'
<1>1. ASSUME NEW i \in Items, rows[i] # None
      PROVE  /\ rows[i] \in [path : Paths, trashed : BOOLEAN]
             /\ rows[i].path \in PathsOf(i)' /\ Kept(i)'
  BY <1>1, PathsGrow DEF Inv, RowOK, KeptStays
<1>2. QED
  BY <1>1 DEF RowsOK, RowOK, Inv

\* Files nobody touched stay in order.
LEMMA FilesSame ==
  ASSUME Inv, Grows, files' = files
  PROVE  FilesOK'
<1>1. ASSUME NEW l \in Locations, files[l] # None
      PROVE  files[l] \in Items /\ AtHome(l[2], files[l])'
  <2>1. l[2] \in Paths /\ files[l] \in Items /\ AtHome(l[2], files[l])
    BY <1>1 DEF Inv, FileOK, Locations
  <2>2. QED
    BY <2>1, PathsGrow
<1>2. QED
  BY <1>1 DEF FilesOK, FileOK, Inv

\* A step that neither works on a file nor notes anything down.
LEMMA Quiet ==
  ASSUME Inv, config' = config, movedOnto' = movedOnto, files' = files, removed' = removed
  PROVE  Grows /\ KeptStays /\ FilesOK'
<1>1. Grows
  BY DEF Grows, Inv
<1>2. QED
  BY <1>1, KeptSame, FilesSame

-----------------------------------------------------------------------------
\* Requests arrive.
LEMMA SoloOK ==
  ASSUME Inv, NEW q, ReqOK(q), NEW b \in BOOLEAN
  PROVE  ReqOK(SetSolo(q, b))
<1> DEFINE e == SetSolo(q, b)
<1>1. e \in AnyRequest /\ SameFields(e, q) /\ e.pc = q.pc /\ e.path = q.path
  BY RequestFields DEF ReqOK
<1> HIDE DEF e
<1>2. Suits(e)
  BY <1>1 DEF ReqOK, Suits, SameFields, ForGood
<1>3. Points(e)
  BY <1>1 DEF ReqOK, Points, SameFields
<1>4. QED
  BY <1>1, <1>2, <1>3 DEF ReqOK, e

\* Arrive keeps the invariant.
LEMMA ArriveKeeps ==
  ASSUME Inv, NEW r \in Requests, NEW q \in AnyRequest, Suits(q),
         q.pc \in {"write", "refs", "select", "ids"}, Arrive(r, q)
  PROVE  Inv'
<1>1. Grows /\ KeptStays /\ FilesOK' /\ RowsOK'
  <2>1. config' = config /\ movedOnto' = movedOnto /\ files' = files /\ removed' = removed
        /\ rows' = rows
    BY DEF Arrive
  <2>2. QED
    BY <2>1, Quiet, RowsSame
<1>2. ReqOK(q)
  BY DEF ReqOK, Points, Working
<1> DEFINE met == {o \in Requests : Overlap(request[o], q)}
           solo == met = {}
<1>3. request' = [o \in Requests |->
          IF o = r THEN SetSolo(q, solo)
          ELSE IF o \in met THEN SetSolo(request[o], FALSE)
          ELSE request[o]]
  BY DEF Arrive, SetSolo
<1>4. solo \in BOOLEAN
  OBVIOUS
<1> HIDE DEF solo, met
<1>5. \A s : ReqOK(s) => ReqOK(s)'
  BY <1>1, WaitingOK
<1>6. ASSUME NEW o \in Requests PROVE ReqOK(request[o])'
  <2>1. PICK s : s = request'[o]
    OBVIOUS
  <2>2. ReqOK(s)
    <3>1. CASE o = r
      <4>1. ReqOK(SetSolo(q, solo))
        BY <1>2, <1>4, SoloOK
      <4>2. QED
        BY <1>3, <2>1, <3>1, <4>1
    <3>2. CASE o # r /\ o \in met
      <4>1. ReqOK(request[o])
        BY DEF Inv
      <4>2. \A b \in BOOLEAN : ReqOK(SetSolo(request[o], b))
        BY <4>1, SoloOK
      <4>3. QED
        BY <1>3, <2>1, <3>2, <4>2
    <3>3. CASE o # r /\ o \notin met
      BY <1>3, <2>1, <3>3 DEF Inv
    <3>4. QED
      BY <3>1, <3>2, <3>3
  <2>3. ReqOK(s)'
    BY <1>5, <2>2
  <2>4. QED
    BY <2>1, <2>3
<1>7. ReqsOK'
  BY <1>3, <1>6 DEF ReqsOK
<1>8. QED
  BY <1>1, <1>7, InvPrimed

\* The arrival of a request keeps the invariant.
LEMMA ArrivalsKeep ==
  ASSUME Inv, NEW r \in Requests,
         \/ \E i \in Items : ArriveUpload(r, i)
         \/ \E i \in Items, u \in Users, op \in FileOps : ArriveFor(r, op, i, u)
         \/ \E i \in Items, d \in Paths : ArriveMove(r, i, d)
         \/ ArriveEmpty(r)
  PROVE  Inv'
<1>1. ASSUME NEW i \in Items, ArriveUpload(r, i) PROVE Inv'
  <2> DEFINE q == [Idle EXCEPT !.pc = StartPc("upload"), !.op = "upload", !.item = i]
  <2>1. Arrive(r, q)
    BY <1>1 DEF ArriveUpload
  <2>2. q \in AnyRequest /\ q.pc = "write" /\ q.op = "upload" /\ q.item = i
    BY IdleFields DEF StartPc, AnyRequest, Records, AnyPc, FileOps
  <2> HIDE DEF q
  <2>3. Suits(q)
    BY <2>2 DEF Suits, FileOps
  <2>4. QED
    BY <2>1, <2>2, <2>3, ArriveKeeps
<1>2. ASSUME NEW i \in Items, NEW u \in Users, NEW op \in FileOps, ArriveFor(r, op, i, u)
      PROVE  Inv'
  <2> DEFINE q == [Idle EXCEPT !.pc = StartPc(op), !.op = op, !.item = i, !.user = u]
             c == StartPc(op)
  <2>1. Arrive(r, q) /\ op \in {"delete", "restore", "purge"}
    BY <1>2 DEF ArriveFor
  <2>2. c \in {"refs", "select"} /\ (c = "refs" => op = "delete")
    BY <2>1 DEF StartPc
  <2> HIDE DEF c
  <2>3. q \in AnyRequest /\ q.pc = c /\ q.op = op /\ q.item = i /\ q.user = u
    BY <2>2, IdleFields DEF c, AnyRequest, Records, AnyPc, FileOps
  <2> HIDE DEF q
  <2>4. Suits(q)
    BY <2>1, <2>2, <2>3 DEF Suits, FileOps
  <2>5. QED
    BY <2>1, <2>2, <2>3, <2>4, ArriveKeeps
<1>3. ASSUME NEW i \in Items, NEW d \in Paths, ArriveMove(r, i, d) PROVE Inv'
  <2> DEFINE q == [Idle EXCEPT !.pc = StartPc("move"), !.op = "move", !.item = i, !.dest = d]
  <2>1. Arrive(r, q)
    BY <1>3 DEF ArriveMove
  <2>2. q \in AnyRequest /\ q.pc = "select" /\ q.op = "move" /\ q.item = i /\ q.dest = d
    BY IdleFields DEF StartPc, AnyRequest, Records, AnyPc, FileOps
  <2> HIDE DEF q
  <2>3. Suits(q)
    BY <2>2 DEF Suits, FileOps
  <2>4. QED
    BY <2>1, <2>2, <2>3, ArriveKeeps
<1>4. ASSUME ArriveEmpty(r) PROVE Inv'
  <2> DEFINE q == [Idle EXCEPT !.pc = StartPc("empty"), !.op = "empty"]
  <2>1. Arrive(r, q)
    BY <1>4 DEF ArriveEmpty
  <2>2. q \in AnyRequest /\ q.pc = "ids" /\ q.op = "empty"
    BY IdleFields DEF StartPc, AnyRequest, Records, AnyPc, FileOps
  <2> HIDE DEF q
  <2>3. Suits(q)
    BY <2>2 DEF Suits, FileOps
  <2>4. QED
    BY <2>1, <2>2, <2>3, ArriveKeeps
<1>5. QED
  BY <1>1, <1>2, <1>3, <1>4

-----------------------------------------------------------------------------
\* Steps that only read.
LEMMA ReadsKeep ==
  ASSUME Inv, NEW r \in Requests,
         CheckReferences(r) \/ SelectFilePath(r) \/ Exists(r) \/ UnlinkFails(r)
         \/ SelectTrashedIds(r) \/ Stop(r)
  PROVE  Inv'
<1>1. config' = config /\ movedOnto' = movedOnto /\ files' = files /\ removed' = removed
      /\ rows' = rows
  BY DEF CheckReferences, SelectFilePath, Exists, UnlinkFails, SelectTrashedIds, Stop, history
<1>2. Grows /\ KeptStays /\ FilesOK' /\ RowsOK'
  BY <1>1, Quiet, RowsSame
<1>3. PICK q : q = request[r]
  OBVIOUS
<1>4. q \in AnyRequest /\ Suits(q) /\ Points(q)
  BY <1>3 DEF Inv, ReqOK
<1>5. \A c \in AnyPc : LET e == SetPc(q, c) IN
        e \in AnyRequest /\ SameFields(e, q) /\ e.pc = c /\ e.path = q.path
  BY <1>4, RequestFields
<1> SUFFICES ReqsOK'
  BY <1>2, InvPrimed
<1>6. CASE Finish(r)
  BY <1>2, <1>6, FinishOK
<1>7. ASSUME NEW c \in AnyPc, Goto(r, c), Suits(SetPc(q, c)), Points(SetPc(q, c)) PROVE ReqsOK'
  <2> DEFINE e == SetPc(q, c)
  <2>1. e \in AnyRequest
    BY <1>5
  <2> HIDE DEF e
  <2>2. ReqOK(e)
    BY <1>7, <2>1 DEF ReqOK, e
  <2>3. ReqOK(e)'
    BY <1>2, <2>2, WaitingOK
  <2>4. Suits(SetPc(q, c))' /\ Points(SetPc(q, c))'
    BY <2>3 DEF ReqOK, e
  <2>5. QED
    BY <1>2, <1>3, <1>7, <2>4, GotoOK
<1>8. CASE CheckReferences(r)
  <2> DEFINE c == "select"
             e == SetPc(q, c)
  <2>1. Finish(r) \/ Goto(r, c)
    BY <1>8 DEF CheckReferences
  <2>2. q.pc = "refs" /\ c \in AnyPc
    BY <1>3, <1>8 DEF CheckReferences, AnyPc
  <2>3. e \in AnyRequest /\ SameFields(e, q) /\ e.pc = "select"
    BY <1>5, <2>2
  <2> HIDE DEF e
  <2>4. Suits(e) /\ Points(e)
    BY <1>4, <2>2, <2>3 DEF Suits, Points, Working, SameFields, FileOps
  <2>5. QED
    BY <1>6, <1>7, <2>1, <2>2, <2>4 DEF e
<1>9. CASE UnlinkFails(r)
  <2> DEFINE c == "row"
             e == SetPc(q, c)
  <2>1. Goto(r, c)
    BY <1>9 DEF UnlinkFails
  <2>2. q.pc = "unlink" /\ q.op = "purge" /\ c \in AnyPc
    BY <1>3, <1>9 DEF UnlinkFails, AnyPc
  <2>3. e \in AnyRequest /\ SameFields(e, q) /\ e.pc = "row"
    BY <1>5, <2>2
  <2> HIDE DEF e
  <2>4. Suits(e) /\ Points(e)
    BY <1>4, <2>2, <2>3 DEF Suits, Points, Working, SameFields, FileOps, ForGood
  <2>5. QED
    BY <1>7, <2>1, <2>2, <2>4 DEF e
<1>10. CASE Exists(r)
  <2> DEFINE c == IF files[Source(q)] = None THEN AfterFile(q)
                  ELSE IF ForGood(q) THEN "unlink" ELSE "rename"
             e == SetPc(q, c)
  <2>1. Goto(r, c) /\ q.pc = "exists"
    BY <1>3, <1>10 DEF Exists
  <2>2. q.op \in {"delete", "restore", "purge"}
    BY <1>4, <2>1 DEF Suits
  <2>3. /\ c \in {"row", "flag", "unlink", "rename"}
        /\ c \in {"row", "unlink"} <=> ForGood(q)
    BY <2>2 DEF AfterFile, ForGood
  <2> HIDE DEF c
  <2>4. c \in AnyPc
    BY <2>3 DEF AnyPc
  <2>5. e \in AnyRequest /\ SameFields(e, q) /\ e.pc = c /\ e.path = q.path
    BY <1>5, <2>4
  <2> HIDE DEF e
  <2>6. Suits(e)
    BY <1>4, <2>1, <2>2, <2>3, <2>5 DEF Suits, SameFields, FileOps, ForGood
  <2>7. Points(e)
    BY <1>4, <2>1, <2>3, <2>5 DEF Points, Working, SameFields
  <2>8. QED
    BY <1>7, <2>1, <2>4, <2>6, <2>7 DEF e
<1>11. CASE SelectFilePath(r)
  <2>1. q.pc = "select" /\ q.op \in FileOps /\ q.item \in Items
    BY <1>3, <1>4, <1>11 DEF SelectFilePath, Suits
  <2>2. CASE rows[q.item] # None /\ request' = [request EXCEPT ![r].path = rows[q.item].path,
                                                             ![r].pc = FileStep(q)]
    <3> DEFINE x == rows[q.item].path
               c == FileStep(q)
               e == SetPath(q, x, c)
    <3>1. x \in Paths /\ x \in PathsOf(q.item)
      BY <2>1, <2>2 DEF Inv, RowOK
    <3>2. /\ c \in {"rename", "exists"} /\ c \in AnyPc
          /\ c = "rename" => q.op = "move"
          /\ c = "exists" => q.op \in {"delete", "restore", "purge"}
      BY <2>1 DEF FileStep, AnyPc, FileOps
    <3>3. request' = [request EXCEPT ![r] = e]
      BY <1>3, <2>2 DEF SetPath, Inv
    <3> HIDE DEF x, c
    <3>4. e \in AnyRequest /\ SameFields(e, q) /\ e.pc = c /\ e.path = x
      BY <1>4, <3>1, <3>2, RequestFields
    <3> HIDE DEF e
    <3>5. Suits(e)
      BY <1>4, <3>2, <3>4 DEF Suits, SameFields, FileOps, ForGood
    <3>6. Points(e)
      BY <3>1, <3>2, <3>4 DEF Points, SameFields
    <3>7. PICK d : d = e
      OBVIOUS
    <3>8. ReqOK(d)
      BY <3>4, <3>5, <3>6, <3>7 DEF ReqOK
    <3>9. ReqOK(d)'
      BY <1>2, <3>8, WaitingOK
    <3>10. request' = [request EXCEPT ![r] = d]
      BY <3>3, <3>7
    <3>11. QED
      BY <1>2, <3>9, <3>10, OneRequest
  <2>3. CASE q.op = "delete" /\ ForGood(q) /\ Goto(r, "row")
    <3> DEFINE c == "row"
               e == SetPc(q, c)
    <3>1. Goto(r, c) /\ c \in AnyPc
      BY <2>3 DEF AnyPc
    <3>2. e \in AnyRequest /\ SameFields(e, q) /\ e.pc = "row"
      BY <1>5, <3>1
    <3> HIDE DEF e
    <3>3. Suits(e) /\ Points(e)
      BY <1>4, <2>3, <3>2 DEF Suits, Points, Working, SameFields, FileOps, ForGood
    <3>4. QED
      BY <1>7, <3>1, <3>3 DEF e
  <2>4. QED
    BY <1>3, <1>6, <1>11, <2>2, <2>3 DEF SelectFilePath
<1>12. CASE SelectTrashedIds(r)
  <2> DEFINE s == {i \in Items : rows[i] # None /\ rows[i].trashed}
             c == "loop"
             e == SetIdsPc(q, s, c)
  <2>1. Finish(r) \/ request' = [request EXCEPT ![r] = e]
    BY <1>3, <1>12 DEF SelectTrashedIds, SetIdsPc, Inv
  <2>2. q.pc = "ids" /\ s \in SUBSET Items /\ c \in AnyPc
    BY <1>3, <1>12 DEF SelectTrashedIds, AnyPc
  <2> HIDE DEF s
  <2>3. e \in AnyRequest /\ SameFields(e, q) /\ e.pc = "loop"
    BY <1>4, <2>2, RequestFields
  <2> HIDE DEF e
  <2>4. Suits(e) /\ Points(e)
    BY <1>4, <2>2, <2>3 DEF Suits, Points, Working, SameFields, FileOps
  <2>5. PICK d : d = e
    OBVIOUS
  <2>6. ReqOK(d)
    BY <2>3, <2>4, <2>5 DEF ReqOK
  <2>7. ReqOK(d)'
    BY <1>2, <2>6, WaitingOK
  <2>8. QED
    BY <1>2, <1>6, <2>1, <2>5, <2>7, OneRequest
<1>13. CASE Stop(r)
  BY <1>6, <1>13 DEF Stop
<1>14. QED
  BY <1>8, <1>9, <1>10, <1>11, <1>12, <1>13

\* Attaching and detaching keep the invariant.
LEMMA ReferencesKeep ==
  ASSUME Inv, NEW i \in Items, Attach(i) \/ Detach(i)
  PROVE  Inv'
<1>1. config' = config /\ movedOnto' = movedOnto /\ files' = files /\ removed' = removed
      /\ rows' = rows /\ request' = request
  BY DEF Attach, Detach, history
<1>2. Grows /\ KeptStays /\ FilesOK' /\ RowsOK'
  BY <1>1, Quiet, RowsSame
<1>3. ReqsOK'
  <2>1. \A q : ReqOK(q) => ReqOK(q)'
    BY <1>2, WaitingOK
  <2>2. ASSUME NEW r \in Requests PROVE ReqOK(request[r])'
    <3>1. request'[r] = request[r] /\ ReqOK(request[r])
      BY <1>1 DEF Inv
    <3>2. QED
      BY <2>1, <3>1
  <2>3. QED
    BY <1>1, <2>2 DEF ReqsOK, Inv
<1>4. QED
  BY <1>2, <1>3, InvPrimed

-----------------------------------------------------------------------------
\* Steps that change a row.
LEMMA OneRow ==
  ASSUME Inv, Grows, KeptStays, NEW i \in Items, NEW v, rows' = [rows EXCEPT ![i] = v],
         v = None \/ /\ v \in [path : Paths, trashed : BOOLEAN]
                     /\ v.path \in PathsOf(i)' /\ Kept(i)'
  PROVE  RowsOK'
<1>1. ASSUME NEW k \in Items, k # i PROVE RowOK(k)'
  <2>1. rows'[k] = rows[k]
    BY <1>1 DEF Inv
  <2>2. QED
    BY <2>1, PathsGrow DEF Inv, RowOK, KeptStays
<1>2. RowOK(i)'
  BY DEF Inv, RowOK
<1>3. QED
  BY <1>1, <1>2 DEF RowsOK, Inv

\* The steps that write a row keep the invariant.
LEMMA RowsKeep ==
  ASSUME Inv, NEW r \in Requests,
         Insert(r) \/ SetFlag(r) \/ SetFilePath(r) \/ DeleteRow(r)
  PROVE  Inv'
<1>1. config' = config /\ movedOnto' = movedOnto /\ files' = files /\ removed' = removed
      /\ Finish(r)
  BY DEF Insert, SetFlag, SetFilePath, DeleteRow, history
<1>2. Grows /\ KeptStays /\ FilesOK'
  BY <1>1, Quiet
<1>3. PICK q : q = request[r]
  OBVIOUS
<1>4. Suits(q) /\ Points(q)
  BY <1>3 DEF Inv, ReqOK
<1> SUFFICES RowsOK'
  BY <1>1, <1>2, FinishOK, InvPrimed
<1>5. CASE Insert(r)
  <2> DEFINE v == [path |-> UploadName(q.item), trashed |-> FALSE]
  <2>1. q.pc = "insert" /\ rows' = [rows EXCEPT ![q.item] = v]
    BY <1>3, <1>5 DEF Insert
  <2>2. q.item \in Items /\ Kept(q.item)
    BY <1>4, <2>1 DEF Suits, Points
  <2>3. v \in [path : Paths, trashed : BOOLEAN] /\ v.path \in PathsOf(q.item)'
    BY <2>2 DEF UploadName, Paths, PathsOf
  <2>4. Kept(q.item)'
    BY <1>2, <2>2 DEF KeptStays
  <2> HIDE DEF v
  <2>5. QED
    BY <1>2, <2>1, <2>2, <2>3, <2>4, OneRow
<1>6. ASSUME NEW v, rows[q.item] # None, q.item \in Items, rows' = [rows EXCEPT ![q.item] = v],
             v \in [path : Paths, trashed : BOOLEAN], v.path \in PathsOf(q.item)
      PROVE  RowsOK'
  <2>1. Kept(q.item)' /\ v.path \in PathsOf(q.item)'
    BY <1>2, <1>6, PathsGrow DEF Inv, RowOK, KeptStays
  <2>2. QED
    BY <1>2, <1>6, <2>1, OneRow
<1>7. CASE SetFlag(r)
  <2> DEFINE v == [rows[q.item] EXCEPT !.trashed = (q.op = "delete")]
  <2>1. q.item \in Items
    BY <1>3, <1>4, <1>7 DEF SetFlag, Suits, FileOps
  <2>2. CASE rows[q.item] = None
    BY <1>2, <1>3, <1>7, <2>2, RowsSame DEF SetFlag
  <2>3. CASE rows[q.item] # None
    <3>1. rows' = [rows EXCEPT ![q.item] = v]
      BY <1>3, <1>7, <2>1, <2>3 DEF SetFlag, Inv
    <3>2. rows[q.item] \in [path : Paths, trashed : BOOLEAN]
          /\ rows[q.item].path \in PathsOf(q.item)
      BY <2>1, <2>3 DEF Inv, RowOK
    <3>3. v \in [path : Paths, trashed : BOOLEAN] /\ v.path = rows[q.item].path
      BY <3>2
    <3> HIDE DEF v
    <3>4. QED
      BY <1>6, <2>1, <2>3, <3>1, <3>2, <3>3
  <2>4. QED
    BY <2>2, <2>3
<1>8. CASE SetFilePath(r)
  <2> DEFINE v == [rows[q.item] EXCEPT !.path = q.dest]
  <2>1. q.item \in Items /\ q.dest \in Paths /\ q.item \in movedOnto[q.dest]
    BY <1>3, <1>4, <1>8 DEF SetFilePath, Suits, Points, FileOps
  <2>2. CASE rows[q.item] = None
    BY <1>2, <1>3, <1>8, <2>2, RowsSame DEF SetFilePath
  <2>3. CASE rows[q.item] # None
    <3>1. rows' = [rows EXCEPT ![q.item] = v]
      BY <1>3, <1>8, <2>1, <2>3 DEF SetFilePath, Inv
    <3>2. rows[q.item] \in [path : Paths, trashed : BOOLEAN]
      BY <2>1, <2>3 DEF Inv, RowOK
    <3>3. v \in [path : Paths, trashed : BOOLEAN] /\ v.path = q.dest
      BY <2>1, <3>2
    <3>4. v.path \in PathsOf(q.item)
      BY <2>1, <3>3 DEF PathsOf
    <3> HIDE DEF v
    <3>5. QED
      BY <1>6, <2>1, <2>3, <3>1, <3>3, <3>4
  <2>4. QED
    BY <2>2, <2>3
<1>9. CASE DeleteRow(r)
  <2>1. q.item \in Items
    BY <1>3, <1>4, <1>9 DEF DeleteRow, Suits, FileOps, ForGood
  <2>2. rows' = [rows EXCEPT ![q.item] = None]
    BY <1>3, <1>9 DEF DeleteRow
  <2>3. QED
    BY <1>2, <2>1, <2>2, OneRow
<1>10. QED
  BY <1>5, <1>7, <1>8, <1>9

\* Empty keeps the invariant.
LEMMA EmptyKeeps ==
  ASSUME Inv, NEW r \in Requests, NEW i \in Items, DeleteTrashedRow(r, i)
  PROVE  Inv'
<1>1. config' = config /\ movedOnto' = movedOnto /\ files' = files /\ removed' = removed
  BY DEF DeleteTrashedRow, history
<1>2. Grows /\ KeptStays /\ FilesOK'
  BY <1>1, Quiet
<1>3. RowsOK'
  <2>1. rows' = rows \/ rows' = [rows EXCEPT ![i] = None]
    BY DEF DeleteTrashedRow
  <2>2. QED
    BY <1>2, <2>1, RowsSame, OneRow
<1>4. PICK q : q = request[r]
  OBVIOUS
<1>5. q \in AnyRequest /\ Suits(q) /\ Points(q)
  BY <1>4 DEF Inv, ReqOK
<1> DEFINE s == q.ids \ {i}
           e == SetIds(q, s)
<1>6. Finish(r) \/ request' = [request EXCEPT ![r] = e]
  BY <1>4 DEF DeleteTrashedRow, SetIds, Inv
<1>7. s \in SUBSET Items /\ q.pc = "loop"
  BY <1>4, <1>5 DEF AnyRequest, Records, DeleteTrashedRow
<1> HIDE DEF s
<1>8. e \in AnyRequest /\ SameFields(e, q) /\ e.pc = q.pc /\ e.path = q.path
  BY <1>5, <1>7, RequestFields
<1> HIDE DEF e
<1>9. ReqOK(e)
  BY <1>5, <1>7, <1>8 DEF ReqOK, Suits, Points, SameFields, Working, ForGood
<1>10. PICK d : d = e
  OBVIOUS
<1>11. ReqOK(d)'
  BY <1>2, <1>9, <1>10, WaitingOK
<1>12. ReqsOK'
  BY <1>2, <1>6, <1>10, <1>11, FinishOK, OneRequest
<1>13. QED
  BY <1>2, <1>3, <1>12, InvPrimed

-----------------------------------------------------------------------------
\* Steps that work on a file.

\* What is written over or unlinked at one place is the item itself, or shares
\* a path.
LEMMA OnePlace ==
  ASSUME Inv, Grows, removed \subseteq removed', NEW l \in Locations, NEW v \in Items \cup {None},
         files' = [files EXCEPT ![l] = v],
         NEW lost, lost = files[l], lost # None => Kept(lost)',
         v # None => AtHome(l[2], v)'
  PROVE  KeptStays /\ FilesOK'
<1>1. DOMAIN files' = Locations /\ files'[l] = v
      /\ \A m \in Locations : m # l => files'[m] = files[m]
  BY DEF Inv
<1>2. ASSUME NEW i \in Items, Kept(i) PROVE Kept(i)'
  <2>1. CASE i \in removed \/ Shared(i)
    BY <2>1, PathsGrow DEF Kept
  <2>2. CASE Stored(i)
    <3>1. PICK m \in Locations : files[m] = i
      BY <2>2 DEF Stored
    <3>2. CASE m = l
      <4>1. files[l] = i /\ i # None
        BY <3>1, <3>2, ItemsAreFresh
      <4>2. QED
        BY <4>1
    <3>3. CASE m # l
      BY <1>1, <3>1, <3>3 DEF Kept, Stored
    <3>4. QED
      BY <3>2, <3>3
  <2>3. QED
    BY <1>2, <2>1, <2>2 DEF Kept
<1>3. ASSUME NEW m \in Locations, m # l PROVE FileOK(m)'
  <2>1. files'[m] = files[m] /\ m[2] \in Paths
    BY <1>1, <1>3 DEF Locations
  <2>2. files[m] # None => files[m] \in Items /\ AtHome(m[2], files[m])
    BY DEF Inv, FileOK
  <2>3. PICK c : c = files[m]
    OBVIOUS
  <2>4. c # None => c \in Items /\ AtHome(m[2], c)'
    BY <2>1, <2>2, <2>3, PathsGrow
  <2>5. QED
    BY <2>1, <2>3, <2>4 DEF FileOK
<1>4. FileOK(l)'
  BY <1>1 DEF FileOK
<1>5. QED
  BY <1>1, <1>2, <1>3, <1>4 DEF KeptStays, FilesOK

\* Every path is a place under the root.
LEMMA RootIsPlace == \A p \in Paths : <<Root, p>> \in Locations /\ <<Root, p>>[2] = p
BY DEF Locations

\* Write keeps the invariant.
LEMMA WriteKeeps ==
  ASSUME Inv, NEW r \in Requests, Write(r)
  PROVE  Inv'
<1>1. PICK q : q = request[r]
  OBVIOUS
<1>2. q \in AnyRequest /\ Suits(q) /\ Points(q)
  BY <1>1 DEF Inv, ReqOK
<1>3. q.pc = "write" /\ q.op = "upload" /\ q.item \in Items
  BY <1>1, <1>2 DEF Write, Suits
<1>4. PICK i \in Items : i = q.item
  BY <1>3
<1>5. PICK l \in Locations : l = <<Root, i>> /\ l[2] = i
  <2>1. i \in Paths
    BY <1>4 DEF Paths
  <2>2. QED
    BY <2>1, RootIsPlace
<1>6. /\ files' = [files EXCEPT ![l] = i]
      /\ config' = config /\ rows' = rows /\ movedOnto' = movedOnto /\ removed' = removed
  BY <1>1, <1>4, <1>5 DEF Write, UploadName, history
<1>7. Grows
  BY <1>6 DEF Grows, Inv
<1>8. PICK lost : lost = files[l]
  OBVIOUS
<1>9. lost # None => Kept(lost)'
  <2>1. CASE lost # None /\ lost # i
    <3>1. lost \in Items
      BY <1>8, <2>1 DEF Inv, FileOK
    <3>2. Shared(lost)
      <4>1. l[2] \in PathsOf(i)
        BY <1>5 DEF PathsOf, UploadName
      <4>2. QED
        BY <1>8, <2>1, <3>1, <4>1, Strangers
    <3>3. QED
      BY <1>7, <3>1, <3>2, PathsGrow DEF Kept
  <2>2. CASE lost = i
    <3>1. files'[l] = i
      BY <1>6 DEF Inv
    <3>2. QED
      BY <2>2, <3>1 DEF Kept, Stored
  <2>3. QED
    BY <2>1, <2>2
<1>10. AtHome(l[2], i)'
  <2>1. PICK p : p = l[2]
    OBVIOUS
  <2>2. p \in PathsOf(i)'
    BY <1>5, <2>1 DEF PathsOf, UploadName
  <2>3. QED
    BY <2>1, <2>2 DEF AtHome
<1>11. KeptStays /\ FilesOK'
  BY <1>6, <1>7, <1>8, <1>9, <1>10, OnePlace
<1>12. RowsOK'
  BY <1>6, <1>7, <1>11, RowsSame
<1>13. ReqsOK'
  <2> DEFINE c == "insert"
             e == SetPc(q, c)
  <2>1. Goto(r, c) /\ c \in AnyPc
    BY DEF Write, AnyPc
  <2>2. e \in AnyRequest /\ SameFields(e, q) /\ e.pc = "insert"
    BY <1>2, <2>1, RequestFields
  <2> HIDE DEF e
  <2>3. Suits(e)'
    BY <1>3, <2>2 DEF Suits, SameFields, FileOps
  <2>4. Stored(i)'
    <3>1. files'[l] = i
      BY <1>6 DEF Inv
    <3>2. QED
      BY <3>1 DEF Stored
  <2>5. Points(e)'
    BY <1>4, <2>2, <2>4 DEF Points, Working, SameFields, Kept
  <2>6. QED
    BY <1>1, <1>7, <1>11, <2>1, <2>3, <2>5, GotoOK DEF e
<1>14. QED
  BY <1>7, <1>11, <1>12, <1>13, InvPrimed

\* Where a handler that has read a path works.
LEMMA SourcePlace ==
  ASSUME Inv, NEW q, ReqOK(q), q.pc \in {"rename", "unlink"}
  PROVE  /\ q.item \in Items /\ q.path \in Paths /\ q.path \in PathsOf(q.item)
         /\ Source(q) \in Locations /\ Source(q)[2] = q.path
         /\ q.pc = "rename" => Target(q) \in Locations
         /\ q.pc = "rename" => Target(q)[2] = IF q.op = "move" THEN q.dest ELSE q.path
<1>1. /\ q.item \in Items
      /\ q.op \in FileOps
      /\ q.pc = "rename" => q.op \in {"move", "delete", "restore"}
      /\ q.op \in {"delete", "restore", "purge"} => q.user \in Users
      /\ q.op = "move" => q.dest \in Paths
  BY DEF ReqOK, Suits, ForGood, FileOps
<1>2. q.path \in PathsOf(q.item)
  BY DEF ReqOK, Points, Working
<1>3. q.path \in Paths
  BY <1>1, <1>2 DEF PathsOf, UploadName, Paths
<1>4. Source(q) \in Locations /\ Source(q)[2] = q.path
  BY <1>1, <1>3 DEF Source, Locations, FileOps
<1>5. q.pc = "rename" => Target(q) \in Locations
  BY <1>1, <1>3 DEF Target, Locations
<1>6. q.pc = "rename" => Target(q)[2] = IF q.op = "move" THEN q.dest ELSE q.path
  BY <1>1, <1>3 DEF Target
<1>7. QED
  BY <1>1, <1>2, <1>3, <1>4, <1>5, <1>6

\* Unlink keeps the invariant.
LEMMA UnlinkKeeps ==
  ASSUME Inv, NEW r \in Requests, Unlink(r)
  PROVE  Inv'
<1>1. PICK q : q = request[r]
  OBVIOUS
<1>2. ReqOK(q) /\ q \in AnyRequest /\ Suits(q) /\ Points(q) /\ q.pc = "unlink"
  BY <1>1 DEF Inv, ReqOK, Unlink
<1>3. PICK l \in Locations : l = Source(q) /\ l[2] = q.path
  BY <1>2, SourcePlace
<1>4. PICK i \in Items : i = q.item /\ l[2] \in PathsOf(i)
  BY <1>2, <1>3, SourcePlace
<1>5. /\ files' = [files EXCEPT ![l] = None]
      /\ removed' = IF files[l] = None THEN removed ELSE removed \cup {i}
      /\ config' = config /\ rows' = rows /\ movedOnto' = movedOnto
  BY <1>1, <1>3, <1>4 DEF Unlink
<1>6. Grows /\ removed \subseteq removed'
  BY <1>5 DEF Grows, Inv
<1>7. PICK lost : lost = files[l]
  OBVIOUS
<1>8. lost # None => Kept(lost)'
  <2>1. CASE lost # None /\ lost # i
    <3>1. lost \in Items
      BY <1>7, <2>1 DEF Inv, FileOK
    <3>2. Shared(lost)
      BY <1>4, <1>7, <2>1, <3>1, Strangers
    <3>3. QED
      BY <1>6, <3>1, <3>2, PathsGrow DEF Kept
  <2>2. CASE lost # None /\ lost = i
    BY <1>5, <1>7, <2>2 DEF Kept
  <2>3. QED
    BY <2>1, <2>2
<1>9. KeptStays /\ FilesOK'
  <2>1. \A v \in Items \cup {None} :
          files' = [files EXCEPT ![l] = v] /\ (v # None => AtHome(l[2], v)') => KeptStays /\ FilesOK'
    BY <1>6, <1>7, <1>8, OnePlace
  <2>2. QED
    BY <1>5, <2>1
<1>10. RowsOK'
  BY <1>5, <1>6, <1>9, RowsSame
<1>11. ReqsOK'
  <2> DEFINE c == "row"
             e == SetPc(q, c)
  <2>1. (Finish(r) \/ Goto(r, c)) /\ c \in AnyPc
    BY DEF Unlink, AnyPc
  <2>2. e \in AnyRequest /\ SameFields(e, q) /\ e.pc = "row"
    BY <1>2, <2>1, RequestFields
  <2> HIDE DEF e
  <2>3. Suits(e)
    BY <1>2, <2>2 DEF Suits, SameFields, FileOps, ForGood
  <2>4. Suits(e)'
    BY <1>6, <2>3 DEF Suits, ForGood, Grows
  <2>5. Points(e)'
    BY <2>2 DEF Points, Working
  <2>6. QED
    BY <1>1, <1>6, <1>9, <2>1, <2>4, <2>5, FinishOK, GotoOK DEF e
<1>12. QED
  BY <1>6, <1>9, <1>10, <1>11, InvPrimed

\* A file is carried from one place to another: only what lay at the target may
\* be lost.
LEMMA Carried ==
  ASSUME Inv, Grows, removed \subseteq removed', NEW from \in Locations, NEW to \in Locations,
         files' = RenamedFile(from, to),
         NEW s \in Items, files[from] = s, AtHome(to[2], s)',
         NEW lost, lost = files[to], lost # None /\ lost # s => Kept(lost)'
  PROVE  KeptStays /\ FilesOK'
<1>1. CASE from = to
  BY <1>1, KeptSame, FilesSame DEF RenamedFile
<1>2. CASE from # to
  <2>1. /\ DOMAIN files' = Locations /\ files'[to] = s /\ files'[from] = None
        /\ \A m \in Locations : m # to /\ m # from => files'[m] = files[m]
    BY <1>2 DEF RenamedFile, Inv
  <2>2. ASSUME NEW i \in Items, Kept(i) PROVE Kept(i)'
    <3>1. CASE i \in removed \/ Shared(i)
      BY <3>1, PathsGrow DEF Kept
    <3>2. CASE i = s
      BY <2>1, <3>2 DEF Kept, Stored
    <3>3. CASE Stored(i) /\ i # s
      <4>1. PICK m \in Locations : files[m] = i
        BY <3>3 DEF Stored
      <4>2. m # from
        BY <3>3, <4>1
      <4>3. CASE m = to
        BY <3>3, <4>1, <4>3, ItemsAreFresh
      <4>4. CASE m # to
        BY <2>1, <4>1, <4>2, <4>4 DEF Kept, Stored
      <4>5. QED
        BY <4>3, <4>4
    <3>4. QED
      BY <2>2, <3>1, <3>2, <3>3 DEF Kept
  <2>3. ASSUME NEW m \in Locations, m # to, m # from PROVE FileOK(m)'
    <3>1. files'[m] = files[m] /\ m[2] \in Paths
      BY <2>1, <2>3 DEF Locations
    <3>2. files[m] # None => files[m] \in Items /\ AtHome(m[2], files[m])
      BY DEF Inv, FileOK
    <3>3. PICK c : c = files[m]
      OBVIOUS
    <3>4. c # None => c \in Items /\ AtHome(m[2], c)'
      BY <3>1, <3>2, <3>3, PathsGrow
    <3>5. QED
      BY <3>1, <3>3, <3>4 DEF FileOK
  <2>4. FileOK(to)' /\ FileOK(from)'
    BY <2>1 DEF FileOK
  <2>5. QED
    BY <2>1, <2>2, <2>3, <2>4 DEF KeptStays, FilesOK
<1>3. QED
  BY <1>1, <1>2

\* The handlers' renames: from a path of the item to the same path in the trash or
\* back, or to the path the user chose.
LEMMA RenameFiles ==
  ASSUME Inv, NEW q, ReqOK(q), q.pc = "rename", files[Source(q)] # None,
         files' = RenamedFile(Source(q), Target(q)),
         config' = config, removed' = removed,
         movedOnto' = IF q.op # "move" THEN movedOnto
                      ELSE [movedOnto EXCEPT ![q.dest] = @ \cup {q.item}]
  PROVE  Grows /\ KeptStays /\ FilesOK' /\ (q.op = "move" => q.item \in movedOnto'[q.dest])
<1>1. PICK i \in Items, from \in Locations, to \in Locations :
        /\ i = q.item /\ from = Source(q) /\ to = Target(q)
        /\ from[2] = q.path /\ q.path \in PathsOf(i) /\ q.path \in Paths
        /\ to[2] = IF q.op = "move" THEN q.dest ELSE q.path
  BY SourcePlace
<1>2. q.op = "move" => q.dest \in Paths
  BY DEF ReqOK, Suits
<1>3. /\ movedOnto' \in [Paths -> SUBSET Items]
      /\ \A p \in Paths : movedOnto[p] \subseteq movedOnto'[p]
      /\ q.op = "move" => i \in movedOnto'[q.dest]
  <2>1. CASE q.op # "move"
    BY <2>1 DEF Inv
  <2>2. CASE q.op = "move"
    BY <1>1, <1>2, <2>2 DEF Inv
  <2>3. QED
    BY <2>1, <2>2
<1>4. Grows
  BY <1>3 DEF Grows
<1>5. PICK s \in Items : files[from] = s
  BY <1>1 DEF Inv, FileOK
<1>6. s # i => Shared(s) /\ Shared(i)
  BY <1>1, <1>5, Strangers
<1>7. to[2] \in Paths /\ to[2] \in PathsOf(i)'
  BY <1>1, <1>2, <1>3, <1>4, PathsGrow DEF PathsOf
<1>8. AtHome(to[2], s)'
  <2>1. CASE s = i
    BY <1>7, <2>1 DEF AtHome
  <2>2. CASE s # i /\ q.op = "move"
    <3>1. Shared(s)' /\ Shared(i)' /\ i \in movedOnto'[to[2]]
      BY <1>1, <1>3, <1>4, <1>6, <2>2, PathsGrow
    <3>2. QED
      BY <3>1 DEF AtHome
  <2>3. CASE q.op # "move"
    <3>1. PICK p : p = from[2] /\ p = to[2]
      BY <1>1, <2>3
    <3>2. AtHome(p, s)
      BY <1>5, <3>1, ItemsAreFresh DEF Inv, FileOK
    <3>3. AtHome(p, s)'
      BY <1>4, <1>7, <3>1, <3>2, PathsGrow
    <3>4. QED
      BY <3>1, <3>3
  <2>4. QED
    BY <2>1, <2>2, <2>3
<1>9. PICK lost : lost = files[to]
  OBVIOUS
<1>10. ASSUME lost # None, lost # s PROVE Kept(lost)'
  <2>1. lost \in Items
    BY <1>9, <1>10 DEF Inv, FileOK
  <2>2. CASE lost = i
    BY <1>4, <1>6, <1>10, <2>2, PathsGrow DEF Kept
  <2>3. CASE lost # i
    <3>1. PICK p : p = to[2]
      OBVIOUS
    <3>2. AtHome(p, lost)'
      <4>1. AtHome(p, lost)
        BY <1>9, <1>10, <3>1 DEF Inv, FileOK
      <4>2. QED
        BY <1>4, <1>7, <2>1, <3>1, <4>1, PathsGrow
    <3>3. CASE q.op = "move"
      <4>1. CASE p \in PathsOf(lost)'
        <5>1. p \in PathsOf(i)' /\ movedOnto'[p] # {}
          BY <1>1, <1>3, <1>7, <3>1, <3>3
        <5>2. Shared(lost)'
          BY <2>3, <4>1, <5>1 DEF Shared
        <5>3. QED
          BY <5>2 DEF Kept
      <4>2. CASE Shared(lost)'
        BY <4>2 DEF Kept
      <4>3. QED
        BY <3>2, <4>1, <4>2 DEF AtHome
    <3>4. CASE q.op # "move"
      <4>1. to[2] \in PathsOf(i)
        BY <1>1, <3>4
      <4>2. Shared(lost)
        BY <1>9, <2>1, <2>3, <4>1, Strangers
      <4>3. QED
        BY <1>4, <2>1, <4>2, PathsGrow DEF Kept
    <3>5. QED
      BY <3>3, <3>4
  <2>4. QED
    BY <2>2, <2>3
<1>11. KeptStays /\ FilesOK'
  BY <1>1, <1>4, <1>5, <1>8, <1>9, <1>10, Carried
<1>12. QED
  BY <1>1, <1>3, <1>4, <1>11

\* Rename keeps the invariant.
LEMMA RenameKeeps ==
  ASSUME Inv, NEW r \in Requests, Rename(r)
  PROVE  Inv'
<1>1. PICK q : q = request[r]
  OBVIOUS
<1>2. ReqOK(q) /\ q \in AnyRequest /\ Suits(q) /\ Points(q) /\ q.pc = "rename"
  BY <1>1 DEF Inv, ReqOK, Rename
<1>3. config' = config /\ rows' = rows /\ removed' = removed
  BY DEF Rename
<1>4. CASE files[Source(q)] = None
  <2>1. Finish(r) /\ files' = files /\ movedOnto' = movedOnto
    BY <1>1, <1>4 DEF Rename
  <2>2. Grows /\ KeptStays /\ FilesOK'
    BY <1>3, <2>1, Quiet
  <2>3. QED
    BY <1>3, <2>1, <2>2, FinishOK, RowsSame, InvPrimed
<1>5. CASE files[Source(q)] # None
  <2>1. /\ files' = RenamedFile(Source(q), Target(q))
        /\ Goto(r, AfterFile(q))
        /\ movedOnto' = IF q.op # "move" THEN movedOnto
                        ELSE [movedOnto EXCEPT ![q.dest] = @ \cup {q.item}]
    BY <1>1, <1>5 DEF Rename
  <2>2. Grows /\ KeptStays /\ FilesOK' /\ (q.op = "move" => q.item \in movedOnto'[q.dest])
    BY <1>2, <1>3, <1>5, <2>1, RenameFiles
  <2>3. RowsOK'
    BY <1>3, <2>2, RowsSame
  <2>4. ReqsOK'
    <3>1. PICK c :
            /\ c = AfterFile(q)
            /\ c \in {"setpath", "flag"} /\ (c = "setpath" <=> q.op = "move")
            /\ c = "flag" => q.op \in {"delete", "restore"} /\ ~ForGood(q)
      BY <1>2 DEF AfterFile, Suits, ForGood
    <3> DEFINE e == SetPc(q, c)
    <3>2. Goto(r, c) /\ c \in AnyPc
      BY <2>1, <3>1 DEF AnyPc
    <3>3. e \in AnyRequest /\ SameFields(e, q) /\ e.pc = c /\ e.path = q.path
      BY <1>2, <3>2, RequestFields
    <3> HIDE DEF e
    <3>4. Suits(e)
      BY <1>2, <3>1, <3>3 DEF Suits, SameFields, FileOps, ForGood
    <3>5. Suits(e)'
      BY <2>2, <3>4 DEF Suits, ForGood, Grows
    <3>6. q.item \in Items /\ q.path \in PathsOf(q.item)
      BY <1>2, SourcePlace
    <3>7. q.path \in PathsOf(q.item)'
      BY <2>2, <3>6, PathsGrow
    <3>8. Points(e)'
      BY <2>2, <3>1, <3>3, <3>7 DEF Points, SameFields
    <3>9. QED
      BY <1>1, <2>2, <3>2, <3>5, <3>8, GotoOK DEF e
  <2>5. QED
    BY <2>2, <2>3, <2>4, InvPrimed
<1>6. QED
  BY <1>4, <1>5

-----------------------------------------------------------------------------
\* The invariant holds at first.
LEMMA InitOK == Init => Inv
<1> SUFFICES ASSUME Init PROVE Inv
  OBVIOUS
<1>1. \A r \in Requests : ReqOK(request[r])
  BY IdleOK DEF Init
<1>2. \A l \in Locations : FileOK(l)
  BY DEF Init, FileOK
<1>3. \A i \in Items : RowOK(i)
  BY DEF Init, RowOK
<1>4. movedOnto \in [Paths -> SUBSET Items]
  BY DEF Init
<1>5. QED
  BY <1>1, <1>2, <1>3, <1>4 DEF Inv, Init

\* Every step keeps the invariant.
LEMMA StepOK == Inv /\ [Next]_vars => Inv'
<1> SUFFICES ASSUME Inv, [Next]_vars PROVE Inv'
  OBVIOUS
<1>1. CASE Next
  <2>1. ASSUME NEW r \in Requests, Step(r) PROVE Inv'
    BY <2>1, WriteKeeps, RowsKeep, ReadsKeep, RenameKeeps, UnlinkKeeps, EmptyKeeps DEF Step
  <2>2. QED
    BY <1>1, <2>1, ArrivalsKeep, ReferencesKeep DEF Next
<1>2. CASE UNCHANGED vars
  <2>1. config' = config /\ movedOnto' = movedOnto /\ files' = files /\ removed' = removed
        /\ rows' = rows /\ request' = request
    BY <1>2 DEF vars
  <2>2. Grows /\ KeptStays /\ FilesOK' /\ RowsOK'
    BY <2>1, Quiet, RowsSame
  <2>3. \A q : ReqOK(q) => ReqOK(q)'
    BY <2>2, WaitingOK
  <2>4. ASSUME NEW r \in Requests PROVE ReqOK(request[r])'
    <3>1. request'[r] = request[r] /\ ReqOK(request[r])
      BY <2>1 DEF Inv
    <3>2. QED
      BY <2>3, <3>1
  <2>5. ReqsOK'
    BY <2>1, <2>4 DEF ReqsOK, Inv
  <2>6. QED
    BY <2>2, <2>5, InvPrimed
<1>3. QED
  BY <1>1, <1>2

\* However handlers overlap, fail or are cancelled, the file of an item in the
\* table is in the store, unless a permanent delete of this very item removed it
\* or a move brought another item to one of its paths (upload.rs, delete.rs,
\* trash.rs: each handler works on a path it read earlier).
THEOREM KeptSafety == Spec => []KeptUnlessDeleted
<1>1. Inv => KeptUnlessDeleted
  BY DEF Inv, RowOK, Kept, KeptUnlessDeleted
<1>2. QED
  BY <1>1, InitOK, StepOK, PTL DEF Spec

-----------------------------------------------------------------------------
\* What heals.

\* Nothing that the property leaves out has happened to an item.
Whole(i) == i \notin torn \cup removed /\ ~Shared(i)

\* Its file is in its place or in the trash of one who moved it there.
Here(i, p) == \E x \in {Root} \cup trashedBy[i] : files[<<x, p>>] = i

\* A move of the item that has its file in the new place and not yet its row.
Moving(i) == \E r \in Requests : request[r].item = i /\ request[r].pc = "setpath"

\* What a handler of an item knows of it, while the item is whole.
Fit(q, i) ==
  rows[i] # None /\ Whole(i) =>
    /\ q.pc \in Working \ {"setpath"} => q.path = rows[i].path
    /\ q.pc = "setpath" => files[<<Root, q.dest>>] = i
    /\ q.pc = "flag" /\ q.solo /\ trashedBy[i] \subseteq {q.user} => files[Target(q)] = i

\* An upload that has written its file, before its row is there.
Written(q, i) == q.pc = "insert" /\ Whole(i) => files[<<Root, UploadName(i)>>] = i

\* While an item is uploaded it has no row, and nobody works on its file.
Uploading(i) ==
  \A r \in Requests : request[r].op = "upload" /\ request[r].item = i =>
    /\ rows[i] = None
    /\ \A o \in Requests \ {r} : request[o].item = i =>
         request[o].op # "upload" /\ request[o].pc \notin Working

ItemOK(i) ==
  /\ \A r \in Requests : request[r].item = i => Fit(request[r], i) /\ Written(request[r], i)
  /\ Uploading(i)
  /\ rows[i] # None /\ Whole(i) /\ ~Moving(i) => Here(i, rows[i].path)

\* A handler that is alone is; a move that is not has torn its item.
SoloOf(r) ==
  /\ request[r].op = "move" /\ request[r].item \notin torn => request[r].solo
  /\ request[r].solo => \A o \in Requests \ {r} : ~Overlap(request[o], request[r])

HealInv ==
  /\ DOMAIN trashedBy = Items /\ \A i \in Items : trashedBy[i] \subseteq Users
  /\ \A r \in Requests : SoloOf(r)
  /\ \A i \in Items : ItemOK(i)

\* The fields that a step of a request leaves alone beside the others.
LEMMA SoloFields ==
  ASSUME NEW q \in AnyRequest
  PROVE  /\ \A c \in AnyPc : SetPc(q, c).solo = q.solo
         /\ \A x \in Paths \cup {None}, c \in AnyPc : SetPath(q, x, c).solo = q.solo
         /\ \A s \in SUBSET Items : SetIds(q, s).solo = q.solo
         /\ \A s \in SUBSET Items, c \in AnyPc : SetIdsPc(q, s, c).solo = q.solo
         /\ \A b \in BOOLEAN : SetSolo(q, b).solo = b
BY DEF AnyRequest, Records, SetPc, SetPath, SetIds, SetIdsPc, SetSolo

\* Whom a handler works for, as far as it has come.
LEMMA Workers ==
  ASSUME NEW q, ReqOK(q)
  PROVE  /\ q.pc \in Working => q.op \in FileOps /\ q.item \in Items /\ q.path \in Paths
         /\ q.pc \in {"write", "insert"} => q.op = "upload" /\ q.item \in Items
         /\ q.pc = "setpath" => q.op = "move" /\ <<Root, q.dest>> \in Locations
         /\ q.pc = "flag" => Target(q) \in Locations /\ q.op \in {"delete", "restore"}
<1>1. q.pc \in Working => q.op \in FileOps /\ q.item \in Items
  BY DEF ReqOK, Suits, Working, FileOps, ForGood
<1>2. q.pc \in Working => q.path \in Paths
  BY <1>1 DEF ReqOK, Points, PathsOf, UploadName, Paths
<1>3. q.pc = "setpath" => q.op = "move" /\ q.dest \in Paths
  BY DEF ReqOK, Suits
<1>4. q.pc = "flag" => q.op \in {"delete", "restore"} /\ q.user \in Users
  BY DEF ReqOK, Suits
<1>5. q.pc = "flag" => Target(q) \in Locations
  BY <1>2, <1>4 DEF Target, Locations, Working
<1>6. q.pc \in {"write", "insert"} => q.op = "upload" /\ q.item \in Items
  BY DEF ReqOK, Suits
<1>7. QED
  BY <1>1, <1>2, <1>3, <1>4, <1>5, <1>6, RootIsPlace

\* A request goes on, or ends.
GoesOn(r, e) ==
  /\ request' = [request EXCEPT ![r] = e]
  /\ e = Idle \/ (SameFields(e, request[r]) /\ e.solo = request[r].solo)

\* Who was alone still is when one request goes on.
LEMMA SoloKeeps ==
  ASSUME Inv, HealInv, NEW r \in Requests, NEW e, GoesOn(r, e), torn \subseteq torn'
  PROVE  \A o \in Requests : SoloOf(o)'
<1>1. /\ request'[r] = e /\ \A o \in Requests \ {r} : request'[o] = request[o]
  BY DEF GoesOn, Inv
<1>2. \/ e.op = "none" /\ ~e.solo
      \/ e.op = request[r].op /\ e.item = request[r].item /\ e.solo = request[r].solo
  BY DEF GoesOn, SameFields, Idle
<1>3. \A o \in Requests : SoloOf(o)
  BY DEF HealInv
<1>4. \A a, b, c, d : a.op = c.op /\ a.item = c.item /\ b.op = d.op /\ b.item = d.item =>
        (Overlap(a, b) <=> Overlap(c, d))
  BY DEF Overlap
<1>5. \A a, b : a.op = "none" \/ b.op = "none" => ~Overlap(a, b)
  BY DEF Overlap, FileOps
<1>6. ASSUME NEW o \in Requests PROVE SoloOf(o)'
  <2>1. PICK a : a = request'[o]
    OBVIOUS
  <2>2. a.op = "move" /\ a.item \notin torn' => a.solo
    BY <1>1, <1>2, <1>3, <2>1 DEF SoloOf
  <2>3. ASSUME a.solo, NEW p \in Requests \ {o} PROVE ~Overlap(request'[p], a)
    <3>1. /\ request[o].solo /\ a.op = request[o].op /\ a.item = request[o].item
      BY <1>1, <1>2, <2>1, <2>3
    <3>2. ~Overlap(request[p], request[o])
      BY <1>3, <3>1 DEF SoloOf
    <3>3. \/ request'[p].op = "none"
          \/ request'[p].op = request[p].op /\ request'[p].item = request[p].item
      BY <1>1, <1>2
    <3>4. QED
      BY <1>4, <1>5, <3>1, <3>2, <3>3
  <2>4. QED
    BY <2>1, <2>2, <2>3 DEF SoloOf
<1>7. QED
  BY <1>6

\* One request goes on while an item is uploaded, or is not.
LEMMA UploadingKeeps ==
  ASSUME Inv, NEW i \in Items, Uploading(i), NEW r \in Requests, NEW e, GoesOn(r, e),
         rows[i] = None => rows'[i] = None \/ (request[r].op = "upload" /\ request[r].item = i /\ e = Idle),
         e.item = i /\ e.pc \in Working => request[r].pc \in Working \/ rows[i] # None
  PROVE  Uploading(i)'
<1>1. /\ request'[r] = e /\ \A o \in Requests \ {r} : request'[o] = request[o]
  BY DEF GoesOn, Inv
<1>2. \/ e.op = "none" /\ e.item = None
      \/ e.op = request[r].op /\ e.item = request[r].item
  BY IdleFields DEF GoesOn, SameFields
<1>3. i # None
  BY ItemsAreFresh
<1>4. SUFFICES ASSUME NEW o \in Requests, request'[o].op = "upload", request'[o].item = i
               PROVE  /\ rows'[i] = None
                      /\ \A p \in Requests \ {o} : request'[p].item = i =>
                           request'[p].op # "upload" /\ request'[p].pc \notin Working
  BY DEF Uploading
<1>5. request[o].op = "upload" /\ request[o].item = i
  BY <1>1, <1>2, <1>4
<1>6. /\ rows[i] = None
      /\ \A p \in Requests \ {o} : request[p].item = i =>
           request[p].op # "upload" /\ request[p].pc \notin Working
  BY <1>5 DEF Uploading
<1>7. rows'[i] = None
  <2>1. CASE o = r
    BY <1>1, <1>4, <1>6, <2>1, IdleFields
  <2>2. CASE o # r
    BY <1>6, <2>2
  <2>3. QED
    BY <2>1, <2>2
<1>8. ASSUME NEW p \in Requests \ {o}, request'[p].item = i
      PROVE  request'[p].op # "upload" /\ request'[p].pc \notin Working
  <2>1. CASE p # r
    BY <1>1, <1>6, <1>8, <2>1
  <2>2. CASE p = r
    BY <1>1, <1>2, <1>3, <1>6, <1>8, <2>2
  <2>3. QED
    BY <2>1, <2>2
<1>9. QED
  BY <1>7, <1>8

\* Nothing happens to the file of an item, its path or its trash, as far as it
\* is whole afterwards.
Calm(i) ==
  /\ rows'[i] # None => rows[i] # None /\ rows'[i].path = rows[i].path
  /\ Whole(i)' => Whole(i) /\ trashedBy'[i] = trashedBy[i]
  /\ Whole(i)' => \A l \in Locations : files[l] = i => files'[l] = i

\* A handler that does nothing meanwhile.
LEMMA FitKeeps ==
  ASSUME Inv, NEW i \in Items, Calm(i), NEW q, ReqOK(q), Fit(q, i), Written(q, i)
  PROVE  Fit(q, i)' /\ Written(q, i)'
<1>1. /\ q.pc = "setpath" => <<Root, q.dest>> \in Locations
      /\ q.pc = "flag" => Target(q) \in Locations
  BY Workers
<1>2. Target(q)' = Target(q)
  BY DEF Target
<1>3. <<Root, UploadName(i)>> \in Locations
  BY RootIsPlace DEF UploadName, Paths
<1>4. Written(q, i)'
  BY <1>3 DEF Written, Calm, UploadName
<1>5. ASSUME rows'[i] # None, Whole(i)'
      PROVE  /\ q.pc \in Working \ {"setpath"} => q.path = rows'[i].path
             /\ q.pc = "setpath" => files'[<<Root, q.dest>>] = i
             /\ q.pc = "flag" /\ q.solo /\ trashedBy'[i] \subseteq {q.user} =>
                  files'[Target(q)] = i
  <2>1. /\ rows[i] # None /\ Whole(i) /\ rows'[i].path = rows[i].path
        /\ trashedBy'[i] = trashedBy[i] /\ \A l \in Locations : files[l] = i => files'[l] = i
    BY <1>5 DEF Calm
  <2>2. /\ q.pc \in Working \ {"setpath"} => q.path = rows[i].path
        /\ q.pc = "setpath" => files[<<Root, q.dest>>] = i
        /\ q.pc = "flag" /\ q.solo /\ trashedBy[i] \subseteq {q.user} => files[Target(q)] = i
    BY <2>1 DEF Fit
  <2>3. QED
    BY <1>1, <2>1, <2>2
<1>6. Fit(q, i)'
  BY <1>2, <1>5 DEF Fit
<1>7. QED
  BY <1>4, <1>6

\* An item that is where it was.
LEMMA HereKeeps ==
  ASSUME Inv, HealInv, NEW i \in Items, Calm(i), rows'[i] # None, Whole(i)', ~Moving(i)
  PROVE  Here(i, rows[i].path)'
<1>1. /\ rows[i] # None /\ Whole(i) /\ rows'[i].path = rows[i].path
      /\ trashedBy'[i] = trashedBy[i] /\ \A l \in Locations : files[l] = i => files'[l] = i
  BY DEF Calm
<1>2. PICK p : p = rows[i].path /\ p \in Paths
  BY <1>1 DEF Inv, RowOK
<1>3. Here(i, p)
  BY <1>1, <1>2 DEF HealInv, ItemOK
<1>4. PICK x \in {Root} \cup trashedBy[i] : files[<<x, p>>] = i
  BY <1>3 DEF Here
<1>5. <<x, p>> \in Locations
  BY <1>2, <1>4 DEF HealInv, Locations
<1>6. files'[<<x, p>>] = i
  BY <1>1, <1>4, <1>5
<1>7. QED
  BY <1>1, <1>2, <1>4, <1>6 DEF Here

\* An item to which nothing happens while one request goes on.
LEMMA ItemKeeps ==
  ASSUME Inv, HealInv, NEW i \in Items, NEW r \in Requests, NEW e, GoesOn(r, e), Calm(i),
         e.item = i => Fit(e, i)' /\ Written(e, i)',
         Uploading(i)',
         rows'[i] # None /\ Whole(i)' => ~(request[r].item = i /\ request[r].pc = "setpath")
  PROVE  ItemOK(i)'
<1>1. /\ request'[r] = e /\ \A o \in Requests \ {r} : request'[o] = request[o]
  BY DEF GoesOn, Inv
<1>2. ASSUME NEW o \in Requests, request'[o].item = i
      PROVE  Fit(request[o], i)' /\ Written(request[o], i)'
  <2>1. CASE o = r
    BY <1>1, <1>2, <2>1
  <2>2. CASE o # r
    <3>1. PICK q : q = request[o]
      OBVIOUS
    <3>2. q = request'[o] /\ ReqOK(q) /\ Fit(q, i) /\ Written(q, i)
      BY <1>1, <1>2, <2>2, <3>1 DEF Inv, HealInv, ItemOK
    <3>3. Fit(q, i)' /\ Written(q, i)'
      BY <3>2, FitKeeps
    <3>4. QED
      BY <3>2, <3>3
  <2>3. QED
    BY <2>1, <2>2
<1>3. ASSUME rows'[i] # None, Whole(i)', ~Moving(i)'
      PROVE  Here(i, rows[i].path)'
  <2>1. ~Moving(i)
    BY <1>1, <1>3 DEF Moving
  <2>2. QED
    BY <1>3, <2>1, HereKeeps
<1>4. QED
  BY <1>2, <1>3 DEF ItemOK

\* An item that is whole was so before.
LEMMA WholeBefore ==
  ASSUME Inv, Grows, torn \subseteq torn', removed \subseteq removed', NEW i \in Items, Whole(i)'
  PROVE  Whole(i)
BY PathsGrow DEF Whole

\* A step that leaves files and rows is calm for every item.
LEMMA AllCalm ==
  ASSUME Inv, config' = config, movedOnto' = movedOnto, removed' = removed, torn \subseteq torn',
         trashedBy' = trashedBy, files' = files, NEW i \in Items,
         rows'[i] # None => rows[i] # None /\ rows'[i].path = rows[i].path
  PROVE  Calm(i)
<1>1. Grows
  BY DEF Grows, Inv
<1>2. Whole(i)' => Whole(i)
  BY <1>1, WholeBefore
<1>3. QED
  BY <1>2 DEF Calm

\* The rest of the invariant, when every item is in order.
LEMMA HealPrimed ==
  ASSUME Inv, HealInv, NEW r \in Requests, NEW e, GoesOn(r, e), torn \subseteq torn',
         DOMAIN trashedBy' = Items, \A i \in Items : trashedBy'[i] \subseteq Users,
         \A i \in Items : ItemOK(i)'
  PROVE  HealInv'
<1>1. \A o \in Requests : SoloOf(o)'
  BY SoloKeeps
<1>2. QED
  BY <1>1 DEF HealInv

\* Nobody else works on an item that is moved, or on whose handler is alone.
LEMMA Undisturbed ==
  ASSUME Inv, HealInv, NEW r \in Requests, NEW o \in Requests, r # o,
         request[r].item = request[o].item, request[r].op \in FileOps,
         request[r].solo \/ (request[r].op = "move" /\ request[r].item \notin torn)
  PROVE  request[o].op \notin FileOps \cup {"upload"} /\ request[o].pc \notin Working \cup {"insert"}
<1>1. request[r].solo
  BY DEF HealInv, SoloOf
<1>2. ~Overlap(request[o], request[r])
  BY <1>1 DEF HealInv, SoloOf
<1>3. request[o].op \notin FileOps \cup {"upload"}
  BY <1>2 DEF Overlap
<1>4. ReqOK(request[o])
  BY DEF Inv
<1>5. QED
  BY <1>3, <1>4, Workers

\* Steps that only read, and the end of a handler.
LEMMA ReadsHeal ==
  ASSUME Inv, HealInv, NEW r \in Requests, NEW e, GoesOn(r, e),
         config' = config, movedOnto' = movedOnto, removed' = removed, torn \subseteq torn',
         trashedBy' = trashedBy, files' = files, rows' = rows,
         e.item \in Items => Fit(e, e.item)' /\ Written(e, e.item)',
         e.item \in Items /\ e.pc \in Working => request[r].pc \in Working \/ rows[e.item] # None,
         request[r].pc = "setpath" => request[r].item \in torn'
  PROVE  HealInv'
<1>1. ASSUME NEW i \in Items PROVE ItemOK(i)'
  <2>1. Calm(i)
    BY AllCalm
  <2>2. Uploading(i)
    BY DEF HealInv, ItemOK
  <2>3. Uploading(i)'
    <3>1. rows[i] = None => rows'[i] = None
      OBVIOUS
    <3>2. e.item = i /\ e.pc \in Working => request[r].pc \in Working \/ rows[i] # None
      OBVIOUS
    <3>3. QED
      BY <2>2, <3>1, <3>2, UploadingKeeps
  <2>4. e.item = i => Fit(e, i)' /\ Written(e, i)'
    OBVIOUS
  <2>5. Whole(i)' => ~(request[r].item = i /\ request[r].pc = "setpath")
    BY DEF Whole
  <2>6. QED
    BY <2>1, <2>3, <2>4, <2>5, ItemKeeps
<1>2. QED
  BY <1>1, HealPrimed DEF HealInv

\* A handler that ends without a change.
LEMMA EndsHeal ==
  ASSUME Inv, HealInv, NEW r \in Requests, Finish(r),
         config' = config, movedOnto' = movedOnto, removed' = removed, torn \subseteq torn',
         trashedBy' = trashedBy, files' = files, rows' = rows,
         request[r].pc = "setpath" => request[r].item \in torn'
  PROVE  HealInv'
<1>1. PICK e : e = Idle
  OBVIOUS
<1>2. e.item \notin Items
  BY <1>1, IdleFields, ItemsAreFresh
<1>3. GoesOn(r, e)
  BY <1>1 DEF GoesOn, Finish
<1>4. QED
  BY <1>2, <1>3, ReadsHeal

\* The answer of exists: when the file is not where the handler looks, it is
\* where the handler would bring it.
LEMMA FoundElsewhere ==
  ASSUME Inv, HealInv, NEW r \in Requests, NEW q, q = request[r], q.pc = "exists",
         q.op \in {"delete", "restore"}, files[Source(q)] = None,
         rows[q.item] # None, Whole(q.item), trashedBy[q.item] \subseteq {q.user}
  PROVE  files[Target(q)] = q.item
<1>1. q.item \in Items /\ q.op \in FileOps
  BY DEF FileOps, Inv, ReqOK, Suits
<1>2. PICK i \in Items : i = q.item
  BY <1>1
<1>3. ~Moving(i)
  <2>1. ASSUME NEW o \in Requests, request[o].item = i, request[o].pc = "setpath" PROVE FALSE
    <3>1. request[o].op = "move" /\ o # r
      <4>1. ReqOK(request[o])
        BY DEF Inv
      <4>2. QED
        BY <2>1, <4>1, Workers
    <3>2. request[r].op \notin FileOps
      BY <1>2, <2>1, <3>1, Undisturbed DEF Whole, FileOps
    <3>3. QED
      BY <1>1, <3>2
  <2>2. QED
    BY <2>1 DEF Moving
<1>4. ItemOK(i)
  BY DEF HealInv
<1>5. Here(i, rows[i].path)
  BY <1>2, <1>3, <1>4 DEF ItemOK
<1>6. q.path = rows[i].path
  BY <1>2, <1>4 DEF ItemOK, Fit, Working
<1>7. PICK x \in {Root} \cup trashedBy[i] : files[<<x, q.path>>] = i
  BY <1>5, <1>6 DEF Here
<1>8. x = Root \/ x = q.user
  BY <1>2, <1>7
<1>9. i # None
  BY ItemsAreFresh
<1>10. CASE q.op = "delete"
  BY <1>2, <1>7, <1>8, <1>9, <1>10 DEF Source, Target
<1>11. CASE q.op = "restore"
  BY <1>2, <1>7, <1>8, <1>9, <1>11 DEF Source, Target
<1>12. QED
  BY <1>10, <1>11

\* A handler goes on to its next step.
LEMMA GotoGoesOn ==
  ASSUME Inv, NEW r \in Requests, NEW c \in AnyPc, Goto(r, c), NEW q, q = request[r]
  PROVE  \E e : /\ GoesOn(r, e) /\ e.pc = c /\ e.op = q.op /\ e.item = q.item
                /\ e.user = q.user /\ e.path = q.path /\ e.dest = q.dest /\ e.solo = q.solo
<1> DEFINE e == SetPc(q, c)
<1>1. q \in AnyRequest
  BY DEF Inv, ReqOK
<1>2. request' = [request EXCEPT ![r] = e]
  BY DEF Goto, SetPc, Inv
<1>3. SameFields(e, q) /\ e.pc = c /\ e.path = q.path
  BY <1>1, RequestFields
<1>4. e.solo = q.solo
  BY <1>1, SoloFields
<1> HIDE DEF e
<1>5. GoesOn(r, e)
  BY <1>2, <1>3, <1>4 DEF GoesOn
<1>6. QED
  BY <1>3, <1>4, <1>5 DEF SameFields

\* The steps that only read heal.
LEMMA ReadStepsHeal ==
  ASSUME Inv, HealInv, NEW r \in Requests,
         CheckReferences(r) \/ SelectFilePath(r) \/ Exists(r) \/ UnlinkFails(r)
         \/ SelectTrashedIds(r) \/ Stop(r)
  PROVE  HealInv'
<1>1. config' = config /\ movedOnto' = movedOnto /\ files' = files /\ removed' = removed
      /\ rows' = rows /\ trashedBy' = trashedBy /\ torn \subseteq torn'
  BY DEF CheckReferences, SelectFilePath, Exists, UnlinkFails, SelectTrashedIds, Stop, history
<1>2. PICK q : q = request[r]
  OBVIOUS
<1>3. ReqOK(q) /\ q \in AnyRequest /\ Suits(q)
  BY <1>2 DEF Inv, ReqOK
<1>4. CASE Finish(r) /\ q.pc # "setpath"
  BY <1>1, <1>2, <1>4, EndsHeal
<1>5. ASSUME NEW c \in AnyPc, Goto(r, c), c \notin Working \cup {"insert"}, q.pc # "setpath"
      PROVE  HealInv'
  <2>1. PICK e : GoesOn(r, e) /\ e.pc = c
    BY <1>2, <1>5, GotoGoesOn
  <2>2. e.item \in Items => Fit(e, e.item)' /\ Written(e, e.item)'
    BY <1>5, <2>1 DEF Fit, Written, Working
  <2>3. QED
    BY <1>1, <1>2, <1>5, <2>1, <2>2, ReadsHeal
<1>6. CASE CheckReferences(r)
  <2>1. "select" \in AnyPc /\ "select" \notin Working \cup {"insert"}
    BY DEF AnyPc, Working
  <2>2. q.pc = "refs" /\ (Finish(r) \/ Goto(r, "select"))
    BY <1>2, <1>6 DEF CheckReferences
  <2>3. QED
    BY <1>4, <1>5, <2>1, <2>2
<1>7. CASE UnlinkFails(r)
  <2>1. "row" \in AnyPc /\ "row" \notin Working \cup {"insert"}
    BY DEF AnyPc, Working
  <2>2. q.pc = "unlink" /\ Goto(r, "row")
    BY <1>2, <1>7 DEF UnlinkFails
  <2>3. QED
    BY <1>5, <2>1, <2>2
<1>8. CASE Stop(r)
  <2>1. Finish(r)
    BY <1>8 DEF Stop
  <2>2. request[r].pc = "setpath" => request[r].item \in torn'
    BY <1>8 DEF Stop
  <2>3. QED
    BY <1>1, <2>1, <2>2, EndsHeal
<1>9. CASE SelectTrashedIds(r)
  <2> DEFINE s == {i \in Items : rows[i] # None /\ rows[i].trashed}
             c == "loop"
             e == SetIdsPc(q, s, c)
  <2>1. Finish(r) \/ request' = [request EXCEPT ![r] = e]
    BY <1>2, <1>9 DEF SelectTrashedIds, SetIdsPc, Inv
  <2>2. q.pc = "ids" /\ s \in SUBSET Items /\ c \in AnyPc
    BY <1>2, <1>9 DEF SelectTrashedIds, AnyPc
  <2> HIDE DEF s
  <2>3. SameFields(e, q) /\ e.pc = "loop"
    BY <1>3, <2>2, RequestFields
  <2>4. e.solo = q.solo
    BY <1>3, <2>2, SoloFields
  <2> HIDE DEF e
  <2>5. PICK d : d = e
    OBVIOUS
  <2>6. CASE request' = [request EXCEPT ![r] = e]
    <3>1. GoesOn(r, d)
      BY <1>2, <2>3, <2>4, <2>5, <2>6 DEF GoesOn
    <3>2. d.item \in Items => Fit(d, d.item)' /\ Written(d, d.item)'
      BY <2>3, <2>5 DEF Fit, Written, Working
    <3>3. d.pc \notin Working
      BY <2>3, <2>5 DEF Working
    <3>4. QED
      BY <1>1, <1>2, <2>2, <3>1, <3>2, <3>3, ReadsHeal
  <2>7. QED
    BY <1>4, <2>1, <2>2, <2>6
<1>10. CASE Exists(r)
  <2> DEFINE c == IF files[Source(q)] = None THEN AfterFile(q)
                  ELSE IF ForGood(q) THEN "unlink" ELSE "rename"
  <2>1. Goto(r, c) /\ q.pc = "exists"
    BY <1>2, <1>10 DEF Exists
  <2>2. q.op \in {"delete", "restore", "purge"} /\ q.item \in Items
    BY <1>3, <2>1 DEF Suits, FileOps
  <2>3. /\ c \in {"row", "flag", "unlink", "rename"}
        /\ c = "flag" => files[Source(q)] = None /\ q.op \in {"delete", "restore"}
    BY <2>2 DEF AfterFile, ForGood
  <2> HIDE DEF c
  <2>4. c \in AnyPc
    BY <2>3 DEF AnyPc
  <2>5. PICK e : /\ GoesOn(r, e) /\ e.pc = c /\ e.op = q.op /\ e.item = q.item
                 /\ e.user = q.user /\ e.path = q.path /\ e.dest = q.dest /\ e.solo = q.solo
    BY <1>2, <2>1, <2>4, GotoGoesOn
  <2>6. Fit(q, q.item)
    BY <1>2, <2>2 DEF HealInv, ItemOK
  <2>7. Target(e) = Target(q)
    BY <2>5 DEF Target
  <2>8. Fit(e, q.item)
    <3>1. ASSUME c = "flag", rows[q.item] # None, Whole(q.item), trashedBy[q.item] \subseteq {q.user}
          PROVE  files[Target(q)] = q.item
      BY <1>2, <2>1, <2>3, <3>1, FoundElsewhere
    <3>2. QED
      BY <2>1, <2>3, <2>5, <2>6, <2>7, <3>1 DEF Fit, Working
  <2>9. Written(e, q.item)
    BY <2>3, <2>5 DEF Written
  <2>10. PICK i \in Items : i = q.item
    BY <2>2
  <2>11. ReqOK(e)
    <3>1. Inv'
      BY <1>10, ReadsKeep
    <3>2. ReqOK(e)'
      <4>1. request'[r] = e
        BY <2>5 DEF GoesOn, Inv
      <4>2. ReqOK(request[r])'
        BY <3>1 DEF Inv
      <4>3. PICK d : d = request'[r]
        OBVIOUS
      <4>4. ReqOK(d)'
        BY <4>2, <4>3
      <4>5. QED
        BY <4>1, <4>3, <4>4
    <3>3. QED
      BY <1>1, <3>2 DEF ReqOK, Suits, Points, ForGood, PathsOf, Kept, Stored, Shared
  <2>12. Fit(e, i)' /\ Written(e, i)'
    <3>1. Calm(i)
      BY <1>1, AllCalm
    <3>2. QED
      BY <2>8, <2>9, <2>10, <2>11, <3>1, FitKeeps
  <2>13. q.pc \in Working
    BY <2>1 DEF Working
  <2>14. QED
    BY <1>1, <1>2, <2>1, <2>5, <2>10, <2>12, <2>13, ReadsHeal
<1>11. CASE SelectFilePath(r)
  <2>1. q.pc = "select" /\ q.op \in FileOps /\ q.item \in Items
    BY <1>2, <1>3, <1>11 DEF SelectFilePath, Suits
  <2>2. CASE rows[q.item] # None /\ request' = [request EXCEPT ![r].path = rows[q.item].path,
                                                             ![r].pc = FileStep(q)]
    <3> DEFINE x == rows[q.item].path
               c == FileStep(q)
               e == SetPath(q, x, c)
    <3>1. x \in Paths
      BY <2>1, <2>2 DEF Inv, RowOK
    <3>2. c \in {"rename", "exists"} /\ c \in AnyPc
      BY <2>1 DEF FileStep, AnyPc, FileOps
    <3>3. request' = [request EXCEPT ![r] = e]
      BY <1>2, <2>2 DEF SetPath, Inv
    <3> HIDE DEF c
    <3>4. SameFields(e, q) /\ e.pc = c /\ e.path = x
      BY <1>3, <3>1, <3>2, RequestFields
    <3>5. e.solo = q.solo
      BY <1>3, <3>1, <3>2, SoloFields
    <3> HIDE DEF e
    <3>6. PICK d : d = e
      OBVIOUS
    <3>7. GoesOn(r, d)
      BY <1>2, <3>3, <3>4, <3>5, <3>6 DEF GoesOn
    <3>8. d.item = q.item /\ d.pc \in {"rename", "exists"} /\ d.path = rows'[q.item].path
      BY <1>1, <3>2, <3>4, <3>6 DEF SameFields
    <3>9. Fit(d, q.item)' /\ Written(d, q.item)'
      BY <3>8 DEF Fit, Written, Working
    <3>10. QED
      BY <1>1, <1>2, <2>1, <2>2, <3>7, <3>8, <3>9, ReadsHeal
  <2>3. "row" \in AnyPc /\ "row" \notin Working \cup {"insert"}
    BY DEF AnyPc, Working
  <2>4. QED
    BY <1>2, <1>4, <1>5, <1>11, <2>1, <2>2, <2>3 DEF SelectFilePath
<1>12. QED
  BY <1>6, <1>7, <1>8, <1>9, <1>10, <1>11

\* The steps that write a row heal.
LEMMA RowStepsHeal ==
  ASSUME Inv, HealInv, NEW r \in Requests,
         Insert(r) \/ SetFlag(r) \/ SetFilePath(r) \/ DeleteRow(r)
  PROVE  HealInv'
<1>1. config' = config /\ movedOnto' = movedOnto /\ files' = files /\ removed' = removed
      /\ trashedBy' = trashedBy /\ torn' = torn /\ Finish(r)
  BY DEF Insert, SetFlag, SetFilePath, DeleteRow, history
<1>2. PICK q : q = request[r]
  OBVIOUS
<1>3. ReqOK(q) /\ Suits(q) /\ q.item \in Items
      /\ q.pc \in {"insert", "flag", "setpath", "row"}
  BY <1>2 DEF Inv, ReqOK, Insert, SetFlag, SetFilePath, DeleteRow, Suits, FileOps, ForGood
<1>4. PICK k \in Items : k = q.item
  BY <1>3
<1>5. PICK e : e = Idle
  OBVIOUS
<1>6. GoesOn(r, e) /\ e.item \notin Items /\ e.pc = "idle"
  BY <1>1, <1>5, IdleFields, ItemsAreFresh DEF GoesOn, Finish
<1>7. /\ request'[r] = e /\ \A o \in Requests \ {r} : request'[o] = request[o]
  BY <1>6 DEF GoesOn, Inv
<1>8. \A i \in Items \ {k} : rows'[i] = rows[i]
  BY <1>2, <1>4 DEF Insert, SetFlag, SetFilePath, DeleteRow, Inv
<1>9. ASSUME NEW i \in Items, rows'[i] # None => rows[i] # None /\ rows'[i].path = rows[i].path,
             i = k => q.pc # "setpath"
      PROVE  ItemOK(i)'
  <2>1. Calm(i)
    BY <1>1, <1>9, AllCalm
  <2>2. Uploading(i)
    BY DEF HealInv, ItemOK
  <2>3. Uploading(i)'
    BY <1>6, <1>9, <2>2, UploadingKeeps
  <2>4. ~(request[r].item = i /\ request[r].pc = "setpath")
    BY <1>2, <1>4, <1>9
  <2>5. QED
    BY <1>6, <2>1, <2>3, <2>4, ItemKeeps
<1>10. ASSUME ItemOK(k)' PROVE HealInv'
  <2>1. \A i \in Items : ItemOK(i)'
    BY <1>8, <1>9, <1>10
  <2>2. QED
    BY <1>1, <1>6, <2>1, HealPrimed DEF HealInv
<1>11. ItemOK(k) /\ Fit(q, k) /\ Written(q, k)
  BY <1>2, <1>4 DEF HealInv, ItemOK
<1>12. Whole(k)' <=> Whole(k)
  BY <1>1 DEF Whole, Shared, PathsOf
<1>13. CASE SetFlag(r)
  <2>1. q.pc = "flag"
    BY <1>2, <1>13 DEF SetFlag
  <2>2. rows[k] # None => rows[k] \in [path : Paths, trashed : BOOLEAN]
    BY DEF Inv, RowOK
  <2>3. rows'[k] # None => rows[k] # None /\ rows'[k].path = rows[k].path
    <3>1. CASE rows[k] = None
      BY <1>2, <1>4, <1>13, <3>1 DEF SetFlag
    <3>2. CASE rows[k] # None
      <4>1. rows'[k] = [rows[k] EXCEPT !.trashed = (q.op = "delete")]
        BY <1>2, <1>4, <1>13, <3>2 DEF SetFlag, Inv
      <4>2. QED
        BY <2>2, <3>2, <4>1
    <3>3. QED
      BY <3>1, <3>2
  <2>4. QED
    BY <1>9, <1>10, <2>1, <2>3
<1>14. CASE DeleteRow(r)
  <2>1. q.pc = "row" /\ rows'[k] = None
    BY <1>2, <1>4, <1>14 DEF DeleteRow, Inv
  <2>2. QED
    BY <1>9, <1>10, <2>1
<1>15. CASE Insert(r)
  <2>1. q.pc = "insert" /\ q.op = "upload"
    BY <1>2, <1>3, <1>15 DEF Insert, Suits
  <2>2. rows'[k].path = UploadName(k)
    BY <1>2, <1>4, <1>15 DEF Insert, Inv
  <2>3. /\ rows[k] = None
        /\ \A o \in Requests \ {r} : request[o].item = k =>
             request[o].op # "upload" /\ request[o].pc \notin Working
    BY <1>2, <1>4, <1>11, <2>1 DEF ItemOK, Uploading
  <2>4. ASSUME NEW o \in Requests, request'[o].item = k
        PROVE  /\ o # r /\ request'[o] = request[o] /\ request[o].op # "upload"
               /\ request[o].pc \notin Working \cup {"insert"}
    <3>1. o # r
      BY <1>4, <1>6, <1>7, <2>4
    <3>2. ReqOK(request[o])
      BY DEF Inv
    <3>3. QED
      BY <1>7, <2>3, <2>4, <3>1, <3>2, Workers
  <2>5. ASSUME NEW o \in Requests, request'[o].item = k
        PROVE  Fit(request[o], k)' /\ Written(request[o], k)'
    BY <2>4, <2>5 DEF Fit, Written, Working
  <2>6. Uploading(k)'
    BY <2>4 DEF Uploading
  <2>7. Whole(k)' => Here(k, rows[k].path)'
    BY <1>1, <1>11, <1>12, <2>1, <2>2 DEF Here, Written, UploadName
  <2>8. QED
    BY <1>10, <2>5, <2>6, <2>7 DEF ItemOK
<1>16. CASE SetFilePath(r)
  <2>1. q.pc = "setpath" /\ q.op = "move"
    BY <1>2, <1>3, <1>16 DEF SetFilePath, Suits
  <2>2. CASE rows[k] = None
    <3>1. rows'[k] = None
      BY <1>2, <1>4, <1>16, <2>2 DEF SetFilePath
    <3>2. Uploading(k)'
      BY <1>6, <1>11, <3>1, UploadingKeeps DEF ItemOK
    <3>3. Calm(k)
      BY <1>1, <3>1, AllCalm
    <3>4. QED
      BY <1>6, <1>10, <3>1, <3>2, <3>3, ItemKeeps
  <2>3. CASE rows[k] # None
    <3>1. rows[k] \in [path : Paths, trashed : BOOLEAN]
      BY <2>3 DEF Inv, RowOK
    <3>2. rows'[k] = [rows[k] EXCEPT !.path = q.dest]
      BY <1>2, <1>4, <1>16, <2>3 DEF SetFilePath, Inv
    <3>3. rows'[k].path = q.dest
      BY <3>1, <3>2
    <3>4. ASSUME Whole(k)', NEW o \in Requests, request'[o].item = k
          PROVE  /\ o # r /\ request'[o] = request[o]
                 /\ request[o].pc \notin Working \cup {"insert"}
      <4>1. o # r /\ request'[o] = request[o]
        BY <1>4, <1>6, <1>7, <3>4
      <4>2. QED
        BY <1>2, <1>4, <1>12, <2>1, <3>4, <4>1, Undisturbed DEF Whole, FileOps
    <3>5. ASSUME NEW o \in Requests, request'[o].item = k
          PROVE  Fit(request[o], k)' /\ Written(request[o], k)'
      BY <3>4, <3>5 DEF Fit, Written, Working
    <3>6. Uploading(k)'
      BY <1>6, <1>11, <2>3, UploadingKeeps DEF ItemOK
    <3>7. Whole(k)' => Here(k, rows[k].path)'
      BY <1>1, <1>11, <1>12, <2>1, <2>3, <3>3 DEF Here, Fit
    <3>8. QED
      BY <1>10, <3>5, <3>6, <3>7 DEF ItemOK
  <2>4. QED
    BY <2>2, <2>3
<1>17. QED
  BY <1>13, <1>14, <1>15, <1>16

\* Emptying the trash heals.
LEMMA EmptyHeals ==
  ASSUME Inv, HealInv, NEW r \in Requests, NEW j \in Items, DeleteTrashedRow(r, j)
  PROVE  HealInv'
<1>1. config' = config /\ movedOnto' = movedOnto /\ files' = files /\ removed' = removed
      /\ trashedBy' = trashedBy /\ torn' = torn
  BY DEF DeleteTrashedRow, history
<1>2. PICK q : q = request[r]
  OBVIOUS
<1>3. q \in AnyRequest /\ q.pc = "loop"
  BY <1>2 DEF Inv, ReqOK, DeleteTrashedRow
<1>4. \A i \in Items : rows'[i] = rows[i] \/ rows'[i] = None
  BY DEF DeleteTrashedRow, Inv
<1>5. \E e : /\ GoesOn(r, e) /\ e.pc \in {"idle", "loop"}
  <2> DEFINE s == q.ids \ {j}
             e == SetIds(q, s)
  <2>1. Finish(r) \/ request' = [request EXCEPT ![r] = e]
    BY <1>2 DEF DeleteTrashedRow, SetIds, Inv
  <2>2. s \in SUBSET Items
    BY <1>3 DEF AnyRequest, Records
  <2> HIDE DEF s
  <2>3. SameFields(e, q) /\ e.pc = q.pc
    BY <1>3, <2>2, RequestFields
  <2>4. e.solo = q.solo
    BY <1>3, <2>2, SoloFields
  <2> HIDE DEF e
  <2>5. CASE Finish(r)
    <3>1. GoesOn(r, Idle) /\ Idle.pc = "idle"
      BY <2>5, IdleFields DEF GoesOn, Finish
    <3>2. QED
      BY <3>1
  <2>6. CASE request' = [request EXCEPT ![r] = e]
    BY <1>2, <1>3, <2>3, <2>4, <2>6 DEF GoesOn
  <2>7. QED
    BY <2>1, <2>5, <2>6
<1>6. PICK e : GoesOn(r, e) /\ e.pc \in {"idle", "loop"}
  BY <1>5
<1>7. e.pc \notin Working \cup {"insert"}
  BY <1>6 DEF Working
<1>8. ASSUME NEW i \in Items PROVE ItemOK(i)'
  <2>1. Calm(i)
    BY <1>1, <1>4, AllCalm
  <2>2. Uploading(i)
    BY DEF HealInv, ItemOK
  <2>3. Uploading(i)'
    BY <1>4, <1>6, <1>7, <2>2, UploadingKeeps
  <2>4. Fit(e, i)' /\ Written(e, i)'
    BY <1>7 DEF Fit, Written, Working
  <2>5. QED
    BY <1>2, <1>3, <1>6, <2>1, <2>3, <2>4, ItemKeeps
<1>9. QED
  BY <1>1, <1>6, <1>8, HealPrimed DEF HealInv

\* Write heals: an item that is uploaded has no row yet, and nobody else who is
\* whole has a file at its new name.
LEMMA WriteHeals ==
  ASSUME Inv, HealInv, NEW r \in Requests, Write(r)
  PROVE  HealInv'
<1>1. PICK q : q = request[r]
  OBVIOUS
<1>2. ReqOK(q) /\ q.pc = "write" /\ q.op = "upload" /\ q.item \in Items
  BY <1>1 DEF Inv, ReqOK, Write, Suits
<1>3. PICK k \in Items : k = q.item
  BY <1>2
<1>4. PICK l \in Locations : l = <<Root, k>> /\ l[2] = k
  <2>1. k \in Paths
    BY <1>3 DEF Paths
  <2>2. QED
    BY <2>1, RootIsPlace
<1>5. /\ files' = [files EXCEPT ![l] = k]
      /\ config' = config /\ rows' = rows /\ movedOnto' = movedOnto /\ removed' = removed
      /\ trashedBy' = trashedBy /\ torn' = torn
  BY <1>1, <1>3, <1>4 DEF Write, UploadName, history
<1>6. Grows
  BY <1>5 DEF Grows, Inv
<1>7. files'[l] = k /\ \A m \in Locations : m # l => files'[m] = files[m]
  BY <1>5 DEF Inv
<1>8. PICK e : /\ GoesOn(r, e) /\ e.pc = "insert" /\ e.item = k
  <2>1. Goto(r, "insert") /\ "insert" \in AnyPc
    BY DEF Write, AnyPc
  <2>2. QED
    BY <1>1, <1>3, <2>1, GotoGoesOn
<1>9. ASSUME NEW i \in Items PROVE ItemOK(i)'
  <2>1. Whole(i)' => Whole(i)
    BY <1>5, <1>6, WholeBefore
  <2>2. ASSUME Whole(i)', NEW m \in Locations, files[m] = i PROVE files'[m] = i
    <3>1. CASE m # l
      BY <1>7, <2>2, <3>1
    <3>2. CASE m = l /\ i = k
      BY <1>7, <3>2
    <3>3. CASE m = l /\ i # k
      <4>1. l[2] \in PathsOf(k)
        BY <1>4 DEF PathsOf, UploadName
      <4>2. Shared(i)
        BY <2>2, <3>3, <4>1, Strangers
      <4>3. QED
        BY <2>1, <2>2, <4>2 DEF Whole
    <3>4. QED
      BY <3>1, <3>2, <3>3
  <2>3. Calm(i)
    BY <1>5, <2>1, <2>2 DEF Calm
  <2>4. Uploading(i)
    BY DEF HealInv, ItemOK
  <2>5. Uploading(i)'
    BY <1>5, <1>8, <2>4, UploadingKeeps DEF Working
  <2>6. e.item = i => Fit(e, i)' /\ Written(e, i)'
    <3>1. Fit(e, i)'
      BY <1>8 DEF Fit, Working
    <3>2. i = k => Written(e, i)'
      BY <1>4, <1>7 DEF Written, UploadName
    <3>3. QED
      BY <1>8, <3>1, <3>2
  <2>7. QED
    BY <1>1, <1>2, <1>8, <2>3, <2>5, <2>6, ItemKeeps
<1>10. QED
  BY <1>5, <1>8, <1>9, HealPrimed DEF HealInv

\* Unlink heals: its item is removed, or there was no file.
LEMMA UnlinkHeals ==
  ASSUME Inv, HealInv, NEW r \in Requests, Unlink(r)
  PROVE  HealInv'
<1>1. PICK q : q = request[r]
  OBVIOUS
<1>2. ReqOK(q) /\ q.pc = "unlink"
  BY <1>1 DEF Inv, Unlink
<1>3. PICK l \in Locations : l = Source(q) /\ l[2] = q.path
  BY <1>2, SourcePlace
<1>4. PICK k \in Items : k = q.item /\ l[2] \in PathsOf(k)
  BY <1>2, <1>3, SourcePlace
<1>5. /\ files' = [files EXCEPT ![l] = None]
      /\ removed' = IF files[l] = None THEN removed ELSE removed \cup {k}
      /\ config' = config /\ rows' = rows /\ movedOnto' = movedOnto
      /\ trashedBy' = trashedBy /\ torn' = torn
  BY <1>1, <1>3, <1>4 DEF Unlink
<1>6. Grows /\ removed \subseteq removed'
  BY <1>5 DEF Grows, Inv
<1>7. \A m \in Locations : m # l => files'[m] = files[m]
  BY <1>5 DEF Inv
<1>8. PICK e : GoesOn(r, e) /\ e.pc \in {"row", "idle"}
  <2>1. CASE Finish(r)
    <3>1. GoesOn(r, Idle) /\ Idle.pc = "idle"
      BY <2>1, IdleFields DEF GoesOn, Finish
    <3>2. QED
      BY <3>1
  <2>2. CASE Goto(r, "row")
    <3>1. "row" \in AnyPc
      BY DEF AnyPc
    <3>2. QED
      BY <1>1, <2>2, <3>1, GotoGoesOn
  <2>3. QED
    BY <2>1, <2>2 DEF Unlink
<1>9. e.pc \notin Working \cup {"insert"}
  BY <1>8 DEF Working
<1>10. ASSUME NEW i \in Items PROVE ItemOK(i)'
  <2>1. Whole(i)' => Whole(i)
    BY <1>5, <1>6, WholeBefore
  <2>2. ASSUME Whole(i)', NEW m \in Locations, files[m] = i PROVE files'[m] = i
    <3>1. CASE m # l
      BY <1>7, <2>2, <3>1
    <3>2. CASE m = l /\ i = k
      <4>1. k \in removed'
        BY <1>5, <2>2, <3>2, ItemsAreFresh
      <4>2. QED
        BY <2>2, <3>2, <4>1 DEF Whole
    <3>3. CASE m = l /\ i # k
      <4>1. Shared(i)
        BY <1>4, <2>2, <3>3, Strangers
      <4>2. QED
        BY <2>1, <2>2, <4>1 DEF Whole
    <3>4. QED
      BY <3>1, <3>2, <3>3
  <2>3. Calm(i)
    BY <1>5, <2>1, <2>2 DEF Calm
  <2>4. Uploading(i)
    BY DEF HealInv, ItemOK
  <2>5. Uploading(i)'
    BY <1>5, <1>8, <1>9, <2>4, UploadingKeeps
  <2>6. Fit(e, i)' /\ Written(e, i)'
    BY <1>9 DEF Fit, Written, Working
  <2>7. QED
    BY <1>1, <1>2, <1>8, <2>3, <2>5, <2>6, ItemKeeps
<1>11. QED
  BY <1>5, <1>8, <1>10, HealPrimed DEF HealInv

\* What a rename finds is the file of its item, if that one is whole, and it
\* leaves alone the files of the others that are.
LEMMA RenameOfItem ==
  ASSUME Inv, NEW q, ReqOK(q), q.pc = "rename", files[Source(q)] # None,
         files' = RenamedFile(Source(q), Target(q)), Grows, NEW k \in Items, k = q.item,
         q.op = "move" => k \in movedOnto'[q.dest]
  PROVE  /\ ~Shared(k) => files[Source(q)] = k
         /\ files'[Target(q)] = files[Source(q)]
         /\ \A i \in Items \ {k} : ~Shared(i)' =>
              files[Source(q)] # i /\ \A m \in Locations : files[m] = i => files'[m] = i
<1>1. PICK from \in Locations, to \in Locations :
        /\ from = Source(q) /\ to = Target(q)
        /\ from[2] = q.path /\ q.path \in PathsOf(k) /\ q.path \in Paths
        /\ to[2] = IF q.op = "move" THEN q.dest ELSE q.path
  BY SourcePlace
<1>2. PICK s \in Items : files[from] = s
  BY <1>1 DEF Inv, FileOK
<1>3. s # k => Shared(s) /\ Shared(k)
  BY <1>1, <1>2, Strangers
<1>4. /\ files'[to] = s
      /\ \A m \in Locations : m # to /\ m # from => files'[m] = files[m]
  BY <1>1, <1>2 DEF RenamedFile, Inv
<1>5. ASSUME NEW i \in Items \ {k}, ~Shared(i)', NEW m \in Locations, files[m] = i
      PROVE  files'[m] = i
  <2>1. ~Shared(i)
    BY <1>5, PathsGrow
  <2>2. m # from
    BY <1>2, <1>3, <1>5, <2>1
  <2>3. m # to
    <3>1. SUFFICES ASSUME m = to PROVE FALSE
      OBVIOUS
    <3>2. CASE q.op # "move"
      BY <1>1, <1>5, <2>1, <3>1, <3>2, Strangers
    <3>3. CASE q.op = "move"
      <4>1. PICK p : p = q.dest /\ p = to[2]
        BY <1>1, <3>3
      <4>2. p \in Paths
        BY <3>3, <4>1 DEF ReqOK, Suits
      <4>3. i # None /\ AtHome(p, i)
        BY <1>5, <3>1, <4>1, ItemsAreFresh DEF Inv, FileOK
      <4>4. p \in PathsOf(i)
        BY <2>1, <4>3 DEF AtHome
      <4>5. p \in PathsOf(i)' /\ p \in PathsOf(k)' /\ movedOnto'[p] # {}
        <5>1. p \in PathsOf(i)'
          BY <4>4, PathsGrow
        <5>2. p \in PathsOf(k)' /\ movedOnto'[p] # {}
          BY <3>3, <4>1, <4>2 DEF PathsOf
        <5>3. QED
          BY <5>1, <5>2
      <4>6. QED
        BY <1>5, <4>5 DEF Shared
    <3>4. QED
      BY <3>2, <3>3
  <2>4. QED
    BY <1>4, <1>5, <2>2, <2>3
<1>6. ASSUME NEW i \in Items \ {k}, ~Shared(i)' PROVE files[from] # i
  <2>1. ~Shared(i)
    BY <1>6, PathsGrow
  <2>2. QED
    BY <1>2, <1>3, <1>6, <2>1
<1>7. QED
  BY <1>1, <1>2, <1>3, <1>4, <1>5, <1>6

\* Rename heals.
LEMMA RenameHeals ==
  ASSUME Inv, HealInv, NEW r \in Requests, Rename(r)
  PROVE  HealInv'
<1>1. PICK q : q = request[r]
  OBVIOUS
<1>2. ReqOK(q) /\ Suits(q) /\ q.pc = "rename" /\ q.item \in Items /\ q.op \in FileOps
  BY <1>1, Workers DEF Inv, ReqOK, Rename, Working
<1>3. config' = config /\ rows' = rows /\ removed' = removed /\ torn' = torn
  BY DEF Rename
<1>4. CASE files[Source(q)] = None
  <2>1. Finish(r) /\ files' = files /\ movedOnto' = movedOnto /\ trashedBy' = trashedBy
    BY <1>1, <1>4 DEF Rename
  <2>2. QED
    BY <1>1, <1>2, <1>3, <2>1, EndsHeal
<1>5. CASE files[Source(q)] # None
  <2>1. PICK k \in Items : k = q.item
    BY <1>2
  <2>2. /\ files' = RenamedFile(Source(q), Target(q))
        /\ Goto(r, AfterFile(q))
        /\ movedOnto' = IF q.op # "move" THEN movedOnto
                        ELSE [movedOnto EXCEPT ![q.dest] = @ \cup {q.item}]
        /\ trashedBy' = IF q.op # "delete" THEN trashedBy
                        ELSE [trashedBy EXCEPT ![files[Source(q)]] = @ \cup {q.user}]
    BY <1>1, <1>5 DEF Rename
  <2>3. Grows /\ (q.op = "move" => k \in movedOnto'[q.dest])
    BY <1>2, <1>3, <1>5, <2>1, <2>2, RenameFiles
  <2>4. /\ ~Shared(k) => files[Source(q)] = k
        /\ files'[Target(q)] = files[Source(q)]
        /\ \A i \in Items \ {k} : ~Shared(i)' =>
             files[Source(q)] # i /\ \A m \in Locations : files[m] = i => files'[m] = i
    BY <1>2, <1>5, <2>1, <2>2, <2>3, RenameOfItem
  <2>5. PICK c :
          /\ c = AfterFile(q)
          /\ c \in {"setpath", "flag"} /\ (c = "setpath" <=> q.op = "move")
          /\ c = "flag" => q.op \in {"delete", "restore"}
    BY <1>2 DEF AfterFile, Suits, ForGood
  <2>6. PICK e : /\ GoesOn(r, e) /\ e.pc = c /\ e.op = q.op /\ e.item = q.item
                 /\ e.user = q.user /\ e.path = q.path /\ e.dest = q.dest /\ e.solo = q.solo
    <3>1. c \in AnyPc
      BY <2>5 DEF AnyPc
    <3>2. QED
      BY <1>1, <2>2, <2>5, <3>1, GotoGoesOn
  <2>7. /\ request'[r] = e /\ \A o \in Requests \ {r} : request'[o] = request[o]
    BY <2>6 DEF GoesOn, Inv
  <2>8. ASSUME NEW i \in Items PROVE Uploading(i)'
    <3>1. Uploading(i)
      BY DEF HealInv, ItemOK
    <3>2. request[r].pc \in Working
      BY <1>1, <1>2 DEF Working
    <3>3. QED
      BY <1>3, <2>6, <3>1, <3>2, UploadingKeeps
  <2>9. /\ DOMAIN trashedBy' = Items /\ \A i \in Items : trashedBy'[i] \subseteq Users
    <3>1. q.op = "delete" => q.user \in Users
      BY <1>2 DEF Suits
    <3>2. QED
      BY <2>2, <3>1 DEF HealInv
  <2>10. ASSUME NEW i \in Items, i # k PROVE ItemOK(i)'
    <3>1. Whole(i)' => Whole(i) /\ ~Shared(i)'
      BY <1>3, <2>3, WholeBefore DEF Whole
    <3>2. Whole(i)' => trashedBy'[i] = trashedBy[i]
      BY <2>2, <2>4, <2>10, <3>1 DEF HealInv
    <3>3. Calm(i)
      BY <1>3, <2>4, <2>10, <3>1, <3>2 DEF Calm
    <3>4. QED
      BY <1>1, <1>2, <2>1, <2>6, <2>8, <2>10, <3>3, ItemKeeps
  <2>11. ItemOK(k) /\ Fit(q, k) /\ Uploading(k)
    BY <1>1, <2>1 DEF HealInv, ItemOK
  <2>12. Whole(k)' => Whole(k) /\ files'[Target(q)] = k /\ files[Source(q)] = k
    <3>1. Whole(k)' => Whole(k)
      BY <1>3, <2>3, WholeBefore
    <3>2. QED
      BY <2>4, <3>1 DEF Whole
  <2>13. Fit(e, k)' /\ Written(e, k)'
    <3>1. ASSUME rows'[k] # None, Whole(k)' PROVE q.path = rows'[k].path
      BY <1>2, <1>3, <2>11, <2>12, <3>1 DEF Fit, Working
    <3>2. Target(e) = Target(q) /\ Target(e)' = Target(e)
      BY <2>6 DEF Target
    <3>3. c = "setpath" => Target(q) = <<Root, q.dest>>
      BY <2>5 DEF Target
    <3>4. Written(e, k)'
      BY <2>5, <2>6 DEF Written
    <3>5. Fit(e, k)'
      BY <2>5, <2>6, <2>12, <3>1, <3>2, <3>3 DEF Fit
    <3>6. QED
      BY <3>4, <3>5
  <2>14. ASSUME NEW o \in Requests, o # r, request[o].item = k, Whole(k)'
         PROVE  /\ request[o].pc \notin {"insert", "setpath"}
                /\ request[o].pc = "flag" => ~request[o].solo
    <3>1. ReqOK(request[o])
      BY DEF Inv
    <3>2. request[o].pc # "insert"
      <4>1. request[o].op # "upload"
        BY <1>1, <1>2, <2>1, <2>11, <2>14 DEF Uploading, Working
      <4>2. QED
        BY <3>1, <4>1, Workers
    <3>3. ~(request[o].op \in FileOps /\ (request[o].solo \/ request[o].op = "move"))
      BY <1>1, <1>2, <2>1, <2>12, <2>14, Undisturbed DEF Whole
    <3>4. QED
      BY <3>1, <3>2, <3>3, Workers DEF Working, FileOps
  <2>15. ASSUME NEW o \in Requests, request'[o].item = k
         PROVE  Fit(request[o], k)' /\ Written(request[o], k)'
    <3>1. CASE o = r
      BY <2>7, <2>13, <3>1
    <3>2. CASE o # r
      <4>1. PICK a : a = request[o] /\ a = request'[o]
        BY <2>7, <3>2
      <4>2. Fit(a, k)
        BY <2>11, <2>15, <4>1 DEF ItemOK
      <4>3. Whole(k)' => a.pc \notin {"insert", "setpath"} /\ (a.pc = "flag" => ~a.solo)
        BY <2>14, <2>15, <3>2, <4>1
      <4>4. Fit(a, k)'
        BY <1>3, <2>12, <4>2, <4>3 DEF Fit
      <4>5. Written(a, k)'
        BY <4>3 DEF Written
      <4>6. QED
        BY <4>1, <4>4, <4>5
    <3>3. QED
      BY <3>1, <3>2
  <2>16. ASSUME rows'[k] # None, Whole(k)', ~Moving(k)' PROVE Here(k, rows[k].path)'
    <3>1. q.op # "move"
      BY <2>1, <2>5, <2>6, <2>7, <2>16 DEF Moving
    <3>2. q.path = rows'[k].path
      BY <1>2, <1>3, <2>11, <2>12, <2>16 DEF Fit, Working
    <3>3. CASE q.op = "delete"
      <4>1. Target(q) = <<q.user, q.path>> /\ q.user \in trashedBy'[k]
        BY <2>2, <2>12, <2>16, <3>3 DEF Target, HealInv
      <4>2. QED
        BY <2>12, <2>16, <3>2, <4>1 DEF Here
    <3>4. CASE q.op = "restore"
      <4>1. Target(q) = <<Root, q.path>>
        BY <3>4 DEF Target
      <4>2. QED
        BY <2>12, <2>16, <3>2, <4>1 DEF Here
    <3>5. QED
      BY <2>5, <3>1, <3>3, <3>4
  <2>17. ItemOK(k)'
    BY <2>8, <2>15, <2>16 DEF ItemOK
  <2>18. QED
    BY <1>3, <2>6, <2>9, <2>10, <2>17, HealPrimed
<1>6. QED
  BY <1>4, <1>5

\* The arrival of a request heals: it has done nothing, and whoever it may get in
\* the way of is alone no more.
LEMMA ArriveHeals ==
  ASSUME Inv, HealInv, NEW r \in Requests, NEW q \in AnyRequest,
         q.pc \in {"write", "refs", "select", "ids"}, Arrive(r, q),
         q.op = "upload" => /\ rows[q.item] = None
                            /\ \A o \in Requests : request[o].item # q.item
  PROVE  HealInv'
<1> DEFINE met == {o \in Requests : Overlap(request[o], q)}
           solo == met = {}
<1>1. /\ config' = config /\ movedOnto' = movedOnto /\ files' = files /\ removed' = removed
      /\ rows' = rows /\ trashedBy' = trashedBy /\ torn \subseteq torn'
      /\ request[r] = Idle
  BY DEF Arrive
<1>2. request' = [o \in Requests |->
          IF o = r THEN SetSolo(q, solo)
          ELSE IF o \in met THEN SetSolo(request[o], FALSE)
          ELSE request[o]]
  BY DEF Arrive, SetSolo
<1>3. /\ \A o \in met : request[o].op = "move" => request[o].item \in torn'
      /\ q.op = "move" /\ met # {} => q.item \in torn'
  BY DEF Arrive
<1>4. /\ solo \in BOOLEAN /\ met \subseteq Requests
      /\ \A o \in Requests : o \in met <=> Overlap(request[o], q)
      /\ solo <=> met = {}
  OBVIOUS
<1> HIDE DEF met, solo
<1>5. \A a \in AnyRequest, b \in BOOLEAN :
        LET d == SetSolo(a, b) IN
        /\ d.op = a.op /\ d.item = a.item /\ d.user = a.user /\ d.dest = a.dest
        /\ d.pc = a.pc /\ d.path = a.path /\ d.solo = b
  BY RequestFields, SoloFields DEF SameFields
<1>6. /\ request'[r].op = q.op /\ request'[r].item = q.item /\ request'[r].pc = q.pc
      /\ request'[r].solo = solo
  BY <1>2, <1>4, <1>5
<1>7. \A o \in Requests : request[o] \in AnyRequest
  BY DEF Inv, ReqOK
<1>8. \A o \in Requests \ {r} :
        LET d == request'[o]
            a == request[o]
        IN /\ d.op = a.op /\ d.item = a.item /\ d.user = a.user /\ d.dest = a.dest
           /\ d.pc = a.pc /\ d.path = a.path
           /\ d.solo => a.solo /\ o \notin met
           /\ o \notin met => d = a
  BY <1>2, <1>5, <1>7
<1>9. \A a, b, c, d : a.op = c.op /\ a.item = c.item /\ b.op = d.op /\ b.item = d.item =>
        /\ Overlap(a, b) <=> Overlap(c, d)
        /\ Overlap(a, b) <=> Overlap(d, c)
  BY DEF Overlap
<1>10. ASSUME NEW o \in Requests PROVE SoloOf(o)'
  <2>1. CASE o = r
    <3>1. request'[r].op = "move" /\ request'[r].item \notin torn' => request'[r].solo
      BY <1>3, <1>4, <1>6
    <3>2. ASSUME request'[r].solo, NEW p \in Requests \ {r}
          PROVE  ~Overlap(request'[p], request'[r])
      <4>1. ~Overlap(request[p], q)
        BY <1>4, <1>6, <3>2
      <4>2. QED
        BY <1>6, <1>8, <1>9, <4>1
    <3>3. QED
      BY <2>1, <3>1, <3>2 DEF SoloOf
  <2>2. CASE o # r
    <3>1. SoloOf(o)
      BY DEF HealInv
    <3>2. request'[o].op = "move" /\ request'[o].item \notin torn' => request'[o].solo
      BY <1>1, <1>3, <1>8, <2>2, <3>1 DEF SoloOf
    <3>3. ASSUME request'[o].solo, NEW p \in Requests \ {o}
          PROVE  ~Overlap(request'[p], request'[o])
      <4>1. request[o].solo /\ ~Overlap(request[o], q)
        BY <1>4, <1>8, <2>2, <3>3
      <4>2. CASE p = r
        BY <1>6, <1>8, <1>9, <2>2, <4>1, <4>2
      <4>3. CASE p # r
        <5>1. ~Overlap(request[p], request[o])
          BY <3>1, <3>3, <4>1 DEF SoloOf
        <5>2. QED
          BY <1>8, <1>9, <2>2, <4>3, <5>1
      <4>4. QED
        BY <4>2, <4>3
    <3>4. QED
      BY <3>2, <3>3 DEF SoloOf
  <2>3. QED
    BY <2>1, <2>2
<1>11. q.pc \notin Working \cup {"insert"}
  BY DEF Working
<1>12. ASSUME NEW i \in Items PROVE ItemOK(i)'
  <2>1. Calm(i)
    BY <1>1, AllCalm
  <2>2. ItemOK(i) /\ Uploading(i)
    BY DEF HealInv, ItemOK
  <2>3. ASSUME NEW o \in Requests, request'[o].item = i
        PROVE  Fit(request[o], i)' /\ Written(request[o], i)'
    <3>1. CASE o = r
      <4>1. PICK d : d = request'[o]
        OBVIOUS
      <4>2. d.pc \notin Working \cup {"insert"}
        BY <1>6, <1>11, <3>1, <4>1
      <4>3. Fit(d, i)' /\ Written(d, i)'
        BY <4>2 DEF Fit, Written, Working
      <4>4. QED
        BY <4>1, <4>3
    <3>2. CASE o # r
      <4>1. PICK a, d : a = request[o] /\ d = request'[o]
        OBVIOUS
      <4>2. /\ d.op = a.op /\ d.item = a.item /\ d.user = a.user /\ d.dest = a.dest
            /\ d.pc = a.pc /\ d.path = a.path /\ (d.solo => a.solo)
        BY <1>8, <3>2, <4>1
      <4>3. ReqOK(a) /\ Fit(a, i) /\ Written(a, i)
        BY <2>2, <2>3, <4>1, <4>2 DEF ItemOK, Inv
      <4>4. Fit(a, i)' /\ Written(a, i)'
        BY <2>1, <4>3, FitKeeps
      <4>5. Target(d)' = Target(a)' /\ Target(a)' = Target(a)
        BY <4>2 DEF Target
      <4>6. Fit(d, i)' /\ Written(d, i)'
        BY <4>2, <4>4, <4>5 DEF Fit, Written
      <4>7. QED
        BY <4>1, <4>6
    <3>3. QED
      BY <3>1, <3>2
  <2>4. Uploading(i)'
    <3>1. SUFFICES ASSUME NEW o \in Requests, request'[o].op = "upload", request'[o].item = i
                   PROVE  /\ rows[i] = None
                          /\ \A p \in Requests \ {o} : request'[p].item = i =>
                               request'[p].op # "upload" /\ request'[p].pc \notin Working
      BY <1>1 DEF Uploading
    <3>2. CASE o = r
      BY <1>6, <1>8, <3>1, <3>2
    <3>3. CASE o # r
      <4>1. request[o].op = "upload" /\ request[o].item = i
        BY <1>8, <3>1, <3>3
      <4>2. /\ rows[i] = None
            /\ \A p \in Requests \ {o} : request[p].item = i =>
                 request[p].op # "upload" /\ request[p].pc \notin Working
        BY <2>2, <4>1 DEF Uploading
      <4>3. ASSUME NEW p \in Requests \ {o}, request'[p].item = i
            PROVE  request'[p].op # "upload" /\ request'[p].pc \notin Working
        <5>1. CASE p = r
          BY <1>6, <1>11, <4>1, <4>3, <5>1
        <5>2. CASE p # r
          BY <1>8, <4>2, <4>3, <5>2
        <5>3. QED
          BY <5>1, <5>2
      <4>4. QED
        BY <4>2, <4>3
    <3>4. QED
      BY <3>2, <3>3
  <2>5. ASSUME rows'[i] # None, Whole(i)', ~Moving(i)' PROVE Here(i, rows[i].path)'
    <3>1. ~Moving(i)
      <4>1. ASSUME NEW o \in Requests, request[o].item = i, request[o].pc = "setpath" PROVE FALSE
        <5>1. o # r
          BY <1>1, <4>1, IdleFields
        <5>2. request'[o].item = i /\ request'[o].pc = "setpath"
          BY <1>8, <4>1, <5>1
        <5>3. QED
          BY <2>5, <5>2 DEF Moving
      <4>2. QED
        BY <4>1 DEF Moving
    <3>2. QED
      BY <2>1, <2>5, <3>1, HereKeeps
  <2>6. QED
    BY <2>3, <2>4, <2>5 DEF ItemOK
<1>13. QED
  BY <1>1, <1>10, <1>12 DEF HealInv

\* Every arrival heals.
LEMMA ArrivalsHeal ==
  ASSUME Inv, HealInv, NEW r \in Requests,
         \/ \E i \in Items : ArriveUpload(r, i)
         \/ \E i \in Items, u \in Users, op \in FileOps : ArriveFor(r, op, i, u)
         \/ \E i \in Items, d \in Paths : ArriveMove(r, i, d)
         \/ ArriveEmpty(r)
  PROVE  HealInv'
<1>1. ASSUME NEW i \in Items, ArriveUpload(r, i) PROVE HealInv'
  <2> DEFINE q == [Idle EXCEPT !.pc = StartPc("upload"), !.op = "upload", !.item = i]
  <2>1. Arrive(r, q) /\ Fresh(i)
    BY <1>1 DEF ArriveUpload
  <2>2. q \in AnyRequest /\ q.pc = "write" /\ q.item = i
    BY IdleFields DEF StartPc, AnyRequest, Records, AnyPc, FileOps
  <2> HIDE DEF q
  <2>3. rows[i] = None /\ \A o \in Requests : request[o].item # i
    BY <2>1 DEF Fresh
  <2>4. QED
    BY <2>1, <2>2, <2>3, ArriveHeals
<1>2. ASSUME NEW i \in Items, NEW u \in Users, NEW op \in FileOps, ArriveFor(r, op, i, u)
      PROVE  HealInv'
  <2> DEFINE q == [Idle EXCEPT !.pc = StartPc(op), !.op = op, !.item = i, !.user = u]
             c == StartPc(op)
  <2>1. Arrive(r, q) /\ op \in {"delete", "restore", "purge"}
    BY <1>2 DEF ArriveFor
  <2>2. c \in {"refs", "select"}
    BY <2>1 DEF StartPc
  <2> HIDE DEF c
  <2>3. q \in AnyRequest /\ q.pc = c /\ q.op = op
    BY <2>2, IdleFields DEF c, AnyRequest, Records, AnyPc, FileOps
  <2> HIDE DEF q
  <2>4. QED
    BY <2>1, <2>2, <2>3, ArriveHeals
<1>3. ASSUME NEW i \in Items, NEW d \in Paths, ArriveMove(r, i, d) PROVE HealInv'
  <2> DEFINE q == [Idle EXCEPT !.pc = StartPc("move"), !.op = "move", !.item = i, !.dest = d]
  <2>1. Arrive(r, q)
    BY <1>3 DEF ArriveMove
  <2>2. q \in AnyRequest /\ q.pc = "select" /\ q.op = "move"
    BY IdleFields DEF StartPc, AnyRequest, Records, AnyPc, FileOps
  <2> HIDE DEF q
  <2>3. QED
    BY <2>1, <2>2, ArriveHeals
<1>4. ASSUME ArriveEmpty(r) PROVE HealInv'
  <2> DEFINE q == [Idle EXCEPT !.pc = StartPc("empty"), !.op = "empty"]
  <2>1. Arrive(r, q)
    BY <1>4 DEF ArriveEmpty
  <2>2. q \in AnyRequest /\ q.pc = "ids" /\ q.op = "empty"
    BY IdleFields DEF StartPc, AnyRequest, Records, AnyPc, FileOps
  <2> HIDE DEF q
  <2>3. QED
    BY <2>1, <2>2, ArriveHeals
<1>5. QED
  BY <1>1, <1>2, <1>3, <1>4

\* At first there is nothing to heal.
LEMMA HealInit == Init => HealInv
<1> SUFFICES ASSUME Init PROVE HealInv
  OBVIOUS
<1>1. \A r \in Requests : request[r] = Idle
  BY DEF Init
<1>2. Idle.item \notin Items /\ Idle.op = "none" /\ ~Idle.solo
  BY IdleFields, ItemsAreFresh DEF Idle
<1>3. \A r \in Requests : SoloOf(r)
  BY <1>1, <1>2 DEF SoloOf
<1>4. \A i \in Items : ItemOK(i)
  BY <1>1, <1>2 DEF ItemOK, Uploading, Init
<1>5. QED
  BY <1>3, <1>4 DEF HealInv, Init

\* Every step keeps what heals.
LEMMA HealStep == Inv /\ HealInv /\ [Next]_vars => HealInv'
<1> SUFFICES ASSUME Inv, HealInv, [Next]_vars PROVE HealInv'
  OBVIOUS
<1>1. ASSUME NEW r \in Requests, Step(r) PROVE HealInv'
  BY <1>1, WriteHeals, RowStepsHeal, ReadStepsHeal, RenameHeals, UnlinkHeals, EmptyHeals DEF Step
<1>2. CASE UNCHANGED <<config, files, rows, request, history>>
  <2>1. \A i \in Items : ItemOK(i)'
    <3> SUFFICES ASSUME NEW i \in Items PROVE ItemOK(i)'
      OBVIOUS
    <3>1. ItemOK(i)
      BY DEF HealInv
    <3>2. QED
      BY <1>2, <3>1 DEF ItemOK, Fit, Written, Uploading, Moving, Here, Whole, Shared, PathsOf,
         Target, history, UploadName
  <2>2. \A r \in Requests : SoloOf(r)'
    BY <1>2 DEF HealInv, SoloOf, history, Overlap
  <2>3. QED
    BY <1>2, <2>1, <2>2 DEF HealInv, history
<1>3. ASSUME NEW i \in Items, Attach(i) \/ Detach(i) PROVE HealInv'
  BY <1>2, <1>3 DEF Attach, Detach
<1>4. CASE UNCHANGED vars
  BY <1>2, <1>4 DEF vars, history
<1>5. QED
  BY <1>1, <1>3, <1>4, ArrivalsHeal DEF Next

\* Moving to the trash and restoring repair what went wrong before: when one of
\* them completes with nothing else going on for the item, the file is where the
\* flag says, however deletes and restores overlapped, were cancelled or failed
\* half-way before, for any number of items, users and requests (trash.rs,
\* handle_media_trash_delete and handle_media_trash_restore).
THEOREM HealSafety == Spec => TrashHeals
<1>1. ASSUME Inv, HealInv, NEW r \in Requests, SetFlag(r), request[r].solo,
             rows[request[r].item] # None, request[r].item \notin torn \cup removed,
             ~Shared(request[r].item), trashedBy[request[r].item] \subseteq {request[r].user}
      PROVE  files'[Target(request[r])] = request[r].item
  <2>1. PICK q : q = request[r]
    OBVIOUS
  <2>2. q.pc = "flag" /\ files' = files
    BY <1>1, <2>1 DEF SetFlag
  <2>3. q.item \in Items
    BY <1>1, <2>1, <2>2, Workers DEF Inv, Working
  <2>4. Fit(q, q.item)
    BY <1>1, <2>1, <2>3 DEF HealInv, ItemOK
  <2>5. QED
    BY <1>1, <2>1, <2>2, <2>4 DEF Fit, Whole
<1>2. Inv /\ HealInv =>
        [\A r \in Requests :
           LET q == request[r]
               covered == /\ q.solo /\ rows[q.item] # None
                          /\ q.item \notin torn \cup removed
                          /\ ~Shared(q.item)
                          /\ trashedBy[q.item] \subseteq {q.user}
           IN (SetFlag(r) /\ covered) => files'[Target(q)] = q.item]_vars
  BY <1>1
<1>3. QED
  BY <1>2, InitOK, StepOK, HealInit, HealStep, PTL DEF Spec, TrashHeals

----------------------------------------------------------------------------
(* The file store. *)

StoreAnyPc ==
  {"idle", "insert", "owner", "owner_again", "update", "read", "list", "select_path",
   "select_trashed", "exists", "rename", "unlink", "set_trashed", "set_restored",
   "restored", "delete_row", "select_ids", "each", "max_order", "insert_ref", "delete_ref"}

StoreRecords(O, U, I, C, P, N) ==
  [op : O, user : U, id : I, pc : C, path : P, ids : SUBSET Ids, order : N,
   early : BOOLEAN, alone : BOOLEAN]

\* A request has its fields, whatever its order is.
IsRequest(q) ==
  q \in StoreRecords(Operations \cup {"none"}, Subjects \cup {Nothing}, Ids \cup {Nothing}, StoreAnyPc,
                FilePaths \cup {Nothing}, {q.order})

\* The handlers that may be at a step.
StoreSuits(q) ==
  /\ q.op \notin {"none", "create", "list", "empty"} => q.id \in Ids
  /\ q.pc = "owner" => q.op \in {"update", "delete", "get_one"}
  /\ q.pc = "owner_again" => q.op = "delete" /\ ~settings.trash
  /\ q.pc = "update" => q.op = "update"
  /\ q.pc = "read" => q.op = "get_one"
  /\ q.pc = "select_path" => q.op \in {"delete", "empty"}
  /\ q.pc = "select_trashed" => q.op \in {"restore", "purge"}
  /\ q.pc = "exists" => q.op \in {"delete", "empty", "restore", "purge"}
  /\ q.pc = "rename" => q.op = "restore" \/ (q.op = "delete" /\ settings.trash)
  /\ q.pc = "unlink" => q.op \in {"empty", "purge"} \/ (q.op = "delete" /\ ~settings.trash)
  /\ q.pc = "set_trashed" => q.op = "delete"
  /\ q.pc \in {"set_restored", "restored"} => q.op = "restore"
  /\ q.pc = "delete_row" => q.op \in {"delete", "empty", "purge"}
  /\ q.pc \in {"select_ids", "each"} => q.op = "empty"

\* A request that works on a file read its path from the row of its entry; one
\* that deletes has been noted down.
StoreWorking == {"exists", "rename", "unlink"}

StorePoints(q) ==
  /\ q.pc \in StoreWorking => q.id \in Ids /\ q.path \in FilePaths /\ q.id \in claims[q.path]
  /\ q.op = "purge" \/ (q.op = "delete" /\ ~settings.trash) => q.id \in purged
  /\ q.op = "empty" =>
       /\ q.ids \subseteq purged
       /\ q.pc \in {"select_path", "exists", "unlink", "delete_row"} =>
            q.id \in Ids /\ q.id \in purged

\* A request past check_file_store_ownership may get at its row.
Unchecked == {"idle", "owner", "owner_again"}

MayAccess(q) ==
  settings.owned /\ q.pc \notin Unchecked /\ q.op \in {"update", "delete", "get_one"}
    /\ (q.op = "get_one" => settings.adminOverride)
      => q.user \in owners[q.id] \cup Admins \/ Nothing \in owners[q.id] \/ q.early

\* A restore that is alone and past its file has left none.
Cleared(q) ==
  q.pc \in {"set_restored", "restored"} /\ q.alone /\ q.path # Nothing =>
    q.path \in FilePaths /\ stored[TrashPath(q.path)] = Nothing

StoreReqOK(q) == IsRequest(q) /\ StoreSuits(q) /\ StorePoints(q) /\ MayAccess(q) /\ Cleared(q)

Row == [path : FilePaths, owner : Subjects \cup Admins \cup {Nothing}, trashed : BOOLEAN]

StoreRowOK(i) ==
  entries[i] # Nothing =>
    /\ entries[i] \in Row
    /\ entries[i].owner \in owners[i] /\ i \in claims[entries[i].path]

StoreFilesOK ==
  /\ DOMAIN stored = Places
  /\ \A l \in Places : stored[l] = l[2] \/ stored[l] = Nothing

StoreInv ==
  /\ settings \in [trash : BOOLEAN, prefix : Prefixes, owned : BOOLEAN,
                 adminOverride : BOOLEAN]
  /\ mix \subseteq Operations
  /\ DOMAIN entries = Ids /\ DOMAIN claims = FilePaths /\ DOMAIN owners = Ids
  /\ DOMAIN requests = Slots
  /\ \A i \in Ids : StoreRowOK(i)
  /\ StoreFilesOK
  /\ CataloguedFilesKept
  /\ \A r \in Slots : StoreReqOK(requests[r])
  /\ \A r \in Slots : requests[r].alone => \A o \in Slots \ {r} : requests[o] = NoRequest
  /\ OwnersOnly
  /\ \A c \in accesses : c.id \in Ids

-----------------------------------------------------------------------------
\* The moves of a request, and what they leave of it.
StoreSetPc(q, p) == [q EXCEPT !.pc = p]
SetEarly(q, p, b) == [q EXCEPT !.pc = p, !.early = b]
StoreSetPath(q, x, p) == [q EXCEPT !.path = x, !.pc = p]
StoreSetIds(q, s, p) == [q EXCEPT !.ids = s, !.pc = p]
SetId(q, i, s, x, p) == [q EXCEPT !.id = i, !.ids = s, !.path = x, !.pc = p]
SetOrder(q, n, p) == [q EXCEPT !.order = n, !.pc = p]
NotAlone(q) == [q EXCEPT !.alone = FALSE]

\* What a request is after StoreSetPc.
LEMMA SetPcFields ==
  ASSUME NEW q, IsRequest(q), NEW p \in StoreAnyPc
  PROVE  LET e == StoreSetPc(q, p)
         IN /\ IsRequest(e) /\ e.pc = p /\ e.op = q.op /\ e.user = q.user /\ e.id = q.id
            /\ e.path = q.path /\ e.ids = q.ids /\ e.early = q.early /\ e.alone = q.alone
<1>1. ASSUME NEW O, NEW U, NEW I, NEW C, NEW P, NEW N, NEW s \in StoreRecords(O, U, I, C, P, N),
             NEW x \in C
      PROVE  LET e == StoreSetPc(s, x)
             IN /\ e \in StoreRecords(O, U, I, C, P, {e.order}) /\ e.pc = x /\ e.op = s.op
                /\ e.user = s.user /\ e.id = s.id /\ e.path = s.path
                /\ e.ids = s.ids /\ e.early = s.early /\ e.alone = s.alone
  BY DEF StoreRecords, StoreSetPc
<1>2. QED
  BY <1>1 DEF IsRequest

\* What a request is after SetEarly.
LEMMA SetEarlyFields ==
  ASSUME NEW q, IsRequest(q), NEW p \in StoreAnyPc, NEW b \in BOOLEAN
  PROVE  LET e == SetEarly(q, p, b)
         IN /\ IsRequest(e) /\ e.pc = p /\ e.op = q.op /\ e.user = q.user /\ e.id = q.id
            /\ e.path = q.path /\ e.ids = q.ids /\ e.early = b /\ e.alone = q.alone
<1>1. ASSUME NEW O, NEW U, NEW I, NEW C, NEW P, NEW N, NEW s \in StoreRecords(O, U, I, C, P, N),
             NEW x \in C, NEW y \in BOOLEAN
      PROVE  LET e == SetEarly(s, x, y)
             IN /\ e \in StoreRecords(O, U, I, C, P, {e.order}) /\ e.pc = x /\ e.op = s.op
                /\ e.user = s.user /\ e.id = s.id /\ e.path = s.path
                /\ e.ids = s.ids /\ e.early = y /\ e.alone = s.alone
  BY DEF StoreRecords, SetEarly
<1>2. QED
  BY <1>1 DEF IsRequest

\* What a request is after StoreSetPath.
LEMMA SetPathFields ==
  ASSUME NEW q, IsRequest(q), NEW p \in StoreAnyPc, NEW x \in FilePaths \cup {Nothing}
  PROVE  LET e == StoreSetPath(q, x, p)
         IN /\ IsRequest(e) /\ e.pc = p /\ e.op = q.op /\ e.user = q.user /\ e.id = q.id
            /\ e.path = x /\ e.ids = q.ids /\ e.early = q.early /\ e.alone = q.alone
<1>1. ASSUME NEW O, NEW U, NEW I, NEW C, NEW P, NEW N, NEW s \in StoreRecords(O, U, I, C, P, N),
             NEW c \in C, NEW y \in P
      PROVE  LET e == StoreSetPath(s, y, c)
             IN /\ e \in StoreRecords(O, U, I, C, P, {e.order}) /\ e.pc = c /\ e.op = s.op
                /\ e.user = s.user /\ e.id = s.id /\ e.path = y
                /\ e.ids = s.ids /\ e.early = s.early /\ e.alone = s.alone
  BY DEF StoreRecords, StoreSetPath
<1>2. QED
  BY <1>1 DEF IsRequest

\* What a request is after StoreSetIds.
LEMMA SetIdsFields ==
  ASSUME NEW q, IsRequest(q), NEW p \in StoreAnyPc, NEW x \in SUBSET Ids
  PROVE  LET e == StoreSetIds(q, x, p)
         IN /\ IsRequest(e) /\ e.pc = p /\ e.op = q.op /\ e.user = q.user /\ e.id = q.id
            /\ e.path = q.path /\ e.ids = x /\ e.early = q.early /\ e.alone = q.alone
<1>1. ASSUME NEW O, NEW U, NEW I, NEW C, NEW P, NEW N, NEW s \in StoreRecords(O, U, I, C, P, N),
             NEW c \in C, NEW y \in SUBSET Ids
      PROVE  LET e == StoreSetIds(s, y, c)
             IN /\ e \in StoreRecords(O, U, I, C, P, {e.order}) /\ e.pc = c /\ e.op = s.op
                /\ e.user = s.user /\ e.id = s.id /\ e.path = s.path
                /\ e.ids = y /\ e.early = s.early /\ e.alone = s.alone
  BY DEF StoreRecords, StoreSetIds
<1>2. QED
  BY <1>1 DEF IsRequest

\* What a request is after SetId.
LEMMA SetIdFields ==
  ASSUME NEW q, IsRequest(q), NEW p \in StoreAnyPc, NEW i \in Ids \cup {Nothing}, NEW x \in SUBSET Ids,
         NEW n \in FilePaths \cup {Nothing}
  PROVE  LET e == SetId(q, i, x, n, p)
         IN /\ IsRequest(e) /\ e.pc = p /\ e.op = q.op /\ e.user = q.user /\ e.id = i
            /\ e.path = n /\ e.ids = x /\ e.early = q.early /\ e.alone = q.alone
<1>1. ASSUME NEW O, NEW U, NEW I, NEW C, NEW P, NEW N, NEW s \in StoreRecords(O, U, I, C, P, N),
             NEW c \in C, NEW y \in SUBSET Ids, NEW j \in I, NEW z \in P
      PROVE  LET e == SetId(s, j, y, z, c)
             IN /\ e \in StoreRecords(O, U, I, C, P, {e.order}) /\ e.pc = c /\ e.op = s.op
                /\ e.user = s.user /\ e.id = j /\ e.path = z
                /\ e.ids = y /\ e.early = s.early /\ e.alone = s.alone
  BY DEF StoreRecords, SetId
<1> DEFINE O == Operations \cup {"none"}
           U == Subjects \cup {Nothing}
           I == Ids \cup {Nothing}
           P == FilePaths \cup {Nothing}
           N == {q.order}
<1>2. q \in StoreRecords(O, U, I, StoreAnyPc, P, N) /\ i \in I /\ n \in P
  BY DEF IsRequest
<1> HIDE DEF O, U, I, P, N
<1>3. LET e == SetId(q, i, x, n, p)
      IN /\ e \in StoreRecords(O, U, I, StoreAnyPc, P, {e.order}) /\ e.pc = p /\ e.op = q.op
         /\ e.user = q.user /\ e.id = i
         /\ e.path = n /\ e.ids = x /\ e.early = q.early /\ e.alone = q.alone
  BY <1>1, <1>2
<1>4. QED
  BY <1>3 DEF IsRequest, O, U, I, P

\* What a request is after SetOrder.
LEMMA SetOrderFields ==
  ASSUME NEW q, IsRequest(q), NEW p \in StoreAnyPc, NEW n
  PROVE  LET e == SetOrder(q, n, p)
         IN /\ IsRequest(e) /\ e.pc = p /\ e.op = q.op /\ e.user = q.user /\ e.id = q.id
            /\ e.path = q.path /\ e.ids = q.ids /\ e.early = q.early /\ e.alone = q.alone
<1>1. ASSUME NEW O, NEW U, NEW I, NEW C, NEW P, NEW N, NEW s \in StoreRecords(O, U, I, C, P, N),
             NEW c \in C, NEW y
      PROVE  LET e == SetOrder(s, y, c)
             IN /\ e \in StoreRecords(O, U, I, C, P, {e.order}) /\ e.pc = c /\ e.op = s.op
                /\ e.user = s.user /\ e.id = s.id /\ e.path = s.path
                /\ e.ids = s.ids /\ e.early = s.early /\ e.alone = s.alone
  BY DEF StoreRecords, SetOrder
<1>2. QED
  BY <1>1 DEF IsRequest

\* What a request is once another one has come.
LEMMA NotAloneFields ==
  ASSUME NEW q, IsRequest(q)
  PROVE  LET e == NotAlone(q)
         IN /\ IsRequest(e) /\ e.pc = q.pc /\ e.op = q.op /\ e.user = q.user /\ e.id = q.id
            /\ e.path = q.path /\ e.ids = q.ids /\ e.early = q.early /\ e.alone = FALSE
<1>1. ASSUME NEW O, NEW U, NEW I, NEW C, NEW P, NEW N, NEW s \in StoreRecords(O, U, I, C, P, N)
      PROVE  LET e == NotAlone(s)
             IN /\ e \in StoreRecords(O, U, I, C, P, {e.order}) /\ e.pc = s.pc /\ e.op = s.op
                /\ e.user = s.user /\ e.id = s.id /\ e.path = s.path
                /\ e.ids = s.ids /\ e.early = s.early /\ e.alone = FALSE
  BY DEF StoreRecords, NotAlone
<1>2. QED
  BY <1>1 DEF IsRequest, NotAlone

\* What a slot is without a request.
LEMMA StoreIdleFields == IsRequest(NoRequest) /\ NoRequest.op = "none" /\ NoRequest.pc = "idle" /\ NoRequest.alone = FALSE
<1>1. IsRequest(NoRequest)
  BY DEF IsRequest, StoreRecords, NoRequest, StoreAnyPc
<1>2. QED
  BY <1>1 DEF NoRequest

\* A slot without a request is in order.
LEMMA StoreIdleOK == StoreReqOK(NoRequest) /\ StoreReqOK(NoRequest)'
<1>1. StoreSuits(NoRequest) /\ StorePoints(NoRequest) /\ MayAccess(NoRequest) /\ Cleared(NoRequest)
  BY StoreIdleFields DEF StoreSuits, StorePoints, StoreWorking, MayAccess, Unchecked, Cleared
<1>2. StoreSuits(NoRequest)' /\ StorePoints(NoRequest)' /\ MayAccess(NoRequest)' /\ Cleared(NoRequest)'
  BY StoreIdleFields DEF StoreSuits, StorePoints, StoreWorking, MayAccess, Unchecked, Cleared
<1>3. IsRequest(NoRequest)'
  BY StoreIdleFields DEF IsRequest
<1>4. QED
  BY <1>1, <1>2, <1>3, StoreIdleFields DEF StoreReqOK

-----------------------------------------------------------------------------
\* The configuration stays, and what was written down is not forgotten.
StoreGrows ==
  /\ settings' = settings /\ mix' = mix
  /\ DOMAIN claims' = FilePaths /\ \A p \in FilePaths : claims[p] \subseteq claims'[p]
  /\ DOMAIN owners' = Ids /\ \A i \in Ids : owners[i] \subseteq owners'[i]
  /\ purged \subseteq purged'

\* What happened is never undone while settings, claims and owners stay.
LEMMA HistorySame ==
  ASSUME StoreInv, settings' = settings, mix' = mix, claims' = claims, owners' = owners,
         purged \subseteq purged'
  PROVE  StoreGrows
BY DEF StoreInv, StoreGrows

\* A request that does nothing, while others do.
LEMMA StoreWaitingOK ==
  ASSUME NEW q, StoreReqOK(q), StoreGrows, stored' = stored \/ ~q.alone
  PROVE  StoreReqOK(q)'
<1>1. IsRequest(q) /\ IsRequest(q)'
  BY DEF StoreReqOK, IsRequest
<1>2. StoreSuits(q)' /\ Cleared(q)'
  BY DEF StoreReqOK, StoreSuits, Cleared, StoreGrows, TrashPath
<1>3. StorePoints(q)'
  BY DEF StoreReqOK, StorePoints, StoreGrows, StoreWorking
<1>4. MayAccess(q)'
  <2>1. q.op \in {"update", "delete", "get_one"} => q.id \in Ids
    BY DEF StoreReqOK, StoreSuits
  <2>2. QED
    BY <2>1 DEF StoreReqOK, MayAccess, StoreGrows
<1>5. QED
  BY <1>1, <1>2, <1>3, <1>4 DEF StoreReqOK

StoreReqsOK ==
  /\ DOMAIN requests = Slots
  /\ \A r \in Slots : StoreReqOK(requests[r])
  /\ \A r \in Slots : requests[r].alone => \A o \in Slots \ {r} : requests[o] = NoRequest

\* A step of a request under way.
LEMMA OneRequestUnderWay ==
  ASSUME StoreInv, StoreGrows, NEW r \in Slots, requests[r] # NoRequest,
         NEW e, requests' = [requests EXCEPT ![r] = e], StoreReqOK(e)', e.alone => requests[r].alone
  PROVE  StoreReqsOK'
<1>1. DOMAIN requests' = Slots /\ requests'[r] = e
      /\ \A o \in Slots \ {r} : requests'[o] = requests[o]
  BY DEF StoreInv
<1>2. \A o \in Slots \ {r} : ~requests[o].alone
  BY DEF StoreInv
<1>3. \A o \in Slots : StoreReqOK(requests[o])'
  <2>1. ASSUME NEW o \in Slots \ {r} PROVE StoreReqOK(requests[o])'
    <3>1. \A q : StoreReqOK(q) /\ ~q.alone => StoreReqOK(q)'
      BY StoreWaitingOK
    <3>2. requests'[o] = requests[o] /\ StoreReqOK(requests[o]) /\ ~requests[o].alone
      BY <1>1, <1>2, <2>1 DEF StoreInv
    <3>3. QED
      BY <3>1, <3>2
  <2>2. QED
    BY <1>1, <2>1
<1>4. \A o \in Slots : requests'[o].alone =>
        \A p \in Slots \ {o} : requests'[p] = NoRequest
  BY <1>1, <1>2 DEF StoreInv
<1>5. QED
  BY <1>1, <1>3, <1>4 DEF StoreReqsOK

\* A step that moves one request to a state in order keeps all in order.
LEMMA StoreOneRequest ==
  ASSUME StoreInv, StoreGrows, NEW r \in Slots, requests[r].pc # "idle",
         NEW e, requests' = [requests EXCEPT ![r] = e], StoreReqOK(e)', e.alone => requests[r].alone
  PROVE  StoreReqsOK'
<1>1. requests[r] # NoRequest
  BY StoreIdleFields
<1>2. QED
  BY <1>1, OneRequestUnderWay

\* A request that ends leaves all in order.
LEMMA StoreFinishOK ==
  ASSUME StoreInv, StoreGrows, NEW r \in Slots, requests[r].pc # "idle", Respond(r)
  PROVE  StoreReqsOK'
<1> DEFINE e == NoRequest
<1>1. StoreReqOK(e)' /\ (e.alone => requests[r].alone) /\ requests' = [requests EXCEPT ![r] = e]
  BY StoreIdleOK, StoreIdleFields DEF Respond
<1> HIDE DEF e
<1>2. QED
  BY <1>1, StoreOneRequest

\* What does not touch the rows, the files or the accesses.
StoreRowsOK == DOMAIN entries = Ids /\ \A i \in Ids : StoreRowOK(i)
StoreOK == StoreFilesOK /\ CataloguedFilesKept
AccessesOK == OwnersOnly /\ \A c \in accesses : c.id \in Ids

\* Rows nobody touched stay in order.
LEMMA StoreRowsSame == ASSUME StoreInv, StoreGrows, entries' = entries PROVE StoreRowsOK'
<1>1. ASSUME NEW i \in Ids, entries[i] # Nothing
      PROVE  /\ entries[i] \in Row
             /\ entries[i].owner \in owners'[i] /\ i \in claims'[entries[i].path]
  <2>1. StoreRowOK(i)
    BY DEF StoreInv
  <2>2. QED
    BY <1>1, <2>1 DEF StoreRowOK, Row, StoreGrows
<1>2. QED
  BY <1>1 DEF StoreRowsOK, StoreRowOK, Row, StoreInv

\* Files nobody touched stay in order.
LEMMA StoreFilesSame == ASSUME StoreInv, StoreGrows, stored' = stored PROVE StoreOK'
<1>1. StoreFilesOK'
  BY DEF StoreInv, StoreFilesOK, Places, Prefixes
<1>2. \A p \in FilePaths : claims'[p] \cap purged' = {} => claims[p] \cap purged = {}
  BY DEF StoreGrows
<1>3. CataloguedFilesKept'
  <2> SUFFICES ASSUME NEW p \in FilePaths, claims'[p] \cap purged' = {}
               PROVE  \E l \in Places : stored[l] = p
    BY DEF CataloguedFilesKept, Places, Prefixes
  <2>1. QED
    BY <1>2 DEF StoreInv, CataloguedFilesKept
<1>4. QED
  BY <1>1, <1>3 DEF StoreOK

\* Accesses nobody added to stay in order.
LEMMA AccessesSame == ASSUME StoreInv, StoreGrows, accesses' = accesses PROVE AccessesOK'
BY DEF StoreInv, StoreGrows, AccessesOK, OwnersOnly

\* A request gets at its row.
LEMMA AccessesMore ==
  ASSUME StoreInv, StoreGrows, NEW q, StoreReqOK(q), q.pc \notin Unchecked,
         q.op \in {"update", "delete", "get_one"}, q.op = "get_one" => settings.adminOverride,
         accesses' = Accessed(q)
  PROVE  AccessesOK'
<1>1. q.id \in Ids
  BY DEF StoreReqOK, StoreSuits
<1>2. settings.owned =>
        q.user \in owners'[q.id] \cup Admins \/ Nothing \in owners'[q.id] \/ q.early
  BY <1>1 DEF StoreReqOK, MayAccess, StoreGrows
<1>3. accesses' = accesses \cup {[user |-> q.user, id |-> q.id, early |-> q.early]}
  BY DEF Accessed
<1>4. QED
  BY <1>1, <1>2, <1>3 DEF StoreInv, StoreGrows, AccessesOK, OwnersOnly

\* The parts of the invariant make the whole of it.
LEMMA Together ==
  ASSUME StoreInv, StoreGrows, StoreRowsOK', StoreOK', AccessesOK', StoreReqsOK'
  PROVE  StoreInv'
BY DEF StoreInv, StoreGrows, StoreRowsOK, StoreOK, AccessesOK, StoreReqsOK, Prefixes

-----------------------------------------------------------------------------
\* A step of a request that only changes where it is.
LEMMA MoveKeeps ==
  ASSUME StoreInv, NEW r \in Slots, requests[r].pc # "idle", NEW e, StoreReqOK(e),
         e.alone => requests[r].alone, requests' = [requests EXCEPT ![r] = e],
         UNCHANGED <<settings, mix, entries, stored, attached, dispatched, storeHistory>>
  PROVE  StoreInv'
<1>1. StoreGrows
  BY HistorySame DEF storeHistory
<1>2. StoreReqOK(e)'
  BY <1>1, StoreWaitingOK
<1>3. StoreReqsOK'
  BY <1>1, <1>2, StoreOneRequest
<1>4. QED
  BY <1>1, <1>3, StoreRowsSame, StoreFilesSame, AccessesSame, Together DEF storeHistory

\* End keeps the invariant.
LEMMA EndKeeps ==
  ASSUME StoreInv, NEW r \in Slots, requests[r].pc # "idle", Respond(r),
         UNCHANGED <<settings, mix, entries, stored, claims, purged, owners, accesses>>
  PROVE  StoreInv'
<1>1. StoreGrows
  BY HistorySame
<1>2. QED
  BY <1>1, StoreFinishOK, StoreRowsSame, StoreFilesSame, AccessesSame, Together

\* CheckOwnership keeps the invariant.
LEMMA CheckOwnershipKeeps ==
  ASSUME StoreInv, NEW r \in Slots, CheckOwnership(r)
  PROVE  StoreInv'
<1> DEFINE q == requests[r]
           row == entries[q.id]
           p == AfterOwner(q)
           b == (row = Nothing)
           e == SetEarly(q, p, b)
<1>1. /\ q.pc \in {"owner", "owner_again"} /\ StoreReqOK(q)
      /\ UNCHANGED <<settings, mix, entries, stored, attached, dispatched, storeHistory>>
  BY DEF CheckOwnership, StoreInv, At
<1>2. CASE Respond(r)
  BY <1>1, <1>2, EndKeeps DEF storeHistory
<1>3. CASE /\ ~(AsksForOwner(q) /\ row # Nothing /\ row.owner \notin {q.user, Nothing})
           /\ requests' = [requests EXCEPT ![r] = e]
  <2> HIDE DEF q
  <2>1. /\ IsRequest(q) /\ q.op \in {"update", "delete", "get_one"} /\ q.id \in Ids
        /\ StoreSuits(q) /\ StorePoints(q)
    BY <1>1 DEF StoreReqOK, StoreSuits
  <2>2. p \in StoreAnyPc /\ b \in BOOLEAN
    BY DEF AfterOwner, StoreAnyPc
  <2>3. \/ q.op = "update" /\ p = "update"
        \/ q.op = "get_one" /\ p = "read"
        \/ q.op = "delete" /\ p = "owner_again" /\ ~settings.trash
        \/ q.op = "delete" /\ p = "select_path"
    BY <2>1 DEF AfterOwner
  <2> HIDE DEF p
  <2>4. /\ IsRequest(e) /\ e.pc = p /\ e.op = q.op /\ e.user = q.user /\ e.id = q.id
        /\ e.path = q.path /\ e.ids = q.ids /\ e.early = b /\ e.alone = q.alone
    BY <2>1, <2>2, SetEarlyFields
  <2> HIDE DEF e
  <2>5. StoreSuits(e)
    BY <2>1, <2>3, <2>4 DEF StoreSuits
  <2>6. StorePoints(e)
    BY <2>1, <2>3, <2>4 DEF StorePoints, StoreWorking
  <2>7. MayAccess(e)
    <3>1. CASE row = Nothing
      BY <2>4, <3>1 DEF MayAccess
    <3>2. CASE row # Nothing
      <4>1. row.owner \in owners[q.id]
        BY <2>1, <3>2 DEF StoreInv, StoreRowOK, Row
      <4>2. QED
        BY <1>3, <2>1, <2>4, <3>2, <4>1 DEF MayAccess, AsksForOwner
    <3>3. QED
      BY <3>1, <3>2
  <2>8. Cleared(e)
    BY <2>3, <2>4 DEF Cleared
  <2>9. StoreReqOK(e)
    BY <2>4, <2>5, <2>6, <2>7, <2>8 DEF StoreReqOK
  <2>10. requests[r].pc # "idle" /\ (e.alone => requests[r].alone)
    BY <1>1, <2>4 DEF q
  <2>11. QED
    BY <1>1, <1>3, <2>9, <2>10, MoveKeeps
<1>4. QED
  BY <1>2, <1>3 DEF CheckOwnership, SetEarly

\* SelectPath keeps the invariant.
LEMMA SelectPathKeeps ==
  ASSUME StoreInv, NEW r \in Slots, SelectPath(r) \/ SelectTrashed(r)
  PROVE  StoreInv'
<1> DEFINE q == requests[r]
           row == entries[q.id]
           found == row # Nothing /\ (q.pc = "select_trashed" => row.trashed)
           x == IF found THEN row.path ELSE Nothing
           p == IF found THEN "exists" ELSE RowStep(q)
           e == StoreSetPath(q, x, p)
<1>1. /\ q.pc \in {"select_path", "select_trashed"} /\ StoreReqOK(q)
      /\ requests' = [requests EXCEPT ![r] = e]
      /\ UNCHANGED <<settings, mix, entries, stored, attached, dispatched, storeHistory>>
  BY DEF SelectPath, SelectTrashed, StoreInv, At, StoreSetPath
<1> HIDE DEF q
<1>2. /\ IsRequest(q) /\ q.op \in {"delete", "empty", "restore", "purge"} /\ q.id \in Ids
      /\ StoreSuits(q) /\ StorePoints(q) /\ MayAccess(q)
  BY <1>1 DEF StoreReqOK, StoreSuits, StorePoints
<1>3. found => row.path \in FilePaths /\ q.id \in claims[row.path]
  BY <1>2 DEF StoreInv, StoreRowOK, Row
<1>4. \/ found /\ p = "exists" /\ x = row.path
      \/ ~found /\ x = Nothing /\ q.op = "delete" /\ p = "set_trashed"
      \/ ~found /\ x = Nothing /\ q.op = "delete" /\ p = "delete_row"
      \/ ~found /\ x = Nothing /\ q.op = "restore" /\ p = "set_restored"
      \/ ~found /\ x = Nothing /\ q.op \in {"empty", "purge"} /\ p = "delete_row"
  BY <1>2 DEF RowStep
<1>5. p \in StoreAnyPc /\ x \in FilePaths \cup {Nothing}
  BY <1>3, <1>4 DEF StoreAnyPc
<1> HIDE DEF p, x, found
<1>6. /\ IsRequest(e) /\ e.pc = p /\ e.op = q.op /\ e.user = q.user /\ e.id = q.id
      /\ e.path = x /\ e.ids = q.ids /\ e.early = q.early /\ e.alone = q.alone
  BY <1>2, <1>5, SetPathFields
<1> HIDE DEF e
<1>7. StoreSuits(e)
  BY <1>2, <1>4, <1>6 DEF StoreSuits
<1>8. StorePoints(e)
  <2>1. e.pc \in StoreWorking => e.id \in Ids /\ e.path \in FilePaths /\ e.id \in claims[e.path]
    BY <1>2, <1>3, <1>4, <1>6 DEF StoreWorking
  <2>2. QED
    BY <1>1, <1>2, <1>6, <2>1 DEF StorePoints, StoreSuits
<1>9. MayAccess(e)
  BY <1>1, <1>2, <1>6 DEF MayAccess, Unchecked
<1>10. Cleared(e)
  BY <1>4, <1>6 DEF Cleared
<1>11. StoreReqOK(e) /\ requests[r].pc # "idle" /\ (e.alone => requests[r].alone)
  BY <1>1, <1>6, <1>7, <1>8, <1>9, <1>10 DEF StoreReqOK, q
<1>12. QED
  BY <1>1, <1>11, MoveKeeps

\* The row step of a handler that has worked on a file, if files are as they
\* are then.
LEMMA RowStepSuits ==
  ASSUME NEW q, StoreReqOK(q), q.pc \in StoreWorking
  PROVE  LET e == StoreSetPc(q, RowStep(q))
         IN /\ IsRequest(e) /\ StoreSuits(e) /\ StorePoints(e) /\ MayAccess(e) /\ e.alone = q.alone
            /\ e.path = q.path
            /\ e.pc \in {"set_restored", "restored"} => q.op = "restore"
<1> DEFINE p == RowStep(q)
           e == StoreSetPc(q, p)
<1>1. /\ IsRequest(q) /\ q.op \in {"delete", "empty", "restore", "purge"} /\ q.id \in Ids
      /\ StoreSuits(q) /\ StorePoints(q) /\ MayAccess(q)
  BY DEF StoreReqOK, StoreSuits, StorePoints, StoreWorking
<1>2. \/ q.op = "delete" /\ p = "set_trashed"
      \/ q.op = "delete" /\ p = "delete_row"
      \/ q.op = "restore" /\ p = "set_restored"
      \/ q.op \in {"empty", "purge"} /\ p = "delete_row"
  BY <1>1 DEF RowStep
<1>3. p \in StoreAnyPc
  BY <1>2 DEF StoreAnyPc
<1> HIDE DEF p
<1>4. /\ IsRequest(e) /\ e.pc = p /\ e.op = q.op /\ e.user = q.user /\ e.id = q.id
      /\ e.path = q.path /\ e.ids = q.ids /\ e.early = q.early /\ e.alone = q.alone
  BY <1>1, <1>3, SetPcFields
<1> HIDE DEF e
<1>5. StoreSuits(e)
  BY <1>1, <1>2, <1>4 DEF StoreSuits
<1>6. StorePoints(e)
  <2>1. q.op = "empty" => q.pc \in {"exists", "unlink"}
    BY <1>1 DEF StoreSuits, StoreWorking
  <2>2. QED
    BY <1>1, <1>2, <1>4, <2>1 DEF StorePoints, StoreWorking
<1>7. MayAccess(e)
  BY <1>1, <1>4 DEF MayAccess, Unchecked, StoreWorking
<1>8. QED
  BY <1>2, <1>4, <1>5, <1>6, <1>7 DEF e, p

\* Exists keeps the invariant.
LEMMA ExistsKeeps ==
  ASSUME StoreInv, NEW r \in Slots, FileExists(r)
  PROVE  StoreInv'
<1> DEFINE q == requests[r]
           gone == stored[FileSource(q)] = Nothing
           p == IF gone THEN RowStep(q) ELSE WithFile(q)
           e == StoreSetPc(q, p)
<1>1. /\ q.pc = "exists" /\ StoreReqOK(q) /\ requests' = [requests EXCEPT ![r] = e]
      /\ UNCHANGED <<settings, mix, entries, stored, attached, dispatched, storeHistory>>
  BY DEF FileExists, StoreInv, At, GoOn, StoreSetPc
<1> HIDE DEF q
<1>2. StoreReqOK(e) /\ e.alone = q.alone
  <2>1. CASE gone
    <3>1. /\ IsRequest(e) /\ StoreSuits(e) /\ StorePoints(e) /\ MayAccess(e) /\ e.alone = q.alone
          /\ e.path = q.path
          /\ e.pc \in {"set_restored", "restored"} => q.op = "restore"
      BY <1>1, <2>1, RowStepSuits DEF StoreWorking
    <3>2. q.path \in FilePaths /\ (q.op = "restore" => stored[TrashPath(q.path)] = Nothing)
      BY <1>1, <2>1 DEF StoreReqOK, StorePoints, StoreWorking, FileSource
    <3> HIDE DEF e
    <3>3. Cleared(e)
      BY <3>1, <3>2 DEF Cleared
    <3>4. QED
      BY <3>1, <3>3 DEF StoreReqOK
  <2>2. CASE ~gone
    <3>1. /\ IsRequest(q) /\ q.op \in {"delete", "empty", "restore", "purge"} /\ q.id \in Ids
          /\ StoreSuits(q) /\ StorePoints(q) /\ MayAccess(q)
      BY <1>1 DEF StoreReqOK, StoreSuits, StorePoints, StoreWorking
    <3>2. \/ q.op = "restore" /\ p = "rename"
          \/ q.op = "delete" /\ p = "rename" /\ settings.trash
          \/ q.op = "delete" /\ p = "unlink" /\ ~settings.trash
          \/ q.op \in {"empty", "purge"} /\ p = "unlink"
      BY <2>2, <3>1 DEF WithFile
    <3>3. p \in StoreAnyPc
      BY <3>2 DEF StoreAnyPc
    <3> HIDE DEF p
    <3>4. /\ IsRequest(e) /\ e.pc = p /\ e.op = q.op /\ e.user = q.user /\ e.id = q.id
          /\ e.path = q.path /\ e.ids = q.ids /\ e.early = q.early /\ e.alone = q.alone
      BY <3>1, <3>3, SetPcFields
    <3> HIDE DEF e
    <3>5. StoreSuits(e)
      BY <3>1, <3>2, <3>4 DEF StoreSuits
    <3>6. StorePoints(e)
      BY <1>1, <3>1, <3>2, <3>4 DEF StorePoints, StoreWorking
    <3>7. MayAccess(e)
      BY <1>1, <3>1, <3>4 DEF MayAccess, Unchecked
    <3>8. Cleared(e)
      BY <3>2, <3>4 DEF Cleared
    <3>9. QED
      BY <3>4, <3>5, <3>6, <3>7, <3>8 DEF StoreReqOK
  <2>3. QED
    BY <2>1, <2>2
<1> HIDE DEF e
<1>3. requests[r].pc # "idle" /\ (e.alone => requests[r].alone)
  BY <1>1, <1>2 DEF q
<1>4. QED
  BY <1>1, <1>2, <1>3, MoveKeeps

\* A handler goes on to its row after it has moved or deleted a file, or has
\* tried to.
LEMMA FileStepKeeps ==
  ASSUME StoreInv, NEW r \in Slots, requests[r].pc \in {"rename", "unlink"},
         GoOn(r, RowStep(requests[r])), StoreOK',
         UNCHANGED <<settings, mix, entries, attached, dispatched, storeHistory>>,
         requests[r].op = "restore" => stored'[TrashPath(requests[r].path)] = Nothing
  PROVE  StoreInv'
<1> DEFINE q == requests[r]
           e == StoreSetPc(q, RowStep(q))
<1>1. StoreGrows
  BY HistorySame DEF storeHistory
<1>2. /\ StoreReqOK(q) /\ q.pc \in StoreWorking /\ requests' = [requests EXCEPT ![r] = e]
      /\ (q.op = "restore" => stored'[TrashPath(q.path)] = Nothing)
  BY DEF StoreInv, StoreWorking, GoOn, StoreSetPc
<1>3. q.pc # "idle"
  BY DEF StoreWorking
<1> HIDE DEF q
<1>4. /\ IsRequest(e) /\ StoreSuits(e) /\ StorePoints(e) /\ MayAccess(e) /\ e.alone = q.alone
      /\ e.path = q.path
      /\ e.pc \in {"set_restored", "restored"} => q.op = "restore"
  BY <1>2, RowStepSuits
<1>5. q.path \in FilePaths
  BY <1>2 DEF StoreReqOK, StorePoints
<1> HIDE DEF e
<1>6. PICK c : c = e
  OBVIOUS
<1>7. StoreReqOK(c)'
  <2>1. IsRequest(c)'
    BY <1>4, <1>6 DEF IsRequest
  <2>2. StoreSuits(c)'
    BY <1>1, <1>4, <1>6 DEF StoreSuits, StoreGrows
  <2>3. StorePoints(c)'
    BY <1>1, <1>4, <1>6 DEF StorePoints, StoreGrows, StoreWorking
  <2>4. MayAccess(c)'
    <3>1. c.op \in {"update", "delete", "get_one"} => c.id \in Ids
      BY <1>4, <1>6 DEF StoreSuits
    <3>2. QED
      BY <1>1, <1>4, <1>6, <3>1 DEF MayAccess, StoreGrows
  <2>5. Cleared(c)'
    BY <1>1, <1>2, <1>4, <1>5, <1>6 DEF Cleared, TrashPath, StoreGrows
  <2>6. QED
    BY <2>1, <2>2, <2>3, <2>4, <2>5 DEF StoreReqOK
<1>8. requests' = [requests EXCEPT ![r] = c] /\ requests[r].pc # "idle"
      /\ (c.alone => requests[r].alone)
  BY <1>2, <1>3, <1>4, <1>6 DEF q
<1>9. StoreReqsOK'
  BY <1>1, <1>7, <1>8, StoreOneRequest
<1>10. QED
  BY <1>1, <1>9, StoreRowsSame, AccessesSame, Together DEF storeHistory

\* A file that is moved is still there.
LEMMA MovedIsThere ==
  ASSUME StoreInv, NEW x \in {""} \cup Prefixes, NEW y \in {""} \cup Prefixes, x # y,
         NEW p \in FilePaths, stored[<<x, p>>] # Nothing, stored' = Moved(<<x, p>>, <<y, p>>),
         UNCHANGED <<settings, mix, claims, purged, owners>>
  PROVE  StoreOK' /\ stored'[<<x, p>>] = Nothing
<1>1. <<x, p>> \in Places /\ <<y, p>> \in Places /\ <<x, p>> # <<y, p>>
  BY DEF Places
<1>2. /\ DOMAIN stored' = Places /\ stored'[<<y, p>>] = stored[<<x, p>>] /\ stored'[<<x, p>>] = Nothing
      /\ \A l \in Places : l # <<x, p>> /\ l # <<y, p>> => stored'[l] = stored[l]
  BY <1>1 DEF StoreInv, StoreFilesOK, Moved
<1>3. stored[<<x, p>>] = p
  BY <1>1 DEF StoreInv, StoreFilesOK
<1>4. \A l \in Places : stored'[l] = l[2] \/ stored'[l] = Nothing
  <2> SUFFICES ASSUME NEW l \in Places PROVE stored'[l] = l[2] \/ stored'[l] = Nothing
    OBVIOUS
  <2>1. CASE l = <<y, p>>
    <3>1. l[2] = p
      BY <2>1
    <3>2. QED
      BY <1>2, <1>3, <2>1, <3>1
  <2>2. CASE l # <<y, p>>
    BY <1>2, <2>2 DEF StoreInv, StoreFilesOK
  <2>3. QED
    BY <2>1, <2>2
<1>5. StoreFilesOK'
  BY <1>2, <1>4 DEF StoreFilesOK, Places, Prefixes
<1>6. CataloguedFilesKept'
  <2> SUFFICES ASSUME NEW o \in FilePaths, claims[o] \cap purged = {}
               PROVE  \E l \in Places : stored'[l] = o
    BY DEF CataloguedFilesKept, Places, Prefixes
  <2>1. PICK l \in Places : stored[l] = o
    BY DEF StoreInv, CataloguedFilesKept
  <2>2. CASE o = p
    BY <1>1, <1>2, <1>3, <2>2
  <2>3. CASE o # p
    <3>1. CASE l = <<x, p>>
      BY <1>3, <2>1, <2>3, <3>1
    <3>2. CASE l = <<y, p>>
      <4>1. stored[l] = p \/ stored[l] = Nothing
        BY <1>1, <3>2 DEF StoreInv, StoreFilesOK
      <4>2. o = Nothing
        BY <2>1, <2>3, <4>1
      <4>3. QED
        BY <1>1, <1>2, <4>2
    <3>3. QED
      BY <1>2, <2>1, <3>1, <3>2
  <2>4. QED
    BY <2>2, <2>3
<1>7. QED
  BY <1>2, <1>5, <1>6 DEF StoreOK

\* RenameToTrash keeps the invariant.
LEMMA RenameToTrashKeeps ==
  ASSUME StoreInv, NEW r \in Slots, RenameToTrash(r)
  PROVE  StoreInv'
<1> DEFINE q == requests[r]
<1>1. /\ q.pc = "rename" /\ q.op = "delete" /\ GoOn(r, RowStep(q)) /\ StoreReqOK(q)
      /\ UNCHANGED <<settings, mix, entries, attached, dispatched, storeHistory>>
      /\ \/ stored[FileSource(q)] # Nothing /\ stored' = Moved(FileSource(q), TrashDest(q.path))
         \/ UNCHANGED stored
  BY DEF RenameToTrash, StoreInv, At
<1>2. q.path \in FilePaths /\ FileSource(q) = Live(q.path)
  BY <1>1 DEF StoreReqOK, StorePoints, StoreWorking, FileSource
<1>3. StoreGrows
  BY <1>1, HistorySame DEF storeHistory
<1>4. StoreOK'
  <2>1. CASE UNCHANGED stored
    BY <1>3, <2>1, StoreFilesSame
  <2>2. CASE stored[FileSource(q)] # Nothing /\ stored' = Moved(FileSource(q), TrashDest(q.path))
    <3> DEFINE x == ""
               y == ".trash"
               p == q.path
    <3>1. x \in {""} \cup Prefixes /\ y \in {""} \cup Prefixes /\ x # y
      BY DEF Prefixes
    <3>2. stored[<<x, p>>] # Nothing /\ stored' = Moved(<<x, p>>, <<y, p>>)
      BY <1>2, <2>2 DEF Live, TrashDest
    <3> HIDE DEF x, y, p
    <3>3. p \in FilePaths
      BY <1>2 DEF p
    <3>4. QED
      BY <1>1, <3>1, <3>2, <3>3, MovedIsThere DEF storeHistory
  <2>3. QED
    BY <1>1, <2>1, <2>2
<1>5. QED
  BY <1>1, <1>4, FileStepKeeps

\* RenameBack keeps the invariant.
LEMMA RenameBackKeeps ==
  ASSUME StoreInv, NEW r \in Slots, RenameBack(r)
  PROVE  StoreInv'
<1> DEFINE q == requests[r]
           x == settings.prefix
           y == ""
           p == q.path
<1>1. /\ q.pc = "rename" /\ q.op = "restore" /\ GoOn(r, RowStep(q)) /\ StoreReqOK(q)
      /\ UNCHANGED <<settings, mix, entries, attached, dispatched, storeHistory>>
      /\ stored[FileSource(q)] # Nothing /\ stored' = Moved(FileSource(q), Live(q.path))
  BY DEF RenameBack, StoreInv, At
<1>2. p \in FilePaths /\ FileSource(q) = <<x, p>> /\ Live(q.path) = <<y, p>> /\ TrashPath(p) = <<x, p>>
  BY <1>1 DEF StoreReqOK, StorePoints, StoreWorking, FileSource, TrashPath, Live
<1>3. x \in {""} \cup Prefixes /\ y \in {""} \cup Prefixes /\ x # y
  BY DEF StoreInv, Prefixes
<1>4. stored[<<x, p>>] # Nothing /\ stored' = Moved(<<x, p>>, <<y, p>>)
  BY <1>1, <1>2
<1> HIDE DEF x, y, p
<1>5. StoreOK' /\ stored'[<<x, p>>] = Nothing
  BY <1>1, <1>2, <1>3, <1>4, MovedIsThere DEF storeHistory
<1>6. stored'[TrashPath(q.path)] = Nothing
  BY <1>2, <1>5 DEF p
<1>7. QED
  BY <1>1, <1>5, <1>6, FileStepKeeps

\* Unlink keeps the invariant.
LEMMA StoreUnlinkKeeps ==
  ASSUME StoreInv, NEW r \in Slots, UnlinkFile(r)
  PROVE  StoreInv'
<1> DEFINE q == requests[r]
           p == q.path
<1>1. /\ q.pc = "unlink" /\ GoOn(r, RowStep(q)) /\ StoreReqOK(q)
      /\ UNCHANGED <<settings, mix, entries, attached, dispatched, storeHistory>>
      /\ stored' = [stored EXCEPT ![FileSource(q)] = Nothing] \/ UNCHANGED stored
  BY DEF UnlinkFile, StoreInv, At
<1>2. /\ p \in FilePaths /\ q.id \in claims[p] /\ q.id \in purged /\ q.op # "restore"
      /\ \E x : FileSource(q) = <<x, p>>
  BY <1>1 DEF StoreReqOK, StoreSuits, StorePoints, StoreWorking, FileSource, TrashPath, Live
<1>3. PICK x : FileSource(q) = <<x, p>>
  BY <1>2
<1>4. StoreGrows
  BY <1>1, HistorySame DEF storeHistory
<1> HIDE DEF p
<1>5. StoreOK'
  <2>1. CASE UNCHANGED stored
    BY <1>4, <2>1, StoreFilesSame
  <2>2. CASE stored' = [stored EXCEPT ![FileSource(q)] = Nothing]
    <3>1. /\ DOMAIN stored' = Places
          /\ \A l \in Places : stored'[l] = IF l = <<x, p>> THEN Nothing ELSE stored[l]
      BY <1>3, <2>2 DEF StoreInv, StoreFilesOK
    <3>2. StoreFilesOK'
      <4>1. \A l \in Places : stored'[l] = l[2] \/ stored'[l] = Nothing
        BY <3>1 DEF StoreInv, StoreFilesOK
      <4>2. QED
        BY <3>1, <4>1 DEF StoreFilesOK, Places, Prefixes
    <3>3. CataloguedFilesKept'
      <4> SUFFICES ASSUME NEW o \in FilePaths, claims[o] \cap purged = {}
                   PROVE  \E l \in Places : stored'[l] = o
        BY <1>1 DEF CataloguedFilesKept, Places, Prefixes, storeHistory
      <4>1. PICK l \in Places : stored[l] = o
        BY DEF StoreInv, CataloguedFilesKept
      <4>2. o # p
        BY <1>2
      <4>3. CASE l = <<x, p>>
        <5>1. o = Nothing
          BY <4>1, <4>2, <4>3 DEF StoreInv, StoreFilesOK
        <5>2. QED
          BY <3>1, <4>1, <5>1
      <4>4. CASE l # <<x, p>>
        BY <3>1, <4>1, <4>4
      <4>5. QED
        BY <4>3, <4>4
    <3>4. QED
      BY <3>2, <3>3 DEF StoreOK
  <2>3. QED
    BY <1>1, <2>1, <2>2
<1>6. QED
  BY <1>1, <1>2, <1>5, FileStepKeeps

-----------------------------------------------------------------------------
\* The rows.

\* A step that changes the rows, and leaves each in order, keeps them in order.
LEMMA RowsChange ==
  ASSUME StoreInv, StoreGrows, NEW i \in Ids, NEW row, entries' = [entries EXCEPT ![i] = row],
         row # Nothing =>
           /\ row \in Row
           /\ row.owner \in owners'[i] /\ i \in claims'[row.path]
  PROVE  StoreRowsOK'
<1>1. DOMAIN entries' = Ids /\ entries'[i] = row /\ \A j \in Ids \ {i} : entries'[j] = entries[j]
  BY DEF StoreInv
<1>2. ASSUME NEW j \in Ids \ {i}, entries[j] # Nothing
      PROVE  /\ entries[j] \in Row
             /\ entries[j].owner \in owners'[j] /\ j \in claims'[entries[j].path]
  <2>1. StoreRowOK(j)
    BY DEF StoreInv
  <2>2. QED
    BY <1>2, <2>1 DEF StoreRowOK, Row, StoreGrows
<1>3. \A j \in Ids : StoreRowOK(j)'
  BY <1>1, <1>2 DEF StoreRowOK, Row
<1>4. QED
  BY <1>1, <1>3 DEF StoreRowsOK

\* The flag of a row is set, or not.
LEMMA FlagChange ==
  ASSUME StoreInv, StoreGrows, NEW i \in Ids, entries[i] # Nothing, NEW b \in BOOLEAN,
         entries' = [entries EXCEPT ![i].trashed = b]
  PROVE  StoreRowsOK'
<1> DEFINE row == [entries[i] EXCEPT !.trashed = b]
<1>1. /\ entries[i] \in Row
      /\ entries[i].owner \in owners[i] /\ i \in claims[entries[i].path]
  BY DEF StoreInv, StoreRowOK, Row
<1>2. /\ row \in Row
      /\ row.owner = entries[i].owner /\ row.path = entries[i].path /\ entries[i].path \in FilePaths
  BY <1>1 DEF Row
<1>3. entries' = [entries EXCEPT ![i] = row]
  OBVIOUS
<1> HIDE DEF row
<1>4. row.owner \in owners'[i] /\ i \in claims'[row.path]
  BY <1>1, <1>2 DEF StoreGrows
<1>5. QED
  BY <1>2, <1>3, <1>4, RowsChange

\* Insert keeps the invariant.
LEMMA InsertKeeps ==
  ASSUME StoreInv, NEW r \in Slots, InsertEntry(r)
  PROVE  StoreInv'
<1> DEFINE q == requests[r]
<1>1. PICK i \in Ids, p \in FilePaths :
        /\ entries[i] = Nothing /\ owners[i] = {}
        /\ entries' = [entries EXCEPT ![i] = [path |-> p, owner |-> q.user, trashed |-> FALSE]]
        /\ claims' = [claims EXCEPT ![p] = @ \cup {i}]
        /\ owners' = [owners EXCEPT ![i] = {q.user}]
  BY DEF InsertEntry
<1>2. /\ q.pc = "insert" /\ Respond(r) /\ StoreReqOK(q)
      /\ UNCHANGED <<settings, mix, stored, attached, dispatched, purged, accesses>>
  BY DEF InsertEntry, At, StoreInv
<1>3. StoreGrows
  BY <1>1, <1>2 DEF StoreInv, StoreGrows
<1>4. StoreRowsOK'
  <2> DEFINE row == [path |-> p, owner |-> q.user, trashed |-> FALSE]
  <2>1. q.user \in Subjects \cup {Nothing}
    BY <1>2 DEF StoreReqOK, IsRequest, StoreRecords
  <2>2. /\ row \in Row
        /\ row.owner = q.user /\ row.path = p
    BY <2>1 DEF Row
  <2>3. q.user \in owners'[i] /\ i \in claims'[p]
    BY <1>1 DEF StoreInv
  <2>4. entries' = [entries EXCEPT ![i] = row]
    BY <1>1
  <2> HIDE DEF row
  <2>5. QED
    BY <1>3, <2>2, <2>3, <2>4, RowsChange
<1>5. QED
  BY <1>2, <1>3, <1>4, StoreFinishOK, StoreFilesSame, AccessesSame, Together

\* Update keeps the invariant.
LEMMA UpdateKeeps ==
  ASSUME StoreInv, NEW r \in Slots, Update(r)
  PROVE  StoreInv'
<1> DEFINE q == requests[r]
<1>1. /\ q.pc = "update" /\ Respond(r) /\ StoreReqOK(q)
      /\ UNCHANGED <<settings, mix, stored, attached, dispatched, purged>>
  BY DEF Update, At, StoreInv
<1>2. q.op = "update" /\ q.id \in Ids
  BY <1>1 DEF StoreReqOK, StoreSuits
<1>3. CASE entries[q.id] = Nothing
  <2>1. UNCHANGED <<entries, claims, owners, accesses>>
    BY <1>3 DEF Update
  <2>2. QED
    BY <1>1, <2>1, EndKeeps
<1>4. CASE entries[q.id] # Nothing
  <2>1. PICK p \in FilePaths, u \in Subjects \cup {Nothing} :
          /\ entries' = [entries EXCEPT ![q.id].path = p, ![q.id].owner = u]
          /\ claims' = [claims EXCEPT ![p] = @ \cup {q.id}]
          /\ owners' = [owners EXCEPT ![q.id] = @ \cup {u}]
          /\ accesses' = Accessed(q)
    BY <1>4 DEF Update
  <2>2. StoreGrows
    BY <1>1, <2>1 DEF StoreInv, StoreGrows
  <2>3. StoreRowsOK'
    <3> DEFINE i == q.id
               row == [entries[i] EXCEPT !.path = p, !.owner = u]
    <3>1. entries[i] \in Row
      BY <1>2, <1>4 DEF StoreInv, StoreRowOK
    <3>2. row \in Row /\ row.owner = u /\ row.path = p
      BY <3>1 DEF Row
    <3>3. entries' = [entries EXCEPT ![i] = row]
      BY <2>1
    <3>4. u \in owners'[i] /\ i \in claims'[p]
      BY <1>2, <2>1 DEF StoreInv
    <3>5. i \in Ids
      BY <1>2
    <3> HIDE DEF row, i
    <3>6. QED
      BY <2>2, <3>2, <3>3, <3>4, <3>5, RowsChange
  <2>4. AccessesOK'
    BY <1>1, <1>2, <2>1, <2>2, AccessesMore DEF Unchecked
  <2>5. QED
    BY <1>1, <2>2, <2>3, <2>4, StoreFinishOK, StoreFilesSame, Together
<1>5. QED
  BY <1>3, <1>4

\* ReadRow keeps the invariant.
LEMMA ReadRowKeeps ==
  ASSUME StoreInv, NEW r \in Slots, ReadRow(r)
  PROVE  StoreInv'
<1> DEFINE q == requests[r]
<1>1. /\ q.pc = "read" /\ Respond(r) /\ StoreReqOK(q)
      /\ UNCHANGED <<settings, mix, entries, stored, attached, dispatched, claims, purged, owners>>
      /\ \/ accesses' = accesses
         \/ settings.adminOverride /\ accesses' = Accessed(q)
  BY DEF ReadRow, At, StoreInv
<1>2. q.op = "get_one"
  BY <1>1 DEF StoreReqOK, StoreSuits
<1>3. StoreGrows
  BY <1>1, HistorySame
<1>4. AccessesOK'
  <2>1. CASE accesses' = accesses
    BY <1>3, <2>1, AccessesSame
  <2>2. CASE settings.adminOverride /\ accesses' = Accessed(q)
    BY <1>1, <1>2, <1>3, <2>2, AccessesMore DEF Unchecked
  <2>3. QED
    BY <1>1, <2>1, <2>2
<1>5. QED
  BY <1>1, <1>3, <1>4, StoreFinishOK, StoreRowsSame, StoreFilesSame, Together

\* ListRows keeps the invariant.
LEMMA ListRowsKeeps ==
  ASSUME StoreInv, NEW r \in Slots, ListRows(r)
  PROVE  StoreInv'
<1> DEFINE q == requests[r]
           shown == {i \in Ids : /\ entries[i] # Nothing /\ ~entries[i].trashed
                                 /\ settings.owned /\ q.user \notin Admins =>
                                      entries[i].owner = q.user}
<1>1. /\ q.pc = "list" /\ Respond(r)
      /\ accesses' = accesses \cup {[user |-> q.user, id |-> i, early |-> FALSE] : i \in shown}
      /\ UNCHANGED <<settings, mix, entries, stored, attached, dispatched, claims, purged, owners>>
  BY DEF ListRows, At
<1>2. StoreGrows
  BY <1>1, HistorySame
<1>3. \A i \in shown : i \in Ids /\ (settings.owned => q.user \in owners[i] \cup Admins)
  BY DEF StoreInv, StoreRowOK
<1> HIDE DEF q, shown
<1>4. \A c \in accesses' : c \in accesses \/ \E i \in shown : c.user = q.user /\ c.id = i
  BY <1>1
<1>5. AccessesOK'
  BY <1>1, <1>3, <1>4 DEF StoreInv, AccessesOK, OwnersOnly
<1>6. requests[r].pc # "idle"
  BY <1>1 DEF q
<1>7. QED
  BY <1>1, <1>2, <1>5, <1>6, StoreFinishOK, StoreRowsSame, StoreFilesSame, Together

\* SetTrashed keeps the invariant.
LEMMA SetTrashedKeeps ==
  ASSUME StoreInv, NEW r \in Slots, SetTrashed(r)
  PROVE  StoreInv'
<1> DEFINE q == requests[r]
           i == q.id
<1>1. /\ q.pc = "set_trashed" /\ Respond(r) /\ StoreReqOK(q)
      /\ UNCHANGED <<settings, mix, stored, attached, dispatched, claims, purged, owners>>
      /\ \/ entries[i] = Nothing /\ UNCHANGED <<entries, accesses>>
         \/ /\ entries[i] # Nothing /\ entries' = [entries EXCEPT ![i].trashed = TRUE]
            /\ accesses' = Accessed(q)
  BY DEF SetTrashed, At, StoreInv
<1>2. q.op = "delete" /\ i \in Ids
  BY <1>1 DEF StoreReqOK, StoreSuits
<1>3. StoreGrows
  BY <1>1, HistorySame
<1>4. CASE entries[i] = Nothing /\ UNCHANGED <<entries, accesses>>
  BY <1>1, <1>4, EndKeeps
<1>5. CASE entries[i] # Nothing /\ entries' = [entries EXCEPT ![i].trashed = TRUE] /\ accesses' = Accessed(q)
  <2>1. AccessesOK'
    BY <1>1, <1>2, <1>3, <1>5, AccessesMore DEF Unchecked
  <2>2. StoreRowsOK'
    <3> DEFINE b == TRUE
    <3>1. b \in BOOLEAN /\ entries' = [entries EXCEPT ![i].trashed = b]
      BY <1>5
    <3> HIDE DEF b, i
    <3>2. QED
      BY <1>2, <1>3, <1>5, <3>1, FlagChange
  <2>3. QED
    BY <1>1, <1>3, <2>1, <2>2, StoreFinishOK, StoreFilesSame, Together
<1>6. QED
  BY <1>1, <1>4, <1>5

\* SetRestored keeps the invariant.
LEMMA SetRestoredKeeps ==
  ASSUME StoreInv, NEW r \in Slots, SetRestored(r)
  PROVE  StoreInv'
<1> DEFINE q == requests[r]
           i == q.id
           p == "restored"
           e == StoreSetPc(q, p)
<1>1. /\ q.pc = "set_restored" /\ StoreReqOK(q) /\ requests' = [requests EXCEPT ![r] = e]
      /\ UNCHANGED <<settings, mix, stored, attached, dispatched, storeHistory>>
      /\ entries' = IF entries[i] = Nothing THEN entries ELSE [entries EXCEPT ![i].trashed = FALSE]
  BY DEF SetRestored, At, StoreInv, GoOn, StoreSetPc
<1>2. StoreGrows
  BY <1>1, HistorySame DEF storeHistory
<1>3. q.op = "restore" /\ i \in Ids
  BY <1>1 DEF StoreReqOK, StoreSuits
<1>4. StoreRowsOK'
  <2>1. CASE entries[i] = Nothing
    BY <1>1, <1>2, <2>1, StoreRowsSame
  <2>2. CASE entries[i] # Nothing
    <3> DEFINE b == FALSE
    <3>1. b \in BOOLEAN /\ entries' = [entries EXCEPT ![i].trashed = b]
      BY <1>1, <2>2
    <3> HIDE DEF b, i
    <3>2. QED
      BY <1>2, <1>3, <2>2, <3>1, FlagChange
  <2>3. QED
    BY <2>1, <2>2
<1> HIDE DEF q
<1>5. IsRequest(q) /\ p \in StoreAnyPc
  BY <1>1 DEF StoreReqOK, StoreAnyPc
<1>6. p = "restored"
  OBVIOUS
<1> HIDE DEF p
<1>7. /\ IsRequest(e) /\ e.pc = p /\ e.op = q.op /\ e.user = q.user /\ e.id = q.id
      /\ e.path = q.path /\ e.ids = q.ids /\ e.early = q.early /\ e.alone = q.alone
  BY <1>5, SetPcFields
<1> HIDE DEF e
<1>8. StoreReqOK(e)
  <2>1. StoreSuits(e)
    BY <1>1, <1>3, <1>6, <1>7 DEF StoreReqOK, StoreSuits
  <2>2. StorePoints(e) /\ MayAccess(e)
    BY <1>1, <1>3, <1>6, <1>7 DEF StoreReqOK, StorePoints, MayAccess, StoreWorking
  <2>3. Cleared(e)
    BY <1>1, <1>6, <1>7 DEF StoreReqOK, Cleared
  <2>4. QED
    BY <1>7, <2>1, <2>2, <2>3 DEF StoreReqOK
<1>9. StoreReqsOK'
  <2>1. PICK c : c = e
    OBVIOUS
  <2>2. StoreReqOK(c)'
    BY <1>1, <1>2, <1>8, <2>1, StoreWaitingOK
  <2>3. requests' = [requests EXCEPT ![r] = c] /\ requests[r].pc # "idle"
        /\ (c.alone => requests[r].alone)
    BY <1>1, <1>7, <2>1 DEF q
  <2>4. QED
    BY <1>2, <2>2, <2>3, StoreOneRequest
<1>10. QED
  BY <1>1, <1>2, <1>4, <1>9, StoreFilesSame, AccessesSame, Together DEF storeHistory

\* DeleteRow keeps the invariant.
LEMMA DeleteRowKeeps ==
  ASSUME StoreInv, NEW r \in Slots, DeleteEntry(r)
  PROVE  StoreInv'
<1> DEFINE q == requests[r]
           i == q.id
<1>1. /\ q.pc = "delete_row" /\ q.op \in {"delete", "purge"} /\ Respond(r) /\ StoreReqOK(q)
      /\ UNCHANGED <<settings, mix, stored, attached, dispatched, claims, purged, owners>>
      /\ entries' = [entries EXCEPT ![i] = Nothing]
      /\ \/ q.op = "delete" /\ accesses' = Accessed(q)
         \/ accesses' = accesses
  BY DEF DeleteEntry, At, StoreInv
<1>2. i \in Ids
  BY <1>1 DEF StoreReqOK, StoreSuits
<1>3. StoreGrows
  BY <1>1, HistorySame
<1>4. StoreRowsOK'
  <2> HIDE DEF i
  <2>1. QED
    BY <1>1, <1>2, <1>3, RowsChange
<1>5. AccessesOK'
  <2>1. CASE accesses' = accesses
    BY <1>3, <2>1, AccessesSame
  <2>2. CASE q.op = "delete" /\ accesses' = Accessed(q)
    BY <1>1, <1>3, <2>2, AccessesMore DEF Unchecked
  <2>3. QED
    BY <1>1, <2>1, <2>2
<1>6. QED
  BY <1>1, <1>3, <1>4, <1>5, StoreFinishOK, StoreFilesSame, Together

-----------------------------------------------------------------------------
\* Emptying the trash, and the content references.

\* SelectIds keeps the invariant.
LEMMA SelectIdsKeeps ==
  ASSUME StoreInv, NEW r \in Slots, SelectIds(r)
  PROVE  StoreInv'
<1> DEFINE q == requests[r]
           ids == {i \in Ids : entries[i] # Nothing /\ entries[i].trashed}
           p == "each"
           e == StoreSetIds(q, ids, p)
<1>1. /\ q.pc = "select_ids" /\ StoreReqOK(q) /\ requests' = [requests EXCEPT ![r] = e]
      /\ purged' = purged \cup ids
      /\ UNCHANGED <<settings, mix, entries, stored, attached, dispatched, claims, owners, accesses>>
  BY DEF SelectIds, At, StoreInv, StoreSetIds
<1>2. StoreGrows
  BY <1>1, HistorySame
<1>3. ids \in SUBSET Ids /\ p \in StoreAnyPc /\ p = "each"
  BY DEF StoreAnyPc
<1> HIDE DEF q, ids, p
<1>4. IsRequest(q) /\ q.op = "empty"
  BY <1>1 DEF StoreReqOK, StoreSuits
<1>5. /\ IsRequest(e) /\ e.pc = p /\ e.op = q.op /\ e.user = q.user /\ e.id = q.id
      /\ e.path = q.path /\ e.ids = ids /\ e.early = q.early /\ e.alone = q.alone
  BY <1>3, <1>4, SetIdsFields
<1> HIDE DEF e
<1>6. PICK c : c = e
  OBVIOUS
<1>7. StoreReqOK(c)'
  <2>1. IsRequest(c)'
    BY <1>5, <1>6 DEF IsRequest
  <2>2. StoreSuits(c)' /\ MayAccess(c)' /\ Cleared(c)'
    BY <1>3, <1>4, <1>5, <1>6 DEF StoreSuits, MayAccess, Cleared
  <2>3. StorePoints(c)'
    BY <1>1, <1>3, <1>4, <1>5, <1>6 DEF StorePoints, StoreWorking
  <2>4. QED
    BY <2>1, <2>2, <2>3 DEF StoreReqOK
<1>8. requests' = [requests EXCEPT ![r] = c] /\ requests[r].pc # "idle"
      /\ (c.alone => requests[r].alone)
  BY <1>1, <1>5, <1>6 DEF q
<1>9. StoreReqsOK'
  BY <1>2, <1>7, <1>8, StoreOneRequest
<1>10. QED
  BY <1>1, <1>2, <1>9, StoreRowsSame, StoreFilesSame, AccessesSame, Together

\* NextId keeps the invariant.
LEMMA NextIdKeeps ==
  ASSUME StoreInv, NEW r \in Slots, NextId(r)
  PROVE  StoreInv'
<1> DEFINE q == requests[r]
<1>1. /\ q.pc = "each" /\ StoreReqOK(q)
      /\ UNCHANGED <<settings, mix, entries, stored, attached, dispatched, storeHistory>>
  BY DEF NextId, At, StoreInv
<1>2. CASE Respond(r)
  BY <1>1, <1>2, EndKeeps DEF storeHistory
<1>3. ASSUME NEW i \in q.ids,
             requests' = [requests EXCEPT ![r].id = i, ![r].ids = @ \ {i},
                                          ![r].path = Nothing, ![r].pc = "select_path"]
      PROVE  StoreInv'
  <2> DEFINE p == "select_path"
             x == q.ids \ {i}
             n == Nothing
             e == SetId(q, i, x, n, p)
  <2>1. requests' = [requests EXCEPT ![r] = e]
    BY <1>3 DEF SetId
  <2> HIDE DEF q
  <2>2. /\ IsRequest(q) /\ q.op = "empty" /\ q.ids \in SUBSET Ids /\ q.ids \subseteq purged
    BY <1>1 DEF StoreReqOK, StoreSuits, StorePoints, IsRequest, StoreRecords
  <2>3. /\ p \in StoreAnyPc /\ p = "select_path" /\ x \in SUBSET Ids /\ x \subseteq purged
        /\ n \in FilePaths \cup {Nothing} /\ i \in Ids /\ i \in purged
    BY <1>3, <2>2 DEF StoreAnyPc
  <2> HIDE DEF p, x, n
  <2>4. /\ IsRequest(e) /\ e.pc = p /\ e.op = q.op /\ e.user = q.user /\ e.id = i
        /\ e.path = n /\ e.ids = x /\ e.early = q.early /\ e.alone = q.alone
    BY <2>2, <2>3, SetIdFields
  <2> HIDE DEF e
  <2>5. StoreReqOK(e)
    BY <2>2, <2>3, <2>4 DEF StoreReqOK, StoreSuits, StorePoints, StoreWorking, MayAccess, Cleared
  <2>6. requests[r].pc # "idle" /\ (e.alone => requests[r].alone)
    BY <1>1, <2>4 DEF q
  <2>7. QED
    BY <1>1, <2>1, <2>5, <2>6, MoveKeeps
<1>4. QED
  BY <1>2, <1>3 DEF NextId

\* DeleteTrashedRow keeps the invariant.
LEMMA DeleteTrashedRowKeeps ==
  ASSUME StoreInv, NEW r \in Slots, DeleteTrashedEntry(r)
  PROVE  StoreInv'
<1> DEFINE q == requests[r]
           i == q.id
           p == "each"
           e == StoreSetPc(q, p)
<1>1. /\ q.pc = "delete_row" /\ q.op = "empty" /\ StoreReqOK(q)
      /\ requests' = [requests EXCEPT ![r] = e]
      /\ UNCHANGED <<settings, mix, stored, attached, dispatched, storeHistory>>
      /\ entries' = entries \/ entries' = [entries EXCEPT ![i] = Nothing]
  BY DEF DeleteTrashedEntry, At, StoreInv, GoOn, StoreSetPc
<1>2. StoreGrows
  BY <1>1, HistorySame DEF storeHistory
<1>3. i \in Ids
  BY <1>1 DEF StoreReqOK, StorePoints
<1>4. StoreRowsOK'
  <2>1. CASE entries' = entries
    BY <1>2, <2>1, StoreRowsSame
  <2>2. CASE entries' = [entries EXCEPT ![i] = Nothing]
    <3> HIDE DEF i
    <3>1. QED
      BY <1>2, <1>3, <2>2, RowsChange
  <2>3. QED
    BY <1>1, <2>1, <2>2
<1> HIDE DEF q
<1>5. IsRequest(q) /\ p \in StoreAnyPc /\ p = "each"
  BY <1>1 DEF StoreReqOK, StoreAnyPc
<1> HIDE DEF p
<1>6. /\ IsRequest(e) /\ e.pc = p /\ e.op = q.op /\ e.user = q.user /\ e.id = q.id
      /\ e.path = q.path /\ e.ids = q.ids /\ e.early = q.early /\ e.alone = q.alone
  BY <1>5, SetPcFields
<1> HIDE DEF e
<1>7. StoreReqOK(e)
  BY <1>1, <1>5, <1>6 DEF StoreReqOK, StoreSuits, StorePoints, StoreWorking, MayAccess, Cleared
<1>8. StoreReqsOK'
  <2>1. PICK c : c = e
    OBVIOUS
  <2>2. StoreReqOK(c)'
    BY <1>1, <1>2, <1>7, <2>1, StoreWaitingOK
  <2>3. requests' = [requests EXCEPT ![r] = c] /\ requests[r].pc # "idle"
        /\ (c.alone => requests[r].alone)
    BY <1>1, <1>6, <2>1 DEF q
  <2>4. QED
    BY <1>2, <2>2, <2>3, StoreOneRequest
<1>9. QED
  BY <1>1, <1>2, <1>4, <1>8, StoreFilesSame, AccessesSame, Together DEF storeHistory

\* MaxOrder keeps the invariant.
LEMMA MaxOrderKeeps ==
  ASSUME StoreInv, NEW r \in Slots, MaxOrder(r)
  PROVE  StoreInv'
<1> DEFINE q == requests[r]
           p == "insert_ref"
<1>a. \E most : requests' = [requests EXCEPT ![r].order = most, ![r].pc = "insert_ref"]
  BY Zenon DEF MaxOrder
<1>b. PICK most : requests' = [requests EXCEPT ![r].order = most, ![r].pc = "insert_ref"]
  BY <1>a
<1> DEFINE e == SetOrder(q, most, p)
<1>1. /\ q.pc = "max_order" /\ StoreReqOK(q) /\ requests' = [requests EXCEPT ![r] = e]
      /\ UNCHANGED <<settings, mix, entries, stored, attached, dispatched, storeHistory>>
  BY <1>b DEF MaxOrder, At, StoreInv, SetOrder
<1> HIDE DEF q
<1>2. IsRequest(q) /\ p \in StoreAnyPc /\ p = "insert_ref"
  BY <1>1 DEF StoreReqOK, StoreAnyPc
<1> HIDE DEF p
<1>3. /\ IsRequest(e) /\ e.pc = p /\ e.op = q.op /\ e.user = q.user /\ e.id = q.id
      /\ e.path = q.path /\ e.ids = q.ids /\ e.early = q.early /\ e.alone = q.alone
  BY <1>2, SetOrderFields
<1> HIDE DEF e
<1>4. StoreReqOK(e)
  <2>1. StoreSuits(e) /\ StorePoints(e) /\ Cleared(e)
    BY <1>1, <1>2, <1>3 DEF StoreReqOK, StoreSuits, StorePoints, StoreWorking, Cleared
  <2>2. MayAccess(e)
    BY <1>1, <1>3 DEF StoreReqOK, MayAccess, Unchecked
  <2>3. QED
    BY <1>3, <2>1, <2>2 DEF StoreReqOK
<1>5. requests[r].pc # "idle" /\ (e.alone => requests[r].alone)
  BY <1>1, <1>3 DEF q
<1>6. QED
  BY <1>1, <1>4, <1>5, MoveKeeps

\* The steps that only end a request.
LEMMA StopKeeps ==
  ASSUME StoreInv, NEW r \in Slots, GiveUp(r) \/ Answer(r) \/ InsertRef(r) \/ DeleteRef(r)
  PROVE  StoreInv'
<1> DEFINE e == NoRequest
<1>1. /\ requests[r] # NoRequest /\ requests' = [requests EXCEPT ![r] = e]
      /\ UNCHANGED <<settings, mix, entries, stored, claims, purged, owners, accesses>>
  BY StoreIdleFields DEF GiveUp, Answer, InsertRef, DeleteRef, At, Respond, storeHistory
<1>2. StoreGrows
  BY <1>1, HistorySame
<1>3. StoreReqOK(e)' /\ (e.alone => requests[r].alone)
  BY StoreIdleOK, StoreIdleFields
<1> HIDE DEF e
<1>4. StoreReqsOK'
  BY <1>1, <1>2, <1>3, OneRequestUnderWay
<1>5. QED
  BY <1>1, <1>2, <1>4, StoreRowsSame, StoreFilesSame, AccessesSame, Together

-----------------------------------------------------------------------------
\* A request arrives: those under way are not alone any more.
LEMMA StoreArriveKeeps ==
  ASSUME StoreInv, NEW r \in Slots, Dispatch(r)
  PROVE  StoreInv'
<1>1. PICK op \in mix, u \in Subjects \cup {Nothing}, i \in Ids : DispatchFor(r, op, u, i)
  BY DEF Dispatch
<1> DEFINE p == FirstStep(op)
           j == IF ForOneEntry(op) THEN i ELSE Nothing
           a == \A q \in Slots \ {r} : requests[q] = NoRequest
           e == [NoRequest EXCEPT !.op = op, !.user = u, !.pc = p, !.id = j, !.alone = a]
<1>2. UNCHANGED <<settings, mix, entries, stored, attached, claims, owners, accesses>>
      /\ purged' = IF op = "purge" \/ (op = "delete" /\ ~settings.trash)
                     THEN purged \cup {i} ELSE purged
  BY <1>1 DEF DispatchFor
<1>3. StoreGrows
  BY <1>2, HistorySame
<1>4. requests' = [o \in Slots |-> IF o = r THEN e ELSE NotAlone(requests[o])]
  BY <1>1 DEF DispatchFor, NotAlone
<1>5. op \in Operations /\ a \in BOOLEAN /\ j \in Ids \cup {Nothing}
  BY DEF StoreInv
<1>6. /\ p \in StoreAnyPc /\ p \notin {"read", "update", "select_path", "owner_again", "exists", "rename",
                                 "unlink", "set_trashed", "set_restored", "restored",
                                 "delete_row", "each"}
      /\ p = "owner" => op \in {"update", "delete", "get_one"}
      /\ op \in {"update", "delete", "get_one"} => p = "owner"
      /\ p = "select_trashed" => op \in {"restore", "purge"}
      /\ p = "select_ids" => op = "empty"
  BY <1>5 DEF FirstStep, StoreAnyPc, Operations
<1>7. op \notin {"create", "list", "empty"} => j = i
  BY DEF ForOneEntry
<1> HIDE DEF p, j, a
<1>8. /\ IsRequest(e) /\ e.op = op /\ e.id = j /\ e.pc = p /\ e.ids = {} /\ e.alone = a
      /\ e.path = Nothing
  <2>1. e.op = op /\ e.id = j /\ e.pc = p /\ e.ids = {} /\ e.alone = a /\ e.path = Nothing
    BY DEF NoRequest
  <2>2. ASSUME NEW O, NEW U, NEW I, NEW C, NEW P, NEW N, NEW s \in StoreRecords(O, U, I, C, P, N),
               NEW o0 \in O, NEW u0 \in U, NEW i0 \in I, NEW c0 \in C, NEW b0 \in BOOLEAN
        PROVE  [s EXCEPT !.op = o0, !.user = u0, !.pc = c0, !.id = i0, !.alone = b0]
                 \in StoreRecords(O, U, I, C, P, N)
    BY DEF StoreRecords
  <2>3. e \in StoreRecords(Operations \cup {"none"}, Subjects \cup {Nothing}, Ids \cup {Nothing}, StoreAnyPc,
                     FilePaths \cup {Nothing}, {NoRequest.order})
    BY <1>5, <1>6, <2>2, StoreIdleFields DEF IsRequest
  <2>4. e.order = NoRequest.order
    BY DEF NoRequest
  <2>5. QED
    BY <2>1, <2>3, <2>4 DEF IsRequest
<1> HIDE DEF e
<1>9. PICK c : c = e
  OBVIOUS
<1>10. StoreReqOK(c)'
  <2>1. IsRequest(c)'
    BY <1>8, <1>9 DEF IsRequest
  <2>2. StoreSuits(c)'
    BY <1>2, <1>5, <1>6, <1>7, <1>8, <1>9 DEF StoreSuits
  <2>3. StorePoints(c)'
    BY <1>2, <1>6, <1>7, <1>8, <1>9 DEF StorePoints, StoreWorking
  <2>4. MayAccess(c)'
    BY <1>6, <1>8, <1>9 DEF MayAccess, Unchecked
  <2>5. Cleared(c)'
    BY <1>6, <1>8, <1>9 DEF Cleared
  <2>6. QED
    BY <2>1, <2>2, <2>3, <2>4, <2>5 DEF StoreReqOK
<1>11. ASSUME NEW o \in Slots \ {r}
       PROVE  StoreReqOK(requests[o])' /\ ~requests'[o].alone
  <2>1. PICK d : d = NotAlone(requests[o])
    OBVIOUS
  <2>2. PICK q : q = requests[o]
    OBVIOUS
  <2>3. StoreReqOK(q)
    BY <2>2 DEF StoreInv
  <2>4. /\ IsRequest(d) /\ d.pc = q.pc /\ d.op = q.op /\ d.user = q.user /\ d.id = q.id
        /\ d.path = q.path /\ d.ids = q.ids /\ d.early = q.early /\ d.alone = FALSE
    BY <2>1, <2>2, <2>3, NotAloneFields DEF StoreReqOK
  <2>5. StoreReqOK(d)
    BY <2>3, <2>4 DEF StoreReqOK, StoreSuits, StorePoints, MayAccess, Cleared
  <2>6. StoreReqOK(d)'
    BY <1>2, <1>3, <2>5, StoreWaitingOK
  <2>7. QED
    BY <1>4, <1>11, <2>1, <2>4, <2>6
<1>12. DOMAIN requests' = Slots /\ requests'[r] = c
  BY <1>4, <1>9
<1>13. c.alone => \A o \in Slots \ {r} : requests'[o] = NoRequest
  <2>1. NotAlone(NoRequest) = NoRequest
    <3>1. ASSUME NEW O, NEW U, NEW I, NEW C, NEW P, NEW N, NEW s \in StoreRecords(O, U, I, C, P, N),
                 s.alone = FALSE
          PROVE  [s EXCEPT !.alone = FALSE] = s
      BY <3>1 DEF StoreRecords
    <3>2. QED
      BY <3>1, StoreIdleFields DEF IsRequest, NotAlone
  <2>2. c.alone => \A o \in Slots \ {r} : requests[o] = NoRequest
    BY <1>8, <1>9 DEF a
  <2>3. QED
    BY <1>4, <2>1, <2>2
<1>14. StoreReqsOK'
  <2>1. \A o \in Slots : StoreReqOK(requests[o])'
    BY <1>10, <1>11, <1>12
  <2>2. \A o \in Slots : requests'[o].alone =>
          \A q \in Slots \ {o} : requests'[q] = NoRequest
    BY <1>11, <1>12, <1>13
  <2>3. QED
    BY <1>12, <2>1, <2>2 DEF StoreReqsOK
<1>15. QED
  BY <1>2, <1>3, <1>14, StoreRowsSame, StoreFilesSame, AccessesSame, Together

-----------------------------------------------------------------------------

\* The invariant holds at first.
LEMMA InitInv == StoreInit => StoreInv
<1> SUFFICES ASSUME StoreInit PROVE StoreInv
  OBVIOUS
<1>1. PICK u \in (Subjects \ Admins) \cup {Nothing}, p \in FilePaths, has \in SUBSET {CHOOSE i \in Ids : TRUE} :
        /\ entries = [i \in Ids |-> IF i \in has
                        THEN [path |-> p, owner |-> u, trashed |-> FALSE] ELSE Nothing]
        /\ claims = [o \in FilePaths |-> IF o = p THEN has ELSE {}]
        /\ owners = [i \in Ids |-> IF i \in has THEN {u} ELSE {}]
  BY DEF StoreInit
<1>2. /\ settings \in [trash : BOOLEAN, prefix : Prefixes, owned : BOOLEAN,
                     adminOverride : BOOLEAN]
      /\ mix \subseteq Operations
      /\ stored = [l \in Places |-> IF l[1] = "" THEN l[2] ELSE Nothing]
      /\ requests = [r \in Slots |-> NoRequest]
      /\ accesses = {}
  BY DEF StoreInit
<1>3. \A i \in Ids : StoreRowOK(i)
  <2> DEFINE row == [path |-> p, owner |-> u, trashed |-> FALSE]
  <2>1. row \in Row /\ row.path = p /\ row.owner = u
    BY DEF Row
  <2>2. \A i \in Ids : entries[i] # Nothing => entries[i] = row /\ u \in owners[i] /\ i \in claims[p]
    BY <1>1
  <2> HIDE DEF row
  <2>3. QED
    BY <2>1, <2>2 DEF StoreRowOK
<1>4. StoreFilesOK
  BY <1>2 DEF StoreFilesOK
<1>5. CataloguedFilesKept
  <2> SUFFICES ASSUME NEW o \in FilePaths PROVE \E l \in Places : stored[l] = o
    BY DEF CataloguedFilesKept
  <2>1. Live(o) \in Places /\ Live(o)[1] = "" /\ Live(o)[2] = o
    BY DEF Live, Places
  <2>2. QED
    BY <1>2, <2>1
<1>6. \A r \in Slots : requests[r] = NoRequest
  BY <1>2
<1>7. QED
  BY <1>1, <1>2, <1>3, <1>4, <1>5, <1>6, StoreIdleOK, StoreIdleFields DEF StoreInv, OwnersOnly

\* Every step keeps the invariant.
LEMMA StepInv == StoreInv /\ [StoreNext]_storeVars => StoreInv'
<1> SUFFICES ASSUME StoreInv, [StoreNext]_storeVars PROVE StoreInv'
  OBVIOUS
<1>1. CASE UNCHANGED storeVars
  <2>1. UNCHANGED <<settings, mix, entries, stored, requests, claims, purged, owners, accesses>>
    BY <1>1 DEF storeVars
  <2>2. StoreGrows
    BY <2>1, HistorySame
  <2>3. StoreReqsOK'
    <3>1. \A q : StoreReqOK(q) => StoreReqOK(q)'
      BY <2>1, <2>2, StoreWaitingOK
    <3>2. QED
      BY <2>1, <3>1 DEF StoreReqsOK, StoreInv
  <2>4. QED
    BY <2>1, <2>2, <2>3, StoreRowsSame, StoreFilesSame, AccessesSame, Together
<1>2. ASSUME NEW r \in Slots, StoreStep(r) PROVE StoreInv'
  BY <1>2, StoreArriveKeeps, StopKeeps, CheckOwnershipKeeps, ListRowsKeeps, InsertKeeps, UpdateKeeps,
     ReadRowKeeps, SelectPathKeeps, ExistsKeeps, RenameToTrashKeeps, RenameBackKeeps, StoreUnlinkKeeps,
     SetTrashedKeeps, SetRestoredKeeps, DeleteRowKeeps, SelectIdsKeeps, NextIdKeeps,
     DeleteTrashedRowKeeps, MaxOrderKeeps DEF StoreStep
<1>3. QED
  BY <1>1, <1>2 DEF StoreNext

\* The invariant always holds.
LEMMA Safety == StoreSpec => []StoreInv
BY InitInv, StepInv, PTL DEF StoreSpec

\* Where rows have owners, nobody but an owner the row has had or an admin
\* changes, deletes or reads it through the entry routes, except a row that
\* some time had no owner and a request that asked for the owner before the
\* row was there: for any number of rows, users and overlapping requests.
THEOREM OwnerSafety == StoreSpec => []OwnersOnly
<1>1. StoreInv => OwnersOnly
  BY DEF StoreInv
<1>2. QED
  BY <1>1, Safety, PTL

\* A file stays in the store, under its path or in the trash, as long as no
\* request has set out to delete for good one of the entries that named it.
THEOREM CatalogueSafety == StoreSpec => []CataloguedFilesKept
<1>1. StoreInv => CataloguedFilesKept
  BY DEF StoreInv
<1>2. QED
  BY <1>1, Safety, PTL

\* A restore that nothing overlapped leaves nothing of the entry behind in the
\* trash, whatever earlier requests were cut short.
THEOREM RestoreSafety == StoreSpec => []RestoreIsWhole
<1>1. StoreInv => RestoreIsWhole
  BY DEF StoreInv, StoreReqOK, Cleared, RestoreIsWhole, At
<1>2. QED
  BY <1>1, Safety, PTL

=============================================================================
