--------------------------- MODULE StorageProofs ----------------------------
(***************************************************************************)
(* Proofs about the storage backends: the cached token of the GCS backend, *)
(* for any number of callers and any times that satisfy TimesAssumption;   *)
(* that memory, native, S3 and GCS implement StoreContract; and that the   *)
(* methods that look agree, for any number of calls on any tree of paths.  *)
(***************************************************************************)
EXTENDS Storage, GcsToken, TLAPS

----------------------------------------------------------------------------
(* The token of the GCS backend. *)

CallerPcs == {"idle", "again", "fetch", "answer", "sent"}

TokenTypeOK ==
  /\ now \in Nat
  /\ callers \in [Callers -> [pc : CallerPcs, since : Nat, issued : Nat]]
  /\ token # NoToken => token.issued \in Nat /\ token.expires_at \in Int

\* No request is older than the timeout, and the service issued its token
\* while it was under way.
InTime ==
  \A c \in Callers :
    LET q == callers[c] IN
    /\ q.pc \in {"fetch", "answer", "sent"} => q.since <= now /\ now <= q.since + Timeout
    /\ q.pc = "answer" => q.since <= q.issued

\* The cache reckons with an end no later than that of the token, although it
\* takes the age of the answer for that of the token: the margin makes up for
\* the time the answer took.
CacheIsCautious ==
  token # NoToken => token.expires_at <= token.issued + Life

\* A token was fit for a whole request when it was sent.
SentInTime ==
  \A c \in Callers :
    callers[c].pc = "sent" => callers[c].since + Margin < callers[c].issued + Life

TokenInv == TokenTypeOK /\ InTime /\ CacheIsCautious /\ SentInTime

\* At the start nobody has asked and the cache is empty.
LEMMA TokenInitInv == TokenInit => TokenInv
  BY DEF TokenInit, TokenInv, TokenTypeOK, InTime, CacheIsCautious, SentInTime,
         NoCaller, CallerPcs

\* Every step of a caller, and the passing of time, keeps the invariant.
LEMMA TokenStepInv == TokenInv /\ [TokenNext]_tokenVars => TokenInv'
<1> SUFFICES ASSUME TokenInv, [TokenNext]_tokenVars PROVE TokenInv'
  OBVIOUS
<1>t. Life \in Nat /\ Margin \in Nat /\ Timeout \in Nat /\ Timeout <= Margin
      /\ 2 * Margin < Life
  BY TimesAssumption
<1> USE <1>t DEF TokenInv, TokenTypeOK, InTime, CacheIsCautious, SentInTime,
                 CallerPcs, CallerAt, CallerGoto, NoCaller
<1>1. CASE Tick
  BY <1>1 DEF Tick
<1>2. ASSUME NEW c \in Callers, GetToken(c) PROVE TokenInv'
  BY <1>2 DEF GetToken, Use, IsValid
<1>3. ASSUME NEW c \in Callers, DoubleCheck(c) PROVE TokenInv'
  BY <1>3 DEF DoubleCheck, Use, IsValid
<1>4. ASSUME NEW c \in Callers, Issue(c) PROVE TokenInv'
  BY <1>4 DEF Issue
<1>5. ASSUME NEW c \in Callers, Store(c) PROVE TokenInv'
  BY <1>5 DEF Store, Use, ExpiresAt
<1>6. ASSUME NEW c \in Callers, Done(c) PROVE TokenInv'
  BY <1>6 DEF Done
<1>7. CASE UNCHANGED tokenVars
  BY <1>7 DEF tokenVars
<1>8. QED
  BY <1>1, <1>2, <1>3, <1>4, <1>5, <1>6, <1>7 DEF TokenNext

\* No request of the GCS backend is sent with a token that runs out before
\* the request may: for every lifetime of a token longer than two margins, and
\* a margin no shorter than the timeout (AuthTokenCache::get_token).
THEOREM TokenSafety == TokenSpec => []TokenOutlivesRequest
<1>1. TokenInv => TokenOutlivesRequest
  BY TimesAssumption DEF TokenInv, TokenTypeOK, InTime, SentInTime,
     TokenOutlivesRequest, CallerAt
<1>2. QED
  BY <1>1, TokenInitInv, TokenStepInv, PTL DEF TokenSpec

----------------------------------------------------------------------------
(* The backends and the contract of the trait Storage. *)

Bytes == Seq(Calls \cup {"old"})

DirOps == {"create_dir", "create_dir_all", "remove_dir", "remove_dir_all"}

StorePcs == {"idle", "start", "sweep", "mkdir", "insert", "write", "truncate",
             "put", "each", "copy", "drop", "parent", "dirs", "data", "ok", "err", "tried"}

IsCall(q) ==
  q \in [op : {"none", "write", "append", "delete", "rename", "copy"} \cup DirOps,
         from : Files \cup Dirs \cup {<<>>}, to : Files \cup {<<>>},
         seen : Bytes \cup {Absent}, todo : {q.todo}, pc : StorePcs]

\* What a call is asked to do goes with what it is asked to do it to.
Asked(q) ==
  \/ q.op = "none" /\ q.pc = "idle" /\ q.from = <<>> /\ q.to = <<>>
  \/ q.op \in {"write", "append"} /\ q.from \in Files /\ q.to = <<>>
  \/ q.op = "delete" /\ q.from \in Files \cup Dirs /\ q.to = <<>>
  \/ q.op \in {"rename", "copy"} /\ q.from \in Files /\ q.to \in Files /\ q.from # q.to
  \/ q.op \in DirOps /\ q.from \in Dirs /\ q.to = <<>>

\* What a call has read is still what its source has when it goes on, unless
\* it needs no more than what it has read.
Informed(q) ==
  /\ q.pc \in {"idle", "start"} => q.seen = Absent
  /\ q.pc = "insert" \/ (q.op = "copy" /\ q.pc \in {"truncate", "write"}) =>
       q.seen # Absent
  /\ q.pc = "each" /\ backend # "gcs" =>
       \A k \in q.todo : k \in Keys /\ IsStrictPrefix(q.from, k)
  /\ q.pc = "sweep" => q.from \in Dirs
  /\ q.pc = "write" /\ q.op = "append" => objects[q.from] # Absent
  /\ q.pc = "put" => q.from \in Files /\ q.seen # Absent /\ objects[q.from] = q.seen
  /\ q.pc = "copy" => q.from \in Files /\ objects[q.from] # Absent
  /\ q.pc = "drop" => q.from \in Files /\ q.to \in Files /\ objects[q.to] = objects[q.from]

\* The steps a call of the backend goes through.
Known(q) ==
  /\ backend = "memory" => q.pc \in {"idle", "start", "sweep", "mkdir", "insert", "parent", "dirs",
                                     "data", "ok", "err"}
  /\ backend = "native" => q.pc \in {"idle", "start", "write", "truncate", "ok", "err"}

CallOK(c) ==
  /\ IsCall(calls[c])
  /\ Asked(calls[c])
  /\ Informed(calls[c])
  /\ Known(calls[c])

\* Two calls of a backend that is not atomic are not under way on one path,
\* except for appends to a native file.
ApartFrom(c, o) ==
  \/ backend = "native" /\ calls[c].op = "append" /\ calls[o].op = "append"
  \/ /\ ~Related(calls[c].from, calls[o].from) /\ ~Related(calls[c].from, calls[o].to)
     /\ ~Related(calls[c].to, calls[o].from) /\ ~Related(calls[c].to, calls[o].to)

StoreInv ==
  /\ objects \in [Keys -> Bytes \cup {Absent}]
  /\ calls = [c \in Calls |-> calls[c]]
  /\ \A c \in Calls : CallOK(c)
  /\ backend # "memory" => \A c, o \in Calls :
       c # o /\ Active(c) /\ Active(o) => ApartFrom(c, o)

\* A path is no marker, and is related to what lies in it.
LEMMA PathFacts ==
  /\ \A p \in Files \cup Dirs : p \in Keys /\ p # <<>> /\ Related(p, p)
  /\ \A p \in Files \cup Dirs, k \in Files \cup Dirs :
       IsStrictPrefix(p, k) => Related(p, k)
  /\ \A d \in Dirs : Slash(d) \in Keys /\ Slash(d) \notin Files \cup Dirs
  /\ \A d \in Dirs : DotDir(d) \in Keys /\ DotDir(d) \notin Files \cup Dirs
  /\ \A p \in Dirs : Ancestors(p) \subseteq Dirs
<1>0. NoName \notin Names
  BY DEF NoName, Names
<1>1. ASSUME NEW p \in Files \cup Dirs
      PROVE  p \in Seq(Names) /\ p # <<>> /\ Len(p) \in Nat \ {0} /\ p[Len(p)] \in Names
  BY PathsAssumption
<1>2. ASSUME NEW p \in Files \cup Dirs PROVE p \in Keys /\ p # <<>>
  BY <1>1 DEF Keys
<1>3. ASSUME NEW p \in Files \cup Dirs PROVE Related(p, p)
  BY <1>1, <1>2 DEF Related, IsPrefix
<1>4. ASSUME NEW p \in Files \cup Dirs, NEW k \in Files \cup Dirs, IsStrictPrefix(p, k)
      PROVE  Related(p, k)
  BY <1>2, <1>4 DEF Related, IsStrictPrefix
<1>5. ASSUME NEW d \in Dirs PROVE Slash(d) \in Keys /\ Slash(d) \notin Files \cup Dirs
  <2>1. Len(Slash(d)) = Len(d) + 1 /\ Slash(d)[Len(d) + 1] = NoName
    BY <1>1 DEF Slash
  <2>2. QED
    BY <2>1, <1>1, <1>0 DEF Keys
<1>6. ASSUME NEW d \in Dirs PROVE DotDir(d) \in Keys /\ DotDir(d) \notin Files \cup Dirs
  <2>1. PICK dot : dot = ".dir"
    OBVIOUS
  <2>2. DotDir(d) = d \o <<dot, NoName>>
    BY <2>1 DEF DotDir
  <2>3. d \in Seq(Names \cup {dot, NoName})
    BY <1>1
  <2>4. Len(DotDir(d)) = Len(d) + 2 /\ DotDir(d)[Len(d) + 2] = NoName
    BY <2>2, <2>3
  <2>5. QED
    BY <2>4, <1>1, <1>0 DEF Keys
<1>7. ASSUME NEW p \in Dirs, NEW e \in Ancestors(p) PROVE e \in Dirs
  <2>1. PICK i \in 1..Len(p) : e = SubSeq(p, 1, i)
    BY <1>7 DEF Ancestors
  <2>2. CASE i = Len(p)
    <3>1. p \in Seq(Names)
      BY <1>1
    <3>2. SubSeq(p, 1, Len(p)) = p
      BY <3>1
    <3>3. QED
      BY <2>1, <2>2, <3>2
  <2>3. CASE i # Len(p)
    BY <2>1, <2>3, <1>1, PathsAssumption
  <2>4. QED
    BY <2>2, <2>3
<1>8. QED
  BY <1>2, <1>3, <1>4, <1>5, <1>6, <1>7

\* At the start no call is under way.
LEMMA StoreInitInv == Init => StoreInv
<1> SUFFICES ASSUME Init PROVE StoreInv
  OBVIOUS
<1>1. objects \in [Keys -> Bytes \cup {Absent}]
  <2>1. <<"old">> \in Bytes /\ <<>> \in Bytes
    BY DEF Bytes
  <2>2. QED
    BY <2>1 DEF Init
<1>2. \A c \in Calls : calls[c] = NoCall
  BY DEF Init
<1>3. IsCall(NoCall)
  BY DEF NoCall, StorePcs, IsCall
<1>4. \A c \in Calls : CallOK(c) /\ ~Active(c)
  BY <1>2, <1>3 DEF CallOK, Asked, Informed, Known, NoCall, Active
<1>5. calls = [c \in Calls |-> calls[c]]
  BY DEF Init
<1>6. QED
  BY <1>1, <1>4, <1>5 DEF StoreInv

\* A step of a call changes no file that is not at, or below, what it is asked
\* to work on.
Within(c) == \A p \in Files \cup Dirs :
  ~Related(calls[c].from, p) /\ ~Related(calls[c].to, p) => objects'[p] = objects[p]

\* A step of a call under way, and all it may do to the others.
Advance(c) ==
  /\ backend' = backend
  /\ objects' \in [Keys -> Bytes \cup {Absent}]
  /\ calls' = [calls EXCEPT ![c] = calls'[c]]
  /\ calls'[c].op = calls[c].op
  /\ calls'[c].from = calls[c].from
  /\ calls'[c].to = calls[c].to
  /\ Active(c)
  /\ CallOK(c)'
  /\ Within(c)
  /\ calls[c].op = "append" =>
       \A p \in Files : objects[p] # Absent => objects'[p] # Absent

\* A step of one call leaves what another has learned true.
LEMMA OthersKept ==
  ASSUME StoreInv, NEW c \in Calls, Advance(c), NEW o \in Calls, o # c
  PROVE  CallOK(o)'
<1>1. calls'[o] = calls[o] /\ backend' = backend /\ CallOK(o)
  BY DEF StoreInv, Advance
<1>2. CASE ~Active(o)
  BY <1>1, <1>2 DEF CallOK, Informed, Known, Active
<1>3. CASE Active(o) /\ backend = "memory"
  BY <1>1, <1>3 DEF CallOK, Informed, Known, Active
<1>4. CASE Active(o) /\ backend # "memory"
  <2>1. ApartFrom(c, o)
    BY <1>4 DEF StoreInv, Advance
  <2>2. CASE backend = "native" /\ calls[c].op = "append" /\ calls[o].op = "append"
    <3>1. calls[o].from \in Files /\ (objects[calls[o].from] # Absent => objects'[calls[o].from] # Absent)
      BY <1>1, <2>2 DEF CallOK, Asked, DirOps, Advance
    <3>2. QED
      BY <1>1, <2>2, <3>1 DEF CallOK, Informed, Known
  <2>3. CASE /\ ~Related(calls[c].from, calls[o].from) /\ ~Related(calls[c].from, calls[o].to)
             /\ ~Related(calls[c].to, calls[o].from) /\ ~Related(calls[c].to, calls[o].to)
    <3>1. \A p \in {calls[o].from, calls[o].to} : p \in Files => objects'[p] = objects[p]
      BY <2>3 DEF Advance, Within
    <3>2. calls[o].op = "append" => calls[o].from \in Files
      BY <1>1 DEF CallOK, Asked, DirOps
    <3>3. QED
      BY <1>1, <3>1, <3>2 DEF CallOK, Informed, Known
  <2>4. QED
    BY <2>1, <2>2, <2>3 DEF ApartFrom
<1>5. QED
  BY <1>2, <1>3, <1>4

\* A step of one call keeps the invariant.
LEMMA Frame ==
  ASSUME StoreInv, NEW c \in Calls, Advance(c)
  PROVE  StoreInv'
<1>1. \A o \in Calls : CallOK(o)'
  <2> SUFFICES ASSUME NEW o \in Calls PROVE CallOK(o)'
    OBVIOUS
  <2>1. CASE o = c
    BY <2>1 DEF Advance
  <2>2. QED
    BY <2>1, OthersKept
<1>2. ASSUME NEW o \in Calls
      PROVE  /\ calls'[o].op = calls[o].op /\ calls'[o].from = calls[o].from
             /\ calls'[o].to = calls[o].to
             /\ Active(o)' => Active(o)
  <2>1. CASE o = c
    BY <2>1 DEF Advance
  <2>2. CASE o # c
    <3>1. calls'[o] = calls[o]
      BY <2>2 DEF Advance, StoreInv
    <3>2. QED
      BY <3>1 DEF Active
  <2>3. QED
    BY <2>1, <2>2
<1>3. backend' = backend
  BY DEF Advance
<1>4. (backend # "memory")' => \A x, o \in Calls :
        x # o /\ Active(x)' /\ Active(o)' => ApartFrom(x, o)'
  <2> SUFFICES ASSUME backend # "memory", NEW x \in Calls, NEW o \in Calls,
                      x # o, Active(x)', Active(o)'
               PROVE  ApartFrom(x, o)'
    BY <1>3
  <2>1. ApartFrom(x, o)
    BY <1>2 DEF StoreInv
  <2>2. QED
    BY <2>1, <1>2, <1>3 DEF ApartFrom
<1>5. (calls = [o \in Calls |-> calls[o]])' /\ (objects \in [Keys -> Bytes \cup {Absent}])'
  BY DEF Advance, StoreInv
<1>6. QED
  BY <1>1, <1>4, <1>5 DEF StoreInv

\* The data of a call is content, and so is what it makes of content.
LEMMA BytesFacts ==
  /\ <<>> \in Bytes /\ Absent \notin Bytes
  /\ \A c \in Calls : <<c>> \in Bytes
  /\ \A c \in Calls, x \in Bytes : Append(x, c) \in Bytes
  /\ \A x \in Bytes \cup {Absent} : Content(x) \in Bytes
<1>1. <<>> \in Bytes /\ Absent \notin Bytes
  BY AbsentAssumption DEF Bytes
<1>2. \A c \in Calls : <<c>> \in Bytes
  BY DEF Bytes
<1>3. \A c \in Calls, x \in Bytes : Append(x, c) \in Bytes
  BY DEF Bytes
<1>4. \A x \in Bytes \cup {Absent} : Content(x) \in Bytes
  BY <1>1 DEF Content
<1>5. QED
  BY <1>1, <1>2, <1>3, <1>4

\* Goto changes no more than how far the call is.
LEMMA Going ==
  ASSUME StoreInv, NEW c \in Calls, NEW pc \in StorePcs, Goto(c, pc)
  PROVE  /\ calls' = [calls EXCEPT ![c] = calls'[c]]
         /\ calls'[c].op = calls[c].op /\ calls'[c].from = calls[c].from
         /\ calls'[c].to = calls[c].to /\ calls'[c].seen = calls[c].seen
         /\ calls'[c].todo = calls[c].todo /\ calls'[c].pc = pc
         /\ IsCall(calls'[c])
         /\ Active(c) => Asked(calls'[c])
<1>1. IsCall(calls[c]) /\ Asked(calls[c]) /\ calls = [o \in Calls |-> calls[o]]
  BY DEF StoreInv, CallOK
<1>2. calls'[c] = [calls[c] EXCEPT !.pc = pc]
  BY <1>1 DEF Goto
<1>3. IsCall(calls'[c]) /\ calls'[c].pc = pc
      /\ calls'[c].op = calls[c].op /\ calls'[c].from = calls[c].from
      /\ calls'[c].to = calls[c].to /\ calls'[c].seen = calls[c].seen
      /\ calls'[c].todo = calls[c].todo
  BY <1>1, <1>2 DEF IsCall
<1>4. Active(c) => Asked(calls'[c])
  BY <1>1, <1>3 DEF Asked, Active
<1>5. calls' = [calls EXCEPT ![c] = calls'[c]]
  BY <1>1, <1>2 DEF Goto
<1>6. QED
  BY <1>3, <1>4, <1>5

\* A call that has ended needs to know nothing.
LEMMA Ended ==
  ASSUME StoreInv, NEW c \in Calls, Active(c), backend' = backend,
         Goto(c, "ok") \/ Goto(c, "err") \/ (Goto(c, "tried") /\ backend # "memory"
                                               /\ backend # "native")
  PROVE  /\ calls' = [calls EXCEPT ![c] = calls'[c]]
         /\ calls'[c].op = calls[c].op /\ calls'[c].from = calls[c].from
         /\ calls'[c].to = calls[c].to
         /\ CallOK(c)'
<1>1. PICK pc \in {"ok", "err", "tried"} :
        Goto(c, pc) /\ (pc = "tried" => backend # "memory" /\ backend # "native")
  OBVIOUS
<1>2. pc \in StorePcs
  BY DEF StorePcs
<1>3. /\ calls' = [calls EXCEPT ![c] = calls'[c]]
      /\ calls'[c].op = calls[c].op /\ calls'[c].from = calls[c].from
      /\ calls'[c].to = calls[c].to /\ calls'[c].pc = pc
      /\ IsCall(calls'[c]) /\ Asked(calls'[c])
  BY <1>1, <1>2, Going
<1>4. CallOK(c)'
  BY <1>1, <1>3 DEF CallOK, Informed, Known
<1>5. QED
  BY <1>3, <1>4

\* A key that a call may change.
Own(c, k) == k \in Keys /\ (k \in {calls[c].from, calls[c].to} \/ k \notin Files \cup Dirs
                            \/ IsStrictPrefix(calls[c].from, k))

\* Replacing the content of one key.
LEMMA PutKept ==
  ASSUME StoreInv, NEW c \in Calls, Active(c), NEW k, NEW x \in Bytes \cup {Absent},
         Own(c, k), Put(k, x), calls[c].op = "append" => x # Absent
  PROVE  /\ objects' \in [Keys -> Bytes \cup {Absent}]
         /\ Within(c)
         /\ calls[c].op = "append" =>
              \A p \in Files : objects[p] # Absent => objects'[p] # Absent
<1>1. objects \in [Keys -> Bytes \cup {Absent}] /\ k \in Keys
      /\ calls[c].from \in Files \cup Dirs
  BY DEF StoreInv, Own, CallOK, Asked, Active, DirOps
<1>2. objects' = [objects EXCEPT ![k] = x]
  BY DEF Put
<1>3. ASSUME NEW p \in Files \cup Dirs, p = k
      PROVE  Related(calls[c].from, p) \/ Related(calls[c].to, p)
  BY <1>1, <1>3, PathFacts DEF Own
<1>4. \A p \in Files \cup Dirs : p # k => objects'[p] = objects[p]
  BY <1>1, <1>2, PathFacts
<1>5. \A p \in Files : p \in Keys
  BY PathFacts
<1>6. QED
  BY <1>1, <1>2, <1>3, <1>4, <1>5 DEF Within

\* A call ends with its last change.
LEMMA PutEnds ==
  ASSUME StoreInv, NEW c \in Calls, Active(c), NEW k, NEW x \in Bytes \cup {Absent},
         Own(c, k), Put(k, x), calls[c].op = "append" => x # Absent,
         backend' = backend, Goto(c, "ok") \/ Goto(c, "err")
  PROVE  Advance(c)
  BY PutKept, Ended DEF Advance

\* A call goes on, or ends, and leaves the files alone.
LEMMA LookKept ==
  ASSUME StoreInv, UNCHANGED objects, NEW c \in Calls
  PROVE  /\ objects' \in [Keys -> Bytes \cup {Absent}]
         /\ Within(c)
         /\ calls[c].op = "append" =>
              \A p \in Files : objects[p] # Absent => objects'[p] # Absent
  BY DEF StoreInv, Within

\* A call may end without a change.
LEMMA LookEnds ==
  ASSUME StoreInv, NEW c \in Calls, Active(c), UNCHANGED objects, backend' = backend,
         Goto(c, "ok") \/ Goto(c, "err") \/ (Goto(c, "tried") /\ backend # "memory"
                                               /\ backend # "native")
  PROVE  Advance(c)
  BY LookKept, Ended DEF Advance

\* Removing what lies in a directory.
LEMMA EraseKept ==
  ASSUME StoreInv, NEW c \in Calls, Active(c), NEW S, Erase(S),
         \A k \in S : IsStrictPrefix(calls[c].from, k), calls[c].op # "append"
  PROVE  objects' \in [Keys -> Bytes \cup {Absent}] /\ Within(c)
<1>1. objects \in [Keys -> Bytes \cup {Absent}] /\ calls[c].from \in Files \cup Dirs
  BY DEF StoreInv, CallOK, Asked, Active, DirOps
<1>2. objects' = [k \in Keys |-> IF k \in S THEN Absent ELSE objects[k]]
  BY DEF Erase
<1>3. \A p \in Files \cup Dirs : p \in S => Related(calls[c].from, p)
  BY <1>1, PathFacts
<1>4. \A p \in Files \cup Dirs : p \notin S => objects'[p] = objects[p]
  BY <1>2, PathFacts
<1>5. QED
  BY <1>1, <1>2, <1>3, <1>4 DEF Within

\* A call remembers what it has read.
LEMMA Seeing ==
  ASSUME StoreInv, NEW c \in Calls, Active(c), NEW s \in Bytes \cup {Absent},
         NEW pc \in StorePcs,
         calls' = [calls EXCEPT ![c].seen = s, ![c].pc = pc]
  PROVE  /\ calls' = [calls EXCEPT ![c] = calls'[c]]
         /\ calls'[c].op = calls[c].op /\ calls'[c].from = calls[c].from
         /\ calls'[c].to = calls[c].to /\ calls'[c].seen = s
         /\ calls'[c].pc = pc
         /\ IsCall(calls'[c]) /\ Asked(calls'[c])
<1>1. IsCall(calls[c]) /\ Asked(calls[c]) /\ calls = [o \in Calls |-> calls[o]]
  BY DEF StoreInv, CallOK
<1>2. calls'[c] = [calls[c] EXCEPT !.seen = s, !.pc = pc]
  BY <1>1
<1>3. IsCall(calls'[c]) /\ calls'[c].pc = pc /\ calls'[c].seen = s
      /\ calls'[c].op = calls[c].op /\ calls'[c].from = calls[c].from
      /\ calls'[c].to = calls[c].to
  BY <1>1, <1>2 DEF IsCall
<1>4. Asked(calls'[c])
  BY <1>1, <1>3 DEF Asked, Active
<1>5. calls' = [calls EXCEPT ![c] = calls'[c]]
  BY <1>1, <1>2
<1>6. QED
  BY <1>3, <1>4, <1>5

Lists(c, T, pc) ==
  \/ calls' = [calls EXCEPT ![c].todo = T, ![c].pc = pc]
  \/ calls' = [calls EXCEPT ![c].todo = T] /\ pc = calls[c].pc

\* A call keeps account of the keys it works through.
LEMMA Listing ==
  ASSUME StoreInv, NEW c \in Calls, Active(c), NEW T,
         NEW pc \in StorePcs, Lists(c, T, pc)
  PROVE  /\ calls' = [calls EXCEPT ![c] = calls'[c]]
         /\ calls'[c].op = calls[c].op /\ calls'[c].from = calls[c].from
         /\ calls'[c].to = calls[c].to /\ calls'[c].seen = calls[c].seen
         /\ calls'[c].pc = pc /\ calls'[c].todo = T
         /\ IsCall(calls'[c]) /\ Asked(calls'[c])
<1>1. IsCall(calls[c]) /\ Asked(calls[c]) /\ calls = [o \in Calls |-> calls[o]]
  BY DEF StoreInv, CallOK
<1>2. \/ calls'[c] = [calls[c] EXCEPT !.todo = T, !.pc = pc]
      \/ calls'[c] = [calls[c] EXCEPT !.todo = T] /\ pc = calls[c].pc
  BY <1>1 DEF Lists
<1>3. IsCall(calls'[c]) /\ calls'[c].pc = pc /\ calls'[c].todo = T
      /\ calls'[c].op = calls[c].op /\ calls'[c].from = calls[c].from
      /\ calls'[c].to = calls[c].to /\ calls'[c].seen = calls[c].seen
  BY <1>1, <1>2 DEF IsCall
<1>4. Asked(calls'[c])
  BY <1>1, <1>3 DEF Asked, Active
<1>5. calls' = [calls EXCEPT ![c] = calls'[c]]
  BY <1>1, <1>2 DEF Lists
<1>6. QED
  BY <1>3, <1>4, <1>5

\* What a call under way is asked to work on is its own.
LEMMA OwnPaths ==
  ASSUME StoreInv, NEW c \in Calls, Active(c)
  PROVE  /\ Own(c, calls[c].from) /\ calls[c].from \in Files \cup Dirs
         /\ objects[calls[c].from] \in Bytes \cup {Absent}
         /\ calls[c].seen \in Bytes \cup {Absent}
         /\ calls[c].op \in {"rename", "copy"} =>
              /\ calls[c].from \in Files /\ calls[c].to \in Files
              /\ calls[c].from # calls[c].to /\ Own(c, calls[c].to)
         /\ calls[c].op \in {"write", "append"} => calls[c].from \in Files
         /\ calls[c].op \in DirOps => calls[c].from \in Dirs
         /\ \A d \in Dirs : Own(c, Slash(d)) /\ Own(c, DotDir(d))
<1>1. /\ calls[c].from \in Files \cup Dirs /\ IsCall(calls[c])
      /\ objects \in [Keys -> Bytes \cup {Absent}]
      /\ calls[c].op \in {"rename", "copy"} =>
           calls[c].from \in Files /\ calls[c].to \in Files /\ calls[c].from # calls[c].to
  BY DEF StoreInv, CallOK, Asked, Active, DirOps
<1>2. /\ calls[c].op \in {"write", "append"} => calls[c].from \in Files
      /\ calls[c].op \in DirOps => calls[c].from \in Dirs
  BY DEF StoreInv, CallOK, Asked, Active, DirOps
<1>3. calls[c].seen \in Bytes \cup {Absent}
  BY <1>1 DEF IsCall
<1>4. QED
  BY <1>1, <1>2, <1>3, PathFacts DEF Own

\* Where a backend has content: at the paths of files, and at its markers.
Place == Files \cup
  (IF backend \in {"s3", "azure"} THEN {Slash(d) : d \in Dirs}
   ELSE IF backend = "gcs" THEN {DotDir(d) : d \in Dirs} ELSE {})

Typed(q) ==
  q \in [op : {q.op}, from : {q.from}, to : {q.to}, seen : {q.seen}, todo : {q.todo},
         pc : {q.pc}]

PlaceInv ==
  /\ backend \in {"memory", "native"} \cup Cloud
  /\ objects = [k \in Keys |-> objects[k]]
  /\ \A k \in Keys : objects[k] # Absent => k \in Place
  /\ dirs \subseteq Dirs
  /\ backend \in Cloud => dirs = {}
  /\ calls = [c \in Calls |-> calls[c]]
  /\ \A c \in Calls : Typed(calls[c]) /\ Asked(calls[c])
  /\ \A c \in Calls : calls[c].op = "delete" /\ calls[c].from \in Dirs => backend = "memory"

MemoryStep(c) ==
  \/ MemoryWrite(c) \/ MemoryAppend(c) \/ MemoryDelete(c)
  \/ MemoryDeleteDirs(c) \/ MemoryDeleteSweep(c) \/ MemoryCreateDirCheck(c)
  \/ MemoryCreateDirLock(c) \/ MemoryCreateDirParent(c) \/ MemoryCreateDir(c)
  \/ MemoryCreateDirAll(c) \/ MemoryRemoveLock(c) \/ MemoryRemoveDir(c)
  \/ MemoryRemoveDirAll(c) \/ MemoryRenameLock(c) \/ MemoryRename(c)
  \/ MemoryCopyRead(c) \/ MemoryCopyInsert(c)

\* What a call of the memory backend awaits next.
Awaits == {"mkdir", "sweep", "parent", "dirs", "data"}

\* Going on to a step for which a call needs to know nothing.
LEMMA GoneOn ==
  ASSUME StoreInv, NEW c \in Calls, Active(c), backend' = backend,
         backend = "memory", NEW pc \in Awaits, Goto(c, pc), UNCHANGED objects,
         pc = "sweep" => calls[c].from \in Dirs
  PROVE  Advance(c)
<1>1. Goto(c, pc) /\ backend = "memory"
  OBVIOUS
<1>2. pc \in StorePcs
  BY DEF StorePcs, Awaits
<1>3. /\ calls' = [calls EXCEPT ![c] = calls'[c]]
      /\ calls'[c].op = calls[c].op /\ calls'[c].from = calls[c].from
      /\ calls'[c].to = calls[c].to /\ calls'[c].pc = pc
      /\ IsCall(calls'[c]) /\ Asked(calls'[c])
  BY <1>1, <1>2, Going
<1>4. CallOK(c)'
  BY <1>1, <1>3 DEF CallOK, Informed, Known, Awaits
<1>5. QED
  BY <1>3, <1>4, LookKept DEF Advance

\* A rename under its locks, or in one system call.
LEMMA Moved ==
  ASSUME StoreInv, NEW c \in Calls, Active(c), calls[c].op = "rename",
         objects' = [objects EXCEPT ![calls[c].to] = objects[calls[c].from],
                                    ![calls[c].from] = Absent],
         backend' = backend, Goto(c, "ok")
  PROVE  Advance(c)
<1>1. calls[c].from \in Files /\ calls[c].to \in Files
      /\ objects \in [Keys -> Bytes \cup {Absent}]
  BY OwnPaths DEF StoreInv
<1>2. calls[c].from \in Keys /\ calls[c].to \in Keys
  BY <1>1, PathFacts
<1>3. objects' \in [Keys -> Bytes \cup {Absent}]
  BY <1>1, <1>2
<1>4. Within(c)
  BY <1>1, <1>2, PathFacts DEF Within
<1>5. QED
  BY <1>3, <1>4, Ended DEF Advance

\* Every step of a call of the memory backend is such a step.
LEMMA MemoryAdvance ==
  ASSUME StoreInv, PlaceInv, NEW c \in Calls, MemoryStep(c) PROVE Advance(c)
<1> USE DEF At
<1>1. CASE MemoryWrite(c)
  BY <1>1, PutEnds, OwnPaths, BytesFacts DEF MemoryWrite, Active
<1>2. CASE MemoryAppend(c)
  BY <1>2, PutEnds, OwnPaths, BytesFacts DEF MemoryAppend, Active
<1>3. CASE MemoryDelete(c)
  <2>1. Active(c) /\ backend' = backend /\ backend = "memory" /\ calls[c].op = "delete"
    BY <1>3 DEF MemoryDelete, Active, Refuse
  <2>2. CASE Put(calls[c].from, Absent) /\ Goto(c, "ok")
    BY <2>1, <2>2, PutEnds, OwnPaths
  <2>3. CASE Goto(c, "dirs") /\ UNCHANGED objects
    BY <2>1, <2>3, GoneOn DEF Awaits
  <2>4. QED
    BY <1>3, <2>2, <2>3 DEF MemoryDelete
<1>d. CASE MemoryDeleteDirs(c)
  <2>1. Active(c) /\ backend' = backend /\ backend = "memory" /\ UNCHANGED objects
    BY <1>d DEF MemoryDeleteDirs, Active, Refuse
  <2>2. CASE Goto(c, "sweep") /\ calls[c].from \in dirs
    <3>1. calls[c].from \in Dirs
      BY <2>2 DEF PlaceInv
    <3>2. QED
      BY <2>1, <2>2, <3>1, GoneOn DEF Awaits
  <2>3. CASE Refuse(c)
    BY <2>1, <2>3, LookEnds DEF Refuse
  <2>4. QED
    BY <1>d, <2>2, <2>3 DEF MemoryDeleteDirs
<1>4. CASE MemoryDeleteSweep(c)
  <2>1. Active(c) /\ calls[c].op = "delete" /\ Erase(Below(calls[c].from))
        /\ backend' = backend /\ Goto(c, "ok")
    BY <1>4 DEF MemoryDeleteSweep, Active
  <2>2. objects' \in [Keys -> Bytes \cup {Absent}] /\ Within(c)
    BY <2>1, EraseKept DEF Below
  <2>3. QED
    BY <2>1, <2>2, Ended DEF Advance
<1>5. CASE MemoryCreateDirCheck(c) \/ MemoryCreateDirLock(c) \/ MemoryCreateDirParent(c)
           \/ MemoryRemoveLock(c) \/ MemoryRenameLock(c)
  <2>1. Active(c) /\ backend' = backend /\ backend = "memory" /\ UNCHANGED objects
    BY <1>5 DEF MemoryCreateDirCheck, MemoryCreateDirLock, MemoryCreateDirParent,
       MemoryRemoveLock, MemoryRenameLock, Active
  <2>2. Goto(c, "err") \/ \E pc \in Awaits : pc # "sweep" /\ Goto(c, pc)
    BY <1>5 DEF MemoryCreateDirCheck, MemoryCreateDirLock, MemoryCreateDirParent,
       MemoryRemoveLock, MemoryRenameLock, Awaits
  <2>3. QED
    BY <2>1, <2>2, GoneOn, LookEnds
<1>6. CASE MemoryCreateDir(c)
  BY <1>6, LookEnds DEF MemoryCreateDir, Active
<1>7. CASE MemoryCreateDirAll(c)
  BY <1>7, LookEnds DEF MemoryCreateDirAll, Active
<1>8. CASE MemoryRemoveDir(c)
  BY <1>8, LookEnds DEF MemoryRemoveDir, Active, Refuse
<1>9. CASE MemoryRemoveDirAll(c)
  <2>1. Active(c) /\ calls[c].op = "remove_dir_all" /\ Erase(Below(calls[c].from))
        /\ backend' = backend /\ Goto(c, "ok")
    BY <1>9 DEF MemoryRemoveDirAll, Active
  <2>2. objects' \in [Keys -> Bytes \cup {Absent}] /\ Within(c)
    BY <2>1, EraseKept DEF Below
  <2>3. QED
    BY <2>1, <2>2, Ended DEF Advance
<1>10. CASE MemoryRename(c)
  BY <1>10, Moved, LookEnds DEF MemoryRename, Active, Refuse
<1>11. CASE MemoryCopyRead(c)
  <2>1. Active(c) /\ UNCHANGED <<backend, objects>> /\ backend = "memory"
    BY <1>11 DEF MemoryCopyRead, Active
  <2>2. PICK s : s = objects[calls[c].from]
    OBVIOUS
  <2>3. PICK pc \in {"err", "insert"} : pc = IF s = Absent THEN "err" ELSE "insert"
    OBVIOUS
  <2>4. calls' = [calls EXCEPT ![c].seen = s, ![c].pc = pc]
    BY <1>11, <2>2, <2>3 DEF MemoryCopyRead
  <2>5. s \in Bytes \cup {Absent} /\ pc \in StorePcs
    BY <2>1, <2>2, OwnPaths DEF StorePcs
  <2>6. /\ calls' = [calls EXCEPT ![c] = calls'[c]]
        /\ calls'[c].op = calls[c].op /\ calls'[c].from = calls[c].from
        /\ calls'[c].to = calls[c].to /\ calls'[c].seen = s
        /\ calls'[c].pc = pc
        /\ IsCall(calls'[c]) /\ Asked(calls'[c])
    BY <2>1, <2>4, <2>5, Seeing
  <2>7. CallOK(c)'
    BY <2>1, <2>3, <2>6 DEF CallOK, Informed, Known
  <2>8. QED
    BY <2>1, <2>6, <2>7, LookKept DEF Advance
<1>12. CASE MemoryCopyInsert(c)
  <2>1. Active(c) /\ calls[c].op = "copy"
    BY <1>12 DEF MemoryCopyInsert, Active
  <2>2. QED
    BY <1>12, <2>1, PutEnds, OwnPaths, BytesFacts DEF MemoryCopyInsert
<1>13. QED
  BY <1>1, <1>2, <1>3, <1>d, <1>4, <1>5, <1>6, <1>7, <1>8, <1>9, <1>10, <1>11, <1>12
     DEF MemoryStep

NativeStep(c) ==
  \/ NativeTruncate(c) \/ NativeWrite(c) \/ NativeAppendOpen(c)
  \/ NativeAppend(c) \/ NativeDelete(c) \/ NativeCreateDir(c)
  \/ NativeCreateDirAll(c) \/ NativeRemoveDir(c) \/ NativeRemoveDirAll(c)
  \/ NativeRename(c) \/ NativeCopyOpen(c) \/ NativeCopyTruncate(c)
  \/ NativeCopy(c)

\* A native call opens its target: a write or a copy empties it, an append
\* leaves or creates it.
LEMMA Opened ==
  ASSUME StoreInv, NEW c \in Calls, Active(c), backend' = backend, backend = "native",
         calls[c].op \in {"write", "append", "copy"},
         calls[c].op = "copy" => calls[c].seen # Absent,
         NEW k, NEW x \in Bytes,
         k = IF calls[c].op = "copy" THEN calls[c].to ELSE calls[c].from,
         Put(k, x), Goto(c, "write")
  PROVE  Advance(c)
<1>1. PICK pc \in StorePcs : pc = "write"
  BY DEF StorePcs
<1>2. /\ calls' = [calls EXCEPT ![c] = calls'[c]]
      /\ calls'[c].op = calls[c].op /\ calls'[c].from = calls[c].from
      /\ calls'[c].to = calls[c].to /\ calls'[c].pc = pc /\ calls'[c].seen = calls[c].seen
      /\ IsCall(calls'[c]) /\ Asked(calls'[c])
  BY <1>1, Going
<1>3. Own(c, k) /\ k \in Keys /\ x # Absent
  BY OwnPaths, BytesFacts DEF Own
<1>4. /\ objects' \in [Keys -> Bytes \cup {Absent}]
      /\ Within(c)
      /\ calls[c].op = "append" =>
           \A p \in Files : objects[p] # Absent => objects'[p] # Absent
  BY <1>3, PutKept
<1>5. objects'[k] = x
  BY <1>3 DEF Put, StoreInv
<1>6. CallOK(c)'
  BY <1>1, <1>2, <1>3, <1>5 DEF CallOK, Informed, Known
<1>7. QED
  BY <1>2, <1>4, <1>6 DEF Advance

\* Every step of a native call is such a step.
LEMMA NativeAdvance ==
  ASSUME StoreInv, NEW c \in Calls, NativeStep(c) PROVE Advance(c)
<1> USE DEF At
<1>1. CASE NativeTruncate(c)
  BY <1>1, Opened, LookEnds, BytesFacts DEF NativeTruncate, Active, Refuse
<1>2. CASE NativeWrite(c)
  BY <1>2, PutEnds, OwnPaths, BytesFacts DEF NativeWrite, Active
<1>3. CASE NativeAppendOpen(c)
  <2>1. Active(c) /\ backend' = backend /\ backend = "native" /\ calls[c].op = "append"
    BY <1>3 DEF NativeAppendOpen, Active, Refuse
  <2>2. CASE Put(calls[c].from, Content(objects[calls[c].from])) /\ Goto(c, "write")
    <3>1. PICK x : x = Content(objects[calls[c].from])
      OBVIOUS
    <3>2. x \in Bytes
      BY <2>1, <3>1, OwnPaths, BytesFacts
    <3>3. QED
      BY <2>1, <2>2, <3>1, <3>2, Opened
  <2>3. CASE Refuse(c)
    BY <2>1, <2>3, LookEnds DEF Refuse
  <2>4. QED
    BY <1>3, <2>2, <2>3 DEF NativeAppendOpen
<1>4. CASE NativeAppend(c)
  <2>1. Active(c) /\ calls[c].op = "append" /\ calls[c].pc = "write"
    BY <1>4 DEF NativeAppend, Active
  <2>2. objects[calls[c].from] # Absent
    BY <2>1 DEF StoreInv, CallOK, Informed
  <2>3. PICK x : x = Append(objects[calls[c].from], c)
    OBVIOUS
  <2>4. x \in Bytes /\ x # Absent
    BY <2>1, <2>2, <2>3, OwnPaths, BytesFacts
  <2>5. QED
    BY <1>4, <2>1, <2>3, <2>4, PutEnds, OwnPaths DEF NativeAppend
<1>5. CASE NativeDelete(c)
  BY <1>5, PutEnds, LookEnds, OwnPaths DEF NativeDelete, Active, Refuse
<1>6. CASE NativeCreateDir(c)
  BY <1>6, LookEnds DEF NativeCreateDir, Active, Refuse
<1>7. CASE NativeCreateDirAll(c)
  BY <1>7, LookEnds DEF NativeCreateDirAll, Active
<1>8. CASE NativeRemoveDir(c)
  BY <1>8, LookEnds DEF NativeRemoveDir, Active, Refuse
<1>9. CASE NativeRemoveDirAll(c)
  <2>1. Active(c) /\ calls[c].op = "remove_dir_all" /\ calls[c].pc = "start"
        /\ backend' = backend
    BY <1>9 DEF NativeRemoveDirAll, Active, Refuse
  <2>2. CASE Goto(c, "err") /\ UNCHANGED objects
    BY <2>1, <2>2, LookEnds
  <2>3. CASE UNCHANGED calls /\ \E k \in Below(calls[c].from) : Put(k, Absent)
    <3>1. PICK k \in Below(calls[c].from) : Put(k, Absent)
      BY <2>3
    <3>2. Own(c, k)
      BY DEF Own, Below
    <3>3. objects' \in [Keys -> Bytes \cup {Absent}] /\ Within(c)
      BY <2>1, <3>1, <3>2, PutKept
    <3>4. CallOK(c)' /\ calls = [o \in Calls |-> calls[o]]
      BY <2>1, <2>3 DEF CallOK, Informed, Known, StoreInv
    <3>5. calls' = [calls EXCEPT ![c] = calls'[c]]
      BY <2>3, <3>4
    <3>6. QED
      BY <2>1, <2>3, <3>3, <3>4, <3>5 DEF Advance
  <2>4. CASE Goto(c, "ok") /\ UNCHANGED objects
    BY <2>1, <2>4, LookEnds
  <2>5. QED
    BY <1>9, <2>2, <2>3, <2>4 DEF NativeRemoveDirAll, Refuse
<1>10. CASE NativeRename(c)
  BY <1>10, Moved, LookEnds DEF NativeRename, Active, Refuse
<1>11. CASE NativeCopyOpen(c)
  <2>1. Active(c) /\ UNCHANGED <<backend, objects>> /\ backend = "native"
        /\ calls[c].op = "copy"
    BY <1>11 DEF NativeCopyOpen, Active
  <2>2. CASE Goto(c, "err")
    BY <2>1, <2>2, LookEnds
  <2>3. CASE /\ objects[calls[c].from] # Absent
             /\ calls' = [calls EXCEPT ![c].seen = objects[calls[c].from],
                                       ![c].pc = "truncate"]
    <3>1. PICK s, pc : s = objects[calls[c].from] /\ pc = "truncate"
      OBVIOUS
    <3>2. s \in Bytes \cup {Absent} /\ pc \in StorePcs /\ s # Absent
      BY <2>1, <2>3, <3>1, OwnPaths DEF StorePcs
    <3>3. calls' = [calls EXCEPT ![c].seen = s, ![c].pc = pc]
      BY <2>3, <3>1
    <3>4. /\ calls' = [calls EXCEPT ![c] = calls'[c]]
          /\ calls'[c].op = calls[c].op /\ calls'[c].from = calls[c].from
          /\ calls'[c].to = calls[c].to /\ calls'[c].seen = s
          /\ calls'[c].pc = pc
          /\ IsCall(calls'[c]) /\ Asked(calls'[c])
      BY <2>1, <3>2, <3>3, Seeing
    <3>5. CallOK(c)'
      BY <2>1, <3>1, <3>2, <3>4 DEF CallOK, Informed, Known
    <3>6. QED
      BY <2>1, <3>4, <3>5, LookKept DEF Advance
  <2>4. QED
    BY <1>11, <2>2, <2>3 DEF NativeCopyOpen
<1>12. CASE NativeCopyTruncate(c)
  <2>1. Active(c) /\ calls[c].op = "copy" /\ calls[c].pc = "truncate"
    BY <1>12 DEF NativeCopyTruncate, Active
  <2>2. calls[c].seen # Absent
    BY <2>1 DEF StoreInv, CallOK, Informed
  <2>3. QED
    BY <1>12, <2>1, <2>2, Opened, BytesFacts DEF NativeCopyTruncate
<1>13. CASE NativeCopy(c)
  BY <1>13, PutEnds, OwnPaths DEF NativeCopy, Active
<1>14. QED
  BY <1>1, <1>2, <1>3, <1>4, <1>5, <1>6, <1>7, <1>8, <1>9, <1>10, <1>11, <1>12,
     <1>13 DEF NativeStep

S3Step(c) ==
  \/ S3Write(c) \/ S3AppendRead(c) \/ S3AppendWrite(c) \/ S3Delete(c)
  \/ S3CreateDir(c) \/ S3CreateDirAll(c) \/ S3RemoveDir(c)
  \/ S3RemoveDirAllList(c) \/ S3RemoveDirAllDelete(c) \/ S3CopyHead(c)
  \/ S3Copy(c)

GcsStep(c) ==
  \/ GcsWrite(c) \/ GcsAppendRead(c) \/ GcsAppendWrite(c) \/ GcsDelete(c)
  \/ GcsCreateDir(c) \/ GcsCreateDirAll(c) \/ GcsRemoveDir(c)
  \/ GcsRemoveDirAllList(c) \/ GcsRemoveDirAllDelete(c) \/ GcsCopy(c)

\* The read of an append to an object.
LEMMA AppendRead ==
  ASSUME StoreInv, NEW c \in Calls, Active(c), backend \in {"s3", "gcs"},
         calls[c].op = "append", UNCHANGED <<backend, objects>>,
         NEW s, NEW pc, calls' = [calls EXCEPT ![c].seen = s, ![c].pc = pc],
         \/ s = Absent /\ pc = "err"
         \/ s # Absent /\ s = objects[calls[c].from] /\ pc = "put"
  PROVE  Advance(c)
<1>1. s \in Bytes \cup {Absent} /\ pc \in StorePcs /\ calls[c].from \in Files
  BY OwnPaths DEF StorePcs
<1>2. /\ calls' = [calls EXCEPT ![c] = calls'[c]]
      /\ calls'[c].op = calls[c].op /\ calls'[c].from = calls[c].from
      /\ calls'[c].to = calls[c].to /\ calls'[c].seen = s
      /\ calls'[c].pc = pc
      /\ IsCall(calls'[c]) /\ Asked(calls'[c])
  BY <1>1, Seeing
<1>3. CallOK(c)'
  BY <1>1, <1>2 DEF CallOK, Informed, Known
<1>4. QED
  BY <1>2, <1>3, LookKept DEF Advance

\* The write of an append to an object.
LEMMA AppendWrite ==
  ASSUME StoreInv, NEW c \in Calls, Active(c), calls[c].op = "append",
         calls[c].pc = "put", backend' = backend,
         Put(calls[c].from, Append(calls[c].seen, c)), Goto(c, "ok")
  PROVE  Advance(c)
<1>1. PICK x : x = Append(calls[c].seen, c)
  OBVIOUS
<1>2. calls[c].seen \in Bytes
  BY OwnPaths DEF StoreInv, CallOK, Informed
<1>3. x \in Bytes /\ x # Absent
  BY <1>1, <1>2, BytesFacts
<1>4. QED
  BY <1>1, <1>3, PutEnds, OwnPaths

Ticks(c, d) == calls' = [calls EXCEPT ![c].todo = @ \cup {d}]

\* One marker of those a call makes.
LEMMA MarkerPut ==
  ASSUME StoreInv, NEW c \in Calls, Active(c), calls[c].op = "create_dir_all",
         calls[c].pc = "start", backend \in {"s3", "gcs"}, backend' = backend,
         NEW d \in Dirs, Ticks(c, d),
         Put(Slash(d), <<>>) \/ Put(DotDir(d), <<>>) \/ UNCHANGED objects
  PROVE  Advance(c)
<1>1. PICK T : T = calls[c].todo \cup {d}
  OBVIOUS
<1>2. IsCall(calls[c]) /\ calls[c].pc \in StorePcs
  BY <1>1 DEF StoreInv, CallOK, IsCall, StorePcs
<1>p. PICK pc : pc = calls[c].pc
  OBVIOUS
<1>3. Lists(c, T, pc) /\ pc \in StorePcs
  BY <1>1, <1>2, <1>p DEF StoreInv, Lists, Ticks
<1>4. /\ calls' = [calls EXCEPT ![c] = calls'[c]]
      /\ calls'[c].op = calls[c].op /\ calls'[c].from = calls[c].from
      /\ calls'[c].to = calls[c].to /\ calls'[c].seen = calls[c].seen
      /\ calls'[c].pc = pc
      /\ IsCall(calls'[c]) /\ Asked(calls'[c])
  BY <1>2, <1>3, Listing
<1>5. CallOK(c)'
  BY <1>p, <1>4 DEF StoreInv, CallOK, Informed, Known
<1>6. objects' \in [Keys -> Bytes \cup {Absent}] /\ Within(c)
  BY PutKept, LookKept, OwnPaths, BytesFacts
<1>7. QED
  BY <1>4, <1>5, <1>6 DEF Advance

\* Going on to the copy, or from the copy to the delete of a rename.
LEMMA Copied ==
  ASSUME StoreInv, NEW c \in Calls, Active(c), backend \in {"s3", "gcs"},
         backend' = backend, calls[c].op \in {"copy", "rename"},
         \/ /\ Goto(c, "copy") /\ UNCHANGED objects
            /\ objects[calls[c].from] # Absent
         \/ /\ Put(calls[c].to, objects[calls[c].from])
            /\ Goto(c, IF calls[c].op = "rename" THEN "drop" ELSE "ok")
  PROVE  Advance(c)
<1>0. PICK pc : /\ Goto(c, pc)
                /\ \/ pc = "copy" /\ UNCHANGED objects /\ objects[calls[c].from] # Absent
                   \/ /\ Put(calls[c].to, objects[calls[c].from])
                      /\ pc = IF calls[c].op = "rename" THEN "drop" ELSE "ok"
  OBVIOUS
<1>1. pc \in StorePcs
  BY <1>0 DEF StorePcs
<1>2. /\ calls' = [calls EXCEPT ![c] = calls'[c]]
      /\ calls'[c].op = calls[c].op /\ calls'[c].from = calls[c].from
      /\ calls'[c].to = calls[c].to /\ calls'[c].seen = calls[c].seen
      /\ calls'[c].pc = pc
      /\ IsCall(calls'[c]) /\ Asked(calls'[c])
  BY <1>0, <1>1, Going
<1>3. PICK x : x = objects[calls[c].from]
  OBVIOUS
<1>4. /\ calls[c].from \in Files /\ calls[c].to \in Files /\ calls[c].from # calls[c].to
      /\ Own(c, calls[c].to) /\ x \in Bytes \cup {Absent}
      /\ calls[c].from \in Keys /\ calls[c].to \in Keys
  BY <1>3, OwnPaths, PathFacts
<1>5. objects' \in [Keys -> Bytes \cup {Absent}] /\ Within(c)
  BY <1>0, <1>3, <1>4, PutKept, LookKept
<1>6. pc = "drop" => objects'[calls[c].to] = objects'[calls[c].from]
  BY <1>0, <1>4 DEF Put, StoreInv
<1>7. CallOK(c)'
  BY <1>0, <1>2, <1>4, <1>6 DEF CallOK, Informed, Known
<1>8. QED
  BY <1>2, <1>5, <1>7 DEF Advance

\* Every step of a call of the S3 backend is such a step.
LEMMA S3Advance ==
  ASSUME StoreInv, NEW c \in Calls, S3Step(c) PROVE Advance(c)
<1> USE DEF At
<1>1. CASE S3Write(c)
  BY <1>1, PutEnds, OwnPaths, BytesFacts DEF S3Write, Active
<1>2. CASE S3AppendRead(c)
  <2>1. PICK s, pc : /\ s = objects[calls[c].from]
                     /\ pc = IF s = Absent THEN "err" ELSE "put"
    OBVIOUS
  <2>2. calls' = [calls EXCEPT ![c].seen = s, ![c].pc = pc]
    BY <1>2, <2>1 DEF S3AppendRead, S3Read
  <2>3. QED
    BY <1>2, <2>1, <2>2, AppendRead DEF S3AppendRead, Active
<1>3. CASE S3AppendWrite(c)
  BY <1>3, AppendWrite DEF S3AppendWrite, Active
<1>4. CASE S3Delete(c)
  BY <1>4, PutEnds, OwnPaths DEF S3Delete, Active
<1>5. CASE S3CreateDir(c)
  BY <1>5, PutEnds, OwnPaths, BytesFacts DEF S3CreateDir, Active, DirOps
<1>6. CASE S3CreateDirAll(c)
  <2>1. Active(c) /\ calls[c].op = "create_dir_all" /\ calls[c].pc = "start"
        /\ backend = "s3" /\ backend' = backend
    BY <1>6 DEF S3CreateDirAll, Active
  <2>2. CASE Goto(c, "ok") /\ UNCHANGED objects
    BY <2>1, <2>2, LookEnds
  <2>3. CASE \E d \in Ancestors(calls[c].from) :
               /\ Put(Slash(d), <<>>) \/ UNCHANGED objects
               /\ calls' = [calls EXCEPT ![c].todo = @ \cup {d}]
    BY <2>1, <2>3, MarkerPut, OwnPaths, PathFacts DEF DirOps, Ticks
  <2>4. QED
    BY <1>6, <2>2, <2>3 DEF S3CreateDirAll
<1>7. CASE S3RemoveDir(c)
  BY <1>7, PutEnds, LookEnds, OwnPaths DEF S3RemoveDir, Active, Refuse, DirOps
<1>8. CASE S3RemoveDirAllList(c)
  <2>1. Active(c) /\ backend = "s3" /\ UNCHANGED <<backend, objects>>
        /\ calls[c].op = "remove_dir_all"
    BY <1>8 DEF S3RemoveDirAllList, Active
  <2>2. PICK T, pc : T = Below(calls[c].from) /\ pc = "each"
    OBVIOUS
  <2>3. /\ pc \in StorePcs
        /\ \A k \in T : k \in Keys /\ IsStrictPrefix(calls[c].from, k)
    BY <2>2 DEF Below, StorePcs
  <2>4. Lists(c, T, pc)
    BY <1>8, <2>2 DEF S3RemoveDirAllList, Lists
  <2>5. /\ calls' = [calls EXCEPT ![c] = calls'[c]]
        /\ calls'[c].op = calls[c].op /\ calls'[c].from = calls[c].from
        /\ calls'[c].to = calls[c].to
        /\ calls'[c].pc = pc /\ calls'[c].todo = T
        /\ IsCall(calls'[c]) /\ Asked(calls'[c])
    BY <2>1, <2>3, <2>4, Listing
  <2>6. CallOK(c)'
    BY <2>1, <2>2, <2>3, <2>5 DEF CallOK, Informed, Known
  <2>7. QED
    BY <2>1, <2>5, <2>6, LookKept DEF Advance
<1>9. CASE S3RemoveDirAllDelete(c)
  <2>1. Active(c) /\ backend = "s3" /\ backend' = backend
        /\ calls[c].op = "remove_dir_all" /\ calls[c].pc = "each"
    BY <1>9 DEF S3RemoveDirAllDelete, Active
  <2>2. CASE Goto(c, "tried") /\ UNCHANGED objects
    BY <2>1, <2>2, LookEnds
  <2>3. CASE \E k \in calls[c].todo :
               /\ Put(k, Absent) \/ UNCHANGED objects
               /\ calls' = [calls EXCEPT ![c].todo = @ \ {k}]
    <3>1. PICK k \in calls[c].todo :
                 /\ Put(k, Absent) \/ UNCHANGED objects
                 /\ calls' = [calls EXCEPT ![c].todo = @ \ {k}]
      BY <2>3
    <3>2. PICK T : T = calls[c].todo \ {k}
      OBVIOUS
    <3>3. /\ \A j \in calls[c].todo : j \in Keys /\ IsStrictPrefix(calls[c].from, j)
          /\ IsCall(calls[c]) /\ calls[c].pc \in StorePcs
      BY <2>1 DEF StoreInv, CallOK, Informed, StorePcs
    <3>5. Lists(c, T, calls[c].pc)
      BY <3>1, <3>2, <3>3 DEF StoreInv, Lists
    <3>6. /\ calls' = [calls EXCEPT ![c] = calls'[c]]
          /\ calls'[c].op = calls[c].op /\ calls'[c].from = calls[c].from
          /\ calls'[c].to = calls[c].to
          /\ calls'[c].pc = calls[c].pc /\ calls'[c].todo = T
          /\ IsCall(calls'[c]) /\ Asked(calls'[c])
      BY <2>1, <3>3, <3>5, Listing
    <3>7. CallOK(c)'
      BY <2>1, <3>2, <3>3, <3>6 DEF CallOK, Informed, Known
    <3>8. objects' \in [Keys -> Bytes \cup {Absent}] /\ Within(c)
      BY <2>1, <3>1, <3>3, PutKept, LookKept DEF Own
    <3>9. QED
      BY <2>1, <3>6, <3>7, <3>8 DEF Advance
  <2>4. QED
    BY <1>9, <2>2, <2>3 DEF S3RemoveDirAllDelete
<1>10. CASE S3CopyHead(c)
  <2>1. Active(c) /\ UNCHANGED <<backend, objects>> /\ backend = "s3"
        /\ calls[c].op \in {"copy", "rename"}
    BY <1>10 DEF S3CopyHead, Active
  <2>2. QED
    BY <1>10, <2>1, Copied, LookEnds DEF S3CopyHead
<1>11. CASE S3Copy(c)
  BY <1>11, Copied DEF S3Copy, S3AfterCopy, Active
<1>12. QED
  BY <1>1, <1>2, <1>3, <1>4, <1>5, <1>6, <1>7, <1>8, <1>9, <1>10, <1>11 DEF S3Step

\* GCS deletes what an entry of the list stands for in the directory.
Takes(c, e) ==
  LET k == Append(calls[c].from, e.name) IN
  /\ k \in Keys /\ Put(k, Absent)
  /\ calls' = [calls EXCEPT ![c].todo = @ \ {e}]

\* What lies in a directory has the directory's path for a prefix.
LEMMA Appended ==
  ASSUME NEW d \in Dirs, NEW n PROVE IsStrictPrefix(d, Append(d, n))
<1>1. d \in Seq(Names \cup {n}) /\ Len(d) \in Nat
  BY PathsAssumption
<1>2. Append(d, n) \in Seq(Names \cup {n}) /\ Len(Append(d, n)) = Len(d) + 1
  BY <1>1
<1>3. SubSeq(Append(d, n), 1, Len(d)) = d
  BY <1>1, <1>2
<1>4. SubSeq(d, 1, Len(d)) = d
  BY <1>1
<1>5. Len(d) <= Len(Append(d, n)) /\ d # Append(d, n)
  BY <1>1, <1>2
<1>6. QED
  BY <1>3, <1>4, <1>5 DEF IsStrictPrefix, IsPrefix

\* Every step of a call of the GCS backend is such a step.
LEMMA GcsAdvance ==
  ASSUME StoreInv, NEW c \in Calls, GcsStep(c) PROVE Advance(c)
<1> USE DEF At
<1>1. CASE GcsWrite(c)
  BY <1>1, PutEnds, OwnPaths, BytesFacts DEF GcsWrite, Active
<1>2. CASE GcsAppendRead(c)
  <2>1. PICK s, pc : /\ s = IF GcsReadable(calls[c].from) THEN objects[calls[c].from] ELSE Absent
                     /\ pc = IF GcsReadable(calls[c].from) THEN "put" ELSE "err"
    OBVIOUS
  <2>2. calls' = [calls EXCEPT ![c].seen = s, ![c].pc = pc]
    BY <1>2, <2>1 DEF GcsAppendRead
  <2>3. GcsReadable(calls[c].from) => objects[calls[c].from] # Absent
    BY DEF GcsReadable
  <2>4. QED
    BY <1>2, <2>1, <2>2, <2>3, AppendRead DEF GcsAppendRead, Active
<1>3. CASE GcsAppendWrite(c)
  BY <1>3, AppendWrite DEF GcsAppendWrite, Active
<1>4. CASE GcsDelete(c)
  BY <1>4, PutEnds, LookEnds, OwnPaths DEF GcsDelete, Active, Refuse
<1>5. CASE GcsCreateDir(c)
  BY <1>5, PutEnds, OwnPaths, BytesFacts DEF GcsCreateDir, Active, DirOps
<1>6. CASE GcsCreateDirAll(c)
  <2>1. Active(c) /\ calls[c].op = "create_dir_all" /\ calls[c].pc = "start"
        /\ backend = "gcs" /\ backend' = backend
    BY <1>6 DEF GcsCreateDirAll, Active
  <2>2. CASE Goto(c, "ok") /\ UNCHANGED objects
    BY <2>1, <2>2, LookEnds
  <2>3. CASE \E d \in Ancestors(calls[c].from) :
               /\ Put(DotDir(d), <<>>)
               /\ calls' = [calls EXCEPT ![c].todo = @ \cup {d}]
    BY <2>1, <2>3, MarkerPut, OwnPaths, PathFacts DEF DirOps, Ticks
  <2>4. QED
    BY <1>6, <2>2, <2>3 DEF GcsCreateDirAll
<1>7. CASE GcsRemoveDir(c)
  BY <1>7, LookEnds DEF GcsRemoveDir, Active
<1>8. CASE GcsRemoveDirAllList(c)
  <2>1. Active(c) /\ UNCHANGED <<backend, objects>> /\ backend = "gcs"
        /\ calls[c].pc = "start" /\ calls[c].op = "remove_dir_all"
    BY <1>8 DEF GcsRemoveDirAllList, Active
  <2>2. PICK T, pc : T = GcsList(calls[c].from) /\ pc = "each"
    OBVIOUS
  <2>3. Lists(c, T, pc) /\ pc \in StorePcs
    BY <1>8, <2>2 DEF GcsRemoveDirAllList, Lists, StorePcs
  <2>4. /\ calls' = [calls EXCEPT ![c] = calls'[c]]
        /\ calls'[c].op = calls[c].op /\ calls'[c].from = calls[c].from
        /\ calls'[c].to = calls[c].to /\ calls'[c].seen = calls[c].seen
        /\ calls'[c].pc = pc
        /\ IsCall(calls'[c]) /\ Asked(calls'[c])
    BY <2>1, <2>3, Listing
  <2>5. CallOK(c)'
    BY <2>1, <2>2, <2>4 DEF CallOK, Informed, Known
  <2>6. QED
    BY <2>1, <2>4, <2>5, LookKept DEF Advance
<1>d. CASE GcsRemoveDirAllDelete(c)
  <2>1. Active(c) /\ backend' = backend /\ backend = "gcs"
        /\ calls[c].op = "remove_dir_all" /\ calls[c].pc = "each"
    BY <1>d DEF GcsRemoveDirAllDelete, Active, Refuse
  <2>2. CASE (Goto(c, "tried") \/ Goto(c, "err")) /\ UNCHANGED objects
    BY <2>1, <2>2, LookEnds
  <2>3. CASE \E e \in calls[c].todo : Takes(c, e)
    <3>1. PICK e \in calls[c].todo : Takes(c, e)
      BY <2>3
    <3>2. PICK k, T, pc : k = Append(calls[c].from, e.name) /\ T = calls[c].todo \ {e}
                          /\ pc = calls[c].pc
      OBVIOUS
    <3>3. k \in Keys /\ IsStrictPrefix(calls[c].from, k)
      BY <2>1, <3>1, <3>2, OwnPaths, Appended DEF Takes, DirOps
    <3>4. Lists(c, T, pc) /\ pc \in StorePcs /\ IsCall(calls[c])
      BY <2>1, <3>1, <3>2 DEF Takes, Lists, StoreInv, CallOK, IsCall, StorePcs
    <3>5. /\ calls' = [calls EXCEPT ![c] = calls'[c]]
          /\ calls'[c].op = calls[c].op /\ calls'[c].from = calls[c].from
          /\ calls'[c].to = calls[c].to /\ calls'[c].seen = calls[c].seen
          /\ calls'[c].pc = pc
          /\ IsCall(calls'[c]) /\ Asked(calls'[c])
      BY <2>1, <3>4, Listing
    <3>6. CallOK(c)'
      BY <2>1, <3>2, <3>5 DEF CallOK, Informed, Known
    <3>7. objects' \in [Keys -> Bytes \cup {Absent}] /\ Within(c)
      BY <2>1, <3>1, <3>2, <3>3, PutKept DEF Own, Takes
    <3>8. QED
      BY <2>1, <3>5, <3>6, <3>7 DEF Advance
  <2>4. QED
    BY <1>d, <2>2, <2>3 DEF GcsRemoveDirAllDelete, Takes, Refuse
<1>9. CASE GcsCopy(c)
  BY <1>9, Copied, LookEnds DEF GcsCopy, Active, Refuse
<1>10. QED
  BY <1>1, <1>2, <1>3, <1>4, <1>5, <1>6, <1>7, <1>8, <1>d, <1>9 DEF GcsStep

----------------------------------------------------------------------------
(* The steps as the contract sees them. *)

\* What the contract sees of a call and of a file.
LEMMA View ==
  ASSUME StoreInv, Held
  PROVE  /\ \A c \in Calls :
              /\ ContractCalls[c].op = calls[c].op
              /\ ContractCalls[c].from = calls[c].from
              /\ ContractCalls[c].to = calls[c].to
              /\ ContractCalls[c].seen = calls[c].seen
              /\ ContractCalls[c].phase = Phase(calls[c].pc)
         /\ ContractFiles = [p \in Files |-> objects[p]]
  BY DEF ContractCalls, ContractCall, ContractFiles

\* How far a call is that is under way.
LEMMA ViewPhase ==
  ASSUME StoreInv, Held, NEW c \in Calls, Active(c)
  PROVE  /\ ContractCalls[c].phase \in {"open", "copied"}
         /\ calls[c].pc # "drop" => ContractCalls[c].phase = "open"
         /\ calls[c].pc = "drop" => ContractCalls[c].phase = "copied"
  BY View DEF Active, Phase

\* Goto changes no more than the phase of the call.
LEMMA ViewGoto ==
  ASSUME StoreInv, Held, backend' = backend, NEW c \in Calls, NEW pc, Goto(c, pc)
  PROVE  ContractCalls' = [ContractCalls EXCEPT ![c].phase = Phase(pc)]
<1>1. IsCall(calls[c]) /\ calls = [o \in Calls |-> calls[o]] /\ Held'
  BY DEF StoreInv, CallOK, Held
<1>2. /\ calls'[c] = [calls[c] EXCEPT !.pc = pc]
      /\ \A o \in Calls : o # c => calls'[o] = calls[o]
  BY <1>1 DEF Goto
<1>3. /\ calls'[c].op = calls[c].op /\ calls'[c].from = calls[c].from
      /\ calls'[c].to = calls[c].to /\ calls'[c].seen = calls[c].seen
      /\ calls'[c].pc = pc
  BY <1>1, <1>2 DEF IsCall
<1>4. ContractCall(calls[c])' = [ContractCall(calls[c]) EXCEPT !.phase = Phase(pc)]
  BY <1>3 DEF ContractCall
<1>5. /\ ContractCalls = [o \in Calls |-> ContractCall(calls[o])]
      /\ ContractCalls' = [o \in Calls |-> ContractCall(calls[o])']
  BY <1>1 DEF ContractCalls
<1>6. QED
  BY <1>2, <1>4, <1>5 DEF ContractCall

\* A change of one key is one of that file, if it is a file.
LEMMA ViewPut ==
  ASSUME StoreInv, Held, backend' = backend, NEW k \in Keys, NEW x, Put(k, x)
  PROVE  /\ k \in Files => ContractFiles' = [ContractFiles EXCEPT ![k] = x]
         /\ k \notin Files => ContractFiles' = ContractFiles
<1>1. Held' /\ Files \subseteq Keys /\ objects \in [Keys -> Bytes \cup {Absent}]
  BY PathFacts DEF Held, StoreInv
<1>2. QED
  BY <1>1 DEF ContractFiles, Put

\* What changes no file changes nothing that the contract sees of them.
LEMMA ViewSame ==
  ASSUME Held, backend' = backend, UNCHANGED objects
  PROVE  ContractFiles' = ContractFiles
  BY DEF ContractFiles, Held

\* The contract takes a step, or does not see the one that is taken.
Keeps == Contract!Next \/ UNCHANGED <<ContractFiles, ContractCalls>>

\* A call ends with an error and without a change.
LEMMA Fails ==
  ASSUME StoreInv, Held, backend' = backend, NEW c \in Calls, Active(c),
         Goto(c, "err") \/ Goto(c, "tried"), UNCHANGED objects
  PROVE  Keeps
<1>1. PICK pc \in {"err", "tried"} : Goto(c, pc)
  OBVIOUS
<1>2. ContractCalls' = [ContractCalls EXCEPT ![c].phase = Phase(pc)] /\ Phase(pc) = "err"
  BY <1>1, ViewGoto DEF Phase
<1>3. ContractFiles' = ContractFiles
  BY ViewSame
<1>4. Contract!Fail(c)
  BY <1>1, <1>2, <1>3, ViewPhase DEF Contract!Fail, Contract!Goto
<1>5. QED
  BY <1>4 DEF Keeps, Contract!Next

\* A call goes on and changes no file.
LEMMA GoesOn ==
  ASSUME StoreInv, Held, backend' = backend, NEW c \in Calls, Active(c),
         calls[c].pc # "drop", NEW pc \in Awaits \cup {"copy", "write"}, Goto(c, pc),
         ContractFiles' = ContractFiles
  PROVE  Keeps
<1>1. Goto(c, pc)
  OBVIOUS
<1>2. ContractCalls' = [ContractCalls EXCEPT ![c].phase = Phase(pc)]
  BY <1>1, ViewGoto
<1>3. Phase(pc) = ContractCalls[c].phase
  BY <1>1, ViewPhase DEF Phase, Awaits
<1>4. ContractCalls' = ContractCalls
  <2>1. ContractCalls[c] = ContractCall(calls[c])
    BY DEF ContractCalls
  <2>2. [ContractCalls[c] EXCEPT !.phase = ContractCalls[c].phase] = ContractCalls[c]
    BY <2>1 DEF ContractCall
  <2>3. ContractCalls = [o \in Calls |-> ContractCalls[o]]
    BY DEF ContractCalls
  <2>4. QED
    BY <1>2, <1>3, <2>2, <2>3
<1>5. QED
  BY <1>4 DEF Keeps

\* The call removes a directory and all that lies in it.
Empties(c) ==
  calls[c].op = "remove_dir_all" \/ (calls[c].op = "delete" /\ calls[c].from \in Dirs)

\* The whole effect of a call, with which it succeeds.
LEMMA Performs ==
  ASSUME StoreInv, Held, backend' = backend, NEW c \in Calls, Active(c),
         calls[c].pc # "drop", Goto(c, "ok"),
         \/ /\ calls[c].op = "write"
            /\ ContractFiles' = [ContractFiles EXCEPT ![calls[c].from] = <<c>>]
         \/ /\ calls[c].op = "append"
            /\ ContractFiles' = [ContractFiles EXCEPT
                 ![calls[c].from] = Append(Content(objects[calls[c].from]), c)]
         \/ /\ calls[c].op = "delete" /\ calls[c].from \in Files
            /\ ContractFiles' = [ContractFiles EXCEPT ![calls[c].from] = Absent]
         \/ /\ calls[c].op = "rename" /\ objects[calls[c].from] # Absent
            /\ ContractFiles' = [ContractFiles EXCEPT
                 ![calls[c].to] = objects[calls[c].from], ![calls[c].from] = Absent]
         \/ /\ calls[c].op = "copy"
            /\ \E x \in {calls[c].seen, objects[calls[c].from]} \ {Absent} :
                 ContractFiles' = [ContractFiles EXCEPT ![calls[c].to] = x]
         \/ /\ Empties(c)
            /\ ContractFiles' = [p \in Files |->
                 IF IsStrictPrefix(calls[c].from, p) THEN Absent ELSE objects[p]]
         \/ /\ calls[c].op \in DirOps \ {"remove_dir_all"}
            /\ ContractFiles' = ContractFiles
  PROVE  Keeps
<1>1. PICK pc : pc = "ok"
  OBVIOUS
<1>2. ContractCalls' = [ContractCalls EXCEPT ![c].phase = Phase(pc)] /\ Phase(pc) = pc
  BY <1>1, ViewGoto DEF Phase
<1>3. Contract!Goto(c, "ok") /\ ContractCalls[c].phase = "open"
  BY <1>1, <1>2, ViewPhase DEF Contract!Goto
<1>4. /\ ContractCalls[c].op = calls[c].op /\ ContractCalls[c].from = calls[c].from
      /\ ContractCalls[c].to = calls[c].to /\ ContractCalls[c].seen = calls[c].seen
      /\ calls[c].from \in Files => ContractFiles[calls[c].from] = objects[calls[c].from]
      /\ \A p \in Files : ContractFiles[p] = objects[p]
  BY View
<1>5. calls[c].op \in {"write", "append", "rename", "copy"} => calls[c].from \in Files
  BY OwnPaths
<1>6. \A x : Contract!Content(x) = Content(x)
  BY DEF Contract!Content, Content
<1>7. calls[c].from \in Dirs => calls[c].from \notin Files
  BY PathsAssumption
<1>8. CASE ~Empties(c)
  <2>1. Contract!Perform(c)
    BY <1>3, <1>4, <1>5, <1>6, <1>7, <1>8 DEF Contract!Perform, Contract!Removes, Empties, DirOps
  <2>2. QED
    BY <2>1 DEF Keeps, Contract!Next
<1>9. CASE Empties(c)
  <2>1. Contract!Removes(ContractCalls[c]) /\ ~(calls[c].op = "delete" /\ calls[c].from \in Files)
    BY <1>4, <1>7, <1>9 DEF Contract!Removes, Empties
  <2>2. ContractFiles' = [p \in Files |->
          IF IsStrictPrefix(calls[c].from, p) THEN Absent ELSE objects[p]]
    BY <1>7, <1>9 DEF Empties, DirOps
  <2>3. \A p : Contract!In(p, ContractCalls[c]) <=> IsStrictPrefix(calls[c].from, p)
    BY <1>4 DEF Contract!In, Contract!IsStrictPrefix, Contract!IsPrefix, IsStrictPrefix, IsPrefix
  <2>4. ContractFiles' = [p \in Files |->
          IF Contract!In(p, ContractCalls[c]) THEN Absent ELSE ContractFiles[p]]
    BY <1>4, <2>2, <2>3
  <2>5. Contract!Perform(c)
    BY <1>3, <1>4, <1>9, <2>1, <2>4 DEF Contract!Perform, Empties
  <2>6. QED
    BY <2>5 DEF Keeps, Contract!Next
<1>10. QED
  BY <1>8, <1>9

\* Some of what lies in a directory goes.
LEMMA Prunes ==
  ASSUME StoreInv, Held, backend' = backend, NEW c \in Calls, Active(c),
         calls[c].pc # "drop", calls[c].op = "remove_dir_all",
         UNCHANGED ContractCalls,
         NEW S, \A k \in S : IsStrictPrefix(calls[c].from, k),
         ContractFiles' = [p \in Files |-> IF p \in S THEN Absent ELSE objects[p]]
  PROVE  Keeps
<1>4. /\ ContractCalls[c].op = calls[c].op /\ ContractCalls[c].from = calls[c].from
      /\ ContractCalls[c].phase = "open"
      /\ \A p \in Files : ContractFiles[p] = objects[p]
  BY View, ViewPhase
<1>5. PICK D : D = S \cap Files
  OBVIOUS
<1>d. \A p : Contract!In(p, ContractCalls[c]) <=> IsStrictPrefix(calls[c].from, p)
  BY <1>4 DEF Contract!In, Contract!IsStrictPrefix, Contract!IsPrefix, IsStrictPrefix, IsPrefix
<1>6. /\ D \in SUBSET {p \in Files : Contract!In(p, ContractCalls[c])}
      /\ ContractFiles' = [p \in Files |-> IF p \in D THEN Absent ELSE ContractFiles[p]]
  BY <1>4, <1>5, <1>d
<1>7. Contract!Prune(c)
  BY <1>4, <1>6 DEF Contract!Prune, Contract!Removes
<1>8. QED
  BY <1>7 DEF Keeps, Contract!Next

Sees(c, s, pc) == calls' = [calls EXCEPT ![c].seen = s, ![c].pc = pc]

\* What a call has read is all that changes.
LEMMA ViewSees ==
  ASSUME StoreInv, Held, backend' = backend, NEW c \in Calls, NEW s, NEW pc,
         Sees(c, s, pc)
  PROVE  ContractCalls' = [ContractCalls EXCEPT ![c].seen = s, ![c].phase = Phase(pc)]
<1>1. IsCall(calls[c]) /\ calls = [o \in Calls |-> calls[o]] /\ Held'
  BY DEF StoreInv, CallOK, Held
<1>2. /\ calls'[c] = [calls[c] EXCEPT !.seen = s, !.pc = pc]
      /\ \A o \in Calls : o # c => calls'[o] = calls[o]
  BY <1>1 DEF Sees
<1>3. /\ calls'[c].op = calls[c].op /\ calls'[c].from = calls[c].from
      /\ calls'[c].to = calls[c].to /\ calls'[c].seen = s
      /\ calls'[c].pc = pc
  BY <1>1, <1>2 DEF IsCall
<1>4. ContractCall(calls[c])' =
        [ContractCall(calls[c]) EXCEPT !.seen = s, !.phase = Phase(pc)]
  <2>1. PICK ph : ph = Phase(pc)
    OBVIOUS
  <2>2. ContractCall(calls[c])' = [op |-> calls[c].op, from |-> calls[c].from,
                                   to |-> calls[c].to, seen |-> s, phase |-> ph]
    BY <1>3, <2>1 DEF ContractCall
  <2>3. [ContractCall(calls[c]) EXCEPT !.seen = s, !.phase = ph] =
          [op |-> calls[c].op, from |-> calls[c].from,
           to |-> calls[c].to, seen |-> s, phase |-> ph]
    <3>1. PICK q : q = calls[c]
      OBVIOUS
    <3>2. PICK r : r = [op |-> q.op, from |-> q.from, to |-> q.to, seen |-> s,
                        phase |-> Phase(q.pc)]
      OBVIOUS
    <3>3. [ContractCall(q) EXCEPT !.seen = s] = r
      BY <3>2 DEF ContractCall
    <3>4. [r EXCEPT !.phase = ph] =
            [op |-> q.op, from |-> q.from, to |-> q.to, seen |-> s, phase |-> ph]
      BY <3>2
    <3>5. [ContractCall(q) EXCEPT !.seen = s, !.phase = ph] =
            [[ContractCall(q) EXCEPT !.seen = s] EXCEPT !.phase = ph]
      BY DEF ContractCall
    <3>6. QED
      BY <3>1, <3>3, <3>4, <3>5
  <2>4. QED
    BY <2>1, <2>2, <2>3
<1>5. /\ ContractCalls = [o \in Calls |-> ContractCall(calls[o])]
      /\ ContractCalls' = [o \in Calls |-> ContractCall(calls[o])']
  BY <1>1 DEF ContractCalls
<1>6. QED
  BY <1>2, <1>4, <1>5 DEF ContractCall

\* The account a call keeps of its keys is not seen.
LEMMA ViewLists ==
  ASSUME StoreInv, Held, backend' = backend, NEW c \in Calls, Active(c),
         NEW T, NEW pc, Lists(c, T, pc), calls[c].pc # "drop",
         pc = "each" \/ pc = calls[c].pc
  PROVE  ContractCalls' = ContractCalls
<1>1. IsCall(calls[c]) /\ calls = [o \in Calls |-> calls[o]] /\ Held'
  BY DEF StoreInv, CallOK, Held
<1>2. /\ \/ calls'[c] = [calls[c] EXCEPT !.todo = T, !.pc = pc]
         \/ calls'[c] = [calls[c] EXCEPT !.todo = T]
      /\ \A o \in Calls : o # c => calls'[o] = calls[o]
  BY <1>1 DEF Lists
<1>3. /\ calls'[c].op = calls[c].op /\ calls'[c].from = calls[c].from
      /\ calls'[c].to = calls[c].to /\ calls'[c].seen = calls[c].seen
      /\ calls'[c].pc = pc \/ calls'[c].pc = calls[c].pc
  BY <1>1, <1>2 DEF IsCall
<1>4. Phase(calls[c].pc)' = Phase(calls[c].pc)
  BY <1>3 DEF Phase, Active
<1>5. ContractCall(calls[c])' = ContractCall(calls[c])
  BY <1>3, <1>4 DEF ContractCall
<1>6. /\ ContractCalls = [o \in Calls |-> ContractCall(calls[o])]
      /\ ContractCalls' = [o \in Calls |-> ContractCall(calls[o])']
  BY <1>1 DEF ContractCalls
<1>7. QED
  BY <1>2, <1>5, <1>6 DEF ContractCall

\* A call reads its source, or finds that there is none and fails.
LEMMA Looks ==
  ASSUME StoreInv, Held, backend' = backend, NEW c \in Calls, Active(c),
         calls[c].pc = "start", calls[c].op \in {"append", "copy"}, UNCHANGED objects,
         NEW s, NEW pc, Sees(c, s, pc),
         \/ s = Absent /\ pc = "err"
         \/ s # Absent /\ s = objects[calls[c].from] /\ pc \in {"insert", "put", "truncate"}
  PROVE  Keeps
<1>1. ContractCalls' = [ContractCalls EXCEPT ![c].seen = s, ![c].phase = Phase(pc)]
  BY ViewSees
<1>2. ContractFiles' = ContractFiles
  BY ViewSame
<1>3. /\ ContractCalls[c] = ContractCall(calls[c])
      /\ ContractCalls = [o \in Calls |-> ContractCalls[o]]
  BY DEF ContractCalls
<1>4. ContractCalls[c].phase = "open" /\ ContractCalls[c].seen = Absent
      /\ ContractCalls[c].from = calls[c].from
  BY View, ViewPhase DEF StoreInv, CallOK, Informed
<1>5. CASE s = Absent /\ pc = "err"
  <2>1. [ContractCalls[c] EXCEPT !.seen = s, !.phase = Phase(pc)] =
          [ContractCalls[c] EXCEPT !.phase = "err"]
    BY <1>3, <1>4, <1>5 DEF ContractCall, Phase
  <2>2. ContractCalls' = [ContractCalls EXCEPT ![c].phase = "err"]
    BY <1>1, <1>3, <2>1
  <2>3. Contract!Fail(c)
    BY <1>2, <1>4, <2>2 DEF Contract!Fail, Contract!Goto
  <2>4. QED
    BY <2>3 DEF Keeps, Contract!Next
<1>6. CASE s # Absent /\ s = objects[calls[c].from] /\ pc \in {"insert", "put", "truncate"}
  <2>1. [ContractCalls[c] EXCEPT !.seen = s, !.phase = Phase(pc)] =
          [ContractCalls[c] EXCEPT !.seen = s]
    BY <1>3, <1>4, <1>6 DEF ContractCall, Phase
  <2>2. ContractCalls' = [ContractCalls EXCEPT ![c].seen = s]
    BY <1>1, <1>3, <2>1
  <2>3. ContractCalls[c].from \in Files /\ Contract!Content(ContractFiles[ContractCalls[c].from]) = s
    BY <1>4, <1>6, OwnPaths, View DEF Contract!Content
  <2>4. Contract!Look(c)
    BY <1>2, <1>4, <2>2, <2>3 DEF Contract!Look
  <2>5. QED
    BY <2>4 DEF Keeps, Contract!Next
<1>7. QED
  BY <1>5, <1>6

\* A native call opens its target.
LEMMA Touches ==
  ASSUME StoreInv, Held, backend' = backend, NEW c \in Calls, Active(c),
         calls[c].pc # "drop", Goto(c, "write"),
         NEW k, k = IF calls[c].op = "copy" THEN calls[c].to ELSE calls[c].from,
         \/ calls[c].op \in {"write", "copy"}
         \/ calls[c].op = "append" /\ objects[k] = Absent,
         Put(k, <<>>)
  PROVE  Keeps
<1>1. PICK pc : pc = "write"
  OBVIOUS
<1>2. ContractCalls' = [ContractCalls EXCEPT ![c].phase = Phase(pc)]
  BY <1>1, ViewGoto
<1>3. Phase(pc) = ContractCalls[c].phase /\ ContractCalls[c].phase = "open"
  BY <1>1, ViewPhase DEF Phase
<1>4. ContractCalls' = ContractCalls
  <2>1. ContractCalls[c] = ContractCall(calls[c])
    BY DEF ContractCalls
  <2>2. [ContractCalls[c] EXCEPT !.phase = ContractCalls[c].phase] = ContractCalls[c]
    BY <2>1 DEF ContractCall
  <2>3. ContractCalls = [o \in Calls |-> ContractCalls[o]]
    BY DEF ContractCalls
  <2>4. QED
    BY <1>2, <1>3, <2>2, <2>3
<1>5. k \in Files /\ k \in Keys
  BY OwnPaths, PathFacts
<1>6. PICK x : x = <<>>
  OBVIOUS
<1>7. ContractFiles' = [ContractFiles EXCEPT ![k] = x]
  BY <1>5, <1>6, ViewPut
<1>8. ContractFiles[k] = objects[k] /\ ContractCalls[c].op = calls[c].op
      /\ ContractCalls[c].from = calls[c].from /\ ContractCalls[c].to = calls[c].to
  BY <1>5, View
<1>9. Contract!Touch(c)
  BY <1>3, <1>4, <1>6, <1>7, <1>8 DEF Contract!Touch
<1>10. QED
  BY <1>9 DEF Keeps, Contract!Next

\* A rename has copied its object.
LEMMA CopiesOver ==
  ASSUME StoreInv, Held, backend' = backend, NEW c \in Calls, Active(c),
         calls[c].pc # "drop", calls[c].op = "rename", objects[calls[c].from] # Absent,
         Put(calls[c].to, objects[calls[c].from]), Goto(c, "drop")
  PROVE  Keeps
<1>1. PICK pc : pc = "drop"
  OBVIOUS
<1>2. ContractCalls' = [ContractCalls EXCEPT ![c].phase = Phase(pc)]
  BY <1>1, ViewGoto
<1>3. Phase(pc) = "copied" /\ ContractCalls[c].phase = "open"
  BY <1>1, ViewPhase DEF Phase
<1>4. calls[c].from \in Files /\ calls[c].to \in Files /\ calls[c].to \in Keys
  BY OwnPaths, PathFacts
<1>5. PICK x : x = objects[calls[c].from]
  OBVIOUS
<1>6. PICK k : k = calls[c].to
  OBVIOUS
<1>7. ContractFiles' = [ContractFiles EXCEPT ![k] = x]
  BY <1>4, <1>5, <1>6, ViewPut
<1>8. ContractFiles[calls[c].from] = x /\ ContractCalls[c].op = calls[c].op
      /\ ContractCalls[c].from = calls[c].from /\ ContractCalls[c].to = k
  BY <1>4, <1>5, <1>6, View
<1>9. Contract!CopyOver(c)
  BY <1>2, <1>3, <1>5, <1>7, <1>8 DEF Contract!CopyOver, Contract!Goto
<1>10. QED
  BY <1>9 DEF Keeps, Contract!Next

\* And drops the source when the target has its content.
LEMMA Drops ==
  ASSUME StoreInv, Held, backend' = backend, NEW c \in Calls, Active(c),
         calls[c].pc = "drop", Put(calls[c].from, Absent), Goto(c, "ok")
  PROVE  Keeps
<1>1. PICK pc : pc = "ok"
  OBVIOUS
<1>2. ContractCalls' = [ContractCalls EXCEPT ![c].phase = Phase(pc)]
  BY <1>1, ViewGoto
<1>3. Phase(pc) = "ok" /\ ContractCalls[c].phase = "copied"
  BY <1>1, ViewPhase DEF Phase
<1>4. calls[c].from \in Files /\ calls[c].to \in Files /\ calls[c].from \in Keys
      /\ objects[calls[c].to] = objects[calls[c].from]
  BY PathFacts DEF StoreInv, CallOK, Informed
<1>5. PICK k : k = calls[c].from
  OBVIOUS
<1>6. ContractFiles' = [ContractFiles EXCEPT ![k] = Absent]
  BY <1>4, <1>5, ViewPut
<1>7. /\ ContractFiles[ContractCalls[c].to] = ContractFiles[ContractCalls[c].from]
      /\ ContractCalls[c].from = k
  BY <1>4, <1>5, View
<1>8. Contract!Drop(c)
  BY <1>2, <1>3, <1>6, <1>7 DEF Contract!Drop, Contract!Goto
<1>9. QED
  BY <1>8 DEF Keeps, Contract!Next

\* A rename in one step.
LEMMA Renames ==
  ASSUME StoreInv, Held, backend' = backend, NEW c \in Calls, Active(c),
         calls[c].op = "rename", calls[c].pc # "drop", Goto(c, "ok"),
         objects[calls[c].from] # Absent,
         objects' = [objects EXCEPT ![calls[c].to] = objects[calls[c].from],
                                    ![calls[c].from] = Absent]
  PROVE  Keeps
<1>1. Held' /\ Files \subseteq Keys /\ calls[c].from \in Files /\ calls[c].to \in Files
      /\ objects \in [Keys -> Bytes \cup {Absent}]
  BY OwnPaths, PathFacts DEF Held, StoreInv
<1>2. PICK a, b, x : a = calls[c].from /\ b = calls[c].to /\ x = objects[a]
  OBVIOUS
<1>3. \A p \in Files : objects'[p] = IF p = a THEN Absent ELSE IF p = b THEN x ELSE objects[p]
  BY <1>1, <1>2
<1>4. /\ ContractFiles' = [p \in Files |-> objects'[p]]
      /\ ContractFiles = [p \in Files |-> objects[p]]
  BY <1>1 DEF ContractFiles
<1>5. ContractFiles' = [ContractFiles EXCEPT ![b] = x, ![a] = Absent]
  BY <1>1, <1>2, <1>3, <1>4
<1>6. QED
  BY <1>2, <1>5, Performs

\* A copy ends with what it has read.
LEMMA CopiesSeen ==
  ASSUME StoreInv, Held, backend' = backend, NEW c \in Calls, Active(c),
         calls[c].op = "copy", calls[c].pc \in {"insert", "write"},
         Put(calls[c].to, calls[c].seen), Goto(c, "ok")
  PROVE  Keeps
<1>1. calls[c].seen # Absent /\ calls[c].to \in Files /\ calls[c].to \in Keys
  BY OwnPaths, PathFacts DEF StoreInv, CallOK, Informed
<1>2. ContractFiles' = [ContractFiles EXCEPT ![calls[c].to] = calls[c].seen]
  BY <1>1, ViewPut
<1>3. QED
  BY <1>1, <1>2, Performs

\* A file is deleted.
LEMMA Deletes ==
  ASSUME StoreInv, Held, backend' = backend, NEW c \in Calls, Active(c),
         calls[c].op = "delete", calls[c].pc # "drop", Goto(c, "ok"),
         calls[c].from \in Files, Put(calls[c].from, Absent)
  PROVE  Keeps
<1>1. calls[c].from \in Keys
  BY PathFacts
<1>2. ContractFiles' = [ContractFiles EXCEPT ![calls[c].from] = Absent]
  BY <1>1, ViewPut
<1>3. QED
  BY <1>2, Performs

\* A delete whose path has content is one of a file: only the memory backend is
\* asked to delete directories, and it has no content there.
LEMMA DeletesFile ==
  ASSUME StoreInv, PlaceInv, NEW c \in Calls, Active(c), calls[c].op = "delete",
         backend = "memory" => objects[calls[c].from] # Absent
  PROVE  calls[c].from \in Files
<1>1. calls[c].from \in Files \cup Dirs /\ calls[c].from \in Keys
  BY OwnPaths, PathFacts
<1>2. calls[c].from \in Dirs => backend = "memory"
  BY DEF PlaceInv
<1>3. backend = "memory" => Place = Files
  BY DEF Place
<1>4. QED
  BY <1>1, <1>2, <1>3 DEF PlaceInv

\* All that lies in a directory goes, and with it the call succeeds.
LEMMA EmptiesAll ==
  ASSUME StoreInv, Held, backend' = backend, NEW c \in Calls, Active(c), Empties(c),
         calls[c].pc # "drop", Goto(c, "ok"), Erase(Below(calls[c].from))
  PROVE  Keeps
<1>1. Held' /\ Files \subseteq Keys
  BY PathFacts DEF Held
<1>2. \A p \in Files : objects'[p] =
        IF IsStrictPrefix(calls[c].from, p) THEN Absent ELSE objects[p]
  BY <1>1 DEF Erase, Below
<1>3. ContractFiles' = [p \in Files |->
        IF IsStrictPrefix(calls[c].from, p) THEN Absent ELSE objects[p]]
  BY <1>1, <1>2 DEF ContractFiles
<1>4. QED
  BY <1>3, Performs

\* An append to an object writes what it has read, and its data.
LEMMA AppendsSeen ==
  ASSUME StoreInv, Held, backend' = backend, NEW c \in Calls, Active(c),
         calls[c].op = "append", calls[c].pc = "put", Goto(c, "ok"),
         Put(calls[c].from, Append(calls[c].seen, c))
  PROVE  Keeps
<1>1. calls[c].from \in Files /\ calls[c].from \in Keys
      /\ calls[c].seen # Absent /\ objects[calls[c].from] = calls[c].seen
  BY PathFacts DEF StoreInv, CallOK, Informed
<1>2. ContractFiles' = [ContractFiles EXCEPT ![calls[c].from] = Append(calls[c].seen, c)]
  BY <1>1, ViewPut
<1>3. Content(objects[calls[c].from]) = calls[c].seen
  BY <1>1 DEF Content
<1>4. QED
  BY <1>2, <1>3, Performs

\* One key of those that lie in a directory goes.
LEMMA PrunesOne ==
  ASSUME StoreInv, Held, backend' = backend, NEW c \in Calls, Active(c),
         calls[c].pc # "drop", calls[c].op = "remove_dir_all",
         UNCHANGED ContractCalls,
         NEW k \in Keys, IsStrictPrefix(calls[c].from, k), Put(k, Absent)
  PROVE  Keeps
<1>1. Held' /\ Files \subseteq Keys /\ objects \in [Keys -> Bytes \cup {Absent}]
  BY PathFacts DEF Held, StoreInv
<1>2. PICK S : S = {k}
  OBVIOUS
<1>3. ContractFiles' = [p \in Files |-> IF p \in S THEN Absent ELSE objects[p]]
  BY <1>1, <1>2 DEF Put, ContractFiles
<1>4. QED
  BY <1>2, <1>3, Prunes

\* A marker is no file.
LEMMA Marks ==
  ASSUME StoreInv, Held, backend' = backend, NEW c \in Calls, Active(c),
         calls[c].pc = "start", NEW d \in Dirs, Ticks(c, d),
         Put(Slash(d), <<>>) \/ Put(DotDir(d), <<>>) \/ UNCHANGED objects
  PROVE  Keeps
<1>1. PICK T, pc : T = calls[c].todo \cup {d} /\ pc = calls[c].pc
  OBVIOUS
<1>2. IsCall(calls[c])
  BY DEF StoreInv, CallOK
<1>3. Lists(c, T, pc)
  BY <1>1, <1>2 DEF StoreInv, Lists, Ticks
<1>4. ContractCalls' = ContractCalls
  BY <1>1, <1>3, ViewLists
<1>5. ContractFiles' = ContractFiles
  BY ViewPut, ViewSame, PathFacts
<1>6. QED
  BY <1>4, <1>5 DEF Keeps

\* The copy of an object, alone or as the first half of a rename.
LEMMA CopiesObject ==
  ASSUME StoreInv, Held, backend' = backend, NEW c \in Calls, Active(c),
         calls[c].op \in {"copy", "rename"}, calls[c].pc # "drop",
         objects[calls[c].from] # Absent,
         Put(calls[c].to, objects[calls[c].from]),
         Goto(c, IF calls[c].op = "rename" THEN "drop" ELSE "ok")
  PROVE  Keeps
<1>1. CASE calls[c].op = "rename"
  BY <1>1, CopiesOver
<1>2. CASE calls[c].op = "copy"
  <2>1. calls[c].to \in Files /\ calls[c].to \in Keys
    BY <1>2, OwnPaths, PathFacts
  <2>2. ContractFiles' = [ContractFiles EXCEPT ![calls[c].to] = objects[calls[c].from]]
    BY <2>1, ViewPut
  <2>3. QED
    BY <1>2, <2>2, Performs
<1>3. QED
  BY <1>1, <1>2

\* Every step of a call of the memory backend is one of the contract.
LEMMA MemoryKeeps ==
  ASSUME StoreInv, PlaceInv, Held, NEW c \in Calls, MemoryStep(c) PROVE Keeps
<1> USE DEF At
<1>1. CASE MemoryWrite(c)
  <2>1. Active(c) /\ calls[c].op = "write" /\ calls[c].pc # "drop" /\ backend' = backend
        /\ Put(calls[c].from, <<c>>) /\ Goto(c, "ok")
    BY <1>1 DEF MemoryWrite, Active
  <2>2. ContractFiles' = [ContractFiles EXCEPT ![calls[c].from] = <<c>>]
    BY <2>1, ViewPut, OwnPaths, PathFacts
  <2>3. QED
    BY <2>1, <2>2, Performs
<1>2. CASE MemoryAppend(c)
  <2>1. Active(c) /\ calls[c].op = "append" /\ calls[c].pc # "drop" /\ backend' = backend
        /\ Put(calls[c].from, Append(Content(objects[calls[c].from]), c)) /\ Goto(c, "ok")
    BY <1>2 DEF MemoryAppend, Active
  <2>2. ContractFiles' = [ContractFiles EXCEPT
          ![calls[c].from] = Append(Content(objects[calls[c].from]), c)]
    BY <2>1, ViewPut, OwnPaths, PathFacts
  <2>3. QED
    BY <2>1, <2>2, Performs
<1>3. CASE MemoryDelete(c)
  <2>1. Active(c) /\ backend' = backend /\ calls[c].op = "delete" /\ calls[c].pc # "drop"
    BY <1>3 DEF MemoryDelete, Active
  <2>2. CASE objects[calls[c].from] # Absent /\ Put(calls[c].from, Absent) /\ Goto(c, "ok")
    BY <2>1, <2>2, DeletesFile, Deletes
  <2>3. CASE Goto(c, "dirs") /\ UNCHANGED objects
    BY <2>1, <2>3, GoesOn, ViewSame DEF Awaits
  <2>4. QED
    BY <1>3, <2>2, <2>3 DEF MemoryDelete
<1>d. CASE MemoryDeleteDirs(c)
  <2>1. Active(c) /\ backend' = backend /\ calls[c].pc # "drop" /\ UNCHANGED objects
    BY <1>d DEF MemoryDeleteDirs, Active, Refuse
  <2>2. CASE Goto(c, "sweep")
    BY <2>1, <2>2, GoesOn, ViewSame DEF Awaits
  <2>3. CASE Refuse(c)
    BY <2>1, <2>3, Fails DEF Refuse
  <2>4. QED
    BY <1>d, <2>2, <2>3 DEF MemoryDeleteDirs
<1>4. CASE MemoryDeleteSweep(c) \/ MemoryRemoveDirAll(c)
  <2>1. Active(c) /\ calls[c].pc # "drop" /\ backend' = backend
        /\ Erase(Below(calls[c].from)) /\ Goto(c, "ok")
    BY <1>4 DEF MemoryDeleteSweep, MemoryRemoveDirAll, Active
  <2>2. Empties(c)
    BY <1>4 DEF MemoryDeleteSweep, MemoryRemoveDirAll, Empties, StoreInv, CallOK, Informed
  <2>3. QED
    BY <2>1, <2>2, EmptiesAll
<1>5. CASE MemoryCreateDirCheck(c) \/ MemoryCreateDirLock(c) \/ MemoryCreateDirParent(c)
           \/ MemoryRemoveLock(c) \/ MemoryRenameLock(c)
  <2>1. Active(c) /\ UNCHANGED <<backend, objects>> /\ calls[c].pc # "drop"
    BY <1>5 DEF MemoryCreateDirCheck, MemoryCreateDirLock, MemoryCreateDirParent,
       MemoryRemoveLock, MemoryRenameLock, Active
  <2>2. Goto(c, "err") \/ \E pc \in Awaits : Goto(c, pc)
    BY <1>5 DEF MemoryCreateDirCheck, MemoryCreateDirLock, MemoryCreateDirParent,
       MemoryRemoveLock, MemoryRenameLock, Awaits
  <2>3. QED
    BY <2>1, <2>2, GoesOn, Fails, ViewSame
<1>6. CASE MemoryCreateDir(c) \/ MemoryCreateDirAll(c) \/ MemoryRemoveDir(c)
  <2>1. Active(c) /\ UNCHANGED <<backend, objects>> /\ calls[c].pc # "drop"
        /\ calls[c].op \in DirOps \ {"remove_dir_all"} /\ (Goto(c, "ok") \/ Goto(c, "err"))
    BY <1>6 DEF MemoryCreateDir, MemoryCreateDirAll, MemoryRemoveDir, Active, Refuse, DirOps
  <2>2. QED
    BY <2>1, Performs, Fails, ViewSame
<1>7. CASE MemoryRename(c)
  <2>1. Active(c) /\ calls[c].op = "rename" /\ calls[c].pc # "drop" /\ backend' = backend
    BY <1>7 DEF MemoryRename, Active, Refuse
  <2>2. CASE Refuse(c)
    BY <2>1, <2>2, Fails DEF Refuse
  <2>3. CASE /\ objects[calls[c].from] # Absent /\ Goto(c, "ok")
             /\ objects' = [objects EXCEPT ![calls[c].to] = objects[calls[c].from],
                                           ![calls[c].from] = Absent]
    BY <2>1, <2>3, Renames
  <2>4. QED
    BY <1>7, <2>2, <2>3 DEF MemoryRename
<1>8. CASE MemoryCopyRead(c)
  <2>1. PICK s, pc : /\ s = objects[calls[c].from]
                     /\ pc = IF s = Absent THEN "err" ELSE "insert"
    OBVIOUS
  <2>2. Sees(c, s, pc)
    BY <1>8, <2>1 DEF MemoryCopyRead, Sees
  <2>3. Active(c) /\ calls[c].op = "copy" /\ calls[c].pc = "start"
        /\ UNCHANGED <<backend, objects>>
    BY <1>8 DEF MemoryCopyRead, Active
  <2>4. QED
    BY <2>1, <2>2, <2>3, Looks
<1>9. CASE MemoryCopyInsert(c)
  <2>1. Active(c) /\ calls[c].op = "copy" /\ calls[c].pc = "insert" /\ backend' = backend
        /\ Put(calls[c].to, calls[c].seen) /\ Goto(c, "ok")
    BY <1>9 DEF MemoryCopyInsert, Active
  <2>2. QED
    BY <2>1, CopiesSeen
<1>10. QED
  BY <1>1, <1>2, <1>3, <1>d, <1>4, <1>5, <1>6, <1>7, <1>8, <1>9 DEF MemoryStep

\* Every step of a native call is one of the contract.
LEMMA NativeKeeps ==
  ASSUME StoreInv, PlaceInv, Held, NEW c \in Calls, NativeStep(c) PROVE Keeps
<1> USE DEF At
<1>1. CASE NativeTruncate(c)
  <2>1. Active(c) /\ calls[c].op = "write" /\ calls[c].pc # "drop" /\ backend' = backend
    BY <1>1 DEF NativeTruncate, Active, Refuse
  <2>2. CASE Put(calls[c].from, <<>>) /\ Goto(c, "write")
    BY <2>1, <2>2, Touches
  <2>3. CASE Refuse(c)
    BY <2>1, <2>3, Fails DEF Refuse
  <2>4. QED
    BY <1>1, <2>2, <2>3 DEF NativeTruncate
<1>2. CASE NativeWrite(c)
  <2>1. Active(c) /\ calls[c].op = "write" /\ calls[c].pc # "drop" /\ backend' = backend
        /\ Put(calls[c].from, <<c>>) /\ Goto(c, "ok")
    BY <1>2 DEF NativeWrite, Active
  <2>2. ContractFiles' = [ContractFiles EXCEPT ![calls[c].from] = <<c>>]
    BY <2>1, ViewPut, OwnPaths, PathFacts
  <2>3. QED
    BY <2>1, <2>2, Performs
<1>3. CASE NativeAppendOpen(c)
  <2>1. Active(c) /\ calls[c].op = "append" /\ calls[c].pc # "drop" /\ backend' = backend
        /\ calls[c].from \in Files /\ calls[c].from \in Keys
    BY <1>3, OwnPaths, PathFacts DEF NativeAppendOpen, Active, Refuse
  <2>2. CASE Put(calls[c].from, Content(objects[calls[c].from])) /\ Goto(c, "write")
    <3>1. CASE objects[calls[c].from] = Absent
      BY <2>1, <2>2, <3>1, Touches DEF Content
    <3>2. CASE objects[calls[c].from] # Absent
      <4>1. objects' = objects
        BY <2>1, <2>2, <3>2 DEF Put, Content, StoreInv
      <4>2. QED
        BY <2>1, <2>2, <4>1, GoesOn, ViewSame
    <3>3. QED
      BY <3>1, <3>2
  <2>3. CASE Refuse(c)
    BY <2>1, <2>3, Fails DEF Refuse
  <2>4. QED
    BY <1>3, <2>2, <2>3 DEF NativeAppendOpen
<1>4. CASE NativeAppend(c)
  <2>1. Active(c) /\ calls[c].op = "append" /\ calls[c].pc = "write" /\ backend' = backend
        /\ Put(calls[c].from, Append(objects[calls[c].from], c)) /\ Goto(c, "ok")
    BY <1>4 DEF NativeAppend, Active
  <2>2. objects[calls[c].from] # Absent
    BY <2>1 DEF StoreInv, CallOK, Informed
  <2>3. ContractFiles' = [ContractFiles EXCEPT
          ![calls[c].from] = Append(objects[calls[c].from], c)]
    BY <2>1, ViewPut, OwnPaths, PathFacts
  <2>4. Content(objects[calls[c].from]) = objects[calls[c].from]
    BY <2>2 DEF Content
  <2>5. QED
    BY <2>1, <2>3, <2>4, Performs
<1>5. CASE NativeDelete(c)
  <2>1. Active(c) /\ calls[c].op = "delete" /\ calls[c].pc # "drop" /\ backend' = backend
    BY <1>5 DEF NativeDelete, Active, Refuse
  <2>2. CASE Put(calls[c].from, Absent) /\ Goto(c, "ok")
    BY <1>5, <2>1, <2>2, DeletesFile, Deletes DEF NativeDelete
  <2>3. CASE Refuse(c)
    BY <2>1, <2>3, Fails DEF Refuse
  <2>4. QED
    BY <1>5, <2>2, <2>3 DEF NativeDelete
<1>6. CASE NativeCreateDir(c) \/ NativeCreateDirAll(c) \/ NativeRemoveDir(c)
  <2>1. Active(c) /\ UNCHANGED <<backend, objects>> /\ calls[c].pc # "drop"
        /\ calls[c].op \in DirOps \ {"remove_dir_all"} /\ (Goto(c, "ok") \/ Goto(c, "err"))
    BY <1>6 DEF NativeCreateDir, NativeCreateDirAll, NativeRemoveDir, Active, Refuse, DirOps
  <2>2. QED
    BY <2>1, Performs, Fails, ViewSame
<1>7. CASE NativeRemoveDirAll(c)
  <2>1. Active(c) /\ calls[c].op = "remove_dir_all" /\ calls[c].pc # "drop"
        /\ backend' = backend
    BY <1>7 DEF NativeRemoveDirAll, Active, Refuse
  <2>2. CASE Goto(c, "err") /\ UNCHANGED objects
    BY <2>1, <2>2, Fails
  <2>3. CASE UNCHANGED calls /\ \E k \in Below(calls[c].from) : Put(k, Absent)
    <3>1. PICK k \in Below(calls[c].from) : Put(k, Absent)
      BY <2>3
    <3>2. k \in Keys /\ IsStrictPrefix(calls[c].from, k)
      BY DEF Below
    <3>3. UNCHANGED ContractCalls
      BY <2>1, <2>3 DEF ContractCalls, ContractCall, Held
    <3>4. QED
      BY <2>1, <3>1, <3>2, <3>3, PrunesOne
  <2>4. CASE Below(calls[c].from) = {} /\ Goto(c, "ok") /\ UNCHANGED objects
    <3>1. Empties(c) /\ Erase(Below(calls[c].from))
      BY <2>1, <2>4 DEF Empties, Erase, StoreInv
    <3>2. QED
      BY <2>1, <2>4, <3>1, EmptiesAll
  <2>5. QED
    BY <1>7, <2>2, <2>3, <2>4 DEF NativeRemoveDirAll, Refuse
<1>8. CASE NativeRename(c)
  <2>1. Active(c) /\ calls[c].op = "rename" /\ calls[c].pc # "drop" /\ backend' = backend
    BY <1>8 DEF NativeRename, Active, Refuse
  <2>2. CASE Refuse(c)
    BY <2>1, <2>2, Fails DEF Refuse
  <2>3. CASE /\ objects[calls[c].from] # Absent /\ Goto(c, "ok")
             /\ objects' = [objects EXCEPT ![calls[c].to] = objects[calls[c].from],
                                           ![calls[c].from] = Absent]
    BY <2>1, <2>3, Renames
  <2>4. QED
    BY <1>8, <2>2, <2>3 DEF NativeRename
<1>9. CASE NativeCopyOpen(c)
  <2>1. Active(c) /\ calls[c].op = "copy" /\ calls[c].pc = "start"
        /\ UNCHANGED <<backend, objects>>
    BY <1>9 DEF NativeCopyOpen, Active
  <2>2. CASE Goto(c, "err")
    BY <2>1, <2>2, Fails
  <2>3. CASE /\ objects[calls[c].from] # Absent
             /\ calls' = [calls EXCEPT ![c].seen = objects[calls[c].from],
                                       ![c].pc = "truncate"]
    <3>1. PICK s, pc : s = objects[calls[c].from] /\ pc = "truncate"
      OBVIOUS
    <3>2. Sees(c, s, pc)
      BY <2>3, <3>1 DEF Sees
    <3>3. QED
      BY <2>1, <2>3, <3>1, <3>2, Looks
  <2>4. QED
    BY <1>9, <2>2, <2>3 DEF NativeCopyOpen
<1>10. CASE NativeCopyTruncate(c)
  BY <1>10, Touches DEF NativeCopyTruncate, Active
<1>11. CASE NativeCopy(c)
  BY <1>11, CopiesSeen DEF NativeCopy, Active
<1>12. QED
  BY <1>1, <1>2, <1>3, <1>4, <1>5, <1>6, <1>7, <1>8, <1>9, <1>10, <1>11 DEF NativeStep

\* Every step of a call of the S3 backend is one of the contract.
LEMMA S3Keeps ==
  ASSUME StoreInv, PlaceInv, Held, NEW c \in Calls, S3Step(c) PROVE Keeps
<1> USE DEF At
<1>1. CASE S3Write(c)
  <2>1. Active(c) /\ calls[c].op = "write" /\ calls[c].pc # "drop" /\ backend' = backend
        /\ Put(calls[c].from, <<c>>) /\ Goto(c, "ok")
    BY <1>1 DEF S3Write, Active
  <2>2. ContractFiles' = [ContractFiles EXCEPT ![calls[c].from] = <<c>>]
    BY <2>1, ViewPut, OwnPaths, PathFacts
  <2>3. QED
    BY <2>1, <2>2, Performs
<1>2. CASE S3AppendRead(c)
  <2>1. PICK s, pc : /\ s = objects[calls[c].from]
                     /\ pc = IF s = Absent THEN "err" ELSE "put"
    OBVIOUS
  <2>2. Sees(c, s, pc)
    BY <1>2, <2>1 DEF S3AppendRead, S3Read, Sees
  <2>3. Active(c) /\ calls[c].op = "append" /\ calls[c].pc = "start"
        /\ UNCHANGED <<backend, objects>>
    BY <1>2 DEF S3AppendRead, Active
  <2>4. QED
    BY <2>1, <2>2, <2>3, Looks
<1>3. CASE S3AppendWrite(c)
  BY <1>3, AppendsSeen DEF S3AppendWrite, Active
<1>4. CASE S3Delete(c)
  <2>1. Active(c) /\ backend' = backend /\ Put(calls[c].from, Absent) /\ Goto(c, "ok")
        /\ backend = "s3"
        /\ (calls[c].pc = "drop" \/ (calls[c].op = "delete" /\ calls[c].pc = "start"))
    BY <1>4 DEF S3Delete, Active
  <2>2. QED
    BY <2>1, DeletesFile, Deletes, Drops
<1>5. CASE S3CreateDir(c)
  <2>1. Active(c) /\ backend' = backend /\ Goto(c, "ok") /\ calls[c].pc # "drop"
        /\ Put(Slash(calls[c].from), <<>>) /\ calls[c].op \in DirOps \ {"remove_dir_all"}
    BY <1>5 DEF S3CreateDir, Active, DirOps
  <2>2. ContractFiles' = ContractFiles
    BY <2>1, ViewPut, OwnPaths, PathFacts
  <2>3. QED
    BY <2>1, <2>2, Performs
<1>6. CASE S3CreateDirAll(c)
  <2>1. Active(c) /\ calls[c].op = "create_dir_all" /\ calls[c].pc = "start"
        /\ backend' = backend
    BY <1>6 DEF S3CreateDirAll, Active
  <2>2. CASE Goto(c, "ok") /\ UNCHANGED objects
    BY <2>1, <2>2, Performs, ViewSame DEF DirOps
  <2>3. CASE \E d \in Ancestors(calls[c].from) :
               /\ Put(Slash(d), <<>>) \/ UNCHANGED objects
               /\ calls' = [calls EXCEPT ![c].todo = @ \cup {d}]
    BY <2>1, <2>3, Marks, OwnPaths, PathFacts DEF DirOps, Ticks
  <2>4. QED
    BY <1>6, <2>2, <2>3 DEF S3CreateDirAll
<1>7. CASE S3RemoveDir(c)
  <2>1. Active(c) /\ backend' = backend /\ calls[c].pc # "drop"
        /\ calls[c].op \in DirOps \ {"remove_dir_all"}
    BY <1>7 DEF S3RemoveDir, Active, Refuse, DirOps
  <2>2. CASE Refuse(c)
    BY <2>1, <2>2, Fails DEF Refuse
  <2>3. CASE Put(Slash(calls[c].from), Absent) /\ Goto(c, "ok")
    <3>1. ContractFiles' = ContractFiles
      BY <2>1, <2>3, ViewPut, OwnPaths, PathFacts
    <3>2. QED
      BY <2>1, <2>3, <3>1, Performs
  <2>4. QED
    BY <1>7, <2>2, <2>3 DEF S3RemoveDir
<1>8. CASE S3RemoveDirAllList(c)
  <2>1. Active(c) /\ UNCHANGED <<backend, objects>> /\ calls[c].pc # "drop"
    BY <1>8 DEF S3RemoveDirAllList, Active
  <2>2. PICK T, pc : T = Below(calls[c].from) /\ pc = "each"
    OBVIOUS
  <2>3. Lists(c, T, pc)
    BY <1>8, <2>2 DEF S3RemoveDirAllList, Lists
  <2>4. QED
    BY <2>1, <2>2, <2>3, ViewLists, ViewSame DEF Keeps
<1>9. CASE S3RemoveDirAllDelete(c)
  <2>1. Active(c) /\ backend' = backend
        /\ calls[c].op = "remove_dir_all" /\ calls[c].pc = "each"
    BY <1>9 DEF S3RemoveDirAllDelete, Active
  <2>2. CASE Goto(c, "tried") /\ UNCHANGED objects
    BY <2>1, <2>2, Fails
  <2>3. CASE \E k \in calls[c].todo :
               /\ Put(k, Absent) \/ UNCHANGED objects
               /\ calls' = [calls EXCEPT ![c].todo = @ \ {k}]
    <3>1. PICK k \in calls[c].todo :
                 /\ Put(k, Absent) \/ UNCHANGED objects
                 /\ calls' = [calls EXCEPT ![c].todo = @ \ {k}]
      BY <2>3
    <3>2. PICK T, pc : T = calls[c].todo \ {k} /\ pc = calls[c].pc
      OBVIOUS
    <3>3. IsCall(calls[c]) /\ k \in Keys /\ IsStrictPrefix(calls[c].from, k)
      BY <1>9, <2>1, <3>1 DEF S3RemoveDirAllDelete, StoreInv, CallOK, Informed
    <3>4. Lists(c, T, pc)
      BY <3>1, <3>2, <3>3 DEF StoreInv, Lists
    <3>5. ContractCalls' = ContractCalls
      BY <2>1, <3>2, <3>4, ViewLists
    <3>6. CASE Put(k, Absent)
      BY <2>1, <3>3, <3>5, <3>6, PrunesOne
    <3>7. CASE UNCHANGED objects
      BY <2>1, <3>5, <3>7, ViewSame DEF Keeps
    <3>8. QED
      BY <3>1, <3>6, <3>7
  <2>4. QED
    BY <1>9, <2>2, <2>3 DEF S3RemoveDirAllDelete
<1>10. CASE S3CopyHead(c)
  <2>1. Active(c) /\ UNCHANGED <<backend, objects>> /\ calls[c].pc # "drop"
        /\ (Goto(c, "err") \/ Goto(c, "copy"))
    BY <1>10 DEF S3CopyHead, Active
  <2>2. QED
    BY <2>1, Fails, GoesOn, ViewSame
<1>11. CASE S3Copy(c)
  <2>1. Active(c) /\ backend' = backend /\ calls[c].pc = "copy"
        /\ calls[c].op \in {"copy", "rename"}
        /\ Put(calls[c].to, objects[calls[c].from])
        /\ Goto(c, IF calls[c].op = "rename" THEN "drop" ELSE "ok")
    BY <1>11 DEF S3Copy, S3AfterCopy, Active
  <2>2. objects[calls[c].from] # Absent
    BY <2>1 DEF StoreInv, CallOK, Informed
  <2>3. QED
    BY <2>1, <2>2, CopiesObject
<1>12. QED
  BY <1>1, <1>2, <1>3, <1>4, <1>5, <1>6, <1>7, <1>8, <1>9, <1>10, <1>11 DEF S3Step

\* Every step of a call of the GCS backend is one of the contract.
LEMMA GcsKeeps ==
  ASSUME StoreInv, PlaceInv, Held, NEW c \in Calls, GcsStep(c) PROVE Keeps
<1> USE DEF At
<1>1. CASE GcsWrite(c)
  <2>1. Active(c) /\ calls[c].op = "write" /\ calls[c].pc # "drop" /\ backend' = backend
        /\ Put(calls[c].from, <<c>>) /\ Goto(c, "ok")
    BY <1>1 DEF GcsWrite, Active
  <2>2. ContractFiles' = [ContractFiles EXCEPT ![calls[c].from] = <<c>>]
    BY <2>1, ViewPut, OwnPaths, PathFacts
  <2>3. QED
    BY <2>1, <2>2, Performs
<1>2. CASE GcsAppendRead(c)
  <2>1. PICK s, pc : /\ s = IF GcsReadable(calls[c].from) THEN objects[calls[c].from] ELSE Absent
                     /\ pc = IF GcsReadable(calls[c].from) THEN "put" ELSE "err"
    OBVIOUS
  <2>2. Sees(c, s, pc)
    BY <1>2, <2>1 DEF GcsAppendRead, Sees
  <2>3. GcsReadable(calls[c].from) => objects[calls[c].from] # Absent
    BY DEF GcsReadable
  <2>4. Active(c) /\ calls[c].op = "append" /\ calls[c].pc = "start"
        /\ UNCHANGED <<backend, objects>>
    BY <1>2 DEF GcsAppendRead, Active
  <2>5. QED
    BY <2>1, <2>2, <2>3, <2>4, Looks
<1>3. CASE GcsAppendWrite(c)
  BY <1>3, AppendsSeen DEF GcsAppendWrite, Active
<1>4. CASE GcsDelete(c)
  <2>1. Active(c) /\ backend' = backend /\ backend = "gcs"
        /\ (calls[c].pc = "drop" \/ (calls[c].op = "delete" /\ calls[c].pc = "start"))
    BY <1>4 DEF GcsDelete, Active, Refuse
  <2>2. CASE Refuse(c)
    BY <2>1, <2>2, Fails DEF Refuse
  <2>3. CASE Put(calls[c].from, Absent) /\ Goto(c, "ok")
    BY <2>1, <2>3, DeletesFile, Deletes, Drops
  <2>4. QED
    BY <1>4, <2>2, <2>3 DEF GcsDelete
<1>5. CASE GcsCreateDir(c)
  <2>1. Active(c) /\ backend' = backend /\ Goto(c, "ok") /\ calls[c].pc # "drop"
        /\ Put(DotDir(calls[c].from), <<>>) /\ calls[c].op \in DirOps \ {"remove_dir_all"}
    BY <1>5 DEF GcsCreateDir, Active, DirOps
  <2>2. ContractFiles' = ContractFiles
    BY <2>1, ViewPut, OwnPaths, PathFacts
  <2>3. QED
    BY <2>1, <2>2, Performs
<1>6. CASE GcsCreateDirAll(c)
  <2>1. Active(c) /\ calls[c].op = "create_dir_all" /\ calls[c].pc = "start"
        /\ backend' = backend
    BY <1>6 DEF GcsCreateDirAll, Active
  <2>2. CASE Goto(c, "ok") /\ UNCHANGED objects
    BY <2>1, <2>2, Performs, ViewSame DEF DirOps
  <2>3. CASE \E d \in Ancestors(calls[c].from) :
               /\ Put(DotDir(d), <<>>)
               /\ calls' = [calls EXCEPT ![c].todo = @ \cup {d}]
    BY <2>1, <2>3, Marks, OwnPaths, PathFacts DEF DirOps, Ticks
  <2>4. QED
    BY <1>6, <2>2, <2>3 DEF GcsCreateDirAll
<1>7. CASE GcsRemoveDir(c)
  <2>1. Active(c) /\ UNCHANGED <<backend, objects>> /\ calls[c].pc # "drop"
        /\ calls[c].op \in DirOps \ {"remove_dir_all"} /\ (Goto(c, "ok") \/ Goto(c, "err"))
    BY <1>7 DEF GcsRemoveDir, Active, DirOps
  <2>2. QED
    BY <2>1, Performs, Fails, ViewSame
<1>l. CASE GcsRemoveDirAllList(c)
  <2>1. Active(c) /\ UNCHANGED <<backend, objects>> /\ calls[c].pc # "drop"
    BY <1>l DEF GcsRemoveDirAllList, Active
  <2>2. PICK T, pc : T = GcsList(calls[c].from) /\ pc = "each"
    OBVIOUS
  <2>3. Lists(c, T, pc)
    BY <1>l, <2>2 DEF GcsRemoveDirAllList, Lists
  <2>4. QED
    BY <2>1, <2>2, <2>3, ViewLists, ViewSame DEF Keeps
<1>d. CASE GcsRemoveDirAllDelete(c)
  <2>1. Active(c) /\ backend' = backend
        /\ calls[c].op = "remove_dir_all" /\ calls[c].pc = "each"
    BY <1>d DEF GcsRemoveDirAllDelete, Active, Refuse
  <2>2. CASE (Goto(c, "tried") \/ Goto(c, "err")) /\ UNCHANGED objects
    BY <2>1, <2>2, Fails
  <2>3. CASE \E e \in calls[c].todo : Takes(c, e)
    <3>1. PICK e \in calls[c].todo : Takes(c, e)
      BY <2>3
    <3>2. PICK k, T, pc : k = Append(calls[c].from, e.name) /\ T = calls[c].todo \ {e}
                          /\ pc = calls[c].pc
      OBVIOUS
    <3>3. k \in Keys /\ IsStrictPrefix(calls[c].from, k) /\ Put(k, Absent)
      BY <2>1, <3>1, <3>2, OwnPaths, Appended DEF Takes, DirOps
    <3>4. Lists(c, T, pc)
      BY <3>1, <3>2 DEF Takes, Lists, StoreInv, CallOK, IsCall
    <3>5. ContractCalls' = ContractCalls
      BY <2>1, <3>2, <3>4, ViewLists
    <3>6. QED
      BY <2>1, <3>3, <3>5, PrunesOne
  <2>4. QED
    BY <1>d, <2>2, <2>3 DEF GcsRemoveDirAllDelete, Takes, Refuse
<1>8. CASE GcsCopy(c)
  <2>1. Active(c) /\ backend' = backend /\ calls[c].pc = "start"
        /\ calls[c].op \in {"copy", "rename"}
    BY <1>8 DEF GcsCopy, Active, Refuse
  <2>2. CASE Refuse(c)
    BY <2>1, <2>2, Fails DEF Refuse
  <2>3. CASE /\ objects[calls[c].from] # Absent
             /\ Put(calls[c].to, objects[calls[c].from])
             /\ Goto(c, IF calls[c].op = "rename" THEN "drop" ELSE "ok")
    BY <2>1, <2>3, CopiesObject
  <2>4. QED
    BY <1>8, <2>2, <2>3 DEF GcsCopy
<1>9. QED
  BY <1>1, <1>2, <1>3, <1>4, <1>5, <1>6, <1>7, <1>l, <1>d, <1>8 DEF GcsStep

AzureStep(c) ==
  \/ AzureWrite(c) \/ AzureAppendHead(c) \/ AzureAppendWrite(c)
  \/ AzureDelete(c) \/ AzureCreateDir(c) \/ AzureCreateDirAll(c)
  \/ AzureRemoveDirList(c) \/ AzureRemoveDirDelete(c)
  \/ AzureRemoveDirAllList(c) \/ AzureRemoveDirAllDelete(c)
  \/ AzureCopy(c) \/ AzurePoll(c)

\* Only the backend of the store takes a step.
LEMMA Steps ==
  ASSUME NEW c \in Calls, Step(c)
  PROVE  Begin(c) \/ Fail(c) \/ MemoryStep(c) \/ NativeStep(c) \/ S3Step(c)
         \/ GcsStep(c) \/ (AzureStep(c) /\ ~Held)
<1>1. AzureStep(c) => ~Held
  BY DEF AzureStep, Held, At, AzureWrite, AzureAppendHead, AzureAppendWrite,
     AzureDelete, AzureCreateDir, AzureCreateDirAll, AzureRemoveDirList,
     AzureRemoveDirDelete, AzureRemoveDirAllList, AzureRemoveDirAllDelete,
     AzureCopy, AzurePoll
<1>2. QED
  BY <1>1 DEF Step, MemoryStep, NativeStep, S3Step, GcsStep, AzureStep

\* The record of a new call.
LEMMA NewCall ==
  ASSUME NEW a, NEW f, NEW t
  PROVE  [NoCall EXCEPT !.op = a, !.from = f, !.to = t, !.pc = "start"] =
           [op |-> a, from |-> f, to |-> t, seen |-> Absent, todo |-> {}, pc |-> "start"]
<1>1. PICK p0, e, s0, pc : p0 = "idle" /\ e = <<>> /\ s0 = {} /\ pc = "start"
  OBVIOUS
<1>2. PICK r1 : r1 = [op |-> a, from |-> e, to |-> e, seen |-> Absent, todo |-> s0, pc |-> p0]
  OBVIOUS
<1>3. PICK r2 : r2 = [op |-> a, from |-> f, to |-> e, seen |-> Absent, todo |-> s0, pc |-> p0]
  OBVIOUS
<1>4. PICK r3 : r3 = [op |-> a, from |-> f, to |-> t, seen |-> Absent, todo |-> s0, pc |-> p0]
  OBVIOUS
<1>5. [NoCall EXCEPT !.op = a] = r1
  BY <1>1, <1>2 DEF NoCall
<1>6. [r1 EXCEPT !.from = f] = r2
  BY <1>2, <1>3
<1>7. [r2 EXCEPT !.to = t] = r3
  BY <1>3, <1>4
<1>8. [r3 EXCEPT !.pc = pc] =
        [op |-> a, from |-> f, to |-> t, seen |-> Absent, todo |-> s0, pc |-> pc]
  BY <1>4
<1>9. [NoCall EXCEPT !.op = a, !.from = f, !.to = t, !.pc = pc] =
        [[[[NoCall EXCEPT !.op = a] EXCEPT !.from = f] EXCEPT !.to = t] EXCEPT !.pc = pc]
  BY DEF NoCall
<1>10. QED
  BY <1>1, <1>5, <1>6, <1>7, <1>8, <1>9

\* A new call keeps the invariant: it is apart from those under way.
LEMMA BeginKept ==
  ASSUME StoreInv, Held, NEW c \in Calls, Begin(c)
  PROVE  StoreInv' /\ Contract!Begin(c)
<1>1. calls[c] = NoCall /\ calls = [o \in Calls |-> calls[o]]
      /\ UNCHANGED <<backend, objects>>
  BY DEF Begin, StoreInv
<1>2. PICK q \in
       [op : {"write", "append", "delete"}, from : Files, to : {<<>>}] \cup
       [op : {"rename", "copy"}, from : Files, to : Files] \cup
       [op : {"create_dir", "create_dir_all", "remove_dir", "remove_dir_all",
              "delete"}, from : Dirs, to : {<<>>}] :
       /\ q.from # q.to
       /\ backend # "memory" => KeepsApart(q)
       /\ calls' = [calls EXCEPT ![c] =
            [NoCall EXCEPT !.op = q.op, !.from = q.from, !.to = q.to,
                           !.pc = "start"]]
  BY DEF Begin
<1>3. PICK a, f, t : a = q.op /\ f = q.from /\ t = q.to
  OBVIOUS
<1>4. /\ \/ a \in {"write", "append"} /\ f \in Files /\ t = <<>>
         \/ a = "delete" /\ f \in Files \cup Dirs /\ t = <<>>
         \/ a \in {"rename", "copy"} /\ f \in Files /\ t \in Files
         \/ a \in DirOps /\ f \in Dirs /\ t = <<>>
      /\ f # t
  BY <1>2, <1>3 DEF DirOps
<1>5. PICK r : r = [op |-> a, from |-> f, to |-> t, seen |-> Absent, todo |-> {},
                    pc |-> "start"]
  OBVIOUS
<1>n. [NoCall EXCEPT !.op = a, !.from = f, !.to = t, !.pc = "start"] = r
  BY <1>5, NewCall
<1>6. calls' = [calls EXCEPT ![c] = r]
  <2>1. calls' = [calls EXCEPT ![c] =
          [NoCall EXCEPT !.op = a, !.from = f, !.to = t, !.pc = "start"]]
    BY <1>2, <1>3
  <2>2. QED
    BY <2>1, <1>n
<1>7. calls'[c] = r /\ \A o \in Calls : o # c => calls'[o] = calls[o]
  BY <1>1, <1>6
<1>8. IsCall(r) /\ Asked(r)
  BY <1>4, <1>5 DEF IsCall, Asked, StorePcs, DirOps
<1>9. ~Active(c)
  BY <1>1 DEF Active, NoCall
<1>10. \A o \in Calls : CallOK(o)'
  <2>1. CallOK(c)'
    BY <1>5, <1>7, <1>8 DEF CallOK, Informed, Known
  <2>2. \A o \in Calls : o # c => CallOK(o)'
    BY <1>1, <1>7 DEF StoreInv, CallOK, Informed, Known
  <2>3. QED
    BY <2>1, <2>2
<1>11. ASSUME backend # "memory", NEW x \in Calls, NEW o \in Calls, x # o,
              Active(x)', Active(o)'
       PROVE  ApartFrom(x, o)'
  <2>1. ASSUME NEW u \in Calls, u # c, Active(u)
        PROVE  /\ \/ backend = "native" /\ a = "append" /\ calls[u].op = "append"
                  \/ /\ ~Related(f, calls[u].from) /\ ~Related(f, calls[u].to)
                     /\ ~Related(t, calls[u].from) /\ ~Related(t, calls[u].to)
    BY <1>2, <1>3, <1>11, <2>1 DEF KeepsApart
  <2>2. r.op = a /\ r.from = f /\ r.to = t
    BY <1>5
  <2>3. \A p, s : Related(p, s) <=> Related(s, p)
    BY DEF Related
  <2>4. CASE x = c
    <3>1. Active(o) /\ calls'[o] = calls[o] /\ calls'[x] = r
      BY <1>7, <1>11, <2>4 DEF Active
    <3>2. QED
      BY <1>1, <1>11, <2>1, <2>2, <2>4, <3>1 DEF ApartFrom
  <2>5. CASE o = c
    <3>1. Active(x) /\ calls'[x] = calls[x] /\ calls'[o] = r
      BY <1>7, <1>11, <2>5 DEF Active
    <3>2. QED
      BY <1>1, <1>11, <2>1, <2>2, <2>3, <2>5, <3>1 DEF ApartFrom
  <2>6. CASE x # c /\ o # c
    <3>1. Active(x) /\ calls'[x] = calls[x] /\ Active(o) /\ calls'[o] = calls[o]
      BY <1>7, <1>11, <2>6 DEF Active
    <3>2. ApartFrom(x, o)
      BY <1>11, <3>1 DEF StoreInv
    <3>3. QED
      BY <1>1, <3>1, <3>2 DEF ApartFrom
  <2>7. QED
    BY <2>4, <2>5, <2>6
<1>12. StoreInv'
  <2>1. (objects \in [Keys -> Bytes \cup {Absent}])' /\ (calls = [o \in Calls |-> calls[o]])'
    BY <1>1, <1>6 DEF StoreInv
  <2>2. QED
    BY <1>1, <1>10, <1>11, <2>1 DEF StoreInv
<1>13. Contract!Begin(c)
  <2>1. Held' /\ ContractFiles' = ContractFiles
    BY <1>1, ViewSame DEF Held
  <2>2. ContractCalls[c].phase = "idle"
    BY <1>1, View DEF NoCall, Phase
  <2>3. /\ ContractCalls = [o \in Calls |-> ContractCall(calls[o])]
        /\ ContractCalls' = [o \in Calls |-> ContractCall(calls[o])']
    BY <2>1 DEF ContractCalls
  <2>4. PICK ph : ph = Phase("start")
    OBVIOUS
  <2>5. ph = "open"
    BY <2>4 DEF Phase
  <2>6. ContractCalls'[c] = [op |-> a, from |-> f, to |-> t, seen |-> Absent, phase |-> ph]
    BY <1>5, <1>7, <2>3, <2>4 DEF ContractCall
  <2>7. ContractCalls'[c] \in [op : Contract!Ops, from : Files \cup Dirs,
                               to : Files \cup {<<>>}, seen : {Absent}, phase : {"open"}]
    BY <1>4, <2>5, <2>6 DEF Contract!Ops, DirOps
  <2>8. \A o \in Calls : o # c => ContractCalls'[o] = ContractCalls[o]
    BY <1>7, <2>3 DEF ContractCall
  <2>9. ContractCalls' = [ContractCalls EXCEPT ![c] = ContractCalls'[c]]
    BY <2>3, <2>8
  <2>10. QED
    BY <2>1, <2>2, <2>7, <2>9 DEF Contract!Begin
<1>14. QED
  BY <1>12, <1>13

HeldInv == Held => StoreInv

\* The backend never changes.
LEMMA SameBackend == ASSUME [Next]_vars PROVE backend' = backend
<1>1. ASSUME NEW c \in Calls, Begin(c) \/ Fail(c) PROVE backend' = backend
  BY <1>1 DEF Begin, Fail
<1>2. ASSUME NEW c \in Calls, MemoryStep(c) PROVE backend' = backend
  BY <1>2 DEF MemoryStep, Refuse, MemoryWrite, MemoryAppend, MemoryDelete,
     MemoryDeleteDirs, MemoryDeleteSweep, MemoryCreateDirCheck, MemoryCreateDirLock,
     MemoryCreateDirParent, MemoryCreateDir, MemoryCreateDirAll, MemoryRemoveLock,
     MemoryRemoveDir, MemoryRemoveDirAll, MemoryRenameLock, MemoryRename,
     MemoryCopyRead, MemoryCopyInsert
<1>3. ASSUME NEW c \in Calls, NativeStep(c) PROVE backend' = backend
  BY <1>3 DEF NativeStep, Refuse, NativeTruncate, NativeWrite, NativeAppendOpen,
     NativeAppend, NativeDelete, NativeCreateDir, NativeCreateDirAll, NativeRemoveDir,
     NativeRemoveDirAll, NativeRename, NativeCopyOpen, NativeCopyTruncate, NativeCopy
<1>4. ASSUME NEW c \in Calls, S3Step(c) PROVE backend' = backend
  BY <1>4 DEF S3Step, Refuse, S3Write, S3AppendRead, S3AppendWrite, S3Delete,
     S3CreateDir, S3CreateDirAll, S3RemoveDir, S3RemoveDirAllList,
     S3RemoveDirAllDelete, S3CopyHead, S3Copy
<1>5. ASSUME NEW c \in Calls, GcsStep(c) PROVE backend' = backend
  BY <1>5 DEF GcsStep, Refuse, GcsWrite, GcsAppendRead, GcsAppendWrite, GcsDelete,
     GcsCreateDir, GcsCreateDirAll, GcsRemoveDir, GcsRemoveDirAllList,
     GcsRemoveDirAllDelete, GcsCopy
<1>6. ASSUME NEW c \in Calls, AzureStep(c) PROVE backend' = backend
  BY <1>6 DEF AzureStep, Refuse, Unknown, AzureWrite, AzureAppendHead,
     AzureAppendWrite, AzureDelete, AzureCreateDir, AzureCreateDirAll,
     AzureRemoveDirList, AzureRemoveDirDelete, AzureRemoveDirAllList,
     AzureRemoveDirAllDelete, AzureCopy, AzurePoll
<1>7. QED
  BY <1>1, <1>2, <1>3, <1>4, <1>5, <1>6, Steps DEF Next, vars

----------------------------------------------------------------------------
(* Where content lies, the contract, and the methods that look. *)

\* A step of a call changes how far it is and what it knows, never what it was
\* asked.
Moves(c) ==
  \/ \E pc : Goto(c, pc)
  \/ \E s, pc : Sees(c, s, pc)
  \/ \E T, pc : Lists(c, T, pc)
  \/ UNCHANGED calls

Lands ==
  /\ objects' = [k \in Keys |-> objects'[k]]
  /\ \A k \in Keys : objects'[k] # Absent => k \in Place

\* A step that only moves on, and that puts nothing where the backend has none.
Placed(c) ==
  /\ Active(c) /\ backend' = backend
  /\ Moves(c) /\ Lands
  /\ dirs' \subseteq Dirs /\ (backend \in Cloud => dirs' = {})

\* What a call was asked survives each of its steps.
LEMMA MovesKept ==
  ASSUME PlaceInv, NEW c \in Calls, Active(c), Moves(c)
  PROVE  /\ calls' = [o \in Calls |-> calls'[o]]
         /\ \A o \in Calls : Typed(calls'[o]) /\ Asked(calls'[o])
         /\ \A o \in Calls :
              calls'[o].op = calls[o].op /\ calls'[o].from = calls[o].from
<1>1. Typed(calls[c]) /\ Asked(calls[c]) /\ calls = [o \in Calls |-> calls[o]]
  BY DEF PlaceInv
<1>2. CASE UNCHANGED calls
  BY <1>2 DEF PlaceInv
<1>3. CASE \E pc : Goto(c, pc)
  <2>1. PICK pc : Goto(c, pc)
    BY <1>3
  <2>2. calls'[c] = [calls[c] EXCEPT !.pc = pc]
        /\ calls' = [o \in Calls |-> calls'[o]]
        /\ \A o \in Calls : o # c => calls'[o] = calls[o]
    BY <1>1, <2>1 DEF Goto
  <2>3. Typed(calls'[c]) /\ calls'[c].op = calls[c].op
        /\ calls'[c].from = calls[c].from /\ calls'[c].to = calls[c].to
    BY <1>1, <2>2 DEF Typed
  <2>4. Asked(calls'[c])
    BY <1>1, <2>3 DEF Asked, Active
  <2>5. QED
    BY <2>2, <2>3, <2>4 DEF PlaceInv
<1>4. CASE \E s, pc : Sees(c, s, pc)
  <2>1. PICK s, pc : Sees(c, s, pc)
    BY <1>4
  <2>2. calls'[c] = [calls[c] EXCEPT !.seen = s, !.pc = pc]
        /\ calls' = [o \in Calls |-> calls'[o]]
        /\ \A o \in Calls : o # c => calls'[o] = calls[o]
    BY <1>1, <2>1 DEF Sees
  <2>3. Typed(calls'[c]) /\ calls'[c].op = calls[c].op
        /\ calls'[c].from = calls[c].from /\ calls'[c].to = calls[c].to
    BY <1>1, <2>2 DEF Typed
  <2>4. Asked(calls'[c])
    BY <1>1, <2>3 DEF Asked, Active
  <2>5. QED
    BY <2>2, <2>3, <2>4 DEF PlaceInv
<1>5. CASE \E T, pc : Lists(c, T, pc)
  <2>1. PICK T, pc : Lists(c, T, pc)
    BY <1>5
  <2>2. /\ \/ calls'[c] = [calls[c] EXCEPT !.todo = T, !.pc = pc]
           \/ calls'[c] = [calls[c] EXCEPT !.todo = T]
        /\ calls' = [o \in Calls |-> calls'[o]]
        /\ \A o \in Calls : o # c => calls'[o] = calls[o]
    BY <1>1, <2>1 DEF Lists
  <2>3. Typed(calls'[c]) /\ calls'[c].op = calls[c].op
        /\ calls'[c].from = calls[c].from /\ calls'[c].to = calls[c].to
    BY <1>1, <2>2 DEF Typed
  <2>4. Asked(calls'[c])
    BY <1>1, <2>3 DEF Asked, Active
  <2>5. QED
    BY <2>2, <2>3, <2>4 DEF PlaceInv
<1>6. QED
  BY <1>2, <1>3, <1>4, <1>5 DEF Moves

\* Such a step keeps content in its place.
LEMMA PlacedKept == ASSUME PlaceInv, NEW c \in Calls, Placed(c) PROVE PlaceInv'
<1>1. /\ calls' = [o \in Calls |-> calls'[o]]
      /\ \A o \in Calls : Typed(calls'[o]) /\ Asked(calls'[o])
      /\ \A o \in Calls : calls'[o].op = calls[o].op /\ calls'[o].from = calls[o].from
  BY MovesKept DEF Placed
<1>2. Place' = Place
  BY DEF Placed, Place
<1>3. QED
  BY <1>1, <1>2 DEF PlaceInv, Placed, Lands

\* Content put in its place, content taken away, and no change.
LEMMA Landing ==
  ASSUME PlaceInv
  PROVE  /\ UNCHANGED objects => Lands
         /\ \A k, x : Put(k, x) /\ (k \in Place \/ x = Absent) => Lands
         /\ \A S : Erase(S) => Lands
         /\ \A a, b, x : a \in Place /\ b \in Place
              /\ objects' = [objects EXCEPT ![b] = x, ![a] = Absent] => Lands
<1>1. objects = [k \in Keys |-> objects[k]] /\ \A k \in Keys : objects[k] # Absent => k \in Place
  BY DEF PlaceInv
<1>2. UNCHANGED objects => Lands
  BY <1>1 DEF Lands
<1>3. \A k, x : Put(k, x) /\ (k \in Place \/ x = Absent) => Lands
  BY <1>1 DEF Lands, Put
<1>4. \A S : Erase(S) => Lands
  BY <1>1 DEF Lands, Erase
<1>5. \A a, b, x : a \in Place /\ b \in Place
        /\ objects' = [objects EXCEPT ![b] = x, ![a] = Absent] => Lands
  BY <1>1 DEF Lands
<1>6. QED
  BY <1>2, <1>3, <1>4, <1>5

\* What a call is asked to work on has its place.
LEMMA AskedPlace ==
  ASSUME PlaceInv, NEW c \in Calls, Active(c)
  PROVE  /\ calls[c].op \in {"write", "append"} => calls[c].from \in Place
         /\ calls[c].op \in {"rename", "copy"} =>
              calls[c].from \in Place /\ calls[c].to \in Place
         /\ calls[c].op \in DirOps => calls[c].from \in Dirs
         /\ calls[c].op \in DirOps => Ancestors(calls[c].from) \subseteq Dirs
         /\ backend \in {"s3", "azure"} => \A d \in Dirs : Slash(d) \in Place
         /\ backend = "gcs" => \A d \in Dirs : DotDir(d) \in Place
<1>1. Asked(calls[c])
  BY DEF PlaceInv
<1>2. /\ calls[c].op \in {"write", "append"} => calls[c].from \in Place
      /\ calls[c].op \in {"rename", "copy"} =>
           calls[c].from \in Place /\ calls[c].to \in Place
      /\ calls[c].op \in DirOps => calls[c].from \in Dirs
  BY <1>1 DEF Asked, Active, DirOps, Place
<1>3. /\ backend \in {"s3", "azure"} => \A d \in Dirs : Slash(d) \in Place
      /\ backend = "gcs" => \A d \in Dirs : DotDir(d) \in Place
  BY DEF Place
<1>4. QED
  BY <1>2, <1>3, PathFacts

\* The memory backend has content at paths of files only.
LEMMA MemoryPlaced == ASSUME PlaceInv, NEW c \in Calls, MemoryStep(c) PROVE Placed(c)
<1> USE DEF At
<1>0. backend = "memory" /\ Active(c) /\ backend' = backend /\ backend \notin Cloud
  BY DEF MemoryStep, Refuse, MemoryWrite, MemoryAppend, MemoryDelete,
     MemoryDeleteDirs, MemoryDeleteSweep, MemoryCreateDirCheck, MemoryCreateDirLock,
     MemoryCreateDirParent, MemoryCreateDir, MemoryCreateDirAll, MemoryRemoveLock,
     MemoryRemoveDir, MemoryRemoveDirAll, MemoryRenameLock, MemoryRename,
     MemoryCopyRead, MemoryCopyInsert, Active, Cloud
<1>1. Moves(c)
  <2>1. CASE MemoryCopyRead(c)
    BY <2>1 DEF MemoryCopyRead, Moves, Sees
  <2>2. CASE ~MemoryCopyRead(c)
    BY <2>2 DEF MemoryStep, Refuse, MemoryWrite, MemoryAppend, MemoryDelete,
       MemoryDeleteDirs, MemoryDeleteSweep, MemoryCreateDirCheck, MemoryCreateDirLock,
       MemoryCreateDirParent, MemoryCreateDir, MemoryCreateDirAll, MemoryRemoveLock,
       MemoryRemoveDir, MemoryRemoveDirAll, MemoryRenameLock, MemoryRename,
       MemoryCopyInsert, Moves
  <2>3. QED
    BY <2>1, <2>2
<1>2. Lands
  <2>1. CASE MemoryWrite(c) \/ MemoryAppend(c) \/ MemoryCopyInsert(c)
    BY <1>0, <2>1, Landing, AskedPlace DEF MemoryWrite, MemoryAppend, MemoryCopyInsert
  <2>2. CASE MemoryDelete(c)
    BY <1>0, <2>2, Landing DEF MemoryDelete, Refuse
  <2>3. CASE MemoryDeleteSweep(c) \/ MemoryRemoveDirAll(c)
    BY <1>0, <2>3, Landing DEF MemoryDeleteSweep, MemoryRemoveDirAll
  <2>4. CASE MemoryRename(c)
    BY <1>0, <2>4, Landing, AskedPlace DEF MemoryRename, Refuse
  <2>5. CASE MemoryCreateDirCheck(c) \/ MemoryCreateDir(c) \/ MemoryCreateDirAll(c)
             \/ MemoryRemoveDir(c) \/ MemoryCopyRead(c) \/ MemoryDeleteDirs(c)
             \/ MemoryCreateDirLock(c) \/ MemoryCreateDirParent(c) \/ MemoryRemoveLock(c)
             \/ MemoryRenameLock(c)
    BY <2>5, Landing DEF MemoryCreateDirCheck, MemoryCreateDir, MemoryCreateDirAll,
       MemoryRemoveDir, MemoryCopyRead, MemoryDeleteDirs, MemoryCreateDirLock,
       MemoryCreateDirParent, MemoryRemoveLock, MemoryRenameLock, Refuse
  <2>6. QED
    BY <2>1, <2>2, <2>3, <2>4, <2>5 DEF MemoryStep
<1>3. dirs' \subseteq Dirs
  <2>1. dirs \subseteq Dirs
    BY DEF PlaceInv
  <2>2. CASE MemoryCreateDir(c) \/ MemoryCreateDirAll(c)
    BY <1>0, <2>1, <2>2, AskedPlace DEF MemoryCreateDir, MemoryCreateDirAll, DirOps
  <2>3. CASE ~MemoryCreateDir(c) /\ ~MemoryCreateDirAll(c)
    BY <2>1, <2>3 DEF MemoryStep, Refuse, MemoryWrite, MemoryAppend, MemoryDelete,
       MemoryDeleteDirs, MemoryDeleteSweep, MemoryCreateDirCheck, MemoryCreateDirLock,
       MemoryCreateDirParent, MemoryRemoveLock, MemoryRemoveDir, MemoryRemoveDirAll,
       MemoryRenameLock, MemoryRename, MemoryCopyRead, MemoryCopyInsert
  <2>4. QED
    BY <2>2, <2>3
<1>4. QED
  BY <1>0, <1>1, <1>2, <1>3 DEF Placed

\* So does the native one.
LEMMA NativePlaced == ASSUME PlaceInv, NEW c \in Calls, NativeStep(c) PROVE Placed(c)
<1> USE DEF At
<1>0. backend = "native" /\ Active(c) /\ backend' = backend /\ backend \notin Cloud
  BY DEF NativeStep, Refuse, NativeTruncate, NativeWrite, NativeAppendOpen,
     NativeAppend, NativeDelete, NativeCreateDir, NativeCreateDirAll, NativeRemoveDir,
     NativeRemoveDirAll, NativeRename, NativeCopyOpen, NativeCopyTruncate, NativeCopy,
     Active, Cloud
<1>1. Moves(c)
  <2>1. CASE NativeCopyOpen(c)
    BY <2>1 DEF NativeCopyOpen, Moves, Sees
  <2>2. CASE ~NativeCopyOpen(c)
    BY <2>2 DEF NativeStep, Refuse, NativeTruncate, NativeWrite, NativeAppendOpen,
       NativeAppend, NativeDelete, NativeCreateDir, NativeCreateDirAll, NativeRemoveDir,
       NativeRemoveDirAll, NativeRename, NativeCopyTruncate, NativeCopy, Moves
  <2>3. QED
    BY <2>1, <2>2
<1>2. Lands
  <2>1. CASE NativeTruncate(c) \/ NativeWrite(c) \/ NativeAppendOpen(c) \/ NativeAppend(c)
             \/ NativeDelete(c)
    BY <1>0, <2>1, Landing, AskedPlace DEF NativeTruncate, NativeWrite,
       NativeAppendOpen, NativeAppend, NativeDelete, Refuse
  <2>2. CASE NativeRemoveDirAll(c)
    BY <2>2, Landing DEF NativeRemoveDirAll, Refuse
  <2>3. CASE NativeRename(c)
    BY <1>0, <2>3, Landing, AskedPlace DEF NativeRename, Refuse
  <2>4. CASE NativeCopyTruncate(c) \/ NativeCopy(c)
    BY <1>0, <2>4, Landing, AskedPlace DEF NativeCopyTruncate, NativeCopy
  <2>5. CASE NativeCreateDir(c) \/ NativeCreateDirAll(c) \/ NativeRemoveDir(c)
             \/ NativeCopyOpen(c)
    BY <2>5, Landing DEF NativeCreateDir, NativeCreateDirAll, NativeRemoveDir,
       NativeCopyOpen, Refuse
  <2>6. QED
    BY <2>1, <2>2, <2>3, <2>4, <2>5 DEF NativeStep
<1>3. dirs' \subseteq Dirs
  <2>1. dirs \subseteq Dirs
    BY DEF PlaceInv
  <2>2. CASE NativeCreateDir(c) \/ NativeCreateDirAll(c)
    BY <1>0, <2>1, <2>2, AskedPlace DEF NativeCreateDir, NativeCreateDirAll, DirOps, Refuse
  <2>3. CASE ~NativeCreateDir(c) /\ ~NativeCreateDirAll(c)
    BY <2>1, <2>3 DEF NativeStep, Refuse, NativeTruncate, NativeWrite, NativeAppendOpen,
       NativeAppend, NativeDelete, NativeRemoveDir, NativeRemoveDirAll, NativeRename,
       NativeCopyOpen, NativeCopyTruncate, NativeCopy
  <2>4. QED
    BY <2>2, <2>3
<1>4. QED
  BY <1>0, <1>1, <1>2, <1>3 DEF Placed

\* S3 also at d/.
LEMMA S3Placed == ASSUME PlaceInv, NEW c \in Calls, S3Step(c) PROVE Placed(c)
<1> USE DEF At
<1>0. backend = "s3" /\ Active(c) /\ backend' = backend /\ dirs' = dirs
  BY DEF S3Step, Refuse, S3Write, S3AppendRead, S3AppendWrite, S3Delete,
     S3CreateDir, S3CreateDirAll, S3RemoveDir, S3RemoveDirAllList,
     S3RemoveDirAllDelete, S3CopyHead, S3Copy, Active
<1>1. Moves(c)
  <2>1. CASE S3AppendRead(c)
    BY <2>1 DEF S3AppendRead, Moves, Sees
  <2>2. CASE S3CreateDirAll(c)
    <3>1. CASE Goto(c, "ok")
      BY <3>1 DEF Moves
    <3>2. CASE \E d \in Ancestors(calls[c].from) :
                 calls' = [calls EXCEPT ![c].todo = @ \cup {d}]
      <4>1. PICK d : calls' = [calls EXCEPT ![c].todo = @ \cup {d}]
        BY <3>2
      <4>2. PICK T, pc : T = calls[c].todo \cup {d} /\ pc = calls[c].pc
        OBVIOUS
      <4>3. Lists(c, T, pc)
        BY <4>1, <4>2 DEF Lists, PlaceInv
      <4>4. QED
        BY <4>3 DEF Moves
    <3>3. QED
      BY <2>2, <3>1, <3>2 DEF S3CreateDirAll
  <2>3. CASE S3RemoveDirAllList(c)
    BY <2>3 DEF S3RemoveDirAllList, Moves, Lists
  <2>4. CASE S3RemoveDirAllDelete(c)
    <3>1. CASE Goto(c, "tried")
      BY <3>1 DEF Moves
    <3>2. CASE \E k \in calls[c].todo : calls' = [calls EXCEPT ![c].todo = @ \ {k}]
      <4>1. PICK k : calls' = [calls EXCEPT ![c].todo = @ \ {k}]
        BY <3>2
      <4>2. PICK T, pc : T = calls[c].todo \ {k} /\ pc = calls[c].pc
        OBVIOUS
      <4>3. Lists(c, T, pc)
        BY <4>1, <4>2 DEF Lists, PlaceInv
      <4>4. QED
        BY <4>3 DEF Moves
    <3>3. QED
      BY <2>4, <3>1, <3>2 DEF S3RemoveDirAllDelete
  <2>5. CASE S3Write(c) \/ S3AppendWrite(c) \/ S3Delete(c) \/ S3CreateDir(c)
             \/ S3RemoveDir(c) \/ S3CopyHead(c) \/ S3Copy(c)
    BY <2>5 DEF S3Write, S3AppendWrite, S3Delete, S3CreateDir, S3RemoveDir, S3CopyHead,
       S3Copy, Refuse, Moves
  <2>6. QED
    BY <2>1, <2>2, <2>3, <2>4, <2>5 DEF S3Step
<1>2. Lands
  <2>1. CASE S3Write(c) \/ S3AppendWrite(c) \/ S3Delete(c)
    BY <1>0, <2>1, Landing, AskedPlace DEF S3Write, S3AppendWrite, S3Delete
  <2>2. CASE S3CreateDir(c) \/ S3RemoveDir(c)
    BY <1>0, <2>2, Landing, AskedPlace DEF S3CreateDir, S3RemoveDir, Refuse, DirOps
  <2>3. CASE S3CreateDirAll(c)
    <3>1. UNCHANGED objects \/ \E d \in Ancestors(calls[c].from) : Put(Slash(d), <<>>)
      BY <2>3 DEF S3CreateDirAll
    <3>2. calls[c].op \in DirOps
      BY <2>3 DEF S3CreateDirAll, DirOps
    <3>3. QED
      BY <1>0, <3>1, <3>2, Landing, AskedPlace
  <2>4. CASE S3RemoveDirAllDelete(c)
    BY <2>4, Landing DEF S3RemoveDirAllDelete
  <2>5. CASE S3Copy(c)
    BY <1>0, <2>5, Landing, AskedPlace DEF S3Copy
  <2>6. CASE S3AppendRead(c) \/ S3RemoveDirAllList(c) \/ S3CopyHead(c)
    BY <2>6, Landing DEF S3AppendRead, S3RemoveDirAllList, S3CopyHead
  <2>7. QED
    BY <2>1, <2>2, <2>3, <2>4, <2>5, <2>6 DEF S3Step
<1>3. QED
  BY <1>0, <1>1, <1>2 DEF Placed, PlaceInv

\* GCS also at d/.dir/.
LEMMA GcsPlaced == ASSUME PlaceInv, NEW c \in Calls, GcsStep(c) PROVE Placed(c)
<1> USE DEF At
<1>0. backend = "gcs" /\ Active(c) /\ backend' = backend /\ dirs' = dirs
  BY DEF GcsStep, Refuse, GcsWrite, GcsAppendRead, GcsAppendWrite, GcsDelete, GcsCreateDir,
     GcsCreateDirAll, GcsRemoveDir, GcsRemoveDirAllList, GcsRemoveDirAllDelete, GcsCopy,
     Active
<1>1. Moves(c)
  <2>1. CASE GcsAppendRead(c)
    BY <2>1 DEF GcsAppendRead, Moves, Sees
  <2>2. CASE GcsCreateDirAll(c)
    <3>1. CASE Goto(c, "ok")
      BY <3>1 DEF Moves
    <3>2. CASE \E d \in Ancestors(calls[c].from) :
                 calls' = [calls EXCEPT ![c].todo = @ \cup {d}]
      <4>1. PICK d : calls' = [calls EXCEPT ![c].todo = @ \cup {d}]
        BY <3>2
      <4>2. PICK T, pc : T = calls[c].todo \cup {d} /\ pc = calls[c].pc
        OBVIOUS
      <4>3. Lists(c, T, pc)
        BY <4>1, <4>2 DEF Lists, PlaceInv
      <4>4. QED
        BY <4>3 DEF Moves
    <3>3. QED
      BY <2>2, <3>1, <3>2 DEF GcsCreateDirAll
  <2>3. CASE GcsRemoveDirAllList(c)
    BY <2>3 DEF GcsRemoveDirAllList, Moves, Lists
  <2>d. CASE GcsRemoveDirAllDelete(c)
    <3>1. CASE Goto(c, "tried") \/ Goto(c, "err")
      BY <3>1 DEF Moves
    <3>2. CASE \E e \in calls[c].todo : calls' = [calls EXCEPT ![c].todo = @ \ {e}]
      <4>1. PICK e : calls' = [calls EXCEPT ![c].todo = @ \ {e}]
        BY <3>2
      <4>2. PICK T, pc : T = calls[c].todo \ {e} /\ pc = calls[c].pc
        OBVIOUS
      <4>3. Lists(c, T, pc)
        BY <4>1, <4>2 DEF Lists, PlaceInv
      <4>4. QED
        BY <4>3 DEF Moves
    <3>3. QED
      BY <2>d, <3>1, <3>2 DEF GcsRemoveDirAllDelete, Refuse
  <2>4. CASE GcsWrite(c) \/ GcsAppendWrite(c) \/ GcsDelete(c) \/ GcsCreateDir(c)
             \/ GcsRemoveDir(c) \/ GcsCopy(c)
    BY <2>4 DEF GcsWrite, GcsAppendWrite, GcsDelete, GcsCreateDir, GcsRemoveDir,
       GcsCopy, Refuse, Moves
  <2>5. QED
    BY <2>1, <2>2, <2>3, <2>d, <2>4 DEF GcsStep
<1>2. Lands
  <2>1. CASE GcsWrite(c) \/ GcsAppendWrite(c) \/ GcsDelete(c)
    BY <1>0, <2>1, Landing, AskedPlace DEF GcsWrite, GcsAppendWrite, GcsDelete, Refuse
  <2>2. CASE GcsCreateDir(c)
    BY <1>0, <2>2, Landing, AskedPlace DEF GcsCreateDir, DirOps
  <2>3. CASE GcsCreateDirAll(c)
    <3>1. UNCHANGED objects \/ \E d \in Ancestors(calls[c].from) : Put(DotDir(d), <<>>)
      BY <2>3 DEF GcsCreateDirAll
    <3>2. calls[c].op \in DirOps
      BY <2>3 DEF GcsCreateDirAll, DirOps
    <3>3. QED
      BY <1>0, <3>1, <3>2, Landing, AskedPlace
  <2>4. CASE GcsCopy(c)
    BY <1>0, <2>4, Landing, AskedPlace DEF GcsCopy, Refuse
  <2>5. CASE GcsAppendRead(c) \/ GcsRemoveDir(c) \/ GcsRemoveDirAllList(c)
             \/ GcsRemoveDirAllDelete(c)
    BY <2>5, Landing DEF GcsAppendRead, GcsRemoveDir, GcsRemoveDirAllList,
       GcsRemoveDirAllDelete, Refuse
  <2>6. QED
    BY <2>1, <2>2, <2>3, <2>4, <2>5 DEF GcsStep
<1>3. QED
  BY <1>0, <1>1, <1>2 DEF Placed, PlaceInv

\* Azure, like S3, at d/.
LEMMA AzurePlaced == ASSUME PlaceInv, NEW c \in Calls, AzureStep(c) PROVE Placed(c)
<1> USE DEF At
<1>0. backend = "azure" /\ Active(c) /\ backend' = backend /\ dirs' = dirs
  BY DEF AzureStep, Refuse, Unknown, AzureWrite, AzureAppendHead,
     AzureAppendWrite, AzureDelete, AzureCreateDir, AzureCreateDirAll,
     AzureRemoveDirList, AzureRemoveDirDelete, AzureRemoveDirAllList,
     AzureRemoveDirAllDelete, AzureCopy, AzurePoll, Active
<1>d. ASSUME \E k \in calls[c].todo : calls' = [calls EXCEPT ![c].todo = @ \ {k}]
      PROVE  Moves(c)
  <2>1. PICK k : calls' = [calls EXCEPT ![c].todo = @ \ {k}]
    BY <1>d
  <2>2. PICK T, pc : T = calls[c].todo \ {k} /\ pc = calls[c].pc
    OBVIOUS
  <2>3. Lists(c, T, pc)
    BY <2>1, <2>2 DEF Lists, PlaceInv
  <2>4. QED
    BY <2>3 DEF Moves
<1>1. Moves(c)
  <2>1. CASE AzureAppendHead(c)
    BY <2>1 DEF AzureAppendHead, Moves, Sees
  <2>2. CASE AzureRemoveDirList(c) \/ AzureRemoveDirAllList(c)
    BY <2>2 DEF AzureRemoveDirList, AzureRemoveDirAllList, Unknown, Moves, Lists
  <2>3. CASE AzureRemoveDirDelete(c)
    <3>1. \/ Goto(c, "ok") \/ Goto(c, "err")
          \/ \E k \in calls[c].todo : calls' = [calls EXCEPT ![c].todo = @ \ {k}]
      BY <2>3 DEF AzureRemoveDirDelete, Refuse
    <3>2. QED
      BY <3>1, <1>d DEF Moves
  <2>4. CASE AzureRemoveDirAllDelete(c)
    <3>1. \/ \E pc : Goto(c, pc)
          \/ \E k \in calls[c].todo : calls' = [calls EXCEPT ![c].todo = @ \ {k}]
      BY <2>4 DEF AzureRemoveDirAllDelete
    <3>2. QED
      BY <3>1, <1>d DEF Moves
  <2>5. CASE AzureWrite(c) \/ AzureAppendWrite(c) \/ AzureDelete(c) \/ AzureCreateDir(c)
             \/ AzureCreateDirAll(c) \/ AzureCopy(c) \/ AzurePoll(c)
    BY <2>5 DEF AzureWrite, AzureAppendWrite, AzureDelete, AzureCreateDir,
       AzureCreateDirAll, AzureCopy, AzurePoll, Unknown, Refuse, Moves
  <2>6. QED
    BY <2>1, <2>2, <2>3, <2>4, <2>5 DEF AzureStep
<1>2. Lands
  <2>1. CASE AzureWrite(c) \/ AzureAppendWrite(c) \/ AzureDelete(c)
    BY <1>0, <2>1, Landing, AskedPlace DEF AzureWrite, AzureAppendWrite, AzureDelete,
       Unknown, Refuse
  <2>2. CASE AzureCreateDir(c)
    BY <1>0, <2>2, Landing, AskedPlace DEF AzureCreateDir, Unknown, DirOps
  <2>3. CASE AzureRemoveDirDelete(c) \/ AzureRemoveDirAllDelete(c)
    BY <2>3, Landing DEF AzureRemoveDirDelete, AzureRemoveDirAllDelete, Refuse
  <2>4. CASE AzureAppendHead(c) \/ AzureCreateDirAll(c) \/ AzureRemoveDirList(c)
             \/ AzureRemoveDirAllList(c) \/ AzureCopy(c) \/ AzurePoll(c)
    BY <2>4, Landing DEF AzureAppendHead, AzureCreateDirAll, AzureRemoveDirList,
       AzureRemoveDirAllList, AzureCopy, AzurePoll, Unknown
  <2>5. QED
    BY <2>1, <2>2, <2>3, <2>4 DEF AzureStep
<1>3. QED
  BY <1>0, <1>1, <1>2 DEF Placed, PlaceInv

\* At the start content lies where the backend has it.
LEMMA PlaceInit == Init => PlaceInv
<1> SUFFICES ASSUME Init PROVE PlaceInv
  OBVIOUS
<1>1. backend \in {"memory", "native"} \cup Cloud
  BY BackendsAssumption DEF Init
<1>2. calls = [c \in Calls |-> calls[c]] /\ \A c \in Calls : calls[c] = NoCall
  BY DEF Init
<1>3. Typed(NoCall) /\ Asked(NoCall) /\ NoCall.op # "delete"
  BY DEF Typed, Asked, NoCall
<1>4. PICK old \in SUBSET Files, marked \in SUBSET Dirs :
        /\ dirs = IF backend \in Cloud THEN {} ELSE marked
        /\ objects = [k \in Keys |->
             IF k \in old THEN <<"old">>
             ELSE IF \E d \in marked : \/ backend \in {"s3", "azure"} /\ k = Slash(d)
                                       \/ backend = "gcs" /\ k = DotDir(d)
             THEN <<>> ELSE Absent]
  BY DEF Init
<1>5. \A k \in Keys : objects[k] # Absent => k \in Place
  BY <1>4 DEF Place
<1>6. objects = [k \in Keys |-> objects[k]]
  BY <1>4
<1>7. QED
  BY <1>1, <1>2, <1>3, <1>4, <1>5, <1>6 DEF PlaceInv

\* A new call leaves the content where it is.
LEMMA BeginPlaced == ASSUME PlaceInv, NEW c \in Calls, Begin(c) PROVE PlaceInv'
<1>1. UNCHANGED <<backend, objects, dirs>> /\ calls = [o \in Calls |-> calls[o]]
  BY DEF Begin, PlaceInv
<1>2. PICK q \in
       [op : {"write", "append", "delete"}, from : Files, to : {<<>>}] \cup
       [op : {"rename", "copy"}, from : Files, to : Files] \cup
       [op : {"create_dir", "create_dir_all", "remove_dir", "remove_dir_all",
              "delete"}, from : Dirs, to : {<<>>}] :
       /\ q.from # q.to
       /\ q.op = "delete" /\ q.from \in Dirs => backend = "memory"
       /\ calls' = [calls EXCEPT ![c] =
            [NoCall EXCEPT !.op = q.op, !.from = q.from, !.to = q.to,
                           !.pc = "start"]]
  BY DEF Begin
<1>3. PICK a, f, t : a = q.op /\ f = q.from /\ t = q.to
  OBVIOUS
<1>4. /\ \/ a \in {"write", "append"} /\ f \in Files /\ t = <<>>
         \/ a = "delete" /\ f \in Files \cup Dirs /\ t = <<>>
         \/ a \in {"rename", "copy"} /\ f \in Files /\ t \in Files
         \/ a \in DirOps /\ f \in Dirs /\ t = <<>>
      /\ f # t
      /\ a = "delete" /\ f \in Dirs => backend = "memory"
  BY <1>2, <1>3 DEF DirOps
<1>5. PICK r : r = [op |-> a, from |-> f, to |-> t, seen |-> Absent, todo |-> {},
                    pc |-> "start"]
  OBVIOUS
<1>6. [NoCall EXCEPT !.op = a, !.from = f, !.to = t, !.pc = "start"] = r
  BY <1>5, NewCall
<1>7. calls' = [calls EXCEPT ![c] = r]
  <2>1. calls' = [calls EXCEPT ![c] =
          [NoCall EXCEPT !.op = a, !.from = f, !.to = t, !.pc = "start"]]
    BY <1>2, <1>3
  <2>2. QED
    BY <2>1, <1>6
<1>8. Typed(r) /\ Asked(r)
  BY <1>4, <1>5 DEF Typed, Asked, DirOps
<1>9. Place' = Place
  BY <1>1 DEF Place
<1>10. calls' = [o \in Calls |-> calls'[o]] /\ \A o \in Calls : Typed(calls'[o]) /\ Asked(calls'[o])
  BY <1>1, <1>7, <1>8 DEF PlaceInv
<1>d. \A o \in Calls :
        calls'[o].op = "delete" /\ calls'[o].from \in Dirs => backend = "memory"
  <2>1. calls'[c] = r /\ r.op = a /\ r.from = f
    BY <1>1, <1>5, <1>7
  <2>2. \A o \in Calls : o # c => calls'[o] = calls[o]
    BY <1>1, <1>7
  <2>3. QED
    BY <1>4, <2>1, <2>2 DEF PlaceInv
<1>11. QED
  BY <1>1, <1>9, <1>10, <1>d DEF PlaceInv

\* Every step leaves the content in its place.
LEMMA PlaceStepInv == PlaceInv /\ [Next]_vars => PlaceInv'
<1> SUFFICES ASSUME PlaceInv, [Next]_vars PROVE PlaceInv'
  OBVIOUS
<1>1. CASE UNCHANGED vars
  <2>1. Place' = Place
    BY <1>1 DEF vars, Place
  <2>2. QED
    BY <1>1, <2>1 DEF vars, PlaceInv
<1>2. ASSUME NEW c \in Calls, Fail(c) PROVE Placed(c)
  BY <1>2, Landing DEF Fail, Placed, Moves, PlaceInv
<1>3. QED
  BY <1>1, <1>2, Steps, BeginPlaced, PlacedKept, MemoryPlaced, NativePlaced, S3Placed,
     GcsPlaced, AzurePlaced DEF Next

\* Every step keeps the invariant, and is one of the contract or not seen.
LEMMA StoreStepInv == HeldInv /\ PlaceInv /\ [Next]_vars => HeldInv' /\ Keeps
<1> SUFFICES ASSUME HeldInv, PlaceInv, [Next]_vars PROVE HeldInv' /\ Keeps
  OBVIOUS
<1>0. backend' = backend
  BY SameBackend
<1>1. CASE ~Held
  <2>1. ~Held'
    BY <1>0, <1>1 DEF Held
  <2>2. UNCHANGED <<ContractFiles, ContractCalls>>
    BY <1>1, <2>1 DEF ContractFiles, ContractCalls, ContractCall
  <2>3. QED
    BY <2>1, <2>2 DEF HeldInv, Keeps
<1>2. CASE Held /\ UNCHANGED vars
  <2>1. StoreInv' /\ UNCHANGED <<ContractFiles, ContractCalls>>
    BY <1>2 DEF vars, HeldInv, StoreInv, CallOK, Asked, Informed, Known, ApartFrom, Active,
       ContractFiles, ContractCalls, ContractCall, Held
  <2>2. QED
    BY <2>1 DEF HeldInv, Keeps
<1>3. ASSUME Held, NEW c \in Calls, Step(c) PROVE StoreInv' /\ Keeps
  <2>1. StoreInv
    BY <1>3 DEF HeldInv
  <2>2. CASE Begin(c)
    BY <1>3, <2>1, <2>2, BeginKept DEF Keeps, Contract!Next
  <2>3. CASE Fail(c)
    BY <1>3, <2>1, <2>3, LookEnds, Frame, Fails DEF Fail
  <2>4. CASE MemoryStep(c)
    BY <1>3, <2>1, <2>4, MemoryAdvance, Frame, MemoryKeeps
  <2>5. CASE NativeStep(c)
    BY <1>3, <2>1, <2>5, NativeAdvance, Frame, NativeKeeps
  <2>6. CASE S3Step(c)
    BY <1>3, <2>1, <2>6, S3Advance, Frame, S3Keeps
  <2>7. CASE GcsStep(c)
    BY <1>3, <2>1, <2>7, GcsAdvance, Frame, GcsKeeps
  <2>8. QED
    BY <1>3, <2>2, <2>3, <2>4, <2>5, <2>6, <2>7, Steps
<1>4. QED
  BY <1>1, <1>2, <1>3 DEF Next, HeldInv

\* The memory, native, S3 and GCS backends implement the contract of the trait
\* Storage: for any number of calls on any paths, and whatever await each of
\* them fails or is dropped at (storage/mod.rs, trait Storage). A call that
\* ends in "ok" has had its whole effect; a remove_dir_all of S3 or GCS ends
\* in "tried" (s3.rs:474, gcs.rs:836), which is held to no success: content of
\* the directory may be left, and nothing else is gone.
THEOREM ContractKept == Spec => KeepsContract
<1>1. Init => Contract!Init
  <2> SUFFICES ASSUME Init PROVE Contract!Init
    OBVIOUS
  <2>1. ContractFiles \in [Files -> {Absent, <<"old">>}]
    <3>1. \A p \in Files : p \in Keys /\ \A d \in Dirs : p # Slash(d) /\ p # DotDir(d)
      BY PathFacts
    <3>2. \A p \in Files : objects[p] \in {Absent, <<"old">>}
      BY <3>1 DEF Init
    <3>3. QED
      BY <3>2 DEF ContractFiles
  <2>2. ContractCalls = [c \in Calls |->
          [op |-> "none", from |-> <<>>, to |-> <<>>, seen |-> Absent, phase |-> "idle"]]
    <3>1. Phase("idle") = "idle"
      BY DEF Phase
    <3>2. ContractCall(NoCall) =
            [op |-> "none", from |-> <<>>, to |-> <<>>, seen |-> Absent, phase |-> "idle"]
      BY <3>1 DEF ContractCall, NoCall
    <3>3. \A c \in Calls : (IF Held THEN calls[c] ELSE NoCall) = NoCall
      BY DEF Init
    <3>4. QED
      BY <3>2, <3>3 DEF ContractCalls
  <2>3. QED
    BY <2>1, <2>2 DEF Contract!Init
<1>2. Init => HeldInv
  BY StoreInitInv DEF HeldInv
<1>3. Keeps => [Contract!Next]_(Contract!vars)
  BY DEF Keeps, Contract!vars
<1>4. QED
  BY <1>1, <1>2, <1>3, PlaceInit, PlaceStepInv, StoreStepInv, PTL
     DEF Spec, KeepsContract, Contract!Spec

\* A path lies in its parent, and in no file.
LEMMA Parents ==
  /\ \A p \in Files \cup Dirs : Parent(p) = <<>> \/ Parent(p) \in Dirs
  /\ \A p \in Files, d \in Dirs :
       Parent(p) = d <=> IsStrictPrefix(d, p) /\ Len(p) = Len(d) + 1
  /\ \A p \in Files, k \in Files : ~IsStrictPrefix(p, k)
  /\ \A d \in Dirs, e \in Dirs :
       IsStrictPrefix(d, Slash(e)) /\ Len(Slash(e)) = Len(d) + 1 => e = d
  /\ \A d \in Dirs : Last(Slash(d)) = NoName
  /\ \A p \in Files \cup Dirs : Last(p) # NoName
<1>0. NoName \notin Names
  BY DEF NoName, Names
<1>1. ASSUME NEW p \in Files \cup Dirs
      PROVE  p \in Seq(Names) /\ p # <<>> /\ Len(p) \in Nat \ {0} /\ p[Len(p)] \in Names
  BY PathsAssumption
<1>2. ASSUME NEW p \in Files \cup Dirs PROVE Parent(p) = <<>> \/ Parent(p) \in Dirs
  <2>1. CASE Len(p) = 1
    BY <1>1, <2>1 DEF Parent
  <2>2. CASE Len(p) # 1
    <3>1. Len(p) - 1 \in 1..(Len(p) - 1)
      <4>1. PICK n \in Nat : n = Len(p) /\ n # 0 /\ n # 1
        BY <1>1, <2>2
      <4>2. n - 1 \in 1..(n - 1)
        BY <4>1
      <4>3. QED
        BY <4>1, <4>2
    <3>2. QED
      BY <3>1, PathsAssumption DEF Parent
  <2>3. QED
    BY <2>1, <2>2
<1>3. ASSUME NEW p \in Files, NEW d \in Dirs
      PROVE  Parent(p) = d <=> IsStrictPrefix(d, p) /\ Len(p) = Len(d) + 1
  <2>1. p \in Seq(Names) /\ d \in Seq(Names) /\ Len(p) \in Nat \ {0} /\ Len(d) \in Nat
    BY <1>1
  <2>2. SubSeq(d, 1, Len(d)) = d
    BY <2>1
  <2>3. Len(SubSeq(p, 1, Len(p) - 1)) = Len(p) - 1
    <3>1. PICK m \in Nat : m = Len(p) - 1
      BY <2>1
    <3>2. Len(SubSeq(p, 1, m)) = m
      BY <2>1, <3>1
    <3>3. QED
      BY <3>1, <3>2
  <2>4. ASSUME Parent(p) = d PROVE IsStrictPrefix(d, p) /\ Len(p) = Len(d) + 1
    BY <2>1, <2>2, <2>3, <2>4 DEF Parent, IsStrictPrefix, IsPrefix
  <2>5. ASSUME IsStrictPrefix(d, p), Len(p) = Len(d) + 1 PROVE Parent(p) = d
    BY <2>1, <2>2, <2>5 DEF Parent, IsStrictPrefix, IsPrefix
  <2>6. QED
    BY <2>4, <2>5
<1>4. ASSUME NEW p \in Files, NEW k \in Files, IsStrictPrefix(p, k) PROVE FALSE
  <2>1. p \in Seq(Names) /\ k \in Seq(Names) /\ Len(p) \in Nat \ {0} /\ Len(k) \in Nat
    BY <1>1
  <2>2. SubSeq(p, 1, Len(p)) = p /\ SubSeq(k, 1, Len(k)) = k
    BY <2>1
  <2>3. Len(p) <= Len(k) /\ p = SubSeq(k, 1, Len(p)) /\ p # k
    BY <1>4, <2>2 DEF IsStrictPrefix, IsPrefix
  <2>4. Len(p) \in 1..(Len(k) - 1)
    BY <2>1, <2>2, <2>3
  <2>5. p \in Dirs
    BY <2>3, <2>4, PathsAssumption
  <2>6. QED
    BY <2>5, PathsAssumption
<1>5. ASSUME NEW d \in Dirs PROVE Len(Slash(d)) = Len(d) + 1 /\ Slash(d)[Len(d) + 1] = NoName
  BY <1>1 DEF Slash
<1>6. ASSUME NEW d \in Dirs, NEW e \in Dirs, IsStrictPrefix(d, Slash(e)),
             Len(Slash(e)) = Len(d) + 1
      PROVE  e = d
  <2>1. d \in Seq(Names \cup {NoName}) /\ e \in Seq(Names \cup {NoName})
        /\ Len(d) \in Nat /\ Len(e) \in Nat
    BY <1>1
  <2>2. Len(e) = Len(d)
    BY <1>5, <1>6, <2>1
  <2>3. SubSeq(d, 1, Len(d)) = d
    BY <2>1
  <2>4. SubSeq(Slash(e), 1, Len(e)) = e
    BY <2>1 DEF Slash
  <2>5. QED
    BY <1>6, <2>2, <2>3, <2>4 DEF IsStrictPrefix, IsPrefix
<1>7. QED
  BY <1>0, <1>1, <1>2, <1>3, <1>4, <1>5, <1>6 DEF Last

\* The names of the directories, and of the files, among the entries of a list.
NamedIn(L, dir) == {e.name : e \in {e \in L : e.is_dir = dir}}
Entries(D, F) == {Entry(Last(x), TRUE) : x \in D} \cup {Entry(Last(x), FALSE) : x \in F}

LEMMA EntryFacts ==
  ASSUME NEW D, NEW F
  PROVE  /\ NamedIn(Entries(D, F), TRUE) = {Last(x) : x \in D}
         /\ NamedIn(Entries(D, F), FALSE) = {Last(x) : x \in F}
<1>1. \A n, dir : Entry(n, dir).is_dir = dir /\ Entry(n, dir).name = n
  BY DEF Entry
<1>2. ASSUME NEW x \in D PROVE Entry(Last(x), TRUE) \in {e \in Entries(D, F) : e.is_dir = TRUE}
  BY <1>1 DEF Entries
<1>3. ASSUME NEW x \in F PROVE Entry(Last(x), FALSE) \in {e \in Entries(D, F) : e.is_dir = FALSE}
  BY <1>1 DEF Entries
<1>4. ASSUME NEW e \in Entries(D, F)
      PROVE  /\ e.is_dir = TRUE => \E x \in D : e = Entry(Last(x), TRUE)
             /\ e.is_dir = FALSE => \E x \in F : e = Entry(Last(x), FALSE)
  BY <1>1 DEF Entries
<1>5. ASSUME NEW n PROVE n \in NamedIn(Entries(D, F), TRUE) <=> n \in {Last(x) : x \in D}
  <2>1. ASSUME n \in NamedIn(Entries(D, F), TRUE) PROVE n \in {Last(x) : x \in D}
    <3>1. PICK e \in Entries(D, F) : e.is_dir = TRUE /\ n = e.name
      BY <2>1 DEF NamedIn
    <3>2. PICK x \in D : e = Entry(Last(x), TRUE)
      BY <1>4, <3>1
    <3>3. n = Last(x)
      BY <1>1, <3>1, <3>2
    <3>4. QED
      BY <3>3
  <2>2. ASSUME NEW x \in D PROVE Last(x) \in NamedIn(Entries(D, F), TRUE)
    BY <1>1, <1>2 DEF NamedIn
  <2>3. QED
    BY <2>1, <2>2
<1>6. ASSUME NEW n PROVE n \in NamedIn(Entries(D, F), FALSE) <=> n \in {Last(x) : x \in F}
  <2>1. ASSUME n \in NamedIn(Entries(D, F), FALSE) PROVE n \in {Last(x) : x \in F}
    <3>1. PICK e \in Entries(D, F) : e.is_dir = FALSE /\ n = e.name
      BY <2>1 DEF NamedIn
    <3>2. PICK x \in F : e = Entry(Last(x), FALSE)
      BY <1>4, <3>1
    <3>3. n = Last(x)
      BY <1>1, <3>1, <3>2
    <3>4. QED
      BY <3>3
  <2>2. ASSUME NEW x \in F PROVE Last(x) \in NamedIn(Entries(D, F), FALSE)
    BY <1>1, <1>3 DEF NamedIn
  <2>3. QED
    BY <2>1, <2>2
<1>7. QED
  BY <1>5, <1>6

\* The keys of a store with markers at d/ only are sequences of names.
LEMMA KeyShape ==
  ASSUME NEW k \in Files \cup Dirs \cup {Slash(e) : e \in Dirs}
  PROVE  k \in Seq(Names \cup {NoName}) /\ Len(k) \in Nat
<1>1. \A p \in Files \cup Dirs : p \in Seq(Names \cup {NoName}) /\ Len(p) \in Nat
  BY PathsAssumption
<1>2. \A e \in Dirs : Append(e, NoName) \in Seq(Names \cup {NoName})
                      /\ Len(Append(e, NoName)) \in Nat
  BY <1>1
<1>3. QED
  BY <1>1, <1>2 DEF Slash

\* What a key that lies deep in d is rolled up into is a directory in d, and
\* the key lies in that.
LEMMA Rolled ==
  ASSUME NEW d \in Dirs, NEW k \in Files \cup {Slash(e) : e \in Dirs},
         IsStrictPrefix(d, k), Len(k) > Len(d) + 1
  PROVE  LET x == SubSeq(k, 1, Len(d) + 1)
         IN  x \in Dirs /\ Parent(x) = d /\ IsStrictPrefix(x, k)
<1> DEFINE n == Len(d) + 1
           x == SubSeq(k, 1, n)
<1>1. \A p \in Files \cup Dirs : p \in Seq(Names) /\ Len(p) \in Nat
  BY PathsAssumption
<1>2. k \in Seq(Names \cup {NoName}) /\ n \in Nat /\ n \in 1..Len(k) /\ n < Len(k)
  BY <1>1, KeyShape
<1>3. x \in Dirs
  <2>1. CASE k \in Files
    <3>1. n \in 1..(Len(k) - 1)
      BY <1>2
    <3>2. QED
      BY <2>1, <3>1, PathsAssumption
  <2>2. CASE \E e \in Dirs : k = Slash(e)
    <3>1. PICK e \in Dirs : k = Slash(e)
      BY <2>2
    <3>2. e \in Seq(Names) /\ Len(e) \in Nat /\ Len(k) = Len(e) + 1 /\ n <= Len(e)
      BY <1>1, <1>2, <3>1 DEF Slash
    <3>3. x = SubSeq(e, 1, n)
      BY <1>1, <1>2, <3>1, <3>2 DEF Slash
    <3>4. CASE n = Len(e)
      <4>1. SubSeq(e, 1, Len(e)) = e
        BY <3>2
      <4>2. QED
        BY <3>3, <3>4, <4>1
    <3>5. CASE n # Len(e)
      <4>1. n \in 1..(Len(e) - 1)
        BY <1>2, <3>2, <3>5
      <4>2. QED
        BY <3>3, <4>1, PathsAssumption
    <3>6. QED
      BY <3>4, <3>5
  <2>3. QED
    BY <2>1, <2>2
<1>4. Len(x) = n /\ SubSeq(x, 1, n) = x
  BY <1>2
<1>5. Parent(x) = d
  <2>1. SubSeq(x, 1, Len(d)) = SubSeq(k, 1, Len(d))
    <3>1. Len(d) \in Nat /\ Len(d) < n
      BY <1>1
    <3>2. QED
      BY <1>2, <3>1
  <2>2. SubSeq(d, 1, Len(d)) = d
    BY <1>1
  <2>3. SubSeq(k, 1, Len(d)) = d
    BY <2>2 DEF IsStrictPrefix, IsPrefix
  <2>4. Len(x) - 1 = Len(d)
    BY <1>1, <1>4
  <2>5. QED
    BY <2>1, <2>3, <2>4 DEF Parent
<1>6. IsStrictPrefix(x, k)
  <2>1. Len(x) <= Len(k) /\ x # k
    BY <1>2, <1>4
  <2>2. QED
    BY <1>4, <2>1 DEF IsStrictPrefix, IsPrefix
<1>7. QED
  BY <1>3, <1>5, <1>6

\* What lies in a directory in d lies deep in d and is rolled up into it.
LEMMA Unrolled ==
  ASSUME NEW d \in Dirs, NEW x \in Dirs, Parent(x) = d,
         NEW k \in Files \cup {Slash(e) : e \in Dirs}, IsStrictPrefix(x, k)
  PROVE  IsStrictPrefix(d, k) /\ Len(k) > Len(d) + 1 /\ x = SubSeq(k, 1, Len(d) + 1)
<1>1. \A p \in Files \cup Dirs : p \in Seq(Names) /\ Len(p) \in Nat \ {0}
  BY PathsAssumption
<1>2. k \in Seq(Names \cup {NoName}) /\ Len(k) \in Nat /\ x \in Seq(Names \cup {NoName})
  BY KeyShape
<1>3. Len(d) = Len(x) - 1 /\ d = SubSeq(x, 1, Len(d))
  <2>1. PICK m \in Nat : m = Len(x) - 1
    BY <1>1
  <2>2. Len(SubSeq(x, 1, m)) = m
    BY <1>1, <2>1
  <2>3. QED
    BY <2>1, <2>2 DEF Parent
<1>4. SubSeq(x, 1, Len(x)) = x /\ SubSeq(k, 1, Len(k)) = k /\ SubSeq(d, 1, Len(d)) = d
  BY <1>1, <1>2
<1>5. Len(x) <= Len(k) /\ x = SubSeq(k, 1, Len(x)) /\ x # k
  BY <1>4 DEF IsStrictPrefix, IsPrefix
<1>6. Len(x) # Len(k)
  BY <1>4, <1>5
<1>7. Len(k) > Len(d) + 1 /\ x = SubSeq(k, 1, Len(d) + 1)
  <2>1. PICK l \in Nat : l = Len(x) /\ Len(d) = l - 1
    BY <1>1, <1>3
  <2>2. PICK m \in Nat : m = Len(k)
    BY <1>2
  <2>3. l <= m /\ l # m
    BY <1>5, <1>6, <2>1, <2>2
  <2>4. Len(d) + 1 = l /\ m > l
    BY <2>1, <2>3
  <2>5. QED
    BY <1>5, <2>1, <2>2, <2>4
<1>8. SubSeq(k, 1, Len(d)) = d
  <2>1. Len(d) \in Nat /\ Len(d) <= Len(x) /\ Len(x) <= Len(k)
    BY <1>1, <1>3, <1>5
  <2>2. SubSeq(SubSeq(k, 1, Len(x)), 1, Len(d)) = SubSeq(k, 1, Len(d))
    BY <1>1, <1>2, <2>1
  <2>3. QED
    BY <1>3, <1>5, <2>2
<1>9. Len(d) <= Len(k) /\ d # k
  BY <1>1, <1>2, <1>7
<1>10. QED
  BY <1>4, <1>7, <1>8, <1>9 DEF IsStrictPrefix, IsPrefix

\* With markers at d/ only: a directory is rolled up to exactly if it lies in
\* d and something lies in it.
LEMMA RolledUpDirs ==
  ASSUME NEW d \in Dirs,
         \A k \in Keys : objects[k] # Absent => k \in Files \cup {Slash(e) : e \in Dirs}
  PROVE  RolledUp(d) = {x \in Dirs : Parent(x) = d /\ Below(x) # {}}
<1>1. ASSUME NEW x \in RolledUp(d) PROVE x \in Dirs /\ Parent(x) = d /\ Below(x) # {}
  <2>1. PICK k \in Below(d) : Len(k) > Len(d) + 1 /\ x = SubSeq(k, 1, Len(d) + 1)
    BY <1>1 DEF RolledUp
  <2>2. k \in Keys /\ IsStrictPrefix(d, k) /\ objects[k] # Absent
    BY DEF Below
  <2>3. x \in Dirs /\ Parent(x) = d /\ IsStrictPrefix(x, k)
    BY <2>1, <2>2, Rolled
  <2>4. QED
    BY <2>2, <2>3 DEF Below
<1>2. ASSUME NEW x \in Dirs, Parent(x) = d, Below(x) # {} PROVE x \in RolledUp(d)
  <2>1. PICK k \in Keys : IsStrictPrefix(x, k) /\ objects[k] # Absent
    BY <1>2 DEF Below
  <2>2. IsStrictPrefix(d, k) /\ Len(k) > Len(d) + 1 /\ x = SubSeq(k, 1, Len(d) + 1)
    BY <1>2, <2>1, Unrolled
  <2>3. QED
    BY <2>1, <2>2 DEF RolledUp, Below
<1>3. QED
  BY <1>1, <1>2

\* And for S3 something lies in it exactly if it is a directory.
LEMMA S3Dirs ==
  ASSUME NEW d \in Dirs,
         \A k \in Keys : objects[k] # Absent => k \in Files \cup {Slash(e) : e \in Dirs}
  PROVE  S3IsDir(d) <=> Below(d) # {}
<1>1. \A p \in Files \cup Dirs : p \in Seq(Names) /\ Len(p) \in Nat
  BY PathsAssumption
<1>2. Slash(d) \in Keys /\ IsStrictPrefix(d, Slash(d))
  BY PathFacts, Appended DEF Slash
<1>3. ASSUME NEW k \in Below(d) PROVE k \in Contents(d) \/ RolledUp(d) # {}
  <2>1. k \in Keys /\ IsStrictPrefix(d, k) /\ k \in Files \cup {Slash(e) : e \in Dirs}
    BY DEF Below
  <2>2. k \in Seq(Names \cup {NoName}) /\ Len(k) \in Nat /\ d \in Seq(Names \cup {NoName})
    BY <2>1, KeyShape
  <2>3. SubSeq(d, 1, Len(d)) = d /\ SubSeq(k, 1, Len(k)) = k
    BY <2>2
  <2>4. Len(d) <= Len(k) /\ d = SubSeq(k, 1, Len(d)) /\ d # k
    BY <2>1, <2>3 DEF IsStrictPrefix, IsPrefix
  <2>5. Len(k) = Len(d) + 1 \/ Len(k) > Len(d) + 1
    <3>1. PICK m \in Nat, n \in Nat : m = Len(k) /\ n = Len(d)
      BY <1>1, <2>2
    <3>2. n <= m /\ n # m
      BY <2>3, <2>4, <3>1
    <3>3. QED
      BY <3>1, <3>2
  <2>6. QED
    BY <2>5 DEF Contents, RolledUp
<1>4. Contents(d) # {} \/ RolledUp(d) # {} => Below(d) # {}
  BY DEF Contents, RolledUp
<1>5. objects[Slash(d)] # Absent => Slash(d) \in Below(d)
  BY <1>2 DEF Below
<1>6. QED
  BY <1>3, <1>4, <1>5 DEF S3IsDir

\* An object that lies in a directory is in what GCS answers for it.
LEMMA GcsHidesNothing ==
  ASSUME NEW d \in Dirs, GcsList(d) = {} PROVE Below(d) = {}
<1> SUFFICES ASSUME NEW k \in Below(d) PROVE FALSE
  OBVIOUS
<1>1. PICK dot : dot = ".dir"
  OBVIOUS
<1>2. d \in Seq(Names) /\ Len(d) \in Nat \ {0} /\ d[Len(d)] \in Names
  BY PathsAssumption
<1>3. k \in Keys /\ IsPrefix(d, k) /\ d # k /\ objects[k] # Absent
  BY DEF Below, IsStrictPrefix
<1>4. \E S : k \in Seq(S) /\ Len(k) \in Nat /\ d \in Seq(S)
  <2>1. \A e \in Dirs : DotDir(e) = e \o <<dot, NoName>> /\ Slash(e) = Append(e, NoName)
    BY <1>1 DEF DotDir, Slash
  <2>2. \A p \in Files \cup Dirs : p \in Seq(Names \cup {dot, NoName})
    BY PathsAssumption
  <2>3. \A e \in Dirs : e \o <<dot, NoName>> \in Seq(Names \cup {dot, NoName})
                        /\ Append(e, NoName) \in Seq(Names \cup {dot, NoName})
    BY <2>2
  <2>4. k \in Seq(Names \cup {dot, NoName})
    BY <1>3, <2>1, <2>2, <2>3 DEF Keys
  <2>5. QED
    BY <2>2, <2>4
<1>5. SubSeq(d, 1, Len(d)) = d /\ SubSeq(k, 1, Len(k)) = k
  BY <1>2, <1>4
<1>6. Len(d) <= Len(k) /\ SubSeq(k, 1, Len(d)) = d
  BY <1>3, <1>5 DEF IsPrefix
<1>7. Len(k) > Len(d)
  BY <1>2, <1>3, <1>4, <1>5, <1>6
<1>8. k[Len(d)] = d[Len(d)]
  BY <1>2, <1>4, <1>6
<1>9. IsPrefix(Parent(d), k)
  <2>1. PICK m \in Nat : m = Len(d) - 1 /\ m < Len(d)
    BY <1>2
  <2>2. Len(SubSeq(d, 1, m)) = m /\ SubSeq(SubSeq(d, 1, m), 1, m) = SubSeq(d, 1, m)
    BY <1>2, <2>1
  <2>3. SubSeq(SubSeq(k, 1, Len(d)), 1, m) = SubSeq(k, 1, m)
    BY <1>2, <1>4, <1>7, <2>1
  <2>4. SubSeq(d, 1, m) = SubSeq(k, 1, m)
    BY <1>6, <2>3
  <2>5. m <= Len(k)
    BY <1>2, <1>4, <1>7, <2>1
  <2>6. QED
    BY <2>1, <2>2, <2>4, <2>5 DEF Parent, IsPrefix
<1>10. k \in GcsMatches(d) /\ Len(k) # Len(d)
  BY <1>2, <1>3, <1>4, <1>7, <1>8, <1>9 DEF GcsMatches, Last
<1>11. k[Len(d)] # dot
  BY <1>1, <1>2, <1>8 DEF Names
<1>12. Entry(k[Len(d)], TRUE) \in GcsList(d)
  BY <1>1, <1>10, <1>11 DEF GcsList
<1>13. QED
  BY <1>12

\* Where content has its place, the methods that look agree.
LEMMA PlaceListings == PlaceInv => ListingsAgree
<1> SUFFICES ASSUME PlaceInv PROVE ListingsAgree
  OBVIOUS
<1>0. Files \subseteq Keys /\ Dirs \subseteq Keys /\ Files \cap Dirs = {} /\ dirs \subseteq Dirs
  BY PathFacts, PathsAssumption DEF PlaceInv
<1>1. CASE backend = "memory"
  <2>1. \A k \in Keys : objects[k] # Absent => k \in Files
    BY <1>1 DEF PlaceInv, Place
  <2>2. \A p \in Files : MemoryExists(p) <=> objects[p] # Absent
    BY <1>0, <2>1, Parents DEF MemoryExists, Below
  <2>3. \A p \in Files : objects[p] # Absent => MemoryMetadata(p) = "file"
    BY DEF MemoryMetadata
  <2>4. \A e \in Dirs : MemoryMetadata(e) = "dir" <=> e \in dirs
    BY <1>0, <2>1 DEF MemoryMetadata
  <2>5. ASSUME NEW d \in Dirs
        PROVE  /\ NamedIn(MemoryList(d), FALSE) =
                    {Last(p) : p \in {p \in Files : Parent(p) = d /\ MemoryExists(p)}}
               /\ NamedIn(MemoryList(d), TRUE) =
                    {Last(e) : e \in {e \in Dirs : Parent(e) = d /\ MemoryMetadata(e) = "dir"}}
    <3>1. {k \in Keys : objects[k] # Absent /\ Parent(k) = d} =
          {p \in Files : Parent(p) = d /\ MemoryExists(p)}
      BY <1>0, <2>1, <2>2
    <3>2. {e \in dirs : Parent(e) = d} =
          {e \in Dirs : Parent(e) = d /\ MemoryMetadata(e) = "dir"}
      BY <1>0, <2>4
    <3>3. PICK D, F : /\ D = {e \in dirs : Parent(e) = d}
                      /\ F = {k \in Keys : objects[k] # Absent /\ Parent(k) = d}
      OBVIOUS
    <3>4. MemoryList(d) = Entries(D, F)
      BY <3>3 DEF MemoryList, Entries
    <3>5. NamedIn(MemoryList(d), FALSE) = {Last(x) : x \in F}
          /\ NamedIn(MemoryList(d), TRUE) = {Last(x) : x \in D}
      BY <3>4, EntryFacts
    <3>6. QED
      BY <3>1, <3>2, <3>3, <3>5
  <2>6. QED
    BY <1>1, <2>2, <2>3, <2>5 DEF ListingsAgree, NamedIn
<1>2. CASE backend = "native"
  <2>1. \A p \in Files : NativeExists(p) <=> objects[p] # Absent
    BY <1>0 DEF NativeExists
  <2>2. \A p \in Files : objects[p] # Absent => NativeMetadata(p) = "file"
    BY <1>0 DEF NativeMetadata
  <2>3. \A e \in Dirs : NativeMetadata(e) = "dir" <=> e \in dirs
    BY DEF NativeMetadata
  <2>4. ASSUME NEW d \in Dirs
        PROVE  /\ NamedIn(NativeList(d), FALSE) =
                    {Last(p) : p \in {p \in Files : Parent(p) = d /\ NativeExists(p)}}
               /\ NamedIn(NativeList(d), TRUE) =
                    {Last(e) : e \in {e \in Dirs : Parent(e) = d /\ NativeMetadata(e) = "dir"}}
    <3>1. {k \in Files : objects[k] # Absent /\ Parent(k) = d} =
          {p \in Files : Parent(p) = d /\ NativeExists(p)}
      BY <2>1
    <3>2. {e \in dirs : Parent(e) = d} =
          {e \in Dirs : Parent(e) = d /\ NativeMetadata(e) = "dir"}
      BY <1>0, <2>3
    <3>3. PICK D, F : /\ D = {e \in dirs : Parent(e) = d}
                      /\ F = {k \in Files : objects[k] # Absent /\ Parent(k) = d}
      OBVIOUS
    <3>4. NativeList(d) = Entries(D, F)
      BY <3>3 DEF NativeList, Entries
    <3>5. NamedIn(NativeList(d), FALSE) = {Last(x) : x \in F}
          /\ NamedIn(NativeList(d), TRUE) = {Last(x) : x \in D}
      BY <3>4, EntryFacts
    <3>6. QED
      BY <3>1, <3>2, <3>3, <3>5
  <2>5. QED
    BY <1>2, <2>1, <2>2, <2>4 DEF ListingsAgree, NamedIn
<1>3. CASE backend = "s3"
  <2>1. \A k \in Keys : objects[k] # Absent => k \in Files \cup {Slash(e) : e \in Dirs}
    BY <1>3 DEF PlaceInv, Place
  <2>2. \A p \in Files : objects[p] # Absent => S3Metadata(p) = "file"
    BY DEF S3Metadata
  <2>3. ASSUME NEW d \in Dirs
        PROVE  /\ NamedIn(S3List(d), FALSE) =
                    {Last(p) : p \in {p \in Files : Parent(p) = d /\ S3Exists(p)}}
               /\ NamedIn(S3List(d), TRUE) =
                    {Last(e) : e \in {e \in Dirs : Parent(e) = d /\ S3IsDir(e)}}
    <3>1. Contents(d) \ {Slash(d)} = {p \in Files : Parent(p) = d /\ S3Exists(p)}
      <4>1. ASSUME NEW k \in Contents(d) \ {Slash(d)}
            PROVE  k \in Files /\ Parent(k) = d /\ S3Exists(k)
        BY <2>1, <4>1, Parents DEF Contents, Below, S3Exists
      <4>2. ASSUME NEW p \in Files, Parent(p) = d, S3Exists(p)
            PROVE  p \in Contents(d) /\ p # Slash(d)
        BY <1>0, <4>2, Parents, PathFacts DEF Contents, Below, S3Exists
      <4>3. QED
        BY <4>1, <4>2
    <3>2. RolledUp(d) = {e \in Dirs : Parent(e) = d /\ S3IsDir(e)}
      BY <2>1, RolledUpDirs, S3Dirs
    <3>3. PICK D, F : D = RolledUp(d) /\ F = Contents(d) \ {Slash(d)}
      OBVIOUS
    <3>4. S3List(d) = Entries(D, F)
      BY <3>3 DEF S3List, Entries
    <3>5. NamedIn(S3List(d), FALSE) = {Last(x) : x \in F}
          /\ NamedIn(S3List(d), TRUE) = {Last(x) : x \in D}
      BY <3>4, EntryFacts
    <3>6. QED
      BY <3>1, <3>2, <3>3, <3>5
  <2>4. QED
    BY <1>3, <2>2, <2>3 DEF ListingsAgree, S3Exists, NamedIn
<1>4. CASE backend = "azure"
  <2>1. \A k \in Keys : objects[k] # Absent => k \in Files \/ \E d \in Dirs : k = Slash(d)
    BY <1>4 DEF PlaceInv, Place
  <2>2. \A p \in Files : objects[p] # Absent => AzureMetadata(p) = "file"
    BY DEF AzureMetadata
  <2>3. ASSUME NEW d \in Dirs
        PROVE  NamedIn({Entry(Last(k), FALSE) : k \in AzureListFiles(d)}, FALSE) =
                 {Last(p) : p \in {p \in Files : Parent(p) = d /\ AzureExists(p)}}
    <3>1. AzureListFiles(d) = {p \in Files : Parent(p) = d /\ AzureExists(p)}
      <4>1. ASSUME NEW k \in AzureListFiles(d)
            PROVE  k \in Files /\ Parent(k) = d /\ AzureExists(k)
        BY <2>1, <4>1, Parents DEF AzureListFiles, Contents, Below, AzureExists
      <4>2. ASSUME NEW p \in Files, Parent(p) = d, AzureExists(p)
            PROVE  p \in AzureListFiles(d)
        BY <1>0, <4>2, Parents DEF AzureListFiles, Contents, Below, AzureExists
      <4>3. QED
        BY <4>1, <4>2
    <3>2. PICK D, F : D = {} /\ F = AzureListFiles(d)
      OBVIOUS
    <3>3. {Entry(Last(k), FALSE) : k \in AzureListFiles(d)} = Entries(D, F)
      BY <3>2 DEF Entries
    <3>4. NamedIn(Entries(D, F), FALSE) = {Last(x) : x \in F}
      BY EntryFacts
    <3>5. QED
      BY <3>1, <3>2, <3>3, <3>4
  <2>4. QED
    BY <1>4, <2>2, <2>3 DEF ListingsAgree, AzureExists, NamedIn
<1>5. CASE backend = "gcs"
  <2>1. \A p \in Files : objects[p] # Absent => GcsMetadata(p) = "file"
    BY DEF GcsMetadata
  <2>2. QED
    BY <1>5, <2>1, GcsHidesNothing DEF ListingsAgree, GcsExists
<1>6. QED
  BY <1>1, <1>2, <1>3, <1>4, <1>5 DEF PlaceInv, Cloud

\* A file that exists has the metadata of a file; on memory, native, S3 and
\* Azure a directory lists exactly the files that exist in it, on memory,
\* native and S3 also exactly the directories that metadata or is_dir takes
\* for such; and where GCS lists nothing, nothing lies: for every tree of paths
\* and every way in which calls are cut short (list, metadata and is_dir of
\* the backends).
THEOREM ListingSafety == Spec => []ListingsAgree
  BY PlaceInit, PlaceStepInv, PlaceListings, PTL DEF Spec

=============================================================================
