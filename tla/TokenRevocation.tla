--------------------------- MODULE TokenRevocation ---------------------------
(***************************************************************************)
(* JWT revocation: POST /_main-serve/auth/revoke (handlers/auth.rs,        *)
(* handle_revoke) and the check of a request's token (validators/jwt.rs,   *)
(* validate_token) against the store of server/state.rs, in memory or in a *)
(* database table, with the clean-up task of main.rs.                      *)
(*                                                                         *)
(* Time is counted in seconds.  The process starts at second Epoch of the  *)
(* Unix clock, which exp claims refer to; an Instant is counted from the   *)
(* start.  exp claims are within the range of chrono.                      *)
(***************************************************************************)
EXTENDS Integers

CONSTANTS
  Tokens,         \* the tokens of the clients, each with a jti of its own
  Exp,            \* Exp[t]: the exp claim of token t
  Epoch,
  Leeway,         \* jsonwebtoken's default leeway for exp
  Checks,         \* concurrent requests that carry a token
  Revokes,        \* concurrent calls of handle_revoke
  NoToken, NoEntry,
  TableExists,    \* db_table is the table create_revocation_tables creates
  Reloads,        \* a hot reload closes the pools of start-up
  MaxTime         \* bound: the clock stops there

\* exp is a Unix time: the process is not up for the decades since 1970.
ASSUME TokensAssumption ==
  /\ Epoch \in Nat /\ Leeway \in Nat /\ MaxTime \in Nat
  /\ Exp \in [Tokens -> Nat]
  /\ \A t \in Tokens : Exp[t] >= MaxTime
  /\ NoToken \notin Tokens
  /\ NoEntry = -1
  /\ TableExists \in BOOLEAN /\ Reloads \in BOOLEAN

VARIABLES
  clock,        \* Instant::now(), in seconds since the start
  store,        \* revocation_store: none, or the variant chosen at start-up
  entries,      \* entries[t]: the expiry stored for the jti of t, or NoEntry
  poolOpen,     \* the pool the database store was given at start-up
  vpc, vtoken,  \* validate_token in request v: step and token
  upc, utoken,  \* handle_revoke u: step and token
  uexpiry,      \* expires_at of handle_revoke
  answered,     \* history: tokens whose revocation was answered with 200
  late,         \* history: requests that began after that answer
  listed        \* history: requests whose token was listed when it was checked

checks == <<vpc, vtoken, late, listed>>
revokes == <<upc, utoken, uexpiry, answered>>
vars == <<clock, store, entries, poolOpen, checks, revokes>>

Now == Epoch + clock
Stores == {"none", "in_memory", "database"}

Init ==
  /\ clock = 0
  /\ store \in Stores
  /\ entries = [t \in Tokens |-> NoEntry]
  /\ poolOpen = TRUE
  /\ vpc = [v \in Checks |-> "idle"]
  /\ vtoken = [v \in Checks |-> NoToken]
  /\ upc = [u \in Revokes |-> "idle"]
  /\ utoken = [u \in Revokes |-> NoToken]
  /\ uexpiry = [u \in Revokes |-> 0]
  /\ answered = {} /\ late = {} /\ listed = {}

Tick ==
  /\ clock < MaxTime
  /\ clock' = clock + 1
  /\ UNCHANGED <<store, entries, poolOpen, checks, revokes>>

\* A hot reload closes the pools it replaces (HotReload, DrainOldPools).
CloseBootPool ==
  /\ Reloads /\ poolOpen
  /\ poolOpen' = FALSE
  /\ UNCHANGED <<clock, store, entries, checks, revokes>>

\* Statements of the database store succeed.
DatabaseAnswers == poolOpen /\ TableExists

\* There is a store, and it does what it is asked.
StoreAnswers == store = "in_memory" \/ (store = "database" /\ DatabaseAnswers)

-----------------------------------------------------------------------------
(* handle_revoke *)

\* What is stored: an Instant now + exp, with exp, an absolute time, taken for
\* a duration; the database store turns it into Unix time.
ExpiryAsMeant(t) == Exp[t] - Epoch
Expiry(t) == clock + Exp[t]

\* The token is decoded, expired or not, and its expiry computed; the store,
\* if there is one, is asked in the same poll.
Decode(u, t) ==
  /\ upc[u] = "idle"
  /\ upc' = [upc EXCEPT ![u] = "store"]
  /\ utoken' = [utoken EXCEPT ![u] = t]
  /\ uexpiry' = [uexpiry EXCEPT ![u] =
                   IF store = "database" THEN Epoch + Expiry(t)
                                         ELSE Expiry(t)]
  /\ UNCHANGED <<clock, store, entries, poolOpen, checks, answered>>

\* The handler's locals go with the call.
ReturnRevoke(u) ==
  /\ upc' = [upc EXCEPT ![u] = "idle"]
  /\ utoken' = [utoken EXCEPT ![u] = NoToken]
  /\ uexpiry' = [uexpiry EXCEPT ![u] = 0]

\* revoke: inserts or overwrites; the database store ignores an error.  The
\* answer is the same without a store.
Revoke(u) ==
  /\ upc[u] = "store"
  /\ entries' = IF StoreAnswers
                  THEN [entries EXCEPT ![utoken[u]] = uexpiry[u]]
                  ELSE entries
  /\ answered' = answered \cup {utoken[u]}
  /\ ReturnRevoke(u)
  /\ UNCHANGED <<clock, store, poolOpen, checks>>

\* The client goes away while the store is asked: the statement may have run
\* or not, and nobody is told.
CancelRevoke(u) ==
  /\ upc[u] = "store" /\ store # "none"
  /\ \/ UNCHANGED entries
     \/ /\ store = "database" /\ DatabaseAnswers
        /\ entries' = [entries EXCEPT ![utoken[u]] = uexpiry[u]]
  /\ ReturnRevoke(u)
  /\ UNCHANGED <<clock, store, poolOpen, checks, answered>>

-----------------------------------------------------------------------------
(* validate_token *)

\* jsonwebtoken::decode with validate_exp.
NotExpired(t) == Now <= Exp[t] + Leeway

DecodeToken(v, t) ==
  /\ vpc[v] = "idle"
  /\ NotExpired(t)
  /\ vpc' = [vpc EXCEPT ![v] = "check"]
  /\ vtoken' = [vtoken EXCEPT ![v] = t]
  /\ late' = IF t \in answered THEN late \cup {v} ELSE late
  /\ UNCHANGED <<clock, store, entries, poolOpen, listed, revokes>>

\* is_revoked: the in-memory store looks for the key, whatever its expiry; the
\* database store answers false when its query fails.
IsRevoked(t) == StoreAnswers /\ entries[t] # NoEntry

CheckToken(v) ==
  /\ vpc[v] = "check"
  /\ listed' = IF entries[vtoken[v]] # NoEntry THEN listed \cup {v} ELSE listed
  /\ vpc' = [vpc EXCEPT ![v] =
               IF IsRevoked(vtoken[v]) THEN "rejected" ELSE "accepted"]
  /\ UNCHANGED <<clock, store, entries, poolOpen, vtoken, late, revokes>>

\* The next request of the client.
NextRequest(v) ==
  /\ vpc[v] \in {"accepted", "rejected"}
  /\ vpc' = [vpc EXCEPT ![v] = "idle"]
  /\ vtoken' = [vtoken EXCEPT ![v] = NoToken]
  /\ late' = late \ {v}
  /\ listed' = listed \ {v}
  /\ UNCHANGED <<clock, store, entries, poolOpen, revokes>>

-----------------------------------------------------------------------------
(* The clean-up task: cleanup_expired, a no-op for the in-memory store *)

Expired(t) ==
  store = "database" /\ entries[t] # NoEntry /\ entries[t] < Now

\* SQLite compares the texts of the two times, which are not of one format,
\* and may find less.
Cleanup ==
  /\ StoreAnswers
  /\ \E gone \in SUBSET {t \in Tokens : Expired(t)} :
       entries' = [t \in Tokens |-> IF t \in gone THEN NoEntry ELSE entries[t]]
  /\ UNCHANGED <<clock, store, poolOpen, checks, revokes>>

Next ==
  \/ Tick \/ CloseBootPool \/ Cleanup
  \/ \E u \in Revokes : \/ \E t \in Tokens : Decode(u, t)
                        \/ Revoke(u) \/ CancelRevoke(u)
  \/ \E v \in Checks : \/ \E t \in Tokens : DecodeToken(v, t)
                       \/ CheckToken(v) \/ NextRequest(v)

Spec == Init /\ [][Next]_vars

-----------------------------------------------------------------------------
(* Properties *)

TypeOK ==
  /\ clock \in 0 .. MaxTime
  /\ store \in Stores
  /\ entries \in [Tokens -> Nat \cup {NoEntry}]
  /\ poolOpen \in BOOLEAN
  /\ vpc \in [Checks -> {"idle", "check", "accepted", "rejected"}]
  /\ vtoken \in [Checks -> Tokens \cup {NoToken}]
  /\ upc \in [Revokes -> {"idle", "store"}]
  /\ utoken \in [Revokes -> Tokens \cup {NoToken}]
  /\ uexpiry \in [Revokes -> Nat]
  /\ answered \subseteq Tokens
  /\ late \subseteq Checks /\ listed \subseteq Checks

\* Once handle_revoke has answered, no request that comes later gets in with
\* the token, up to the last second its exp and the decoder's leeway allow,
\* whatever is revoked again or cleaned up meanwhile: for either store, while
\* the database store has its table and its pool.
RevokedIsRejected ==
  StoreAnswers =>
    \A v \in Checks : vpc[v] = "accepted" => v \notin late

-----------------------------------------------------------------------------
(* What the documentation says and the code does not do *)

\* SPEC.md:430: "Tokens present in the blacklist are rejected regardless of
\* expiry."
BlacklistedIsRejected ==
  \A v \in Checks : vpc[v] = "accepted" => v \notin listed
=============================================================================
