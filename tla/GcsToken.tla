------------------------------ MODULE GcsToken ------------------------------
(***************************************************************************)
(* AuthTokenCache: the OAuth2 access token of the GCS backend.             *)
(*                                                                         *)
(* A caller looks at the cache under the lock, looks again, lets go of the *)
(* lock, asks the token service and stores the answer. Several callers ask *)
(* at once, their answers arrive in any order, and the expiry is reckoned  *)
(* from the time of the answer although the token is as old as the         *)
(* request. The token then travels with a request of its own.              *)
(***************************************************************************)
EXTENDS Naturals

CONSTANTS
  Callers,  \* calls of the backend
  Life,     \* expires_in of the service's answer
  Margin,   \* TOKEN_SAFETY_MARGIN_SECS
  Timeout,  \* HTTP_TIMEOUT_SECS
  MaxTime,  \* bound: the clock
  NoToken   \* the empty cache

ASSUME TimesAssumption ==
  /\ {Life, Margin, Timeout, MaxTime} \subseteq Nat
  /\ Timeout <= Margin /\ 2 * Margin < Life

VARIABLES
  now,     \* seconds
  token,   \* AuthTokenCache.token: when it was issued, and expires_at
  callers  \* the callers of get_token

tokenVars == <<now, token, callers>>

NoCaller == [pc |-> "idle", since |-> 0, issued |-> 0]

TokenInit ==
  /\ now = 0
  /\ token = NoToken
  /\ callers = [c \in Callers |-> NoCaller]

IsValidOnce(t) == t # NoToken /\ now < t.expires_at
IsValid(t) == t # NoToken /\ now + Margin < t.expires_at

CallerAt(c, pc) == callers[c].pc = pc
CallerGoto(c, pc) == callers' = [callers EXCEPT ![c].pc = pc]

\* The token goes into the header of a request, which is sent at once.
Use(c, t) == callers' = [callers EXCEPT ![c] = [pc |-> "sent", since |-> now, issued |-> t.issued]]

GetToken(c) ==
  /\ CallerAt(c, "idle")
  /\ IF IsValid(token) THEN Use(c, token) ELSE CallerGoto(c, "again")
  /\ UNCHANGED <<now, token>>

\* The second look, with which the lock is released again.
DoubleCheck(c) ==
  /\ CallerAt(c, "again")
  /\ IF IsValid(token) THEN Use(c, token)
     ELSE callers' = [callers EXCEPT ![c].pc = "fetch", ![c].since = now]
  /\ UNCHANGED <<now, token>>

\* The service issues the token.
Issue(c) ==
  /\ CallerAt(c, "fetch")
  /\ callers' = [callers EXCEPT ![c].pc = "answer", ![c].issued = now]
  /\ UNCHANGED <<now, token>>

\* The answer arrives, and replaces whatever the cache holds by now.
ExpiresAt == now + Life - Margin

Store(c) ==
  LET new == [issued |-> callers[c].issued, expires_at |-> ExpiresAt] IN
  /\ CallerAt(c, "answer")
  /\ token' = new
  /\ Use(c, new)
  /\ UNCHANGED now

\* A token request that fails or times out, and the end of a request.
Done(c) ==
  /\ callers[c].pc \in {"fetch", "answer", "sent"}
  /\ callers' = [callers EXCEPT ![c] = NoCaller]
  /\ UNCHANGED <<now, token>>

\* No request takes longer than the client's timeout.
Tick ==
  /\ now < MaxTime
  /\ \A c \in Callers : callers[c].pc \in {"fetch", "answer", "sent"} =>
       now < callers[c].since + Timeout
  /\ now' = now + 1
  /\ UNCHANGED <<token, callers>>

TokenNext ==
  \/ Tick
  \/ \E c \in Callers :
       GetToken(c) \/ DoubleCheck(c) \/ Issue(c) \/ Store(c) \/ Done(c)

TokenSpec == TokenInit /\ [][TokenNext]_tokenVars

\* The token of a request is alive for as long as the request may take,
\* whichever of several overlapping refreshes it comes from and however late
\* its answer was stored (gcs.rs:60, gcs.rs:130).
TokenOutlivesRequest ==
  \A c \in Callers : CallerAt(c, "sent") => now < callers[c].issued + Life
=============================================================================
