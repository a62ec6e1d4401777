----------------------------- MODULE RateLimiter -----------------------------
(***************************************************************************)
(* The rate limiter of middleware/rate_limit.rs: one map of counters,      *)
(* shared by all endpoints and guarded by a mutex, that concurrent         *)
(* requests check.  A request reads the clock before it waits for the      *)
(* mutex, so counters are updated with timestamps that may be old and out  *)
(* of order.                                                               *)
(*                                                                         *)
(* Time is counted in ticks: Instant is finer than the seconds of the      *)
(* configuration.                                                          *)
(***************************************************************************)
EXTENDS Integers, FiniteSets, FiniteSetsExt

CONSTANTS
  Keys,             \* the values extract_key returns
  Tasks,            \* requests in flight
  Endpoints,        \* what a request asks for: an endpoint or the global policy
  NoRequest,        \* a task that serves no request
  Limit,            \* Limit[e]: the RateLimitConfig rate_limit_middleware picks
  MaxLag,           \* bound: ticks between reading the clock and the mutex
  MaxTime,          \* bound: the clock stops there
  MaxCount          \* bound: requests counted in one window

Limits == [enabled : BOOLEAN, max_requests : Nat, window : Nat \ {0},
           cleanup_threshold : Nat]

\* window_seconds, in ticks, is positive.
ASSUME LimitAssumption ==
  /\ NoRequest \notin Keys \X Endpoints
  /\ Limit \in [Endpoints -> Limits]
  /\ MaxLag \in Nat /\ MaxTime \in Nat /\ MaxCount \in Nat

VARIABLES
  clock,
  tracked,      \* the keys of the entries map
  count,        \* count[k], windowStart[k]: the RateLimitEntry of key k
  windowStart,
  now,          \* now[t]: Instant::now() of task t
  req,          \* req[t]: the key and the endpoint of the request, if any
  admitted,     \* history: admitted[k][s], requests let through with key k
                \*   in the window that started at s
  recent        \* history: recent[e][k], when they were let through

entries == <<tracked, count, windowStart>>
history == <<admitted, recent>>
vars == <<clock, entries, now, req, history>>

Time == 0 .. MaxTime

Init ==
  /\ clock = 0
  /\ tracked = {}
  /\ count = [k \in Keys |-> 0]
  /\ windowStart = [k \in Keys |-> 0]
  /\ now = [t \in Tasks |-> 0]
  /\ req = [t \in Tasks |-> NoRequest]
  /\ admitted = [k \in Keys |-> [s \in Time |-> 0]]
  /\ recent = [e \in Endpoints |-> [k \in Keys |-> [s \in Time |-> 0]]]

\* The clock advances while no waiting request has waited MaxLag.
Tick ==
  /\ clock < MaxTime
  /\ \A t \in Tasks : req[t] # NoRequest => clock < now[t] + MaxLag
  /\ clock' = clock + 1
  /\ UNCHANGED <<entries, now, req, history>>

\* check_rate_limit up to the mutex.
Arrive(t, k, e) ==
  /\ req[t] = NoRequest
  /\ Limit[e].enabled
  /\ now' = [now EXCEPT ![t] = clock]
  /\ req' = [req EXCEPT ![t] = <<k, e>>]
  /\ UNCHANGED <<clock, entries, history>>

\* Instant::duration_since saturates at zero.
Since(later, earlier) == IF later >= earlier THEN later - earlier ELSE 0

\* The keys that survive the pruning, which runs above the threshold.
SurviveOneWindow(t, lim) ==
  {k \in tracked : \/ Cardinality(tracked) <= lim.cleanup_threshold
                   \/ Since(now[t], windowStart[k]) < lim.window}
Survivors(t, lim) ==
  {k \in tracked : \/ Cardinality(tracked) <= lim.cleanup_threshold
                   \/ Since(now[t], windowStart[k]) < 2 * lim.window}

\* The window the request falls into: a new entry, or an expired one, starts
\* a window at the request's own timestamp.
StaysOpen(t, lim, k) == Since(now[t], windowStart[k]) < lim.window
InWindow(t, lim, k) ==
  k \in Survivors(t, lim) /\ StaysOpen(t, lim, k)

ExceedsOffByOne(n, lim) == n > lim.max_requests + 1
Exceeds(n, lim) == n > lim.max_requests

\* The handler's locals go with the request.
Return(t) ==
  /\ req' = [req EXCEPT ![t] = NoRequest]
  /\ now' = [now EXCEPT ![t] = 0]

\* The whole critical section: prune, look up or insert, reset, count, decide.
Check(t) ==
  LET k == req[t][1]
      e == req[t][2]
      lim == Limit[e]
      start == IF InWindow(t, lim, k) THEN windowStart[k] ELSE now[t]
      n == (IF InWindow(t, lim, k) THEN count[k] ELSE 0) + 1
  IN  /\ req[t] # NoRequest
      /\ n <= MaxCount
      /\ tracked' = Survivors(t, lim) \cup {k}
      /\ windowStart' = [windowStart EXCEPT ![k] = start]
      /\ count' = [count EXCEPT ![k] = n]
      /\ Return(t)
      /\ IF Exceeds(n, lim)
           THEN UNCHANGED <<admitted, recent>>
           ELSE /\ admitted' = [admitted EXCEPT ![k][start] = @ + 1]
                /\ recent' = [recent EXCEPT ![e][k][now[t]] = @ + 1]
      /\ UNCHANGED clock

\* A request whose future is dropped while it waits for the mutex.
Cancel(t) ==
  /\ req[t] # NoRequest
  /\ Return(t)
  /\ UNCHANGED <<clock, entries, history>>

Next ==
  \/ Tick
  \/ \E t \in Tasks :
       \/ \E k \in Keys, e \in Endpoints : Arrive(t, k, e)
       \/ Check(t)
       \/ Cancel(t)

Spec == Init /\ [][Next]_vars

-----------------------------------------------------------------------------
(* Properties *)

TypeOK ==
  /\ clock \in Time
  /\ tracked \subseteq Keys
  /\ count \in [Keys -> Nat]
  /\ windowStart \in [Keys -> Time]
  /\ now \in [Tasks -> Time]
  /\ req \in [Tasks -> (Keys \X Endpoints) \cup {NoRequest}]
  /\ admitted \in [Keys -> [Time -> Nat]]

\* Every endpoint is limited the same way (no per-endpoint override), and a
\* request waits for the mutex no longer than a window.
Uniform(window, max) ==
  /\ \A e \in Endpoints : Limit[e].window = window
                          /\ Limit[e].max_requests = max
  /\ MaxLag <= window

WindowsOf(k) == {s \in Time : admitted[k][s] > 0}

\* What check_rate_limit guarantees of the windows of a key, whatever the
\* order in which requests get the mutex and whatever was pruned in between:
\* a window lets max_requests through at most, ...
WindowIsBounded ==
  \A e \in Endpoints : Uniform(Limit[e].window, Limit[e].max_requests) =>
    \A k \in Keys : \A s \in Time : admitted[k][s] <= Limit[e].max_requests

\* ... and two windows of a key never start less than a window apart, so that
\* pruning and stale timestamps give nobody a second allowance.
WindowsAreApart ==
  \A e \in Endpoints : Uniform(Limit[e].window, Limit[e].max_requests) =>
    \A k \in Keys : \A s1, s2 \in WindowsOf(k) :
      s1 < s2 => s1 + Limit[e].window <= s2

-----------------------------------------------------------------------------
(* What the documentation says and the code does not do *)

\* Requests with key k let through for endpoint e at ticks a .. b.
LetThrough(e, k, a, b) ==
  MapThenSumSet(LAMBDA s : recent[e][k][s], (a .. b) \cap Time)

\* SPEC.md:202, "Set rate_limit on an endpoint to override the global policy":
\* an endpoint's own limit holds, up to the double allowance at the border of
\* two fixed windows, whatever the other endpoints' policies are.
OverrideHolds ==
  \A e \in Endpoints, k \in Keys, a \in Time :
    LetThrough(e, k, a, a + Limit[e].window - 1) <= 2 * Limit[e].max_requests
=============================================================================
