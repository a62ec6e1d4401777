-------------------------- MODULE RateLimiterProofs --------------------------
(***************************************************************************)
(* The fixed-window guarantee of the rate limiter for any number of keys,  *)
(* requests and ticks, any window and any limit.                           *)
(***************************************************************************)
EXTENDS RateLimiter, TLAPS

\* Timestamps lie between the clock and the lag allowed.
ClockInv ==
  /\ \A k \in tracked : windowStart[k] <= clock
  /\ \A t \in Tasks :
       req[t] # NoRequest => now[t] <= clock /\ clock <= now[t] + MaxLag

\* The window of a tracked key is its latest and has counted what it let
\* through; the windows of a key that was pruned ended a window ago or more.
WindowInv(window, max) ==
  \A k \in Keys :
    /\ \A s \in Time : admitted[k][s] <= max
    /\ \A s1, s2 \in WindowsOf(k) : s1 < s2 => s1 + window <= s2
    /\ k \in tracked =>
         /\ admitted[k][windowStart[k]] <= count[k]
         /\ \A s \in WindowsOf(k) :
              s = windowStart[k] \/ s + window <= windowStart[k]
    /\ k \notin tracked => \A s \in WindowsOf(k) : s + 2 * window <= clock

IndInv(window, max) == TypeOK /\ ClockInv /\ WindowInv(window, max)

\* An empty map satisfies the invariant.
LEMMA InitInv ==
  ASSUME NEW window \in Nat \ {0}, NEW max \in Nat, Init
  PROVE  IndInv(window, max)
<1> USE LimitAssumption
<1>1. TypeOK
  BY DEF Init, TypeOK, Time
<1>2. ClockInv
  BY DEF Init, ClockInv
<1>3. WindowInv(window, max)
  BY DEF Init, WindowInv, WindowsOf
<1> QED BY <1>1, <1>2, <1>3 DEF IndInv

\* The critical section of check_rate_limit preserves it: a window that is
\* opened, after an expiry or after pruning, starts at least a window after
\* every earlier one of the key.
LEMMA CheckInv ==
  ASSUME NEW window \in Nat \ {0}, NEW max \in Nat, Uniform(window, max),
         IndInv(window, max), NEW t \in Tasks, Check(t)
  PROVE  IndInv(window, max)'
<1> DEFINE k == req[t][1]
           e == req[t][2]
           lim == Limit[e]
           start == IF InWindow(t, lim, k) THEN windowStart[k] ELSE now[t]
           n == (IF InWindow(t, lim, k) THEN count[k] ELSE 0) + 1
<1> USE LimitAssumption
<1>1. k \in Keys /\ e \in Endpoints /\ lim.window = window
        /\ lim.max_requests = max
  BY DEF Check, IndInv, TypeOK, Uniform
<1>2. /\ now[t] \in Time /\ clock \in Time /\ now[t] <= clock
      /\ clock <= now[t] + window
  <2>1. MaxLag <= window /\ MaxLag \in Nat
    BY DEF Uniform
  <2> QED BY <2>1 DEF Check, IndInv, TypeOK, ClockInv, Uniform, Time
<1>3. InWindow(t, lim, k) => k \in tracked
  BY DEF InWindow, Survivors
<1>4. start \in Time /\ start <= clock /\ n \in Nat
  BY <1>1, <1>2, <1>3 DEF IndInv, TypeOK, ClockInv
<1>5. ASSUME NEW j \in tracked, j \notin Survivors(t, lim)
      PROVE  windowStart[j] + 2 * window <= now[t]
  BY <1>1, <1>2, <1>5 DEF Survivors, Since, IndInv, TypeOK, Time
<1>6. ASSUME ~InWindow(t, lim, k), NEW s \in WindowsOf(k)
      PROVE  s + window <= now[t]
  <2>0. /\ s \in Nat /\ now[t] \in Nat /\ clock \in Nat /\ window \in Nat
        /\ windowStart[k] \in Nat
    BY <1>1, <1>2, <1>6 DEF WindowsOf, Time, IndInv, TypeOK
  <2>1. CASE k \notin tracked
    <3>1. s + 2 * window <= clock
      BY <1>1, <1>6, <2>1 DEF IndInv, WindowInv
    <3> QED BY <1>2, <2>0, <3>1
  <2>2. CASE k \in tracked
    <3>1. windowStart[k] + window <= now[t]
      <4>1. CASE k \notin Survivors(t, lim)
        BY <1>1, <1>2, <1>5, <2>2, <2>0, <4>1
      <4>2. CASE k \in Survivors(t, lim)
        BY <1>1, <1>2, <1>6, <2>0, <4>2 DEF InWindow, StaysOpen, Since
      <4> QED BY <4>1, <4>2
    <3>2. s = windowStart[k] \/ s + window <= windowStart[k]
      BY <1>1, <1>6, <2>2 DEF IndInv, WindowInv
    <3> HIDE DEF k, lim
    <3> QED BY <2>0, <3>1, <3>2
  <2> QED BY <2>1, <2>2
<1>7. ASSUME NEW s \in WindowsOf(k)
      PROVE  s = start \/ s + window <= start
  <2>1. CASE InWindow(t, lim, k)
    BY <1>1, <1>3, <1>7, <2>1 DEF IndInv, WindowInv
  <2>2. CASE ~InWindow(t, lim, k)
    BY <1>6, <1>7, <2>2
  <2> QED BY <2>1, <2>2
<1>8. admitted[k][start] < n /\ admitted[k][start] \in Nat
  <2>1. admitted[k][start] \in Nat
    BY <1>1, <1>4 DEF IndInv, TypeOK
  <2>2. CASE InWindow(t, lim, k)
    <3>1. admitted[k][windowStart[k]] <= count[k] /\ count[k] \in Nat
      BY <1>1, <1>3, <2>2 DEF IndInv, WindowInv, TypeOK
    <3> QED BY <2>1, <2>2, <3>1
  <2>3. CASE ~InWindow(t, lim, k)
    <3>1. now[t] \notin WindowsOf(k)
      <4>1. now[t] \in Nat
        BY <1>2 DEF Time
      <4> QED BY <1>6, <2>3, <4>1
    <3>2. start = now[t] /\ n = 1
      BY <2>3
    <3>3. ~(admitted[k][start] > 0)
      BY <1>4, <3>1, <3>2 DEF WindowsOf
    <3> HIDE DEF start, k, n
    <3> QED BY <2>1, <3>2, <3>3
  <2> QED BY <2>2, <2>3
<1>9. /\ tracked' = Survivors(t, lim) \cup {k}
      /\ windowStart' = [windowStart EXCEPT ![k] = start]
      /\ count' = [count EXCEPT ![k] = n]
      /\ clock' = clock
      /\ req' = [req EXCEPT ![t] = NoRequest]
      /\ now' = [now EXCEPT ![t] = 0]
      /\ \/ admitted' = admitted
         \/ n <= max /\ admitted' = [admitted EXCEPT ![k][start] = @ + 1]
  BY <1>1, <1>4 DEF Check, Return, Exceeds
<1>10. Survivors(t, lim) \subseteq tracked
  BY DEF Survivors
<1>11. ASSUME NEW j \in tracked, j \notin Survivors(t, lim)
       PROVE  \A s \in WindowsOf(j) : s + 2 * window <= clock
  <2> TAKE s \in WindowsOf(j)
  <2>1. windowStart[j] + 2 * window <= now[t]
    BY <1>5, <1>11
  <2>2. s = windowStart[j] \/ s + window <= windowStart[j]
    BY <1>11 DEF IndInv, TypeOK, WindowInv
  <2>3. s \in Nat /\ windowStart[j] \in Nat /\ now[t] \in Nat /\ clock \in Nat
    BY <1>2, <1>11 DEF WindowsOf, IndInv, TypeOK, Time
  <2> QED BY <1>2, <2>1, <2>2, <2>3
<1> HIDE DEF k, e, lim, start, n
<1>12. TypeOK'
  <2>1. count' \in [Keys -> Nat] /\ windowStart' \in [Keys -> Time]
    BY <1>1, <1>4, <1>9 DEF IndInv, TypeOK
  <2>2. now' \in [Tasks -> Time]
    BY <1>9 DEF IndInv, TypeOK, Time
  <2>3. req' \in [Tasks -> (Keys \X Endpoints) \cup {NoRequest}]
    BY <1>9 DEF IndInv, TypeOK
  <2>4. admitted' \in [Keys -> [Time -> Nat]]
    <3>1. admitted[k] \in [Time -> Nat] /\ admitted[k][start] + 1 \in Nat
      BY <1>1, <1>8 DEF IndInv, TypeOK
    <3>2. [admitted[k] EXCEPT ![start] = @ + 1] \in [Time -> Nat]
      BY <1>4, <3>1
    <3>3. [admitted EXCEPT ![k] = [admitted[k] EXCEPT ![start] = @ + 1]]
             \in [Keys -> [Time -> Nat]]
      BY <1>1, <3>2 DEF IndInv, TypeOK
    <3> QED BY <1>9, <3>3 DEF IndInv, TypeOK
  <2>5. tracked' \subseteq Keys /\ clock' \in Time
    BY <1>1, <1>9, <1>10 DEF IndInv, TypeOK
  <2> QED BY <2>1, <2>2, <2>3, <2>4, <2>5 DEF TypeOK
<1>13. ClockInv'
  <2>1. ASSUME NEW j \in tracked' PROVE windowStart'[j] <= clock'
    BY <1>1, <1>4, <1>9, <1>10, <2>1 DEF IndInv, TypeOK, ClockInv
  <2>2. ASSUME NEW u \in Tasks, req'[u] # NoRequest
        PROVE  now'[u] <= clock' /\ clock' <= now'[u] + MaxLag
    BY <1>9, <2>2 DEF IndInv, TypeOK, ClockInv
  <2> QED BY <2>1, <2>2 DEF ClockInv
<1>14. WindowInv(window, max)'
  <2> SUFFICES ASSUME NEW j \in Keys
               PROVE  /\ \A s \in Time : admitted'[j][s] <= max
                      /\ \A s1, s2 \in WindowsOf(j)' :
                           s1 < s2 => s1 + window <= s2
                      /\ j \in tracked' =>
                           /\ admitted'[j][windowStart'[j]] <= count'[j]
                           /\ \A s \in WindowsOf(j)' :
                                \/ s = windowStart'[j]
                                \/ s + window <= windowStart'[j]
                      /\ j \notin tracked' =>
                           \A s \in WindowsOf(j)' : s + 2 * window <= clock'
    BY DEF WindowInv
  <2>1. CASE j # k
    <3>1. /\ admitted'[j] = admitted[j] /\ windowStart'[j] = windowStart[j]
          /\ count'[j] = count[j] /\ clock' = clock
      BY <1>1, <1>9, <2>1 DEF IndInv, TypeOK
    <3>2. WindowsOf(j)' = WindowsOf(j)
      BY <3>1 DEF WindowsOf
    <3>3. j \in tracked' => j \in tracked
      BY <1>9, <1>10, <2>1
    <3>4. j \notin tracked' =>
            \A s \in WindowsOf(j) : s + 2 * window <= clock
      BY <1>9, <1>11, <2>1 DEF IndInv, WindowInv
    <3> QED BY <3>1, <3>2, <3>3, <3>4 DEF IndInv, WindowInv
  <2>2. CASE j = k
    <3>1. /\ k \in tracked' /\ windowStart'[k] = start /\ count'[k] = n
      BY <1>1, <1>9 DEF IndInv, TypeOK
    <3>2. \A s \in Time : s # start => admitted'[k][s] = admitted[k][s]
      BY <1>1, <1>4, <1>9 DEF IndInv, TypeOK
    <3>3. /\ admitted'[k][start] \in Nat /\ admitted'[k][start] <= n
          /\ admitted'[k][start] <= max
      <4>1. admitted[k][start] <= max
        BY <1>1, <1>4 DEF IndInv, WindowInv
      <4>2. CASE admitted' = admitted
        BY <1>4, <1>8, <4>1, <4>2
      <4>3. CASE n <= max /\ admitted' = [admitted EXCEPT ![k][start] = @ + 1]
        <5>1. admitted'[k][start] = admitted[k][start] + 1
          BY <1>1, <1>4, <4>3 DEF IndInv, TypeOK
        <5> QED BY <1>4, <1>8, <4>3, <5>1
      <4> QED BY <1>9, <4>2, <4>3
    <3>4. \A s \in Time : admitted'[k][s] <= max
      BY <1>1, <3>2, <3>3 DEF IndInv, WindowInv
    <3>5. WindowsOf(j)' \subseteq WindowsOf(k) \cup {start}
      BY <2>2, <3>2 DEF WindowsOf
    <3>6. \A s \in WindowsOf(j)' : s = start \/ s + window <= start
      BY <1>7, <3>5
    <3>7. ASSUME NEW s1 \in WindowsOf(j)', NEW s2 \in WindowsOf(j)', s1 < s2
          PROVE  s1 + window <= s2
      <4>1. s1 \in Nat /\ s2 \in Nat /\ start \in Nat
        BY <1>4, <3>7 DEF WindowsOf, Time
      <4>2. CASE s2 = start
        BY <3>6, <3>7, <4>1, <4>2
      <4>3. CASE s2 # start
        <5>1. s2 + window <= start /\ s2 \in WindowsOf(k)
          BY <3>5, <3>6, <3>7, <4>3
        <5>2. s1 # start
          BY <3>7, <4>1, <5>1
        <5>3. s1 \in WindowsOf(k)
          BY <3>5, <3>7, <5>2
        <5> QED BY <1>1, <3>7, <5>1, <5>3 DEF IndInv, WindowInv
      <4> QED BY <4>2, <4>3
    <3> QED BY <2>2, <3>1, <3>3, <3>4, <3>6, <3>7
  <2> QED BY <2>1, <2>2
<1> QED BY <1>12, <1>13, <1>14 DEF IndInv

\* So does every other step: arrivals and cancellations touch no entry, and
\* time only moves while no request has waited longer than MaxLag.
LEMMA NextInv ==
  ASSUME NEW window \in Nat \ {0}, NEW max \in Nat, Uniform(window, max),
         IndInv(window, max), [Next]_vars
  PROVE  IndInv(window, max)'
<1> USE LimitAssumption
<1>1. CASE Tick
  <2>1. TypeOK'
    BY <1>1 DEF Tick, entries, history, IndInv, TypeOK, Time
  <2>2. ClockInv'
    <3>1. \A j \in tracked : windowStart[j] <= clock + 1
      BY DEF IndInv, TypeOK, ClockInv, Time
    <3>2. ASSUME NEW t \in Tasks, req[t] # NoRequest
          PROVE  now[t] <= clock + 1 /\ clock + 1 <= now[t] + MaxLag
      <4>1. now[t] \in Nat /\ clock \in Nat /\ now[t] <= clock
        BY <3>2 DEF IndInv, TypeOK, ClockInv, Time
      <4>2. clock < now[t] + MaxLag
        BY <1>1, <3>2 DEF Tick
      <4> QED BY <4>1, <4>2
    <3> QED BY <1>1, <3>1, <3>2 DEF Tick, entries, ClockInv
  <2>3. WindowInv(window, max)'
    <3>1. \A j \in Keys : WindowsOf(j)' = WindowsOf(j)
      BY <1>1 DEF Tick, history, WindowsOf
    <3>2. \A j \in Keys : j \notin tracked =>
            \A s \in WindowsOf(j) : s + 2 * window <= clock + 1
      BY DEF IndInv, TypeOK, WindowInv, WindowsOf, Time
    <3> QED BY <1>1, <3>1, <3>2
            DEF Tick, entries, history, IndInv, WindowInv
  <2> QED BY <2>1, <2>2, <2>3 DEF IndInv
<1>2. ASSUME NEW t \in Tasks, NEW k \in Keys, NEW e \in Endpoints,
             Arrive(t, k, e)
      PROVE  IndInv(window, max)'
  <2>1. TypeOK'
    BY <1>2 DEF Arrive, entries, history, IndInv, TypeOK
  <2>2. ClockInv'
    BY <1>2 DEF Arrive, entries, history, IndInv, TypeOK, ClockInv, Time
  <2>3. WindowInv(window, max)'
    BY <1>2 DEF Arrive, entries, history, IndInv, WindowInv, WindowsOf
  <2> QED BY <2>1, <2>2, <2>3 DEF IndInv
<1>3. ASSUME NEW t \in Tasks, Cancel(t)
      PROVE  IndInv(window, max)'
  <2>1. TypeOK'
    <3>1. 0 \in Time
      BY DEF Time
    <3> QED BY <1>3, <3>1
            DEF Cancel, Return, entries, history, IndInv, TypeOK
  <2>2. ClockInv'
    BY <1>3 DEF Cancel, Return, entries, history, IndInv, TypeOK, ClockInv
  <2>3. WindowInv(window, max)'
    BY <1>3 DEF Cancel, Return, entries, history, IndInv, WindowInv, WindowsOf
  <2> QED BY <2>1, <2>2, <2>3 DEF IndInv
<1>4. CASE UNCHANGED vars
  BY <1>4 DEF vars, entries, history, IndInv, TypeOK, ClockInv, WindowInv,
              WindowsOf
<1> QED BY <1>1, <1>2, <1>3, <1>4, CheckInv DEF Next

\* The same argument for a given endpoint's policy, when all share it.
LEMMA FixedWindowOf ==
  ASSUME NEW e \in Endpoints, Uniform(Limit[e].window, Limit[e].max_requests)
  PROVE  Spec => [](WindowIsBounded /\ WindowsAreApart)
<1> DEFINE window == Limit[e].window
           max == Limit[e].max_requests
           I == IndInv(window, max)
<1>1. window \in Nat \ {0} /\ max \in Nat
  BY LimitAssumption DEF Limits
<1>2. Uniform(window, max)
  OBVIOUS
<1>3. \A f \in Endpoints : Limit[f].window = window
                           /\ Limit[f].max_requests = max
  BY DEF Uniform
<1> HIDE DEF window, max
<1>4. Init => I
  BY <1>1, InitInv
<1>5. I /\ [Next]_vars => I'
  BY <1>1, <1>2, NextInv
<1>6. I => WindowIsBounded /\ WindowsAreApart
  BY <1>3 DEF IndInv, WindowInv, WindowIsBounded, WindowsAreApart
<1> HIDE DEF I
<1> QED BY <1>4, <1>5, <1>6, PTL DEF Spec

\* With one policy for every endpoint, and no request that waits for the mutex
\* longer than a window (Uniform), the counters are those of fixed windows, for
\* any number of keys, requests and ticks, pruning or not.
THEOREM FixedWindows == Spec => [](WindowIsBounded /\ WindowsAreApart)
<1>1. CASE \E e \in Endpoints :
             Uniform(Limit[e].window, Limit[e].max_requests)
  BY <1>1, FixedWindowOf
<1>2. CASE \A e \in Endpoints :
             ~Uniform(Limit[e].window, Limit[e].max_requests)
  <2>1. WindowIsBounded /\ WindowsAreApart
    BY <1>2 DEF WindowIsBounded, WindowsAreApart
  <2> QED BY <2>1, PTL
<1> QED BY <1>1, <1>2

\* No window of a key lets more than max_requests through (check_rate_limit).
THEOREM FixedWindow == Spec => []WindowIsBounded
<1>1. (WindowIsBounded /\ WindowsAreApart) => WindowIsBounded
  OBVIOUS
<1> QED BY <1>1, FixedWindows, PTL

\* Two windows of a key start at least a window apart, although pruning may
\* forget the first (check_rate_limit).
THEOREM WindowsApart == Spec => []WindowsAreApart
<1>1. (WindowIsBounded /\ WindowsAreApart) => WindowsAreApart
  OBVIOUS
<1> QED BY <1>1, FixedWindows, PTL
=============================================================================
