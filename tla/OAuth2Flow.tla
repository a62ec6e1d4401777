----------------------------- MODULE OAuth2Flow -----------------------------
(***************************************************************************)
(* The OAuth2 authorization code flow with PKCE: authorize and callback    *)
(* (middleware/auth/handler.rs) sharing the map oauth2_pending, while hot  *)
(* reloads change the configuration.                                       *)
(*                                                                         *)
(* Each call of authorize draws a fresh state, PKCE verifier and code: all *)
(* three are named by the flow.  The mutex of oauth2_pending is never held *)
(* across an await, so a critical section is one step.  authorize holds    *)
(* config.read while it waits for the mutex, which keeps a reload out.     *)
(***************************************************************************)
EXTENDS Integers, FiniteSets

CONSTANTS
  Flows,        \* calls of authorize
  Callbacks,    \* calls of callback, more than one of which may name a flow
  NoFlow,
  NumConfigs,   \* bound: contents of the config file
  Settings,     \* Settings[c]: the auth.oauth2 and auth.jwt of content c
  DefaultTtl,   \* state_ttl of callback where auth.oauth2 is missing
  MaxTime       \* bound: the clock stops there

Configs == 1 .. NumConfigs
OAuth2Settings ==
  [oauth2 : BOOLEAN, jwt : BOOLEAN, state_ttl : Nat, max_pending_states : Nat]

ASSUME SettingsAssumption ==
  /\ NumConfigs \in Nat \ {0}
  /\ Settings \in [Configs -> OAuth2Settings]
  /\ DefaultTtl \in Nat /\ MaxTime \in Nat
  /\ NoFlow \notin Flows

VARIABLES
  clock,
  config,       \* AppState.config
  readers,      \* calls of authorize that hold config.read
  pending,      \* the keys of oauth2_pending
  created,      \* created[f]: created_at of the entry of flow f
  fpc,          \* fpc[f]: authorize
  fconfig,      \* the content behind the guard of authorize f
  cpc,          \* cpc[b]: callback
  cstate,       \* the flow whose state callback b was given
  ccode,        \* the flow whose code callback b was given
  cttl          \* state_ttl read by callback b

flow == <<readers, fpc, fconfig>>
callback == <<cpc, cstate, ccode, cttl>>
vars == <<clock, config, flow, pending, created, callback>>

Init ==
  /\ clock = 0 /\ config = 1
  /\ readers = {} /\ pending = {}
  /\ created = [f \in Flows |-> 0]
  /\ fpc = [f \in Flows |-> "idle"]
  /\ fconfig = [f \in Flows |-> 1]
  /\ cpc = [b \in Callbacks |-> "idle"]
  /\ cstate = [b \in Callbacks |-> NoFlow]
  /\ ccode = [b \in Callbacks |-> NoFlow]
  /\ cttl = [b \in Callbacks |-> 0]

Tick ==
  /\ clock < MaxTime
  /\ clock' = clock + 1
  /\ UNCHANGED <<config, flow, pending, created, callback>>

\* The swap of a hot reload (HotReload, SwapConfig) needs config.write.
Reload ==
  /\ config < NumConfigs /\ readers = {}
  /\ config' = config + 1
  /\ UNCHANGED <<clock, flow, pending, created, callback>>

\* cleanup_expired
AliveAfterRounding(ttl) == {f \in pending : clock - created[f] < ttl - 1}
Alive(ttl) == {f \in pending : clock - created[f] < ttl}

-----------------------------------------------------------------------------
(* handle_oauth2_authorize *)

\* The read guard lives until the end of the handler.
HoldsGuardNot(f) == readers
HoldsGuard(f) == readers \cup {f}

BeginAuthorize(f) ==
  /\ fpc[f] = "idle"
  /\ fconfig' = [fconfig EXCEPT ![f] = config]
  /\ IF Settings[config].oauth2
       THEN /\ fpc' = [fpc EXCEPT ![f] = "lock"]
            /\ readers' = HoldsGuard(f)
       ELSE /\ fpc' = [fpc EXCEPT ![f] = "error"]
            /\ UNCHANGED readers
  /\ UNCHANGED <<clock, config, pending, created, callback>>

Full(n, max) == n >= max

\* The critical section: clean up, refuse or insert; then the redirect.
StorePending(f, settings) ==
  /\ fpc[f] = "lock"
  /\ LET alive == Alive(settings.state_ttl)
     IN  IF Full(Cardinality(alive), settings.max_pending_states)
           THEN /\ pending' = alive
                /\ fpc' = [fpc EXCEPT ![f] = "error"]
                /\ UNCHANGED created
           ELSE /\ pending' = alive \cup {f}
                /\ created' = [created EXCEPT ![f] = clock]
                /\ fpc' = [fpc EXCEPT ![f] = "redirected"]
  /\ readers' = readers \ {f}
  /\ UNCHANGED <<clock, config, fconfig, callback>>

\* state_ttl and max_pending_states were read before the mutex was awaited.
Authorize(f) == StorePending(f, Settings[fconfig[f]])

CancelAuthorize(f) ==
  /\ fpc[f] = "lock"
  /\ fpc' = [fpc EXCEPT ![f] = "error"]
  /\ readers' = readers \ {f}
  /\ UNCHANGED <<clock, config, fconfig, pending, created, callback>>

-----------------------------------------------------------------------------
(* handle_oauth2_callback *)

CGoto(b, step) == cpc' = [cpc EXCEPT ![b] = step]

\* The query has a state and a code, and state_ttl is read.  A client may
\* come twice, with the state of one flow and the code of another, or with a
\* state that authorize never drew (NoFlow); the identity provider issues the
\* code of a flow once authorize has redirected.
BeginCallback(b, s, c) ==
  /\ cpc[b] = "idle"
  /\ s # NoFlow => fpc[s] = "redirected"
  /\ fpc[c] = "redirected"
  /\ cstate' = [cstate EXCEPT ![b] = s]
  /\ ccode' = [ccode EXCEPT ![b] = c]
  /\ cttl' = [cttl EXCEPT ![b] = IF Settings[config].oauth2
                                   THEN Settings[config].state_ttl
                                   ELSE DefaultTtl]
  /\ CGoto(b, "validate")
  /\ UNCHANGED <<clock, config, flow, pending, created>>

\* pending.remove: what is left of the entries that survived.
RemoveNot(alive, s) == alive
Remove(alive, s) == alive \ {s}

\* validate_state: clean up and remove under the mutex ...
ValidateState(b) ==
  /\ cpc[b] = "validate"
  /\ LET alive == Alive(cttl[b])
     IN  /\ pending' = Remove(alive, cstate[b])
         /\ CGoto(b, IF cstate[b] \in alive THEN "elapsed" ELSE "error")
  /\ UNCHANGED <<clock, config, flow, created, cstate, ccode, cttl>>

\* ... and look at the clock once more without it.
CheckElapsed(b) ==
  /\ cpc[b] = "elapsed"
  /\ CGoto(b, IF clock - created[cstate[b]] >= cttl[b] THEN "error"
                                                      ELSE "config")
  /\ UNCHANGED <<clock, config, flow, pending, created, cstate, ccode, cttl>>

\* get_oauth2_config
ReadSettings(b) ==
  /\ cpc[b] = "config"
  /\ CGoto(b, IF Settings[config].oauth2 /\ Settings[config].jwt
                THEN "exchange" ELSE "error")
  /\ UNCHANGED <<clock, config, flow, pending, created, cstate, ccode, cttl>>

\* exchange_code: the identity provider redeems a code for its own verifier,
\* and is not relied on to do so only once.
Redeems(b) == ccode[b] = cstate[b]
ExchangeCode(b) ==
  /\ cpc[b] = "exchange"
  /\ CGoto(b, IF Redeems(b) THEN "userinfo" ELSE "error")
  /\ UNCHANGED <<clock, config, flow, pending, created, cstate, ccode, cttl>>

\* fetch_userinfo, then mint_jwt
FetchUserinfo(b) ==
  /\ cpc[b] = "userinfo"
  /\ CGoto(b, "tls")
  /\ UNCHANGED <<clock, config, flow, pending, created, cstate, ccode, cttl>>

\* server.tls is read, the cookie built and the client redirected.
SetCookie(b) ==
  /\ cpc[b] = "tls"
  /\ CGoto(b, "login")
  /\ UNCHANGED <<clock, config, flow, pending, created, cstate, ccode, cttl>>

\* The identity provider fails, or the client goes away at an await.
FailCallback(b) ==
  /\ cpc[b] \in {"validate", "config", "exchange", "userinfo", "tls"}
  /\ CGoto(b, "error")
  /\ UNCHANGED <<clock, config, flow, pending, created, cstate, ccode, cttl>>

Next ==
  \/ Tick \/ Reload
  \/ \E f \in Flows : BeginAuthorize(f) \/ Authorize(f) \/ CancelAuthorize(f)
  \/ \E b \in Callbacks :
       \/ \E s \in Flows \cup {NoFlow}, c \in Flows : BeginCallback(b, s, c)
       \/ ValidateState(b) \/ CheckElapsed(b) \/ ReadSettings(b) \/ ExchangeCode(b)
       \/ FetchUserinfo(b) \/ SetCookie(b) \/ FailCallback(b)

Spec == Init /\ [][Next]_vars

-----------------------------------------------------------------------------
(* Properties *)

TypeOK ==
  /\ clock \in 0 .. MaxTime /\ config \in Configs
  /\ readers \subseteq Flows /\ pending \subseteq Flows
  /\ created \in [Flows -> 0 .. MaxTime]
  /\ fpc \in [Flows -> {"idle", "lock", "redirected", "error"}]
  /\ fconfig \in [Flows -> Configs]
  /\ cpc \in [Callbacks -> {"idle", "validate", "elapsed", "config",
                            "exchange", "userinfo", "tls", "login", "error"}]
  /\ cstate \in [Callbacks -> Flows \cup {NoFlow}]
  /\ ccode \in [Callbacks -> Flows \cup {NoFlow}]
  /\ cttl \in [Callbacks -> Nat]

\* A callback that has taken its entry and may still log in, or has.
Passed(b) ==
  cpc[b] \in {"elapsed", "config", "exchange", "userinfo", "tls", "login"}

\* validate_state consumes the state: however many callbacks race with it, one
\* gets past, so a flow ends in one login at most, and in none but its own.
OneLoginPerFlow ==
  \A b1, b2 \in Callbacks :
    /\ (b1 # b2 /\ Passed(b1) /\ Passed(b2)) => cstate[b1] # cstate[b2]
    /\ cpc[b1] = "login" => ccode[b1] = cstate[b1]

\* authorize keeps config.read from reading max_pending_states to inserting,
\* so a reload cannot slip in between: whoever adds an entry respects the
\* limit that is in force at that moment.
LimitInForce ==
  [][Cardinality(pending') > Cardinality(pending)
       => Cardinality(pending') <= Settings[config'].max_pending_states]_vars

\* Cleaning up never costs a user the login: the first callback of a flow finds
\* its entry if it comes within every state_ttl that a content has or that a
\* callback takes without auth.oauth2, whatever authorize and the other
\* callbacks cleaned up before, each with the state_ttl that it read.
Ttls == {Settings[c].state_ttl : c \in Configs} \cup {DefaultTtl}
FirstInTimePasses ==
  \A f \in Flows :
    (/\ fpc[f] = "redirected" /\ \A t \in Ttls : clock - created[f] < t
     /\ \A b \in Callbacks : cstate[b] = f => cpc[b] = "validate")
      => f \in pending

=============================================================================
