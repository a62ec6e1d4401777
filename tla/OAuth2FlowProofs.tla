-------------------------- MODULE OAuth2FlowProofs --------------------------
(***************************************************************************)
(* Proofs about OAuth2Flow, for any number of flows, callbacks, contents   *)
(* and any settings.                                                       *)
(***************************************************************************)
EXTENDS OAuth2Flow, FiniteSetTheorems, TLAPS

\* An entry of oauth2_pending belongs to a flow that was redirected: it was
\* inserted once, and the map stays finite.
PendingIsRedirected ==
  /\ IsFiniteSet(pending)
  /\ \A f \in pending : fpc[f] = "redirected"

\* The guard of an authorize that waits for the mutex is held, and what it
\* read is still in force.
GuardIsCurrent ==
  \A f \in Flows : fpc[f] = "lock" => f \in readers /\ fconfig[f] = config

\* A callback names a flow that was redirected, or none.
StatesAreDrawn ==
  \A b \in Callbacks :
    /\ cstate[b] # NoFlow => fpc[cstate[b]] = "redirected"
    /\ cpc[b] = "idle" => cstate[b] = NoFlow

\* What a callback has taken is in the map no more, and its code was redeemed
\* for the verifier of its own flow.
TakenIsGone ==
  \A b \in Callbacks :
    /\ Passed(b) => cstate[b] \in Flows /\ cstate[b] \notin pending
    /\ cpc[b] \in {"userinfo", "tls", "login"} => ccode[b] = cstate[b]

\* The entry of a redirected flow is not from the future, and a callback has
\* read one of the state_ttl there are.
Times ==
  /\ \A f \in Flows : created[f] <= clock
  /\ \A b \in Callbacks : cpc[b] = "validate" => cttl[b] \in Ttls

IndInv ==
  /\ TypeOK
  /\ PendingIsRedirected
  /\ GuardIsCurrent
  /\ StatesAreDrawn
  /\ TakenIsGone
  /\ Times
  /\ OneLoginPerFlow
  /\ FirstInTimePasses

\* The initial states satisfy the invariant.
LEMMA InitInv == Init => IndInv
<1> SUFFICES ASSUME Init PROVE IndInv
  OBVIOUS
<1>1. TypeOK
  BY SettingsAssumption DEF Init, TypeOK, Configs
<1>2. PendingIsRedirected
  BY FS_EmptySet DEF Init, PendingIsRedirected
<1>3. GuardIsCurrent /\ StatesAreDrawn /\ TakenIsGone /\ OneLoginPerFlow
  BY DEF Init, GuardIsCurrent, StatesAreDrawn, TakenIsGone, OneLoginPerFlow,
         Passed
<1>4. Times /\ FirstInTimePasses
  BY DEF Init, Times, FirstInTimePasses
<1>5. QED
  BY <1>1, <1>2, <1>3, <1>4 DEF IndInv

\* The settings of a content, for use where config or fconfig is typed.
LEMMA SettingsType ==
  ASSUME NEW c \in Configs
  PROVE  /\ Settings[c] \in OAuth2Settings
         /\ Settings[c].state_ttl \in Nat
         /\ Settings[c].max_pending_states \in Nat
  BY SettingsAssumption DEF OAuth2Settings

\* Every action keeps the variables in their types.
LEMMA TypeInv == TypeOK /\ [Next]_vars => TypeOK'
<1> SUFFICES ASSUME TypeOK, [Next]_vars PROVE TypeOK'
  OBVIOUS
<1> USE SettingsAssumption DEF TypeOK, flow, callback
<1>1. CASE Tick
  BY <1>1 DEF Tick
<1>2. CASE Reload
  BY <1>2 DEF Reload, Configs
<1>3. ASSUME NEW f \in Flows, BeginAuthorize(f) PROVE TypeOK'
  BY <1>3 DEF BeginAuthorize, HoldsGuard
<1>4. ASSUME NEW f \in Flows, Authorize(f) PROVE TypeOK'
  BY <1>4 DEF Authorize, StorePending, Alive
<1>5. ASSUME NEW f \in Flows, CancelAuthorize(f) PROVE TypeOK'
  BY <1>5 DEF CancelAuthorize
<1>6. ASSUME NEW b \in Callbacks, NEW s \in Flows \cup {NoFlow},
             NEW c \in Flows, BeginCallback(b, s, c)
      PROVE  TypeOK'
  <2>1. Settings[config].state_ttl \in Nat
    BY SettingsType
  <2>2. (cttl \in [Callbacks -> Nat])'
    BY <1>6, <2>1 DEF BeginCallback
  <2>3. QED
    BY <1>6, <2>2 DEF BeginCallback, CGoto
<1>7. ASSUME NEW b \in Callbacks,
             ValidateState(b) \/ CheckElapsed(b) \/ ExchangeCode(b)
               \/ FetchUserinfo(b) \/ FailCallback(b)
      PROVE  TypeOK'
  BY <1>7 DEF ValidateState, CheckElapsed, ExchangeCode, FetchUserinfo,
              FailCallback, CGoto, Remove, Alive
<1>8. ASSUME NEW b \in Callbacks, ReadSettings(b) \/ SetCookie(b)
      PROVE  TypeOK'
  BY <1>8 DEF ReadSettings, SetCookie, CGoto
<1>9. CASE UNCHANGED vars
  BY <1>9 DEF vars
<1>10. QED
  BY <1>1, <1>2, <1>3, <1>4, <1>5, <1>6, <1>7, <1>8, <1>9 DEF Next

\* authorize f adds its own flow to the survivors, or nothing.
LEMMA StoreResult ==
  ASSUME IndInv, NEW f \in Flows, Authorize(f)
  PROVE  /\ fpc[f] = "lock"
         /\ pending' \subseteq pending \cup {f}
         /\ f \in pending' => fpc'[f] = "redirected"
         /\ Alive(Settings[fconfig[f]].state_ttl) \subseteq pending'
         /\ \A g \in Flows : g # f => fpc'[g] = fpc[g] /\ created'[g] = created[g]
         /\ fpc'[f] = "redirected" => f \in pending'
         /\ UNCHANGED <<clock, config, fconfig, callback>>
         /\ readers' = readers \ {f}
         /\ IsFiniteSet(pending')
<1>1. /\ pending \subseteq Flows /\ f \notin pending
      /\ fpc \in [Flows -> {"idle", "lock", "redirected", "error"}]
      /\ created \in [Flows -> 0 .. MaxTime]
  <2>1. fpc[f] = "lock"
    BY DEF Authorize, StorePending
  <2>2. QED
    BY <2>1 DEF IndInv, TypeOK, PendingIsRedirected
<1> DEFINE alive == Alive(Settings[fconfig[f]].state_ttl)
<1>2. IsFiniteSet(alive) /\ IsFiniteSet(alive \cup {f})
  <2>1. alive \subseteq pending
    BY DEF Alive
  <2>2. QED
    BY <2>1, FS_Subset, FS_AddElement DEF IndInv, PendingIsRedirected
<1>3. pending' = alive \/ pending' = alive \cup {f}
  BY DEF Authorize, StorePending
<1>4. IsFiniteSet(pending')
  BY <1>2, <1>3
<1>5. alive \subseteq pending
  BY DEF Alive
<1>6. CASE Full(Cardinality(alive), Settings[fconfig[f]].max_pending_states)
  <2>1. pending' = alive /\ fpc' = [fpc EXCEPT ![f] = "error"]
          /\ created' = created
    BY <1>6 DEF Authorize, StorePending
  <2>2. QED
    BY <1>1, <1>4, <1>5, <2>1 DEF Authorize, StorePending
<1>7. CASE ~ Full(Cardinality(alive), Settings[fconfig[f]].max_pending_states)
  <2>1. pending' = alive \cup {f} /\ fpc' = [fpc EXCEPT ![f] = "redirected"]
          /\ created' = [created EXCEPT ![f] = clock]
    BY <1>7 DEF Authorize, StorePending
  <2>2. QED
    BY <1>1, <1>4, <1>5, <2>1 DEF Authorize, StorePending
<1>8. QED
  BY <1>6, <1>7

\* The steps of callback b after it has read state_ttl and before it validates
\* leave the map and the flows alone, or only take from the map.
CallbackStep(b) ==
  \/ CheckElapsed(b) \/ ReadSettings(b) \/ ExchangeCode(b)
  \/ FetchUserinfo(b) \/ SetCookie(b) \/ FailCallback(b)

\* The later steps of a callback move from step to step only.
LEMMA CallbackStepResult ==
  ASSUME TypeOK, NEW b \in Callbacks, CallbackStep(b)
  PROVE  /\ UNCHANGED <<clock, config, flow, pending, created, cstate, ccode,
                        cttl>>
         /\ \A c \in Callbacks : c # b => cpc'[c] = cpc[c]
         /\ cpc'[b] \in {"config", "exchange", "userinfo", "tls", "login",
                         "error"}
         /\ cpc'[b] # "error" => Passed(b)
         /\ cpc[b] # "idle"
         /\ cpc'[b] \in {"userinfo", "tls", "login"} =>
              cpc[b] \in {"userinfo", "tls"} \/ ccode[b] = cstate[b]
  BY DEF TypeOK, CallbackStep, CheckElapsed, ReadSettings, ExchangeCode,
         FetchUserinfo, SetCookie, FailCallback, CGoto, Passed, Redeems

\* validate_state takes the entry of its own state out of the map.
LEMMA ValidateResult ==
  ASSUME IndInv, NEW b \in Callbacks, ValidateState(b)
  PROVE  /\ UNCHANGED <<clock, config, flow, created, cstate, ccode, cttl>>
         /\ \A c \in Callbacks : c # b => cpc'[c] = cpc[c]
         /\ cpc[b] = "validate"
         /\ cpc'[b] \in {"elapsed", "error"}
         /\ cpc'[b] = "elapsed" => cstate[b] \in pending
         /\ pending' = Alive(cttl[b]) \ {cstate[b]}
         /\ pending' \subseteq pending
         /\ IsFiniteSet(pending')
<1>1. pending' = Alive(cttl[b]) \ {cstate[b]}
  BY DEF ValidateState, Remove
<1>2. pending' \subseteq pending
  BY <1>1 DEF Alive
<1>3. IsFiniteSet(pending')
  BY <1>2, FS_Subset DEF IndInv, PendingIsRedirected
<1>4. QED
  BY <1>1, <1>2, <1>3 DEF ValidateState, Alive, CGoto, IndInv, TypeOK

\* Every action keeps the invariant.
LEMMA NextInv == IndInv /\ [Next]_vars => IndInv'
<1> SUFFICES ASSUME IndInv, [Next]_vars PROVE IndInv'
  OBVIOUS
<1>0. TypeOK /\ TypeOK'
  BY TypeInv DEF IndInv
<1> DEFINE Rest == /\ PendingIsRedirected /\ GuardIsCurrent /\ StatesAreDrawn
                   /\ TakenIsGone /\ Times /\ OneLoginPerFlow
                   /\ FirstInTimePasses
<1>r. Rest
  BY DEF IndInv
<1> SUFFICES Rest'
  BY <1>0 DEF IndInv
<1>1. CASE Tick
  <2>1. clock \in Int /\ clock' = clock + 1 /\ created \in [Flows -> Int]
    BY <1>0, <1>1 DEF Tick, TypeOK
  <2>2. UNCHANGED <<config, readers, fpc, fconfig, pending, created, cpc,
                    cstate, ccode, cttl>>
    BY <1>1 DEF Tick, flow, callback
  <2>3. PendingIsRedirected' /\ GuardIsCurrent' /\ StatesAreDrawn'
          /\ TakenIsGone' /\ OneLoginPerFlow'
    BY <1>r, <2>2 DEF PendingIsRedirected, GuardIsCurrent, StatesAreDrawn,
                      TakenIsGone, OneLoginPerFlow, Passed
  <2>4. Times'
    BY <1>r, <2>1, <2>2 DEF Times
  <2>5. FirstInTimePasses'
    <3>1. Ttls \subseteq Int
      BY SettingsAssumption DEF Ttls, OAuth2Settings
    <3>2. QED
      BY <1>r, <2>1, <2>2, <3>1 DEF FirstInTimePasses
  <2>6. QED
    BY <2>3, <2>4, <2>5
<1>2. CASE Reload
  <2>1. readers = {} /\ \A f \in Flows : fpc[f] # "lock"
    BY <1>r, <1>2 DEF Reload, GuardIsCurrent
  <2>2. UNCHANGED <<clock, readers, fpc, fconfig, pending, created, cpc,
                    cstate, ccode, cttl>>
    BY <1>2 DEF Reload, flow, callback
  <2>3. QED
    BY <1>r, <2>1, <2>2
       DEF PendingIsRedirected, GuardIsCurrent, StatesAreDrawn, TakenIsGone,
           Times, OneLoginPerFlow, FirstInTimePasses, Passed
<1>3. ASSUME NEW f \in Flows, BeginAuthorize(f) PROVE Rest'
  <2>1. /\ fpc[f] = "idle" /\ fpc'[f] \in {"lock", "error"}
        /\ \A g \in Flows : g # f => fpc'[g] = fpc[g] /\ fconfig'[g] = fconfig[g]
        /\ fconfig'[f] = config /\ readers \subseteq readers'
        /\ fpc'[f] = "lock" => f \in readers'
    BY <1>0, <1>3 DEF BeginAuthorize, HoldsGuard, TypeOK
  <2>2. UNCHANGED <<clock, config, pending, created, cpc, cstate, ccode, cttl>>
    BY <1>3 DEF BeginAuthorize, callback
  <2>3. pending \subseteq Flows /\ \A b \in Callbacks : cstate[b] \in Flows \cup {NoFlow}
    BY <1>0 DEF TypeOK
  <2>4. PendingIsRedirected' /\ GuardIsCurrent' /\ StatesAreDrawn'
    BY <1>r, <2>1, <2>2, <2>3
       DEF PendingIsRedirected, GuardIsCurrent, StatesAreDrawn
  <2>5. TakenIsGone' /\ Times' /\ OneLoginPerFlow'
    BY <1>r, <2>2 DEF TakenIsGone, Times, OneLoginPerFlow, Passed
  <2>6. FirstInTimePasses'
    BY <1>r, <2>1, <2>2 DEF FirstInTimePasses
  <2>7. QED
    BY <2>4, <2>5, <2>6
<1>4. ASSUME NEW f \in Flows, Authorize(f) PROVE Rest'
  <2> DEFINE ttl == Settings[fconfig[f]].state_ttl
  <2>1. /\ fpc[f] = "lock" /\ pending' \subseteq pending \cup {f}
        /\ f \in pending' => fpc'[f] = "redirected"
        /\ Alive(ttl) \subseteq pending'
        /\ \A g \in Flows : g # f => fpc'[g] = fpc[g] /\ created'[g] = created[g]
        /\ fpc'[f] = "redirected" => f \in pending'
        /\ UNCHANGED <<clock, config, fconfig, callback>>
        /\ readers' = readers \ {f}
        /\ IsFiniteSet(pending')
    BY <1>4, StoreResult
  <2>2. UNCHANGED <<cpc, cstate, ccode, cttl>>
    BY <2>1 DEF callback
  <2>3. fpc'[f] # "lock" /\ created'[f] \in {created[f], clock}
    BY <1>0, <1>4 DEF Authorize, StorePending, TypeOK
  <2>4. pending \subseteq Flows /\ \A b \in Callbacks : cstate[b] \in Flows \cup {NoFlow}
    BY <1>0 DEF TypeOK
  <2>5. \A b \in Callbacks : cstate[b] # f
    BY <1>r, <2>1, SettingsAssumption DEF StatesAreDrawn
  <2>6. PendingIsRedirected' /\ GuardIsCurrent' /\ StatesAreDrawn'
    BY <1>r, <2>1, <2>2, <2>3, <2>4, <2>5
       DEF PendingIsRedirected, GuardIsCurrent, StatesAreDrawn
  <2>7. TakenIsGone' /\ OneLoginPerFlow'
    BY <1>r, <2>1, <2>2, <2>5 DEF TakenIsGone, OneLoginPerFlow, Passed
  <2>8. Times'
    <3>1. clock \in Int
      BY <1>0 DEF TypeOK
    <3>2. QED
      BY <1>r, <2>1, <2>2, <2>3, <3>1 DEF Times
  <2>9. FirstInTimePasses'
    <3>1. SUFFICES ASSUME NEW g \in Flows,
                          (/\ fpc[g] = "redirected" /\ \A t \in Ttls : clock - created[g] < t
                           /\ \A b \in Callbacks : cstate[b] = g => cpc[b] = "validate")'
                   PROVE  g \in pending'
      BY DEF FirstInTimePasses
    <3>2. CASE g = f
      BY <2>1, <3>1, <3>2
    <3>3. CASE g # f
      <4>1. g \in pending /\ \A t \in Ttls : clock - created[g] < t
        BY <1>r, <2>1, <2>2, <3>1, <3>3 DEF FirstInTimePasses
      <4>2. ttl \in Ttls
        BY <1>0 DEF Ttls, TypeOK
      <4>3. QED
        BY <2>1, <4>1, <4>2 DEF Alive
    <3>4. QED
      BY <3>2, <3>3
  <2>10. QED
    BY <2>6, <2>7, <2>8, <2>9
<1>5. ASSUME NEW f \in Flows, CancelAuthorize(f) PROVE Rest'
  <2>1. /\ fpc[f] = "lock" /\ fpc'[f] = "error" /\ readers' = readers \ {f}
        /\ \A g \in Flows : g # f => fpc'[g] = fpc[g]
    BY <1>0, <1>5 DEF CancelAuthorize, TypeOK
  <2>2. UNCHANGED <<clock, config, fconfig, pending, created, cpc, cstate,
                    ccode, cttl>>
    BY <1>5 DEF CancelAuthorize, callback
  <2>3. pending \subseteq Flows /\ \A b \in Callbacks : cstate[b] \in Flows \cup {NoFlow}
    BY <1>0 DEF TypeOK
  <2>4. PendingIsRedirected' /\ GuardIsCurrent' /\ StatesAreDrawn'
    BY <1>r, <2>1, <2>2, <2>3
       DEF PendingIsRedirected, GuardIsCurrent, StatesAreDrawn
  <2>5. TakenIsGone' /\ Times' /\ OneLoginPerFlow'
    BY <1>r, <2>2 DEF TakenIsGone, Times, OneLoginPerFlow, Passed
  <2>6. FirstInTimePasses'
    BY <1>r, <2>1, <2>2 DEF FirstInTimePasses
  <2>7. QED
    BY <2>4, <2>5, <2>6
<1>6. ASSUME NEW b \in Callbacks, NEW s \in Flows \cup {NoFlow},
             NEW c \in Flows, BeginCallback(b, s, c)
      PROVE  Rest'
  <2>1. /\ cpc[b] = "idle" /\ cpc'[b] = "validate" /\ cstate'[b] = s
        /\ s # NoFlow => fpc[s] = "redirected"
        /\ \A d \in Callbacks : d # b => /\ cpc'[d] = cpc[d]
                                         /\ cstate'[d] = cstate[d]
                                         /\ ccode'[d] = ccode[d]
                                         /\ cttl'[d] = cttl[d]
    BY <1>0, <1>6 DEF BeginCallback, CGoto, TypeOK
  <2>2. UNCHANGED <<clock, config, readers, fpc, fconfig, pending, created>>
    BY <1>6 DEF BeginCallback, flow
  <2>3. cttl'[b] \in Ttls
    BY <1>0, <1>6 DEF BeginCallback, Ttls, TypeOK
  <2>4. PendingIsRedirected' /\ GuardIsCurrent' /\ StatesAreDrawn'
    BY <1>r, <2>1, <2>2 DEF PendingIsRedirected, GuardIsCurrent, StatesAreDrawn
  <2>5. TakenIsGone' /\ OneLoginPerFlow'
    BY <1>r, <2>1, <2>2 DEF TakenIsGone, OneLoginPerFlow, Passed
  <2>6. Times'
    BY <1>r, <2>1, <2>2, <2>3 DEF Times
  <2>7. FirstInTimePasses'
    <3>1. cstate[b] = NoFlow
      BY <1>r, <2>1 DEF StatesAreDrawn
    <3>2. QED
      BY <1>r, <2>1, <2>2, <3>1, SettingsAssumption
         DEF FirstInTimePasses
  <2>8. QED
    BY <2>4, <2>5, <2>6, <2>7
<1>7. ASSUME NEW b \in Callbacks, ValidateState(b) PROVE Rest'
  <2>1. /\ UNCHANGED <<clock, config, readers, fpc, fconfig, created, cstate,
                       ccode, cttl>>
        /\ \A c \in Callbacks : c # b => cpc'[c] = cpc[c]
        /\ cpc[b] = "validate" /\ cpc'[b] \in {"elapsed", "error"}
        /\ cpc'[b] = "elapsed" => cstate[b] \in pending
        /\ pending' = Alive(cttl[b]) \ {cstate[b]}
        /\ pending' \subseteq pending /\ IsFiniteSet(pending')
    BY <1>7, ValidateResult DEF flow
  <2>2. pending \subseteq Flows
    BY <1>0 DEF TypeOK
  <2>3. PendingIsRedirected' /\ GuardIsCurrent' /\ StatesAreDrawn'
    BY <1>r, <2>1 DEF PendingIsRedirected, GuardIsCurrent, StatesAreDrawn
  <2>4. TakenIsGone' /\ OneLoginPerFlow'
    <3>1. TakenIsGone'
      BY <1>r, <2>1, <2>2 DEF TakenIsGone, Passed
    <3>2. \A c \in Callbacks : c # b /\ Passed(c) /\ cpc'[b] = "elapsed"
            => cstate[c] # cstate[b]
      BY <1>r, <2>1 DEF TakenIsGone
    <3>3. QED
      BY <1>r, <2>1, <3>1, <3>2 DEF OneLoginPerFlow, Passed
  <2>5. Times'
    BY <1>r, <2>1 DEF Times
  <2>6. FirstInTimePasses'
    <3>1. SUFFICES ASSUME NEW g \in Flows,
                          (/\ fpc[g] = "redirected" /\ \A t \in Ttls : clock - created[g] < t
                           /\ \A d \in Callbacks : cstate[d] = g => cpc[d] = "validate")'
                   PROVE  g \in pending'
      BY DEF FirstInTimePasses
    <3>2. cstate[b] # g
      BY <2>1, <3>1
    <3>3. \A d \in Callbacks : cstate[d] = g => cpc[d] = "validate"
      BY <2>1, <3>1, <3>2
    <3>4. g \in pending /\ \A t \in Ttls : clock - created[g] < t
      BY <1>r, <2>1, <3>1, <3>3 DEF FirstInTimePasses
    <3>5. cttl[b] \in Ttls
      BY <1>r, <2>1, <3>1 DEF Times
    <3>6. QED
      BY <2>1, <3>2, <3>4, <3>5 DEF Alive
  <2>7. QED
    BY <2>3, <2>4, <2>5, <2>6
<1>8. ASSUME NEW b \in Callbacks, CallbackStep(b) PROVE Rest'
  <2>1. /\ UNCHANGED <<clock, config, readers, fpc, fconfig, pending, created,
                       cstate, ccode, cttl>>
        /\ \A c \in Callbacks : c # b => cpc'[c] = cpc[c]
        /\ cpc'[b] \in {"config", "exchange", "userinfo", "tls", "login", "error"}
        /\ cpc'[b] # "error" => Passed(b)
        /\ cpc[b] # "idle"
        /\ cpc'[b] \in {"userinfo", "tls", "login"} =>
             cpc[b] \in {"userinfo", "tls"} \/ ccode[b] = cstate[b]
    BY <1>0, <1>8, CallbackStepResult DEF flow
  <2>2. PendingIsRedirected' /\ GuardIsCurrent' /\ StatesAreDrawn'
    BY <1>r, <2>1 DEF PendingIsRedirected, GuardIsCurrent, StatesAreDrawn
  <2>3. \A c \in Callbacks : Passed(c)' => Passed(c)
    BY <2>1 DEF Passed
  <2>4. TakenIsGone'
    BY <1>r, <2>1, <2>3 DEF TakenIsGone
  <2>5. OneLoginPerFlow'
    BY <1>r, <2>1, <2>3, <2>4 DEF OneLoginPerFlow, TakenIsGone
  <2>6. Times'
    BY <1>r, <2>1 DEF Times
  <2>7. FirstInTimePasses'
    BY <1>r, <2>1 DEF FirstInTimePasses
  <2>8. QED
    BY <2>2, <2>4, <2>5, <2>6, <2>7
<1>9. CASE UNCHANGED vars
  BY <1>r, <1>9
     DEF vars, flow, callback, PendingIsRedirected, GuardIsCurrent,
         StatesAreDrawn, TakenIsGone, Times, OneLoginPerFlow,
         FirstInTimePasses, Passed
<1>10. QED
  BY <1>1, <1>2, <1>3, <1>4, <1>5, <1>6, <1>7, <1>8, <1>9
     DEF Next, CallbackStep

\* The inductive invariant holds in every reachable state.
THEOREM Invariance == Spec => []IndInv
  BY InitInv, NextInv, PTL DEF Spec

\* Every variable has its type.
THEOREM TypeCorrect == Spec => []TypeOK
<1>1. IndInv => TypeOK
  BY DEF IndInv
<1>2. QED
  BY <1>1, Invariance, PTL

\* However many callbacks race for a state, validate_state lets one past, and
\* it logs in with the code of that flow.
THEOREM StateIsUsedOnce == Spec => []OneLoginPerFlow
<1>1. IndInv => OneLoginPerFlow
  BY DEF IndInv
<1>2. QED
  BY <1>1, Invariance, PTL

\* Cleaning up takes no entry that is within every state_ttl and not used.
THEOREM CleanupIsSafe == Spec => []FirstInTimePasses
<1>1. IndInv => FirstInTimePasses
  BY DEF IndInv
<1>2. QED
  BY <1>1, Invariance, PTL

\* The step behind LimitInForce, for one authorize: the survivors are fewer
\* than the limit its guard keeps in force.
LEMMA AuthorizeRespectsLimit ==
  ASSUME IndInv, NEW f \in Flows, Authorize(f),
         Cardinality(pending') > Cardinality(pending)
  PROVE  Cardinality(pending') <= Settings[config'].max_pending_states
<1> DEFINE settings == Settings[fconfig[f]]
           alive == Alive(settings.state_ttl)
<1>1. fconfig[f] = config /\ config' = config /\ config \in Configs
  BY DEF IndInv, TypeOK, GuardIsCurrent, Authorize, StorePending
<1>2. IsFiniteSet(pending) /\ alive \subseteq pending
  BY DEF IndInv, PendingIsRedirected, Alive
<1>3. /\ IsFiniteSet(alive)
      /\ Cardinality(alive) \in Nat /\ Cardinality(pending) \in Nat
      /\ Cardinality(alive) <= Cardinality(pending)
  BY <1>2, FS_Subset, FS_CardinalityType
<1>4. settings.max_pending_states \in Nat
  BY <1>1, SettingsType
<1>5. /\ pending' = alive \cup {f}
      /\ ~ (Cardinality(alive) >= settings.max_pending_states)
  <2>1. CASE Full(Cardinality(alive), settings.max_pending_states)
    BY <1>3, <2>1 DEF Authorize, StorePending
  <2>2. CASE ~ Full(Cardinality(alive), settings.max_pending_states)
    BY <2>2 DEF Authorize, StorePending, Full
  <2>3. QED
    BY <2>1, <2>2
<1>6. Cardinality(pending') <= Cardinality(alive) + 1
  <2> HIDE DEF alive
  <2>1. Cardinality(alive \cup {f}) =
          IF f \in alive THEN Cardinality(alive) ELSE Cardinality(alive) + 1
    BY <1>3, FS_AddElement
  <2>2. QED
    BY <1>3, <1>5, <2>1
<1>7. Cardinality(pending') \in Nat
  BY <1>3, <1>5, FS_AddElement, FS_CardinalityType
<1>8. QED
  BY <1>1, <1>3, <1>4, <1>5, <1>6, <1>7

\* A step that only takes from a finite map does not grow it.
LEMMA TakingDoesNotGrow ==
  ASSUME IsFiniteSet(pending), pending' \subseteq pending
  PROVE  ~ (Cardinality(pending') > Cardinality(pending))
<1>1. Cardinality(pending') <= Cardinality(pending)
  BY FS_Subset
<1>2. Cardinality(pending) \in Nat /\ Cardinality(pending') \in Nat
  BY FS_Subset, FS_CardinalityType
<1>3. QED
  BY <1>1, <1>2

\* Whoever adds an entry to oauth2_pending respects the max_pending_states in
\* force at that moment, whatever reloads happen.
THEOREM LimitHolds == Spec => LimitInForce
<1> DEFINE Respects == Cardinality(pending') > Cardinality(pending)
              => Cardinality(pending') <= Settings[config'].max_pending_states
<1>1. IndInv /\ [Next]_vars => [Respects]_vars
  <2> SUFFICES ASSUME IndInv, Next PROVE Respects
    BY DEF vars
  <2>1. IsFiniteSet(pending)
    BY DEF IndInv, PendingIsRedirected
  <2>2. ASSUME pending' \subseteq pending PROVE Respects
    BY <2>1, <2>2, TakingDoesNotGrow
  <2>3. ASSUME NEW f \in Flows, Authorize(f) PROVE Respects
    BY <2>3, AuthorizeRespectsLimit
  <2>4. ASSUME NEW b \in Callbacks, ValidateState(b) PROVE Respects
    <3>1. pending' \subseteq pending
      BY <2>4, ValidateResult
    <3>2. QED
      BY <2>2, <3>1
  <2>5. CASE \/ Tick \/ Reload
             \/ \E f \in Flows : BeginAuthorize(f) \/ CancelAuthorize(f)
             \/ \E b \in Callbacks :
                  \/ \E s \in Flows \cup {NoFlow}, c \in Flows :
                       BeginCallback(b, s, c)
                  \/ CallbackStep(b)
    <3>1. pending' \subseteq pending
      BY <2>5 DEF Tick, Reload, BeginAuthorize, CancelAuthorize, BeginCallback,
                  CallbackStep, CheckElapsed, ReadSettings, ExchangeCode,
                  FetchUserinfo, SetCookie, FailCallback
    <3>2. QED
      BY <2>2, <3>1
  <2>6. QED
    BY <2>3, <2>4, <2>5 DEF Next, CallbackStep
<1>2. QED
  BY <1>1, Invariance, PTL DEF Spec, LimitInForce
=============================================================================
