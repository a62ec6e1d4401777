------------------------ MODULE TokenRevocationProofs ------------------------
(***************************************************************************)
(* A revoked token stays out, for any number of tokens, requests and calls *)
(* of handle_revoke and any uptime below the exp claims.                   *)
(***************************************************************************)
EXTENDS TokenRevocation, TLAPS

\* What the store has, or is about to be given, outlives the process: the
\* clean-up task finds nothing to remove.
Outlives ==
  store = "database" =>
    /\ \A t \in Tokens : entries[t] # NoEntry => entries[t] >= Epoch + MaxTime
    /\ \A u \in Revokes : upc[u] = "store" => uexpiry[u] >= Epoch + MaxTime

\* While the store answers, it has every token whose revocation was answered.
AnsweredIsListed == StoreAnswers => \A t \in answered : entries[t] # NoEntry

\* A request counted as late carries a token revoked before.
LateIsAnswered ==
  /\ \A v \in Checks : vpc[v] = "idle" => v \notin late
  /\ \A v \in Checks : vpc[v] = "check" => vtoken[v] \in Tokens
  /\ \A v \in Checks : vpc[v] = "check" /\ v \in late => vtoken[v] \in answered
  /\ \A u \in Revokes : upc[u] = "store" => utoken[u] \in Tokens

IndInv ==
  TypeOK /\ Outlives /\ AnsweredIsListed /\ LateIsAnswered /\ RevokedIsRejected

\* Nothing is revoked and no request under way when the process starts.
LEMMA InitInv == Init => IndInv
<1> SUFFICES ASSUME Init PROVE IndInv
  OBVIOUS
<1> USE TokensAssumption
<1>1. TypeOK
  BY DEF Init, TypeOK, Stores
<1>2. Outlives /\ AnsweredIsListed /\ LateIsAnswered /\ RevokedIsRejected
  BY DEF Init, Outlives, AnsweredIsListed, LateIsAnswered, RevokedIsRejected
<1> QED BY <1>1, <1>2 DEF IndInv

\* Every step preserves the types.
LEMMA NextType == TypeOK /\ LateIsAnswered /\ [Next]_vars => TypeOK'
<1> SUFFICES ASSUME TypeOK, LateIsAnswered, [Next]_vars PROVE TypeOK'
  OBVIOUS
<1> USE TokensAssumption DEF checks, revokes
<1>1. CASE Tick
  BY <1>1 DEF TypeOK, Tick
<1>2. CASE CloseBootPool
  BY <1>2 DEF TypeOK, CloseBootPool
<1>3. CASE Cleanup
  BY <1>3 DEF TypeOK, Cleanup
<1>4. ASSUME NEW u \in Revokes, NEW t \in Tokens, Decode(u, t) PROVE TypeOK'
  <2>1. Expiry(t) \in Nat /\ Epoch + Expiry(t) \in Nat
    BY DEF TypeOK, Expiry
  <2>2. uexpiry' \in [Revokes -> Nat]
    BY <1>4, <2>1 DEF TypeOK, Decode
  <2> QED BY <1>4, <2>2 DEF TypeOK, Decode
<1>5. ASSUME NEW u \in Revokes, Revoke(u) \/ CancelRevoke(u) PROVE TypeOK'
  <2>1. utoken[u] \in Tokens /\ uexpiry[u] \in Nat
    BY <1>5 DEF TypeOK, LateIsAnswered, Revoke, CancelRevoke
  <2>2. entries' \in [Tokens -> Nat \cup {NoEntry}]
    BY <1>5, <2>1 DEF TypeOK, Revoke, CancelRevoke
  <2> QED BY <1>5, <2>1, <2>2 DEF TypeOK, Revoke, CancelRevoke, ReturnRevoke
<1>6. ASSUME NEW v \in Checks, NEW t \in Tokens, DecodeToken(v, t)
      PROVE  TypeOK'
  BY <1>6 DEF TypeOK, DecodeToken
<1>7. ASSUME NEW v \in Checks, CheckToken(v) \/ NextRequest(v) PROVE TypeOK'
  BY <1>7 DEF TypeOK, CheckToken, NextRequest
<1>8. CASE UNCHANGED vars
  BY <1>8 DEF TypeOK, vars
<1> QED BY <1>1, <1>2, <1>3, <1>4, <1>5, <1>6, <1>7, <1>8 DEF Next

\* ... and the invariant.
LEMMA NextInv == IndInv /\ [Next]_vars => IndInv'
<1> SUFFICES ASSUME IndInv, [Next]_vars PROVE IndInv'
  OBVIOUS
<1> USE TokensAssumption DEF checks, revokes
<1>0. TypeOK'
  BY NextType DEF IndInv
<1> SUFFICES Outlives' /\ AnsweredIsListed' /\ LateIsAnswered'
               /\ RevokedIsRejected'
  BY <1>0 DEF IndInv
<1>1. CASE Tick \/ CloseBootPool \/ UNCHANGED vars
  <2>1. /\ UNCHANGED <<store, entries, checks, revokes>>
        /\ DatabaseAnswers' => DatabaseAnswers
    BY <1>1 DEF Tick, CloseBootPool, vars, DatabaseAnswers
  <2> QED BY <2>1 DEF IndInv, Outlives, AnsweredIsListed, LateIsAnswered,
                      RevokedIsRejected, StoreAnswers
<1>2. CASE Cleanup
  <2>1. entries' = entries
    <3>1. ASSUME NEW t \in Tokens, Expired(t) PROVE FALSE
      <4>1. entries[t] >= Epoch + MaxTime /\ entries[t] \in Nat
        BY <3>1 DEF IndInv, Outlives, Expired, TypeOK
      <4>2. entries[t] < Epoch + clock /\ clock \in 0 .. MaxTime
        BY <3>1 DEF IndInv, Expired, Now, TypeOK
      <4> QED BY <4>1, <4>2
    <3> QED BY <1>2, <3>1 DEF Cleanup, IndInv, TypeOK
  <2>2. UNCHANGED <<store, checks, revokes, poolOpen>>
    BY <1>2 DEF Cleanup
  <2> QED BY <2>1, <2>2
          DEF IndInv, Outlives, AnsweredIsListed, LateIsAnswered,
              RevokedIsRejected, StoreAnswers, DatabaseAnswers
<1>3. ASSUME NEW u \in Revokes, NEW t \in Tokens, Decode(u, t)
      PROVE  Outlives' /\ AnsweredIsListed' /\ LateIsAnswered'
               /\ RevokedIsRejected'
  <2>1. Outlives'
    <3>1. Epoch + Expiry(t) >= Epoch + MaxTime
      BY DEF Expiry, IndInv, TypeOK
    <3> QED BY <1>3, <3>1 DEF Decode, IndInv, TypeOK, Outlives
  <2>2. AnsweredIsListed' /\ RevokedIsRejected'
    BY <1>3 DEF Decode, IndInv, AnsweredIsListed, RevokedIsRejected, StoreAnswers,
                DatabaseAnswers
  <2>3. LateIsAnswered'
    BY <1>3 DEF Decode, IndInv, TypeOK, LateIsAnswered
  <2> QED BY <2>1, <2>2, <2>3
<1>4. ASSUME NEW u \in Revokes, Revoke(u) \/ CancelRevoke(u)
      PROVE  Outlives' /\ AnsweredIsListed' /\ LateIsAnswered'
               /\ RevokedIsRejected'
  <2>1. /\ utoken[u] \in Tokens /\ uexpiry[u] \in Nat /\ upc[u] = "store"
        /\ uexpiry[u] # NoEntry
    BY <1>4 DEF IndInv, TypeOK, LateIsAnswered, Revoke, CancelRevoke
  <2>2. \/ entries' = entries
        \/ entries' = [entries EXCEPT ![utoken[u]] = uexpiry[u]]
    BY <1>4 DEF Revoke, CancelRevoke
  <2>3. UNCHANGED <<store, checks, poolOpen>> /\ upc' = [upc EXCEPT ![u] = "idle"]
    BY <1>4 DEF Revoke, CancelRevoke, ReturnRevoke
  <2>4. /\ utoken' = [utoken EXCEPT ![u] = NoToken]
        /\ uexpiry' = [uexpiry EXCEPT ![u] = 0]
    BY <1>4 DEF Revoke, CancelRevoke, ReturnRevoke
  <2>5. Outlives'
    BY <2>1, <2>2, <2>3, <2>4 DEF IndInv, TypeOK, Outlives
  <2>6. AnsweredIsListed'
    <3>1. CASE Revoke(u)
      BY <2>1, <3>1 DEF Revoke, IndInv, TypeOK, AnsweredIsListed, StoreAnswers,
                        DatabaseAnswers
    <3>2. CASE CancelRevoke(u)
      BY <2>1, <2>2, <2>3, <3>2 DEF CancelRevoke, IndInv, TypeOK,
                        AnsweredIsListed, StoreAnswers, DatabaseAnswers
    <3> QED BY <1>4, <3>1, <3>2
  <2>7. answered \subseteq answered'
    BY <1>4 DEF Revoke, CancelRevoke
  <2>8. LateIsAnswered'
    <3>1. ASSUME NEW w \in Revokes, upc'[w] = "store"
          PROVE  utoken'[w] \in Tokens
      <4>1. w # u /\ upc[w] = "store" /\ utoken'[w] = utoken[w]
        BY <2>3, <2>4, <3>1 DEF IndInv, TypeOK
      <4> QED BY <4>1 DEF IndInv, LateIsAnswered
    <3>2. vpc' = vpc /\ vtoken' = vtoken /\ late' = late
      BY <2>3
    <3> QED BY <2>7, <3>1, <3>2 DEF IndInv, LateIsAnswered
  <2>9. RevokedIsRejected'
    BY <2>3 DEF IndInv, RevokedIsRejected, StoreAnswers,
                DatabaseAnswers
  <2> QED BY <2>5, <2>6, <2>8, <2>9
<1>5. ASSUME NEW v \in Checks, NEW t \in Tokens, DecodeToken(v, t)
      PROVE  Outlives' /\ AnsweredIsListed' /\ LateIsAnswered'
               /\ RevokedIsRejected'
  <2>1. Outlives' /\ AnsweredIsListed'
    BY <1>5 DEF DecodeToken, IndInv, Outlives, AnsweredIsListed, StoreAnswers,
                DatabaseAnswers
  <2>2. LateIsAnswered'
    BY <1>5 DEF DecodeToken, IndInv, TypeOK, LateIsAnswered
  <2>3. RevokedIsRejected'
    BY <1>5 DEF DecodeToken, IndInv, TypeOK, RevokedIsRejected, StoreAnswers,
                DatabaseAnswers
  <2> QED BY <2>1, <2>2, <2>3
<1>6. ASSUME NEW v \in Checks, CheckToken(v)
      PROVE  Outlives' /\ AnsweredIsListed' /\ LateIsAnswered'
               /\ RevokedIsRejected'
  <2>1. Outlives' /\ AnsweredIsListed'
    BY <1>6 DEF CheckToken, IndInv, Outlives, AnsweredIsListed, StoreAnswers,
                DatabaseAnswers
  <2>2. LateIsAnswered'
    BY <1>6 DEF CheckToken, IndInv, TypeOK, LateIsAnswered
  <2>3. StoreAnswers /\ v \in late => IsRevoked(vtoken[v])
    BY <1>6 DEF CheckToken, IndInv, AnsweredIsListed, LateIsAnswered, IsRevoked,
                StoreAnswers, TypeOK, Stores
  <2>4. RevokedIsRejected'
    BY <1>6, <2>3 DEF CheckToken, IndInv, TypeOK, RevokedIsRejected, StoreAnswers,
                      DatabaseAnswers
  <2> QED BY <2>1, <2>2, <2>4
<1>7. ASSUME NEW v \in Checks, NextRequest(v)
      PROVE  Outlives' /\ AnsweredIsListed' /\ LateIsAnswered'
               /\ RevokedIsRejected'
  <2>1. Outlives' /\ AnsweredIsListed'
    BY <1>7 DEF NextRequest, IndInv, Outlives, AnsweredIsListed, StoreAnswers,
                DatabaseAnswers
  <2>2. LateIsAnswered'
    BY <1>7 DEF NextRequest, IndInv, TypeOK, LateIsAnswered
  <2>3. RevokedIsRejected'
    BY <1>7 DEF NextRequest, IndInv, TypeOK, RevokedIsRejected, StoreAnswers,
                DatabaseAnswers
  <2> QED BY <2>1, <2>2, <2>3
<1> QED BY <1>1, <1>2, <1>3, <1>4, <1>5, <1>6, <1>7 DEF Next

\* A request that arrives after handle_revoke has answered is never let in
\* with the token, with the in-memory store, or with the database store as
\* long as it has its table and the pool it was given at start-up.
THEOREM RevocationHolds == Spec => []RevokedIsRejected
<1>1. IndInv => RevokedIsRejected
  BY DEF IndInv
<1> QED BY InitInv, NextInv, <1>1, PTL DEF Spec
=============================================================================
