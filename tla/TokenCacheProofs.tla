-------------------------- MODULE TokenCacheProofs --------------------------
(* The token of TokenCache is honoured for every margin that allows for two *)
(* waits, and for any number of callers.                                    *)
EXTENDS TokenCache, TLAPS

\* What a caller holds: a token under way was issued when the wait began; a
\* token in use outlives the longest wait from when it was handed out.
HeldOK(c) ==
    /\ caller[c].pc \in {"store", "use"} =>
          caller[c].since <= now /\ now <= caller[c].since + Delay
    /\ caller[c].pc = "store" => caller[c].token = caller[c].since + Life
    /\ caller[c].pc = "use" => caller[c].since + Delay < caller[c].token

\* The key goes away while its token has a whole wait left.
CacheOK == cache.until + Delay <= cache.token \/ cache.until = 0

TokenInv == TypeOK /\ CacheOK /\ \A c \in Caller : HeldOK(c)

-----------------------------------------------------------------------------
\* The invariant holds at the start: nothing is cached, nobody holds a token.
LEMMA TokenInit == Init => TokenInv
  BY ClockAssumption DEF Init, Idle, TokenInv, TypeOK, CallerState, CacheOK, HeldOK

\* A step that puts c in a good state and keeps the clock and a good key
\* preserves the invariant: the other callers are where they were.
LEMMA OneCaller ==
  ASSUME TokenInv, NEW c \in Caller, NEW s \in CallerState,
         caller' = [caller EXCEPT ![c] = s], UNCHANGED now,
         cache' \in [token: Nat, until: Nat], CacheOK', HeldOK(c)'
  PROVE  TokenInv'
<1>1. TypeOK'
  BY DEF TokenInv, TypeOK
<1>2. ASSUME NEW d \in Caller PROVE HeldOK(d)'
  <2>1. CASE d = c BY <2>1
  <2>2. CASE d # c
    <3>1. caller'[d] = caller[d]
      BY <2>2 DEF TokenInv, TypeOK
    <3> QED BY <3>1 DEF TokenInv, HeldOK
  <2> QED BY <2>1, <2>2
<1> QED BY <1>1, <1>2 DEF TokenInv

\* Every step preserves the invariant.
LEMMA TokenStep == TokenInv /\ [Next]_vars => TokenInv'
<1> SUFFICES ASSUME TokenInv, [Next]_vars PROVE TokenInv'
  OBVIOUS
<1> USE ClockAssumption, MarginAssumption
<1>1. ASSUME NEW c \in Caller, ReadCache(c) PROVE TokenInv'
  <2>1. CacheOK' /\ cache' \in [token: Nat, until: Nat]
    BY <1>1 DEF ReadCache, TokenInv, TypeOK, CacheOK
  <2>2. CASE now < cache.until /\ Holding(c, "use", cache.token)
    <3> DEFINE s == [pc |-> "use", token |-> cache.token, since |-> now]
    <3>1. s \in CallerState
      BY DEF TokenInv, TypeOK, CallerState
    <3>2. caller' = [caller EXCEPT ![c] = s] /\ UNCHANGED now
      BY <1>1, <2>2 DEF ReadCache, Holding
    <3>3. caller'[c] = s
      BY <3>2 DEF TokenInv, TypeOK
    <3>4. now + Delay < cache.token
      BY <2>2 DEF TokenInv, TypeOK, CacheOK
    <3>5. HeldOK(c)'
      BY <3>2, <3>3, <3>4 DEF HeldOK, TokenInv, TypeOK
    <3> QED BY <2>1, <3>1, <3>2, <3>5, OneCaller
  <2>3. CASE Holding(c, "issue", 0)
    <3> DEFINE s == [pc |-> "issue", token |-> 0, since |-> now]
    <3>1. s \in CallerState
      BY DEF TokenInv, TypeOK, CallerState
    <3>2. caller' = [caller EXCEPT ![c] = s] /\ UNCHANGED now
      BY <1>1, <2>3 DEF ReadCache, Holding
    <3>3. caller'[c] = s
      BY <3>2 DEF TokenInv, TypeOK
    <3>4. HeldOK(c)'
      BY <3>3 DEF HeldOK
    <3> QED BY <2>1, <3>1, <3>2, <3>4, OneCaller
  <2> QED BY <1>1, <2>2, <2>3 DEF ReadCache
<1>2. ASSUME NEW c \in Caller, IssueToken(c) PROVE TokenInv'
  <2> DEFINE s == [pc |-> "store", token |-> now + Life, since |-> now]
  <2>1. s \in CallerState
    BY DEF TokenInv, TypeOK, CallerState
  <2>2. caller' = [caller EXCEPT ![c] = s] /\ UNCHANGED <<now, cache>>
    BY <1>2 DEF IssueToken, Holding
  <2>3. caller'[c] = s
    BY <2>2 DEF TokenInv, TypeOK
  <2>4. HeldOK(c)'
    BY <2>2, <2>3 DEF HeldOK, TokenInv, TypeOK
  <2>5. CacheOK' /\ cache' \in [token: Nat, until: Nat]
    BY <2>2 DEF TokenInv, TypeOK, CacheOK
  <2> QED BY <2>1, <2>2, <2>4, <2>5, OneCaller
<1>3. ASSUME NEW c \in Caller, StoreToken(c) PROVE TokenInv'
  <2> DEFINE s == [pc |-> "use", token |-> caller[c].token, since |-> now]
  <2>1. s \in CallerState
    BY DEF TokenInv, TypeOK, CallerState
  <2>2. caller' = [caller EXCEPT ![c] = s] /\ UNCHANGED now
    BY <1>3 DEF StoreToken, Holding
  <2>3. caller'[c] = s
    BY <2>2 DEF TokenInv, TypeOK
  <2>4. /\ now \in Nat /\ caller[c].since \in Nat
        /\ now <= caller[c].since + Delay
        /\ caller[c].token = caller[c].since + Life
    BY <1>3 DEF StoreToken, TokenInv, TypeOK, CallerState, HeldOK
  <2>5. /\ now + Delay < caller[c].token
        /\ now + TTL + Delay <= caller[c].token
    BY <2>4
  <2>6. HeldOK(c)'
    BY <2>2, <2>3, <2>4, <2>5 DEF HeldOK
  <2>7. cache' \in [token: Nat, until: Nat] /\ CacheOK'
    <3>1. CASE cache' = [token |-> caller[c].token, until |-> now + TTL]
      BY <2>4, <2>5, <3>1 DEF CacheOK
    <3>2. CASE UNCHANGED cache
      BY <3>2 DEF TokenInv, TypeOK, CacheOK
    <3> QED BY <1>3, <3>1, <3>2 DEF StoreToken
  <2> QED BY <2>1, <2>2, <2>6, <2>7, OneCaller
<1>4. ASSUME NEW c \in Caller, UseToken(c) \/ GiveUp(c) PROVE TokenInv'
  <2>1. Idle \in CallerState
    BY DEF Idle, CallerState
  <2>2. caller' = [caller EXCEPT ![c] = Idle] /\ UNCHANGED <<now, cache>>
    BY <1>4 DEF UseToken, GiveUp
  <2>3. HeldOK(c)'
    BY <2>2 DEF TokenInv, TypeOK, HeldOK, Idle
  <2>4. CacheOK' /\ cache' \in [token: Nat, until: Nat]
    BY <2>2 DEF TokenInv, TypeOK, CacheOK
  <2> QED BY <2>1, <2>2, <2>3, <2>4, OneCaller
<1>5. ASSUME Tick PROVE TokenInv'
  <2>1. TypeOK' /\ CacheOK'
    BY <1>5 DEF Tick, TokenInv, TypeOK, CacheOK
  <2>2. ASSUME NEW c \in Caller PROVE HeldOK(c)'
    <3>1. now \in Nat /\ caller[c].since \in Nat
      BY DEF TokenInv, TypeOK, CallerState
    <3>2. /\ now' = now + 1 /\ UNCHANGED caller
          /\ caller[c].pc # "idle" => now < caller[c].since + Delay
      BY <1>5 DEF Tick
    <3> QED BY <3>1, <3>2 DEF TokenInv, HeldOK
  <2> QED BY <2>1, <2>2 DEF TokenInv
<1>6. CASE UNCHANGED vars
  BY <1>6 DEF vars, TokenInv, TypeOK, CacheOK, HeldOK
<1> QED BY <1>1, <1>2, <1>3, <1>4, <1>5, <1>6 DEF Next

\* Whoever sends a token to Nomba sends one that is still honoured, for every
\* number of callers and every TTL that leaves room for two waits.
THEOREM TokensHonoured == Spec => []TokenHonoured
<1>1. TokenInv => TokenHonoured
  <2> SUFFICES ASSUME TokenInv, NEW c \in Caller, caller[c].pc = "use"
               PROVE  now < caller[c].token
    BY DEF TokenHonoured
  <2>1. now \in Nat /\ caller[c].since \in Nat /\ caller[c].token \in Nat
    BY DEF TokenInv, TypeOK, CallerState
  <2> QED BY <2>1, ClockAssumption DEF TokenInv, HeldOK
<1> QED BY <1>1, TokenInit, TokenStep, PTL DEF Spec
=============================================================================
