------------------------ MODULE AuthTokenMinter_proofs ------------------------
(***************************************************************************)
(* Proofs about the minter, for any calls, lifetimes, timeout and skew.    *)
(***************************************************************************)
EXTENDS AuthTokenMinter, TLAPS

\* A token that was issued is one of its request's own.
IssuedInv == \A c \in Call : req[c] = "issued" => issued[c] \in Token

LEMMA TypeInductive ==
    /\ Init => TypeOK /\ IssuedInv
    /\ TypeOK /\ IssuedInv /\ [Next]_vars => (TypeOK /\ IssuedInv)'
<1> USE MinterAssumption
<1> USE DEF TypeOK, IssuedInv, idle, waiting, failed, Pending, Handed, CacheKeys
<1>1. Init => TypeOK /\ IssuedInv
  BY DEF Init
<1>2. ASSUME TypeOK, IssuedInv, [Next]_vars PROVE (TypeOK /\ IssuedInv)'
  <2> USE <1>2
  <2>1. ASSUME NEW c \in Call, MintHit(c) PROVE (TypeOK /\ IssuedInv)'
    <3>1. cache[cacheKey(c)] \in CacheEntry
      BY <2>1 DEF MintHit, Fresh
    <3>2. QED
      BY <2>1, <3>1 DEF MintHit, CacheEntry
  <2>2. ASSUME NEW c \in Call, MintJoin(c) PROVE (TypeOK /\ IssuedInv)'
    BY <2>2 DEF MintJoin
  <2>3. ASSUME NEW c \in Call, MintRequest(c) PROVE (TypeOK /\ IssuedInv)'
    BY <2>3 DEF MintRequest
  <2>4. ASSUME NEW c \in Call, ServiceIssues(c) PROVE (TypeOK /\ IssuedInv)'
    BY <2>4 DEF ServiceIssues, Token
  <2>5. ASSUME NEW c \in Call, RequestSucceeds(c) PROVE (TypeOK /\ IssuedInv)'
    <3>1. issued[c] \in Token /\ ttlSeconds(issued[c].grant) \in Nat
      BY <2>5 DEF RequestSucceeds, Token, ttlSeconds
    <3>2. [token |-> issued[c], expiresAt |-> now + ttlSeconds(issued[c].grant)] \in CacheEntry
      BY <3>1 DEF CacheEntry
    <3>3. QED
      BY <2>5, <3>1, <3>2 DEF RequestSucceeds, Settle
  <2>6. ASSUME NEW c \in Call, RequestFails(c) PROVE (TypeOK /\ IssuedInv)'
    BY <2>6 DEF RequestFails, Settle
  <2>7. CASE Tick
    BY <2>7 DEF Tick
  <2>8. CASE UNCHANGED vars
    BY <2>8 DEF vars
  <2>9. QED
    BY <2>1, <2>2, <2>3, <2>4, <2>5, <2>6, <2>7, <2>8 DEF Next
<1>3. QED
  BY <1>1, <1>2

\* Every variable of the minter keeps its shape.
THEOREM TypeCorrect == Spec => []TypeOK
<1>1. Spec => [](TypeOK /\ IssuedInv)
  BY TypeInductive, PTL DEF Spec
<1>2. QED
  BY <1>1, PTL

-----------------------------------------------------------------------------
\* The promise map: a key holds the one open request of its calls, and a call that
\* waits, waits on that request.
FlightInv ==
    /\ \A c \in Call : Open(c) => inflight[cacheKey(c)] = c
    /\ \A k \in CacheKeys : inflight[k] # NoCall => Open(inflight[k]) /\ cacheKey(inflight[k]) = k
    /\ \A c \in Call : waitsOn[c] # NoCall =>
          Open(waitsOn[c]) /\ cacheKey(waitsOn[c]) = cacheKey(c)
    /\ \A c \in Call : result[c] = waiting => waitsOn[c] # NoCall
    /\ \A c \in Call : result[c] = idle => req[c] = "none" /\ waitsOn[c] = NoCall

LEMMA FlightInvariant == Spec => []FlightInv
<1> USE MinterAssumption
<1> USE DEF FlightInv, TypeOK, Open, CacheKeys
<1>0. /\ idle.outcome = "idle" /\ waiting.outcome = "waiting" /\ failed.outcome = "failed"
      /\ \A r \in Handed : r.outcome \in {"hit", "miss"}
  BY DEF idle, waiting, failed, Handed
<1>1. Init => FlightInv
  BY <1>0 DEF Init
<1>2. ASSUME TypeOK, IssuedInv, FlightInv, [Next]_vars PROVE FlightInv'
  <2> USE <1>2, <1>0
  <2>1. ASSUME NEW c \in Call, MintHit(c) PROVE FlightInv'
    <3>1. result' = [result EXCEPT ![c] = result'[c]] /\ result'[c].outcome = "hit"
      BY <2>1 DEF MintHit
    <3>2. QED
      BY <2>1, <3>1 DEF MintHit
  <2>2. ASSUME NEW c \in Call, MintJoin(c) PROVE FlightInv'
    BY <2>2 DEF MintJoin
  <2>3. ASSUME NEW c \in Call, MintRequest(c) PROVE FlightInv'
    BY <2>3 DEF MintRequest
  <2>4. ASSUME NEW c \in Call, ServiceIssues(c) PROVE FlightInv'
    BY <2>4 DEF ServiceIssues
  <2>5. ASSUME NEW c \in Call, NEW r, Open(c), Settle(c, r), r.outcome \in {"miss", "failed"}
        PROVE  FlightInv'
    <3>1. r # idle /\ r # waiting
      BY <2>5
    <3>2. QED
      BY <2>5, <3>1 DEF Settle
  <2>6. ASSUME NEW c \in Call, RequestSucceeds(c) PROVE FlightInv'
    <3>1. [outcome |-> "miss", token |-> issued[c], at |-> now].outcome = "miss"
      OBVIOUS
    <3>2. QED
      BY <2>5, <2>6, <3>1 DEF RequestSucceeds
  <2>7. ASSUME NEW c \in Call, RequestFails(c) PROVE FlightInv'
    BY <2>5, <2>7 DEF RequestFails
  <2>8. CASE Tick
    BY <2>8 DEF Tick
  <2>9. CASE UNCHANGED vars
    BY <2>9 DEF vars
  <2>10. QED
    BY <2>1, <2>2, <2>3, <2>4, <2>6, <2>7, <2>8, <2>9 DEF Next
<1>3. QED
  BY <1>1, <1>2, TypeInductive, PTL DEF Spec

\* No key ever has two requests open, whatever the interleaving of the calls.
THEOREM SingleFlight == Spec => []OneRequestPerKey
<1>1. FlightInv => OneRequestPerKey
  BY DEF FlightInv, OneRequestPerKey
<1>2. QED
  BY <1>1, FlightInvariant, PTL

\* No call waits for a request that has settled, and no settled request stays in the map.
THEOREM NobodyForgotten == Spec => []WaitersAreServed
<1>1. FlightInv => WaitersAreServed
  BY DEF FlightInv, WaitersAreServed
<1>2. QED
  BY <1>1, FlightInvariant, PTL

-----------------------------------------------------------------------------
\* Where the times come from: a request is no older than its timeout, its token was
\* issued while it was open, and an entry's expiry is at most the timeout later than
\* the token's own.
AgeInv ==
    /\ \A c \in Call : Open(c) => start[c] <= now /\ now <= start[c] + Timeout
    /\ \A c \in Call : req[c] = "issued" =>
          /\ start[c] <= issued[c].at /\ issued[c].at <= now
          /\ <<issued[c].sender, issued[c].scopes>> = cacheKey(c)
    /\ \A k \in CacheKeys : cache[k] # NoEntry =>
          LET e == cache[k] IN
          /\ e.expiresAt <= e.token.at + Timeout + ttlSeconds(e.token.grant)
          /\ e.expiresAt <= now + ttlSeconds(e.token.grant)
          /\ <<e.token.sender, e.token.scopes>> = k

\* What was handed out was right when it was handed out.
HandedInv == TokenIsForCaller /\ (SkewCovers => HitIsValid)

\* The times of a token are numbers.
LEMMA TokenNumbers ==
    \A t \in Token : t.at \in Nat /\ t.grant.ttl \in Nat /\ ttlSeconds(t.grant) \in Nat
<1> SUFFICES ASSUME NEW t \in Token
             PROVE  t.at \in Nat /\ t.grant.ttl \in Nat /\ ttlSeconds(t.grant) \in Nat
  OBVIOUS
<1>1. t.at \in 0 .. MaxTime /\ t.grant \in Grants
  BY DEF Token
<1>2. t.at \in Nat
  BY <1>1
<1>3. t.grant \in [ttl : Nat, stated : BOOLEAN]
  BY <1>1, MinterAssumption, Zenon
<1>4. QED
  BY <1>2, <1>3, MinterAssumption DEF ttlSeconds

LEMMA AgeInvariant == Spec => []AgeInv
<1> USE MinterAssumption
<1> USE DEF AgeInv, TypeOK, IssuedInv, Open, CacheKeys
<1>1. Init => AgeInv
  BY DEF Init
<1>2. ASSUME TypeOK, IssuedInv, AgeInv, [Next]_vars PROVE AgeInv'
  <2> USE <1>2
  <2>0. \A t \in Token : t.at \in Nat /\ ttlSeconds(t.grant) \in Nat
    BY TokenNumbers
  <2>1. ASSUME NEW c \in Call, MintHit(c) PROVE AgeInv'
    BY <2>1 DEF MintHit
  <2>2. ASSUME NEW c \in Call, MintJoin(c) PROVE AgeInv'
    BY <2>2 DEF MintJoin
  <2>3. ASSUME NEW c \in Call, MintRequest(c) PROVE AgeInv'
    BY <2>3 DEF MintRequest
  <2>4. ASSUME NEW c \in Call, ServiceIssues(c) PROVE AgeInv'
    BY <2>4 DEF ServiceIssues, cacheKey
  \* The entry's token was issued at most the timeout before the answer came.
  <2>5. ASSUME NEW c \in Call, RequestSucceeds(c) PROVE AgeInv'
    <3> DEFINE e == [token |-> issued[c], expiresAt |-> now + ttlSeconds(issued[c].grant)]
    <3>1. /\ e.expiresAt <= e.token.at + Timeout + ttlSeconds(e.token.grant)
          /\ e.expiresAt <= now + ttlSeconds(e.token.grant)
          /\ <<e.token.sender, e.token.scopes>> = cacheKey(c)
      <4>1. issued[c] \in Token /\ issued[c].at \in Nat /\ ttlSeconds(issued[c].grant) \in Nat
        BY <2>5, <2>0 DEF RequestSucceeds
      <4>2. now <= issued[c].at + Timeout
        BY <2>5, <4>1 DEF RequestSucceeds
      <4>3. QED
        BY <2>5, <4>1, <4>2 DEF RequestSucceeds
    <3>2. cache' = [cache EXCEPT ![cacheKey(c)] = e]
      BY <2>5 DEF RequestSucceeds
    <3>3. now' = now /\ req' = [req EXCEPT ![c] = "settled"]
          /\ start' = [start EXCEPT ![c] = 0] /\ issued' = [issued EXCEPT ![c] = NoToken]
      BY <2>5 DEF RequestSucceeds, Settle
    <3> HIDE DEF e
    <3>4. \A k \in CacheKeys : cache'[k] # NoEntry =>
             LET f == cache'[k] IN
             /\ f.expiresAt <= f.token.at + Timeout + ttlSeconds(f.token.grant)
             /\ f.expiresAt <= now + ttlSeconds(f.token.grant)
             /\ <<f.token.sender, f.token.scopes>> = k
      BY <3>1, <3>2
    <3>5. QED
      BY <3>3, <3>4
  <2>6. ASSUME NEW c \in Call, RequestFails(c) PROVE AgeInv'
    BY <2>6 DEF RequestFails, Settle
  <2>7. CASE Tick
    <3>1. now' = now + 1 /\ UNCHANGED <<cache, req, start, issued>>
      BY <2>7 DEF Tick
    <3>2. \A c \in Call : Open(c) => now < start[c] + Timeout
      BY <2>7 DEF Tick
    <3>3. \A k \in CacheKeys : cache[k] # NoEntry =>
             /\ cache[k].expiresAt \in Nat /\ ttlSeconds(cache[k].token.grant) \in Nat
      BY <2>0 DEF CacheEntry
    <3>4. \A c \in Call : req[c] = "issued" => issued[c].at \in Nat
      BY <2>0
    <3>5. QED
      BY <3>1, <3>2, <3>3, <3>4
  <2>8. CASE UNCHANGED vars
    BY <2>8 DEF vars
  <2>9. QED
    BY <2>1, <2>2, <2>3, <2>4, <2>5, <2>6, <2>7, <2>8 DEF Next
<1>3. QED
  BY <1>1, <1>2, TypeInductive, PTL DEF Spec

\* A token of a cache entry that is still fresh is valid, by the arithmetic of the
\* timeout, the drift and the skew.
LEMMA FreshIsValid ==
    ASSUME TypeOK, AgeInv, SkewCovers, NEW k \in CacheKeys, Fresh(k),
           LifetimeKnown(cache[k].token)
    PROVE  ValidAt(cache[k].token, now)
<1> USE MinterAssumption
<1> DEFINE t == cache[k].token
<1> DEFINE x == cache[k].expiresAt
<1>1. /\ now \in Nat /\ x \in Nat /\ t.at \in Nat /\ t.grant.ttl \in Nat
      /\ ttlSeconds(t.grant) \in Nat
  <2>1. cache[k] \in CacheEntry /\ now \in Nat
    BY DEF Fresh, TypeOK
  <2>2. t \in Token /\ x \in Nat
    BY <2>1 DEF CacheEntry
  <2>3. QED
    BY <2>1, <2>2, TokenNumbers
<1>2. x <= t.at + Timeout + ttlSeconds(t.grant) /\ x <= now + ttlSeconds(t.grant) /\ now + Skew < x
  BY DEF Fresh, AgeInv
<1>3. t.grant.stated \/ AskedTtl <= t.grant.ttl
  BY DEF LifetimeKnown
<1> HIDE DEF t, x
<1>4. ttlSeconds(t.grant) <= t.grant.ttl
  <2>1. CASE t.grant.stated
    <3>1. ttlSeconds(t.grant) = IF t.grant.ttl < 1 THEN 1 ELSE t.grant.ttl
      BY <2>1 DEF ttlSeconds
    <3>2. t.grant.ttl >= 1
      BY <1>1, <1>2, <3>1
    <3>3. QED
      BY <1>1, <3>1, <3>2
  <2>2. CASE ~t.grant.stated
    BY <1>1, <1>3, <2>2 DEF ttlSeconds
  <2>3. QED
    BY <2>1, <2>2
<1>5. now + Drift < t.at + t.grant.ttl
  BY <1>1, <1>2, <1>4 DEF SkewCovers
<1>6. QED
  BY <1>5 DEF ValidAt, t

LEMMA HandedInvariant == Spec => []HandedInv
<1> USE MinterAssumption
<1> USE DEF HandedInv, TokenIsForCaller, HitIsValid, GotToken, TypeOK
<1>1. Init => HandedInv
  BY DEF Init, idle
<1>2. ASSUME TypeOK, IssuedInv, FlightInv, AgeInv, HandedInv, [Next]_vars PROVE HandedInv'
  <2> USE <1>2
  <2>1. ASSUME NEW c \in Call, MintHit(c) PROVE HandedInv'
    <3> DEFINE r == [outcome |-> "hit", token |-> cache[cacheKey(c)].token, at |-> now]
    <3>1. result' = [result EXCEPT ![c] = r] /\ Fresh(cacheKey(c)) /\ cacheKey(c) \in CacheKeys
      BY <2>1 DEF MintHit, CacheKeys
    <3>2. SkewCovers /\ LifetimeKnown(r.token) => ValidAt(r.token, r.at)
      BY <3>1, FreshIsValid
    <3>3. r.token.sender = SenderOf[c] /\ r.token.scopes = ScopesOf[c]
      BY <3>1 DEF AgeInv, Fresh, cacheKey
    <3> HIDE DEF r
    <3>4. TokenIsForCaller'
      BY <3>1, <3>3
    <3>5. (SkewCovers => HitIsValid)'
      BY <3>1, <3>2 DEF SkewCovers, ValidAt
    <3>6. QED
      BY <3>4, <3>5
  <2>2. ASSUME NEW c \in Call, MintJoin(c) \/ MintRequest(c) PROVE HandedInv'
    <3>1. result' = [result EXCEPT ![c] = waiting] /\ waiting.outcome = "waiting"
      BY <2>2 DEF MintJoin, MintRequest, waiting
    <3>2. QED
      BY <3>1 DEF SkewCovers, ValidAt
  \* The calls that share a request have its key, and so its sender and scopes.
  <2>3. ASSUME NEW c \in Call, RequestSucceeds(c) PROVE HandedInv'
    <3> DEFINE r == [outcome |-> "miss", token |-> issued[c], at |-> now]
    <3>1. result' = [d \in Call |-> IF waitsOn[d] = c THEN r ELSE result[d]]
      BY <2>3 DEF RequestSucceeds, Settle
    <3>2. <<issued[c].sender, issued[c].scopes>> = cacheKey(c)
      BY <2>3 DEF RequestSucceeds, AgeInv
    <3>3. \A d \in Call : waitsOn[d] = c => cacheKey(d) = cacheKey(c)
      BY DEF FlightInv
    <3>4. \A d \in Call : waitsOn[d] = c =>
             r.token.sender = SenderOf[d] /\ r.token.scopes = ScopesOf[d]
      BY <3>2, <3>3 DEF cacheKey
    <3>5. r.outcome # "hit"
      OBVIOUS
    <3> HIDE DEF r
    <3>6. TokenIsForCaller'
      BY <3>1, <3>4
    <3>7. (SkewCovers => HitIsValid)'
      BY <3>1, <3>5 DEF SkewCovers, ValidAt
    <3>8. QED
      BY <3>6, <3>7
  <2>4. ASSUME NEW c \in Call, RequestFails(c) PROVE HandedInv'
    <3>1. result' = [d \in Call |-> IF waitsOn[d] = c THEN failed ELSE result[d]]
          /\ failed.outcome = "failed"
      BY <2>4 DEF RequestFails, Settle, failed
    <3>2. QED
      BY <3>1 DEF SkewCovers, ValidAt
  <2>5. ASSUME NEW c \in Call, ServiceIssues(c) PROVE HandedInv'
    BY <2>5 DEF ServiceIssues, SkewCovers, ValidAt
  <2>6. CASE Tick \/ UNCHANGED vars
    BY <2>6 DEF Tick, vars, SkewCovers, ValidAt
  <2>7. QED
    BY <2>1, <2>2, <2>3, <2>4, <2>5, <2>6 DEF Next
<1>3. QED
  BY <1>1, <1>2, TypeInductive, FlightInvariant, AgeInvariant, PTL DEF Spec

\* Every token handed out, from an answer or from the cache, is the caller's own.
THEOREM OwnToken == Spec => []TokenIsForCaller
<1>1. HandedInv => TokenIsForCaller
  BY DEF HandedInv
<1>2. QED
  BY <1>1, HandedInvariant, PTL

\* When the skew covers the timeout and the drift, a cached token is never served
\* past its life, for every lifetime the auth-service may grant.
THEOREM CachedTokenIsValid == ASSUME SkewCovers PROVE Spec => []HitIsValid
<1>1. HandedInv => HitIsValid
  BY SkewCovers DEF HandedInv
<1>2. QED
  BY <1>1, HandedInvariant, PTL
=============================================================================
