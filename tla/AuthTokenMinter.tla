--------------------------- MODULE AuthTokenMinter ---------------------------
(***************************************************************************)
(* The JWT minter of src/src/auth/auth-token-minter.service.ts: a cache of *)
(* tokens with a skew window, and one request in flight for each cache     *)
(* key, shared by the calls that arrive meanwhile.                         *)
(*                                                                         *)
(* Time is in seconds.  A request that a call starts goes by the name of   *)
(* the call.  The auth-service is external: it issues a token some time    *)
(* between the request and its answer, or the request fails.               *)
(***************************************************************************)
EXTENDS Naturals

CONSTANTS
    Call,         \* calls of mintToken()
    SenderOf,     \* the sender each call names
    ScopesOf,     \* and its scopes (objects equal up to key and array order are equal)
    Grants,       \* what the auth-service may grant: a lifetime, and whether it says so
    AskedTtl,     \* authTokenTtlSeconds, the lifetime every request asks for
    Timeout,      \* authServiceTimeoutMs
    Skew,         \* CLOCK_SKEW_MS
    Drift,        \* by how much the verifier's clock may be ahead of the issuer's
    MaxTime,      \* bound on the clock
    NoCall, NoEntry, NoToken

ASSUME MinterAssumption ==
    /\ Grants \subseteq [ttl : Nat, stated : BOOLEAN]
    /\ AskedTtl \in Nat \ {0}
    /\ Timeout \in Nat
    /\ Skew \in Nat \ {0}
    /\ Drift \in Nat
    /\ MaxTime \in Nat
    /\ NoCall \notin Call

VARIABLES
    now,       \* the clock
    cache,     \* the Map cacheKey -> CacheEntry
    inflight,  \* the Map cacheKey -> promise, here the call that started the request
    req,       \* the request of a call: "none", "sent", "issued", "settled"
    start,     \* when it was sent
    issued,    \* the token the auth-service issued for it
    waitsOn,   \* the request whose promise a call awaits
    result     \* what the call returned, and when

vars == <<now, cache, inflight, req, start, issued, waitsOn, result>>

\* Mutant of cacheKey: the scopes are left out.
senderKey(c) == <<SenderOf[c], {}>>

cacheKey(c) == <<SenderOf[c], ScopesOf[c]>>
CacheKeys == {cacheKey(c) : c \in Call}

Token == [sender : {SenderOf[c] : c \in Call}, scopes : {ScopesOf[c] : c \in Call},
          at : 0 .. MaxTime, grant : Grants]
CacheEntry == [token : Token, expiresAt : Nat]
Pending == [outcome : {"idle", "waiting", "failed"}, token : {NoToken}, at : {0}]
Handed == [outcome : {"hit", "miss"}, token : Token, at : 0 .. MaxTime]

idle == [outcome |-> "idle", token |-> NoToken, at |-> 0]
waiting == [outcome |-> "waiting", token |-> NoToken, at |-> 0]
failed == [outcome |-> "failed", token |-> NoToken, at |-> 0]

Open(c) == req[c] \in {"sent", "issued"}

Init ==
    /\ now = 0
    /\ cache = [k \in CacheKeys |-> NoEntry]
    /\ inflight = [k \in CacheKeys |-> NoCall]
    /\ req = [c \in Call |-> "none"]
    /\ start = [c \in Call |-> 0]
    /\ issued = [c \in Call |-> NoToken]
    /\ waitsOn = [c \in Call |-> NoCall]
    /\ result = [c \in Call |-> idle]

-----------------------------------------------------------------------------
\* Mutant of Fresh: an entry serves until its expiry.
FreshToTheEnd(k) == cache[k] # NoEntry /\ now < cache[k].expiresAt

\* readCache: an entry serves until Skew before the expiry it was given.
Fresh(k) == cache[k] # NoEntry /\ now + Skew < cache[k].expiresAt

\* mintToken() runs to its return or to the await of a promise.
MintHit(c) ==
    LET k == cacheKey(c) IN
    /\ result[c] = idle
    /\ Fresh(k)
    /\ result' = [result EXCEPT ![c] = [outcome |-> "hit", token |-> cache[k].token, at |-> now]]
    /\ UNCHANGED <<now, cache, inflight, req, start, issued, waitsOn>>

\* A miss drops a stale entry, then joins the request in flight ...
MintJoin(c) ==
    LET k == cacheKey(c) IN
    /\ result[c] = idle
    /\ ~Fresh(k)
    /\ inflight[k] # NoCall
    /\ cache' = [cache EXCEPT ![k] = NoEntry]
    /\ waitsOn' = [waitsOn EXCEPT ![c] = inflight[k]]
    /\ result' = [result EXCEPT ![c] = waiting]
    /\ UNCHANGED <<now, inflight, req, start, issued>>

\* Mutant of MintRequest: the request is not registered.
MintRequestUnregistered(c) ==
    LET k == cacheKey(c) IN
    /\ result[c] = idle
    /\ ~Fresh(k)
    /\ inflight[k] = NoCall
    /\ cache' = [cache EXCEPT ![k] = NoEntry]
    /\ req' = [req EXCEPT ![c] = "sent"]
    /\ start' = [start EXCEPT ![c] = now]
    /\ waitsOn' = [waitsOn EXCEPT ![c] = c]
    /\ result' = [result EXCEPT ![c] = waiting]
    /\ UNCHANGED <<now, inflight, issued>>

\* ... or sends one and registers it before anyone else runs.
MintRequest(c) ==
    LET k == cacheKey(c) IN
    /\ result[c] = idle
    /\ ~Fresh(k)
    /\ inflight[k] = NoCall
    /\ cache' = [cache EXCEPT ![k] = NoEntry]
    /\ inflight' = [inflight EXCEPT ![k] = c]
    /\ req' = [req EXCEPT ![c] = "sent"]
    /\ start' = [start EXCEPT ![c] = now]
    /\ waitsOn' = [waitsOn EXCEPT ![c] = c]
    /\ result' = [result EXCEPT ![c] = waiting]
    /\ UNCHANGED <<now, issued>>

\* POST /tokens at the auth-service, for the sender and scopes in the body.
ServiceIssues(c) ==
    /\ req[c] = "sent"
    /\ req' = [req EXCEPT ![c] = "issued"]
    /\ \E g \in Grants :
          issued' = [issued EXCEPT ![c] = [sender |-> SenderOf[c], scopes |-> ScopesOf[c],
                                           at |-> now, grant |-> g]]
    /\ UNCHANGED <<now, cache, inflight, start, waitsOn, result>>

\* Mutant of Settle: the key stays registered.
SettleKeepsKey(c, r) ==
    /\ req' = [req EXCEPT ![c] = "settled"]
    /\ start' = [start EXCEPT ![c] = 0]
    /\ issued' = [issued EXCEPT ![c] = NoToken]
    /\ waitsOn' = [d \in Call |-> IF waitsOn[d] = c THEN NoCall ELSE waitsOn[d]]
    /\ result' = [d \in Call |-> IF waitsOn[d] = c THEN r ELSE result[d]]
    /\ UNCHANGED inflight

\* Mutant of Settle: only the call that sent the request hears of it.
SettleStarter(c, r) ==
    /\ req' = [req EXCEPT ![c] = "settled"]
    /\ start' = [start EXCEPT ![c] = 0]
    /\ issued' = [issued EXCEPT ![c] = NoToken]
    /\ inflight' = [inflight EXCEPT ![cacheKey(c)] = NoCall]
    /\ waitsOn' = [waitsOn EXCEPT ![c] = NoCall]
    /\ result' = [result EXCEPT ![c] = r]

\* The promise settles: finally() clears the key, then the waiters resume.
Settle(c, r) ==
    /\ req' = [req EXCEPT ![c] = "settled"]
    /\ start' = [start EXCEPT ![c] = 0]
    /\ issued' = [issued EXCEPT ![c] = NoToken]
    /\ inflight' = [inflight EXCEPT ![cacheKey(c)] = NoCall]
    /\ waitsOn' = [d \in Call |-> IF waitsOn[d] = c THEN NoCall ELSE waitsOn[d]]
    /\ result' = [d \in Call |-> IF waitsOn[d] = c THEN r ELSE result[d]]

\* The lifetime the answer states, at least 1.  An answer that states none is taken
\* to have granted what was asked for, which the auth-service may have capped.
ttlSeconds(grant) ==
    IF ~grant.stated THEN AskedTtl ELSE IF grant.ttl < 1 THEN 1 ELSE grant.ttl

\* The expiry counts from the arrival of the answer, not from the issue.
RequestSucceeds(c) ==
    /\ req[c] = "issued"
    /\ cache' = [cache EXCEPT ![cacheKey(c)] =
                    [token |-> issued[c], expiresAt |-> now + ttlSeconds(issued[c].grant)]]
    /\ Settle(c, [outcome |-> "miss", token |-> issued[c], at |-> now])
    /\ UNCHANGED now

\* Mutant of RequestFails: an answer without a token is taken for one with a token.
RequestFailsCached(c) ==
    /\ Open(c)
    /\ cache' = [cache EXCEPT ![cacheKey(c)] =
                    [token |-> issued[c], expiresAt |-> now + AskedTtl]]
    /\ Settle(c, [outcome |-> "miss", token |-> issued[c], at |-> now])
    /\ UNCHANGED now

\* Network error, timeout, a status that is not ok, a body that does not parse or
\* has no token: nothing is cached, every waiter gets the error.
RequestFails(c) ==
    /\ Open(c)
    /\ Settle(c, failed)
    /\ UNCHANGED <<now, cache>>

\* AbortSignal.timeout settles a request at its deadline at the latest.
Tick ==
    /\ now < MaxTime
    /\ \A c \in Call : Open(c) => now < start[c] + Timeout
    /\ now' = now + 1
    /\ UNCHANGED <<cache, inflight, req, start, issued, waitsOn, result>>

Next ==
    \/ \E c \in Call :
          \/ MintHit(c)
          \/ MintJoin(c)
          \/ MintRequest(c)
          \/ ServiceIssues(c)
          \/ RequestSucceeds(c)
          \/ RequestFails(c)
    \/ Tick

Spec == Init /\ [][Next]_vars

\* A request settles, by its deadline if nothing else; nobody has to call.
Fairness == \A c \in Call : WF_vars(RequestSucceeds(c) \/ RequestFails(c))

FairSpec == Spec /\ Fairness

-----------------------------------------------------------------------------
TypeOK ==
    /\ now \in 0 .. MaxTime
    /\ cache \in [CacheKeys -> CacheEntry \cup {NoEntry}]
    /\ inflight \in [CacheKeys -> Call \cup {NoCall}]
    /\ req \in [Call -> {"none", "sent", "issued", "settled"}]
    /\ start \in [Call -> 0 .. MaxTime]
    /\ issued \in [Call -> Token \cup {NoToken}]
    /\ waitsOn \in [Call -> Call \cup {NoCall}]
    /\ result \in [Call -> Pending \cup Handed]

GotToken(c) == result[c].outcome \in {"hit", "miss"}

\* The token is accepted for some time after the moment t, by every verifier.
ValidAt(token, t) == t + Drift < token.at + token.grant.ttl

\* The skew window covers the time an answer may take and the drift of the clocks.
SkewCovers == Timeout + Drift <= Skew

\* The minter knows no more of the lifetime than what it was told or asked for.
LifetimeKnown(token) == token.grant.stated \/ AskedTtl <= token.grant.ttl

\* A token served from the cache is still valid, although its expiry was reckoned
\* from the arrival of the answer and by another clock than the verifier's; only a
\* token capped by an answer that does not say so is served past its end.
HitIsValid ==
    \A c \in Call :
        result[c].outcome = "hit" /\ LifetimeKnown(result[c].token) =>
            ValidAt(result[c].token, result[c].at)

\* A burst of calls for one key costs one request: no two are open at a time.
OneRequestPerKey ==
    \A c, d \in Call : Open(c) /\ Open(d) /\ cacheKey(c) = cacheKey(d) => c = d

\* Whoever shares a request or a cache entry gets a token of its own sender and
\* scopes: a participant never carries an initiator's rights.
TokenIsForCaller ==
    \A c \in Call : GotToken(c) =>
        result[c].token.sender = SenderOf[c] /\ result[c].token.scopes = ScopesOf[c]

\* No call waits for a promise that has settled, so none is forgotten and a failure
\* does not stick: the call after it sends a new request.
WaitersAreServed ==
    /\ \A c \in Call : result[c] = waiting => waitsOn[c] # NoCall /\ Open(waitsOn[c])
    /\ \A k \in CacheKeys : inflight[k] # NoCall => Open(inflight[k])

\* Every call returns a token or throws.
CallsSettle ==
    \A c \in Call : result[c] = waiting ~> GotToken(c) \/ result[c] = failed
=============================================================================
