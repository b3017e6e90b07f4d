--------------------------- MODULE ExampleRun_proofs ---------------------------
(***************************************************************************)
(* Proofs about concurrent runs, for any scenarios: what the minter and    *)
(* the supervisor promise each for itself, and the loop position that      *)
(* connects them.                                                          *)
(***************************************************************************)
EXTENDS ExampleRun, TLAPS

\* A request to attach is a binding of a run, and its key names both.
LEMMA AttachFacts ==
    ASSUME NEW a \in Attach
    PROVE  /\ a[1] \in Run
           /\ a[2] \in 1 .. Len(Scenario[a[1]])
           /\ Len(Scenario[a[1]]) \in Nat
           /\ a = <<a[1], a[2]>>
           /\ KeyOf[a] = <<a[1], Binding(a).participant>>
           /\ KeyOf[a] \in Key
<1>1. PICK r \in Run : \E i \in DOMAIN Scenario[r] : a = <<r, i>>
  BY DEF Attach
<1>2. PICK i \in DOMAIN Scenario[r] : a = <<r, i>>
  BY <1>1
<1>3. a[1] = r /\ a[2] = i
  BY <1>2
<1>4. KeyOf[a] = <<a[1], Binding(a).participant>> /\ KeyOf[a] \in Key
  BY DEF KeyOf, Key
<1>5. QED
  BY <1>2, <1>3, <1>4, RunAssumption

\* The position of a run that has not come to its end is a binding.
LEMMA PositionIsAttach ==
    ASSUME NEW r \in Run, at[r] \in Nat \ {0}, at[r] <= Len(Scenario[r])
    PROVE  <<r, at[r]>> \in Attach
BY RunAssumption DEF Attach

-----------------------------------------------------------------------------
(***************************************************************************)
(* Tokens.                                                                 *)
(***************************************************************************)
IsFunction(f, S) == f = [x \in S |-> f[x]]

MinterShape ==
    /\ IsFunction(cache, Mint!CacheKeys)
    /\ IsFunction(inflight, Mint!CacheKeys)
    /\ IsFunction(req, Attach)
    /\ IsFunction(issued, Attach)
    /\ IsFunction(waitsOn, Attach)
    /\ IsFunction(result, Attach)

KeyOfToken(token) == <<token.sender, token.scopes>>
Own(c, token) == KeyOfToken(token) = Mint!cacheKey(c)

\* What is issued, cached, shared and returned under a key is of that key.
TokenInv ==
    /\ \A c \in Attach : req[c] = "issued" => Own(c, issued[c])
    /\ \A k \in Mint!CacheKeys :
          cache[k] # NoEntry => KeyOfToken(cache[k].token) = k
    /\ \A k \in Mint!CacheKeys :
          inflight[k] # NoCall => inflight[k] \in Attach /\ Mint!cacheKey(inflight[k]) = k
    /\ \A c \in Attach : waitsOn[c] # NoCall =>
          /\ waitsOn[c] \in Attach
          /\ Mint!cacheKey(waitsOn[c]) = Mint!cacheKey(c)
          /\ result[c].outcome = "waiting"
    /\ \A c \in Attach : Mint!GotToken(c) => Own(c, result[c].token)

MintInv == MinterShape /\ TokenInv

LEMMA MintInductive ==
    /\ Init => MintInv
    /\ MintInv /\ [Mint!Next]_minterVars => MintInv'
<1> USE RunAssumption
<1> USE DEF MintInv, MinterShape, IsFunction, TokenInv, Own, Mint!GotToken
<1>0. \A c \in Attach : Mint!cacheKey(c) \in Mint!CacheKeys
  BY DEF Mint!CacheKeys
<1>1. Init => MintInv
  BY DEF Init, Mint!Init, Mint!idle
<1>2. ASSUME MintInv, [Mint!Next]_minterVars PROVE MintInv'
  <2> USE <1>2, <1>0
  <2>1. ASSUME NEW c \in Attach, Mint!MintHit(c) PROVE MintInv'
    <3> DEFINE k == Mint!cacheKey(c)
    <3>1. /\ result' = [result EXCEPT ![c] = result'[c]]
          /\ result'[c].outcome = "hit" /\ result'[c].token = cache[k].token
          /\ cache[k] # NoEntry /\ result[c].outcome = "idle"
          /\ UNCHANGED <<now, cache, inflight, req, start, issued, waitsOn>>
      BY <2>1 DEF Mint!MintHit, Mint!Fresh, Mint!idle
    <3>2. Own(c, result'[c].token)
      BY <3>1
    <3>3. \A d \in Attach : d # c => result'[d] = result[d]
      BY <3>1
    <3>4. MinterShape'
      BY <3>1
    <3>5. QED
      BY <3>1, <3>2, <3>3, <3>4
  <2>2. ASSUME NEW c \in Attach, Mint!MintJoin(c) PROVE MintInv'
    BY <2>2 DEF Mint!MintJoin, Mint!waiting, Mint!idle
  <2>3. ASSUME NEW c \in Attach, Mint!MintRequest(c) PROVE MintInv'
    <3> DEFINE k == Mint!cacheKey(c)
    <3>1. /\ inflight[k] = NoCall
          /\ cache' = [cache EXCEPT ![k] = NoEntry]
          /\ inflight' = [inflight EXCEPT ![k] = c]
          /\ req' = [req EXCEPT ![c] = "sent"]
          /\ waitsOn' = [waitsOn EXCEPT ![c] = c]
          /\ result' = [result EXCEPT ![c] = Mint!waiting]
          /\ UNCHANGED issued
      BY <2>3 DEF Mint!MintRequest
    <3>2. Mint!waiting.outcome = "waiting"
      BY DEF Mint!waiting
    <3>3. MinterShape'
      BY <3>1
    <3>4. \A d \in Attach : Mint!GotToken(d)' => Own(d, result'[d].token)
      BY <3>1, <3>2
    <3>5. /\ \A d \in Attach : req'[d] = "issued" => Own(d, issued'[d])
          /\ \A l \in Mint!CacheKeys : cache'[l] # NoEntry => KeyOfToken(cache'[l].token) = l
      BY <3>1
    <3>6. \A l \in Mint!CacheKeys : inflight'[l] # NoCall =>
             inflight'[l] \in Attach /\ Mint!cacheKey(inflight'[l]) = l
      BY <3>1
    <3>7. \A d \in Attach : waitsOn'[d] # NoCall =>
             /\ waitsOn'[d] \in Attach
             /\ Mint!cacheKey(waitsOn'[d]) = Mint!cacheKey(d)
             /\ result'[d].outcome = "waiting"
      BY <3>1, <3>2
    <3>8. QED
      BY <3>3, <3>4, <3>5, <3>6, <3>7
  <2>4. ASSUME NEW c \in Attach, Mint!ServiceIssues(c) PROVE MintInv'
    <3>1. PICK g \in Grants :
             issued' = [issued EXCEPT ![c] = [sender |-> SenderOf[c], scopes |-> ScopesOf[c],
                                              at |-> now, grant |-> g]]
      BY <2>4 DEF Mint!ServiceIssues
    <3>2. Own(c, issued'[c]) /\ \A d \in Attach : d # c => issued'[d] = issued[d]
      BY <3>1 DEF KeyOfToken, Mint!cacheKey
    <3>3. /\ req' = [req EXCEPT ![c] = "issued"]
          /\ UNCHANGED <<now, cache, inflight, start, waitsOn, result>>
      BY <2>4 DEF Mint!ServiceIssues
    <3>4. MinterShape'
      BY <3>1, <3>3
    <3>5. QED
      BY <3>2, <3>3, <3>4
  <2>5. ASSUME NEW c \in Attach, NEW r, Mint!Settle(c, r), r.outcome \in {"miss", "failed"},
               r.outcome = "miss" => Own(c, r.token)
        PROVE  /\ IsFunction(inflight, Mint!CacheKeys)'
               /\ IsFunction(req, Attach)'
               /\ IsFunction(issued, Attach)'
               /\ IsFunction(waitsOn, Attach)'
               /\ IsFunction(result, Attach)'
               /\ \A d \in Attach : req'[d] = "issued" => Own(d, issued'[d])
               /\ \A k \in Mint!CacheKeys : inflight'[k] # NoCall =>
                     inflight'[k] \in Attach /\ Mint!cacheKey(inflight'[k]) = k
               /\ \A d \in Attach : waitsOn'[d] # NoCall =>
                     /\ waitsOn'[d] \in Attach
                     /\ Mint!cacheKey(waitsOn'[d]) = Mint!cacheKey(d)
                     /\ result'[d].outcome = "waiting"
               /\ \A d \in Attach : Mint!GotToken(d)' => Own(d, result'[d].token)
    <3>1. \A d \in Attach :
             /\ waitsOn'[d] = IF waitsOn[d] = c THEN NoCall ELSE waitsOn[d]
             /\ result'[d] = IF waitsOn[d] = c THEN r ELSE result[d]
      BY <2>5 DEF Mint!Settle
    <3>2. \A d \in Attach : waitsOn[d] = c => (r.outcome = "miss" => Own(d, r.token))
      BY <2>5
    <3>3. \A d \in Attach : Mint!GotToken(d)' => Own(d, result'[d].token)
      BY <2>5, <3>1, <3>2
    <3>4. \A d \in Attach : waitsOn'[d] # NoCall =>
             /\ waitsOn'[d] \in Attach
             /\ Mint!cacheKey(waitsOn'[d]) = Mint!cacheKey(d)
             /\ result'[d].outcome = "waiting"
      BY <3>1
    <3>5. /\ IsFunction(inflight, Mint!CacheKeys)' /\ IsFunction(req, Attach)'
          /\ IsFunction(issued, Attach)' /\ IsFunction(waitsOn, Attach)'
          /\ IsFunction(result, Attach)'
      BY <2>5 DEF Mint!Settle
    <3>6. \A d \in Attach : req'[d] = "issued" => Own(d, issued'[d])
      BY <2>5 DEF Mint!Settle
    <3>7. \A k \in Mint!CacheKeys : inflight'[k] # NoCall =>
             inflight'[k] \in Attach /\ Mint!cacheKey(inflight'[k]) = k
      BY <2>5 DEF Mint!Settle
    <3>8. QED
      BY <3>3, <3>4, <3>5, <3>6, <3>7
  <2>6. ASSUME NEW c \in Attach, Mint!RequestSucceeds(c) PROVE MintInv'
    <3> DEFINE r == [outcome |-> "miss", token |-> issued[c], at |-> now]
    <3>1. Mint!Settle(c, r) /\ r.outcome = "miss" /\ r.token = issued[c] /\ req[c] = "issued"
      BY <2>6 DEF Mint!RequestSucceeds
    <3> HIDE DEF r
    <3>2. Own(c, r.token)
      BY <3>1
    <3>3. PICK e : e.token = issued[c] /\ cache' = [cache EXCEPT ![Mint!cacheKey(c)] = e]
      BY <2>6 DEF Mint!RequestSucceeds
    <3>4. /\ IsFunction(cache, Mint!CacheKeys)'
          /\ \A k \in Mint!CacheKeys :
                cache'[k] # NoEntry => KeyOfToken(cache'[k].token) = k
      BY <3>1, <3>3
    <3>5. QED
      BY <2>5, <3>1, <3>2, <3>4
  <2>7. ASSUME NEW c \in Attach, Mint!RequestFails(c) PROVE MintInv'
    <3>1. Mint!Settle(c, Mint!failed) /\ Mint!failed.outcome = "failed" /\ cache' = cache
      BY <2>7 DEF Mint!RequestFails, Mint!failed
    <3>2. QED
      BY <2>5, <3>1
  <2>8. CASE Mint!Tick
    BY <2>8 DEF Mint!Tick
  <2>9. CASE UNCHANGED minterVars
    BY <2>9 DEF minterVars
  <2>10. QED
    BY <2>1, <2>2, <2>3, <2>4, <2>6, <2>7, <2>8, <2>9 DEF Mint!Next
<1>3. QED
  BY <1>1, <1>2

\* A call of the minter answers or queues that call; nothing else in it changes what
\* was handed out, or lets a call that was not made come to an end.
LEMMA MintAnswers ==
    ASSUME MintInv, NEW c \in Attach,
           \/ Mint!MintHit(c) \/ Mint!MintJoin(c) \/ Mint!MintRequest(c)
    PROVE  /\ result[c] = Mint!idle
           /\ \A d \in Attach : d # c => result'[d] = result[d]
           /\ result'[c].outcome # "idle"
<1> USE DEF MintInv, MinterShape, IsFunction
<1>1. result[c] = Mint!idle
  BY DEF Mint!MintHit, Mint!MintJoin, Mint!MintRequest
<1>2. PICK r : r.outcome # "idle" /\ result' = [result EXCEPT ![c] = r]
  <2>1. CASE Mint!MintHit(c)
    BY <2>1 DEF Mint!MintHit
  <2>2. CASE Mint!MintJoin(c) \/ Mint!MintRequest(c)
    BY <2>2 DEF Mint!MintJoin, Mint!MintRequest, Mint!waiting
  <2>3. QED
    BY <2>1, <2>2
<1>3. QED
  BY <1>1, <1>2

LEMMA MintSettles ==
    ASSUME MintInv,
           \/ \E c \in Attach : \/ Mint!ServiceIssues(c)
                                \/ Mint!RequestSucceeds(c)
                                \/ Mint!RequestFails(c)
           \/ Mint!Tick
    PROVE  \A d \in Attach :
               /\ result'[d].outcome = "idle" <=> result[d].outcome = "idle"
               /\ Mint!GotToken(d) => result'[d] = result[d]
<1> USE DEF MintInv, TokenInv, Mint!GotToken
<1>1. CASE result' = result
  BY <1>1
<1>2. ASSUME NEW c \in Attach, NEW r, Mint!Settle(c, r), r.outcome # "idle"
      PROVE  \A d \in Attach :
                 /\ result'[d].outcome = "idle" <=> result[d].outcome = "idle"
                 /\ Mint!GotToken(d) => result'[d] = result[d]
  <2>1. \A d \in Attach : result'[d] = IF waitsOn[d] = c THEN r ELSE result[d]
    BY <1>2 DEF Mint!Settle
  <2>2. \A d \in Attach : waitsOn[d] = c => result[d].outcome = "waiting"
    BY RunAssumption
  <2>3. QED
    BY <1>2, <2>1, <2>2
<1>3. ASSUME NEW c \in Attach, Mint!RequestSucceeds(c)
      PROVE  \A d \in Attach :
                 /\ result'[d].outcome = "idle" <=> result[d].outcome = "idle"
                 /\ Mint!GotToken(d) => result'[d] = result[d]
  <2> DEFINE r == [outcome |-> "miss", token |-> issued[c], at |-> now]
  <2>1. Mint!Settle(c, r) /\ r.outcome # "idle"
    BY <1>3 DEF Mint!RequestSucceeds
  <2> HIDE DEF r
  <2>2. QED
    BY <1>2, <2>1
<1>4. ASSUME NEW c \in Attach, Mint!RequestFails(c)
      PROVE  \A d \in Attach :
                 /\ result'[d].outcome = "idle" <=> result[d].outcome = "idle"
                 /\ Mint!GotToken(d) => result'[d] = result[d]
  <2>1. Mint!Settle(c, Mint!failed) /\ Mint!failed.outcome # "idle"
    BY <1>4 DEF Mint!RequestFails, Mint!failed
  <2>2. QED
    BY <1>2, <2>1
<1>5. (\E c \in Attach : Mint!ServiceIssues(c)) \/ Mint!Tick => result' = result
  BY DEF Mint!ServiceIssues, Mint!Tick
<1>6. QED
  BY <1>1, <1>3, <1>4, <1>5

-----------------------------------------------------------------------------
(***************************************************************************)
(* Processes.                                                              *)
(***************************************************************************)
TableShape ==
    /\ processes \in [Key -> Attach \cup {NoChild}]
    /\ health \in [Attach -> Sup!HealthStatus]
    /\ os \in [Attach -> Sup!OsState]
    /\ signals \in [Attach -> SUBSET {"SIGTERM", "SIGKILL"}]

\* An entry is a launch of its key; and while the service is up a child whose key has
\* seen no failed launch keeps its entry until its exit is heard of.
TableInv ==
    /\ TableShape
    /\ \A k \in Key : processes[k] # NoChild =>
          KeyOf[processes[k]] = k /\ Launched(processes[k]) /\ os[processes[k]] # "deduped"
    /\ service = "up" => \A a \in Attach :
          os[a] \in {"running", "dead"} /\ ~FailedLaunch(KeyOf[a]) =>
              Sup!Tracked(a) /\ health[a] # "stopped"

\* The steps of the supervisor that the composition takes.
SupNext ==
    \/ \E a \in Attach : \/ Sup!LaunchExisting(a) \/ Sup!LaunchSpawn(a) \/ Sup!LaunchThrows(a)
                         \/ Sup!ExitEvent(a) \/ Sup!ErrorEvent(a)
                         \/ Sup!StartupTimer(a) \/ Sup!ChildExits(a)
    \/ Sup!OnModuleDestroy
    \/ Sup!ServiceExit

LEMMA TableInductive ==
    /\ Init => TableInv
    /\ TableInv /\ [SupNext]_supervisorVars => TableInv'
<1> USE RunAssumption
<1> USE DEF TableInv, TableShape, Launched, FailedLaunch, Sup!Tracked, Sup!OsState, Sup!HealthStatus
<1>0. \A a \in Attach : KeyOf[a] \in Key
  BY DEF Key
<1>1. Init => TableInv
  BY <1>0 DEF Init, Sup!Init
<1>2. ASSUME TableInv, [SupNext]_supervisorVars PROVE TableInv'
  <2> USE <1>2, <1>0
  <2>1. ASSUME NEW a \in Attach, Sup!LaunchExisting(a) PROVE TableInv'
    BY <2>1 DEF Sup!LaunchExisting, Sup!AlreadyRunning, Sup!HasPid
  <2>2. ASSUME NEW a \in Attach, Sup!LaunchSpawn(a) PROVE TableInv'
    BY <2>2 DEF Sup!LaunchSpawn, Sup!AlreadyRunning, Sup!HasPid
  <2>3. ASSUME NEW a \in Attach, Sup!ExitEvent(a) PROVE TableInv'
    BY <2>3 DEF Sup!ExitEvent
  <2>4. ASSUME NEW a \in Attach, Sup!ErrorEvent(a) PROVE TableInv'
    BY <2>4 DEF Sup!ErrorEvent
  <2>5. ASSUME NEW a \in Attach, Sup!StartupTimer(a) PROVE TableInv'
    BY <2>5 DEF Sup!StartupTimer
  <2>6. ASSUME NEW a \in Attach, Sup!ChildExits(a) PROVE TableInv'
    BY <2>6 DEF Sup!ChildExits
  <2>7. CASE Sup!OnModuleDestroy
    BY <2>7 DEF Sup!OnModuleDestroy, Sup!Kill
  <2>8. CASE Sup!ServiceExit
    BY <2>8 DEF Sup!ServiceExit
  <2>9. ASSUME NEW a \in Attach, Sup!LaunchThrows(a) PROVE TableInv'
    BY <2>9 DEF Sup!LaunchThrows
  <2>10. CASE UNCHANGED supervisorVars
    BY <2>10 DEF supervisorVars
  <2>11. QED
    BY <2>1, <2>2, <2>3, <2>4, <2>5, <2>6, <2>7, <2>8, <2>9, <2>10 DEF SupNext
<1>3. QED
  BY <1>1, <1>2

-----------------------------------------------------------------------------
(***************************************************************************)
(* The attach loop, which connects them.                                   *)
(***************************************************************************)
\* The loop has come past the bindings it has launched, and past an attached binding
\* only with its participant's process launched; it asks for tokens of attached
\* bindings only, and not before it comes to them.
LoopInv ==
    /\ phase \in [Run -> {"idle", "attaching", "completed", "failed"}]
    /\ at \in [Run -> Nat \ {0}]
    /\ \A r \in Run : phase[r] = "completed" => at[r] > Len(Scenario[r])
    /\ \A a \in Attach : result[a].outcome # "idle" =>
          Binding(a).kind = "attached" /\ a[2] <= at[a[1]]
    /\ \A a \in Attach : Launched(a) => Mint!GotToken(a) /\ a[2] < at[a[1]]
    /\ \A a \in Attach : Binding(a).kind = "attached" /\ a[2] < at[a[1]] =>
          \E b \in Attach : KeyOf[b] = KeyOf[a] /\ b[2] <= a[2] /\ Launched(b)

RunInv == MintInv /\ TableInv /\ LoopInv

\* A step of the composition is a step, or none, of either part.
LEMMA StepsOfParts ==
    RunInv /\ [Next]_vars => [Mint!Next]_minterVars /\ [SupNext]_supervisorVars
<1> SUFFICES ASSUME RunInv, [Next]_vars
             PROVE  [Mint!Next]_minterVars /\ [SupNext]_supervisorVars
  OBVIOUS
<1>1. ASSUME NEW r \in Run, RunStep(r)
      PROVE  [Mint!Next]_minterVars /\ [SupNext]_supervisorVars
  <2>1. CASE \/ Resolve(r) \/ AttachWithoutLaunch(r) \/ AttachThrows(r)
             \/ AttachMintFails(r) \/ Complete(r)
    BY <2>1 DEF Resolve, AttachWithoutLaunch, AttachThrows, AttachMintFails, Complete,
                minterVars, supervisorVars
  <2>2. CASE AttachMints(r)
    <3>1. <<r, at[r]>> \in Attach
      BY <2>2, PositionIsAttach DEF AttachMints, AtBinding, RunInv, LoopInv
    <3>2. QED
      BY <2>2, <3>1 DEF AttachMints, Mint!Next, supervisorVars
  <2>3. CASE AttachLaunches(r)
    BY <2>3 DEF AttachLaunches, SupNext, minterVars
  <2>4. CASE AttachLaunchThrows(r)
    BY <2>4 DEF AttachLaunchThrows, SupNext, minterVars
  <2>5. QED
    BY <1>1, <2>1, <2>2, <2>3, <2>4 DEF RunStep
<1>2. CASE SupervisorStep
  BY <1>2 DEF SupervisorStep, SupNext, minterVars
<1>3. CASE MinterStep
  BY <1>3 DEF MinterStep, Mint!Next, supervisorVars
<1>4. CASE UNCHANGED vars
  BY <1>4 DEF vars, minterVars, supervisorVars
<1>5. QED
  BY <1>1, <1>2, <1>3, <1>4 DEF Next

\* Only a call of launch() makes a request launched, and launched it stays.
LEMMA LaunchedSteps ==
    ASSUME TableInv,
           \/ \E a \in Attach : \/ Sup!ExitEvent(a) \/ Sup!ErrorEvent(a)
                                \/ Sup!StartupTimer(a) \/ Sup!ChildExits(a)
           \/ Sup!OnModuleDestroy
           \/ Sup!ServiceExit
    PROVE  \A a \in Attach : Launched(a)' <=> Launched(a)
<1> USE DEF TableInv, TableShape, Launched
<1>1. ASSUME NEW c \in Attach, NEW becomes, os' = [os EXCEPT ![c] = becomes],
             os[c] \notin {"idle", "refused"}, becomes \notin {"idle", "refused"}
      PROVE  \A a \in Attach : Launched(a)' <=> Launched(a)
  BY <1>1
<1>2. ASSUME NEW c \in Attach, Sup!ExitEvent(c) \/ Sup!ErrorEvent(c) \/ Sup!ChildExits(c)
      PROVE  \A a \in Attach : Launched(a)' <=> Launched(a)
  BY <1>1, <1>2 DEF Sup!ExitEvent, Sup!ErrorEvent, Sup!ChildExits
<1>3. \/ \E c \in Attach : Sup!StartupTimer(c)
      \/ Sup!OnModuleDestroy \/ Sup!ServiceExit
      => os' = os
  BY DEF Sup!StartupTimer, Sup!OnModuleDestroy, Sup!ServiceExit
<1>4. QED
  BY <1>2, <1>3

LEMMA LaunchLaunches ==
    ASSUME TableInv, NEW a \in Attach, Sup!LaunchExisting(a) \/ Sup!LaunchSpawn(a)
    PROVE  \A b \in Attach : Launched(b)' <=> Launched(b) \/ b = a
BY RunAssumption
   DEF TableInv, TableShape, Launched, Sup!LaunchExisting, Sup!LaunchSpawn

LEMMA ThrowLaunchesNone ==
    ASSUME TableInv, NEW a \in Attach, Sup!LaunchThrows(a)
    PROVE  \A b \in Attach : Launched(b)' <=> Launched(b)
BY DEF TableInv, TableShape, Launched, Sup!LaunchThrows

LEMMA LoopInductive ==
    /\ Init => LoopInv
    /\ RunInv /\ [Next]_vars => LoopInv'
<1> USE RunAssumption
<1>0. \A a \in Attach :
         /\ a[1] \in Run /\ a[2] \in Nat /\ a[2] >= 1 /\ a[2] <= Len(Scenario[a[1]])
         /\ a = <<a[1], a[2]>>
  BY AttachFacts
<1>00. \A a, b \in Attach : KeyOf[a] = KeyOf[b] => a[1] = b[1]
  BY AttachFacts
<1>1. Init => LoopInv
  BY <1>0 DEF Init, LoopInv, Sup!Init, Mint!Init, Mint!idle, Launched
<1>2. ASSUME RunInv, [Next]_vars PROVE LoopInv'
  <2> USE <1>2
  <2>0. LoopInv
    BY DEF RunInv
  <2>1. ASSUME NEW r \in Run, Resolve(r) PROVE LoopInv'
    BY <2>0, <2>1 DEF Resolve, LoopInv, Launched, Mint!GotToken, supervisorVars, minterVars
  <2>2. ASSUME NEW r \in Run, AttachWithoutLaunch(r) PROVE LoopInv'
    <3> DEFINE a == <<r, at[r]>>
    <3>1. /\ a \in Attach /\ a[1] = r /\ a[2] = at[r]
          /\ at' = [at EXCEPT ![r] = @ + 1]
          /\ UNCHANGED <<phase, result, os>>
      BY <2>0, <2>2, PositionIsAttach
         DEF AttachWithoutLaunch, AtBinding, Advance, LoopInv, supervisorVars, minterVars
    <3>2. Binding(a).kind = "attached" =>
             \E b \in Attach : KeyOf[b] = KeyOf[a] /\ b[2] <= a[2] /\ Launched(b)
      <4>1. SUFFICES ASSUME Sup!AlreadyRunning(KeyOf[a])
                     PROVE  \E b \in Attach :
                               KeyOf[b] = KeyOf[a] /\ b[2] <= a[2] /\ Launched(b)
        BY <2>2 DEF AttachWithoutLaunch, KindAt, Binding
      <4>2. KeyOf[a] \in Key
        BY <3>1 DEF Key
      <4> DEFINE b == processes[KeyOf[a]]
      <4>3. b \in Attach /\ KeyOf[b] = KeyOf[a] /\ Launched(b)
        BY <4>1, <4>2 DEF RunInv, TableInv, TableShape, Sup!AlreadyRunning
      <4>4. b[2] < at[b[1]] /\ b[1] = r
        BY <4>3, <2>0, <3>1, <1>00 DEF LoopInv
      <4>5. QED
        BY <4>3, <4>4, <3>1, <1>0, <2>0 DEF LoopInv
    <3> HIDE DEF a
    <3>3. \A c \in Attach : c[1] = r /\ c[2] = at[r] => c = a
      BY <1>0, <3>1
    <3>4. \A s \in Run : at'[s] \in Nat \ {0} /\ at'[s] = IF s = r THEN at[s] + 1 ELSE at[s]
      BY <3>1, <2>0 DEF LoopInv
    <3>5. \A c \in Attach : (Launched(c)' <=> Launched(c)) /\ (Mint!GotToken(c)' <=> Mint!GotToken(c))
      BY <3>1 DEF Launched, Mint!GotToken
    <3>6. \A c \in Attach : Binding(c).kind = "attached" /\ c[2] < at'[c[1]] =>
             \E b \in Attach : KeyOf[b] = KeyOf[c] /\ b[2] <= c[2] /\ Launched(b)
      BY <1>0, <2>0, <3>1, <3>2, <3>3, <3>4 DEF LoopInv
    <3>7. /\ phase' \in [Run -> {"idle", "attaching", "completed", "failed"}]
          /\ at' \in [Run -> Nat \ {0}]
          /\ \A s \in Run : phase'[s] = "completed" => at'[s] > Len(Scenario[s])
      BY <2>0, <3>1, <3>4 DEF LoopInv
    <3>8. \A c \in Attach :
             /\ result'[c].outcome # "idle" => Binding(c).kind = "attached" /\ c[2] <= at'[c[1]]
             /\ Launched(c) => Mint!GotToken(c) /\ c[2] < at'[c[1]]
      BY <1>0, <2>0, <3>1, <3>4 DEF LoopInv
    <3>9. QED
      BY <3>5, <3>6, <3>7, <3>8 DEF LoopInv, Binding
  <2>3. ASSUME NEW r \in Run, AttachThrows(r) \/ AttachMintFails(r) PROVE LoopInv'
    <3>1. /\ phase' = [phase EXCEPT ![r] = "failed"]
          /\ UNCHANGED <<at, result, os>>
      BY <2>3 DEF AttachThrows, AttachMintFails, supervisorVars, minterVars
    <3>2. QED
      BY <2>0, <3>1 DEF LoopInv, Launched, Mint!GotToken, Binding
  <2>4. ASSUME NEW r \in Run, AttachMints(r) PROVE LoopInv'
    <3> DEFINE a == <<r, at[r]>>
    <3>1. /\ a \in Attach /\ a[1] = r /\ a[2] = at[r] /\ Binding(a).kind = "attached"
          /\ UNCHANGED <<phase, at, os>>
      BY <2>0, <2>4, PositionIsAttach
         DEF AttachMints, AtBinding, KindAt, Binding, LoopInv, supervisorVars
    <3> HIDE DEF a
    <3>2. /\ result[a] = Mint!idle
          /\ \A d \in Attach : d # a => result'[d] = result[d]
      BY <2>4, <3>1, MintAnswers DEF AttachMints, RunInv, a
    <3>3. ~Launched(a)
      BY <3>1, <3>2, <2>0 DEF LoopInv, Mint!GotToken, Mint!idle
    <3>4. \A c \in Attach :
             /\ result'[c].outcome # "idle" => Binding(c).kind = "attached" /\ c[2] <= at[c[1]]
             /\ Launched(c) => Mint!GotToken(c)' /\ c[2] < at[c[1]]
      BY <1>0, <2>0, <3>1, <3>2, <3>3 DEF LoopInv, Mint!GotToken
    <3>5. QED
      BY <2>0, <3>1, <3>4 DEF LoopInv, Launched, Binding
  <2>5. ASSUME NEW r \in Run, AttachLaunches(r) PROVE LoopInv'
    <3> DEFINE a == <<r, at[r]>>
    <3>1. /\ a \in Attach /\ a[1] = r /\ a[2] = at[r] /\ Mint!GotToken(a)
          /\ Sup!LaunchExisting(a) \/ Sup!LaunchSpawn(a)
          /\ phase[r] = "attaching"
          /\ at' = [at EXCEPT ![r] = @ + 1]
          /\ UNCHANGED <<phase, result>>
      BY <2>5 DEF AttachLaunches, Advance, minterVars
    <3> HIDE DEF a
    <3>2. \A b \in Attach : Launched(b)' <=> Launched(b) \/ b = a
      BY <3>1, LaunchLaunches DEF RunInv
    <3>3. \A c \in Attach : c[1] = r /\ c[2] = at[r] => c = a
      BY <1>0, <3>1
    <3>4. \A s \in Run : at'[s] \in Nat \ {0} /\ at'[s] = IF s = r THEN at[s] + 1 ELSE at[s]
      BY <3>1, <2>0 DEF LoopInv
    <3>5. \A c \in Attach : Binding(c).kind = "attached" /\ c[2] < at'[c[1]] =>
             \E b \in Attach : KeyOf[b] = KeyOf[c] /\ b[2] <= c[2] /\ Launched(b)'
      <4> SUFFICES ASSUME NEW c \in Attach, Binding(c).kind = "attached", c[2] < at'[c[1]]
                   PROVE  \E b \in Attach : KeyOf[b] = KeyOf[c] /\ b[2] <= c[2] /\ Launched(b)'
        OBVIOUS
      <4>1. CASE c = a
        BY <4>1, <3>2, <1>0
      <4>2. CASE c # a
        <5>0. /\ c[1] \in Run /\ c[2] \in Nat /\ at[c[1]] \in Nat
              /\ at'[c[1]] = IF c[1] = r THEN at[c[1]] + 1 ELSE at[c[1]]
              /\ c[1] = r => c[2] # at[c[1]]
          <6>1. c[1] \in Run /\ c[2] \in Nat
            BY <1>0
          <6>2. at[c[1]] \in Nat
            BY <6>1, <2>0 DEF LoopInv
          <6>3. at'[c[1]] = IF c[1] = r THEN at[c[1]] + 1 ELSE at[c[1]]
            BY <6>1, <3>4
          <6>4. c[1] = r => c[2] # at[c[1]]
            BY <4>2, <3>3
          <6>5. QED
            BY <6>1, <6>2, <6>3, <6>4
        <5>1. c[2] < at[c[1]]
          BY <5>0, c[2] < at'[c[1]]
        <5>2. QED
          BY <5>1, <2>0, <3>2 DEF LoopInv
      <4>3. QED
        BY <4>1, <4>2
    <3>6. \A c \in Attach :
             /\ result'[c].outcome # "idle" => Binding(c).kind = "attached" /\ c[2] <= at'[c[1]]
             /\ Launched(c)' => Mint!GotToken(c)' /\ c[2] < at'[c[1]]
      BY <1>0, <2>0, <3>1, <3>2, <3>4 DEF LoopInv, Mint!GotToken
    <3>7. /\ phase' \in [Run -> {"idle", "attaching", "completed", "failed"}]
          /\ at' \in [Run -> Nat \ {0}]
          /\ \A s \in Run : phase'[s] = "completed" => at'[s] > Len(Scenario[s])
      BY <2>0, <3>1, <3>4 DEF LoopInv
    <3>8. QED
      BY <3>5, <3>6, <3>7 DEF LoopInv, Binding
  <2>6. ASSUME NEW r \in Run, Complete(r) PROVE LoopInv'
    BY <2>0, <2>6 DEF Complete, LoopInv, Launched, Mint!GotToken, supervisorVars, minterVars
  <2>7. CASE SupervisorStep
    <3>1. \A a \in Attach : Launched(a)' <=> Launched(a)
      BY <2>7, LaunchedSteps DEF SupervisorStep, RunInv
    <3>2. UNCHANGED <<phase, at, result>>
      BY <2>7 DEF SupervisorStep, minterVars
    <3>3. QED
      BY <2>0, <3>1, <3>2 DEF LoopInv, Mint!GotToken, Binding
  <2>8. CASE MinterStep
    <3>1. \A d \in Attach : /\ result'[d].outcome = "idle" <=> result[d].outcome = "idle"
                            /\ Mint!GotToken(d) => result'[d] = result[d]
      BY <2>8, MintSettles DEF MinterStep, RunInv
    <3>2. UNCHANGED <<phase, at, os>>
      BY <2>8 DEF MinterStep, supervisorVars
    <3>3. QED
      BY <2>0, <3>1, <3>2 DEF LoopInv, Mint!GotToken, Launched, Binding
  <2>9. CASE UNCHANGED vars
    BY <2>0, <2>9 DEF vars, minterVars, supervisorVars, LoopInv, Launched, Mint!GotToken, Binding
  <2>10. ASSUME NEW r \in Run, AttachLaunchThrows(r) PROVE LoopInv'
    <3>1. /\ phase' = [phase EXCEPT ![r] = "failed"]
          /\ UNCHANGED <<at, result>>
      BY <2>10 DEF AttachLaunchThrows, minterVars
    <3>2. \A a \in Attach : Launched(a)' <=> Launched(a)
      BY <2>10, ThrowLaunchesNone DEF AttachLaunchThrows, RunInv
    <3>3. QED
      BY <2>0, <3>1, <3>2 DEF LoopInv, Mint!GotToken, Binding
  <2>11. QED
    BY <2>1, <2>2, <2>3, <2>4, <2>5, <2>6, <2>7, <2>8, <2>9, <2>10 DEF Next, RunStep
<1>3. QED
  BY <1>1, <1>2

LEMMA RunInvariant == Spec => []RunInv
<1>1. Init => RunInv
  BY MintInductive, TableInductive, LoopInductive DEF RunInv
<1>2. RunInv /\ [Next]_vars => RunInv'
  BY MintInductive, TableInductive, LoopInductive, StepsOfParts DEF RunInv
<1>3. QED
  BY <1>1, <1>2, PTL DEF Spec

-----------------------------------------------------------------------------
\* What a run has started agrees with how far it has come and with its answer, for
\* any scenarios and any number of concurrent runs.
THEOREM LaunchesAgree == Spec => []LaunchesMatchOutcome
<1>1. RunInv => LaunchesMatchOutcome
  <2> SUFFICES ASSUME RunInv, NEW a \in Attach
               PROVE  /\ Launched(a) => a[2] < at[a[1]] /\ Binding(a).kind = "attached"
                      /\ phase[a[1]] = "completed" /\ Binding(a).kind = "attached" =>
                            \E b \in Attach : KeyOf[b] = KeyOf[a] /\ b[2] <= a[2] /\ Launched(b)
    BY DEF LaunchesMatchOutcome
  <2>1. Launched(a) => a[2] < at[a[1]] /\ Binding(a).kind = "attached"
    BY DEF RunInv, LoopInv, Mint!GotToken
  <2>2. phase[a[1]] = "completed" => a[2] < at[a[1]]
    BY AttachFacts DEF RunInv, LoopInv
  <2>3. QED
    BY <2>1, <2>2 DEF RunInv, LoopInv
<1>2. QED
  BY <1>1, RunInvariant, PTL

\* What a merge of scopes holds: the base where the override is silent, the override
\* where it has a value, and nothing where it has Null.
LEMMA MergedScopes ==
    ASSUME NEW a \in Attach, NEW override
    PROVE  LET scopes == mergeScopes(RoleScopes(a), override) IN
           /\ "can_start_sessions" \notin DOMAIN override =>
                 /\ "can_start_sessions" \in DOMAIN scopes
                 /\ scopes["can_start_sessions"]
                       = (Binding(a).participant = InitiatorOf[a[1]])
           /\ "allowed_modes" \notin DOMAIN override =>
                 /\ "allowed_modes" \in DOMAIN scopes
                 /\ scopes["allowed_modes"] = {ModeOf[a[1]], ""}
           /\ \A f \in DOMAIN override :
                 IF override[f] = Null THEN f \notin DOMAIN scopes
                 ELSE f \in DOMAIN scopes /\ scopes[f] = override[f]
<1> DEFINE base == RoleScopes(a)
<1> DEFINE scopes == mergeScopes(base, override)
<1>1. /\ DOMAIN base = {"can_start_sessions", "is_observer", "allowed_modes"}
      /\ base["can_start_sessions"] = (Binding(a).participant = InitiatorOf[a[1]])
      /\ base["allowed_modes"] = {ModeOf[a[1]], ""}
  BY DEF RoleScopes
<1> HIDE DEF base
<1>2. DOMAIN scopes = {g \in DOMAIN base \cup DOMAIN override :
                          g \in DOMAIN override => override[g] # Null}
  BY DEF mergeScopes
<1>3. \A f \in DOMAIN scopes :
         scopes[f] = IF f \in DOMAIN override THEN override[f] ELSE base[f]
  BY DEF mergeScopes
<1> HIDE DEF scopes
<1>4. QED
  BY <1>1, <1>2, <1>3 DEF base, scopes

\* Whatever requests and cache entries the runs share, an agent is launched with a
\* token of its own participant, whose scopes are those of its role and mode in its
\* own run where the operator has not overridden them, and the override's elsewhere.
THEOREM LaunchesWithOwnToken == Spec => []LaunchedWithOwnToken
<1>1. RunInv => LaunchedWithOwnToken
  <2> SUFFICES ASSUME RunInv
               PROVE  \A a \in Attach : Launched(a) =>
                         /\ BootstrapToken(a).sender = Binding(a).participant
                         /\ BootstrapToken(a).scopes =
                               mergeScopes(RoleScopes(a), Overrides[Binding(a).participant])
    <3> SUFFICES ASSUME NEW a \in Attach, Launched(a),
                        BootstrapToken(a).sender = Binding(a).participant,
                        BootstrapToken(a).scopes =
                            mergeScopes(RoleScopes(a), Overrides[Binding(a).participant])
                 PROVE  LET override == Overrides[Binding(a).participant] IN
                        /\ BootstrapToken(a).sender = Binding(a).participant
                        /\ "can_start_sessions" \notin DOMAIN override =>
                              HasScope(a, "can_start_sessions",
                                       Binding(a).participant = InitiatorOf[a[1]])
                        /\ "allowed_modes" \notin DOMAIN override =>
                              HasScope(a, "allowed_modes", {ModeOf[a[1]], ""})
                        /\ \A f \in DOMAIN override :
                              IF override[f] = Null
                              THEN f \notin DOMAIN BootstrapToken(a).scopes
                              ELSE HasScope(a, f, override[f])
      BY DEF LaunchedWithOwnToken
    <3> DEFINE override == Overrides[Binding(a).participant]
    <3> DEFINE scopes == mergeScopes(RoleScopes(a), override)
    <3>1. /\ "can_start_sessions" \notin DOMAIN override =>
                /\ "can_start_sessions" \in DOMAIN scopes
                /\ scopes["can_start_sessions"]
                      = (Binding(a).participant = InitiatorOf[a[1]])
          /\ "allowed_modes" \notin DOMAIN override =>
                /\ "allowed_modes" \in DOMAIN scopes
                /\ scopes["allowed_modes"] = {ModeOf[a[1]], ""}
          /\ \A f \in DOMAIN override :
                IF override[f] = Null THEN f \notin DOMAIN scopes
                ELSE f \in DOMAIN scopes /\ scopes[f] = override[f]
      BY MergedScopes
    <3>2. BootstrapToken(a).scopes = scopes
      OBVIOUS
    <3> HIDE DEF scopes, override
    <3>3. QED
      BY <3>1, <3>2 DEF HasScope, override
  <2> TAKE a \in Attach
  <2> HAVE Launched(a)
  <2>1. Own(a, result[a].token)
    BY DEF RunInv, LoopInv, MintInv, TokenInv
  <2>2. /\ result[a].token.sender = SenderOf[a]
        /\ result[a].token.scopes = ScopesOf[a]
    BY <2>1 DEF Own, KeyOfToken, Mint!cacheKey
  <2>3. QED
    BY <2>2 DEF SenderOf, ScopesOf, BootstrapToken
<1>2. QED
  BY <1>1, RunInvariant, PTL

\* A scenario may bind a participant any number of times: while the service is up it
\* has one live process, unless a launch of it has failed.
THEOREM OneAgentEach == Spec => []OneAgentPerParticipant
<1>1. RunInv => OneAgentPerParticipant
  <2> SUFFICES ASSUME RunInv, service = "up", NEW a \in Attach, NEW b \in Attach,
                      KeyOf[a] = KeyOf[b], ~FailedLaunch(KeyOf[a]),
                      os[a] = "running", os[b] = "running"
               PROVE  a = b
    BY DEF OneAgentPerParticipant
  <2>1. processes[KeyOf[a]] = a /\ processes[KeyOf[b]] = b
    BY DEF RunInv, TableInv, Sup!Tracked
  <2>2. QED
    BY <2>1
<1>2. QED
  BY <1>1, RunInvariant, PTL

\* A shutdown at any moment of any runs tells every live agent, unless a launch of
\* its participant has failed before.
THEOREM ShutdownReachesAll == Spec => ShutdownTellsEveryAgent
<1>1. RunInv /\ [Next]_vars =>
         [Sup!OnModuleDestroy =>
             \A a \in Attach :
                 os[a] = "running" /\ ~FailedLaunch(KeyOf[a]) => Sup!Signalled(a)']_vars
  BY DEF RunInv, TableInv, TableShape, Sup!OnModuleDestroy, Sup!Kill, Sup!Tracked, Sup!Signalled
<1>2. QED
  BY <1>1, RunInvariant, PTL DEF Spec, ShutdownTellsEveryAgent

\* Whatever the runs do, the minter and the supervisor see what they are specified for:
\* every run of the composition is one of the minter and one of the supervisor, with
\* the bindings as calls and as requests to launch.
THEOREM RunsUseParts == Spec => Mint!Spec /\ Sup!Spec
<1>1. Init => Mint!Init /\ Sup!Init
  BY DEF Init
<1>2. RunInv /\ [Next]_vars => [Mint!Next]_(Mint!vars) /\ [Sup!Next]_(Sup!vars)
  <2>1. [SupNext]_supervisorVars => [Sup!Next]_(Sup!vars)
    BY DEF SupNext, supervisorVars, Sup!Next, Sup!vars
  <2>2. [Mint!Next]_minterVars => [Mint!Next]_(Mint!vars)
    BY DEF minterVars, Mint!vars
  <2>3. QED
    BY <2>1, <2>2, StepsOfParts
<1>3. QED
  BY <1>1, <1>2, RunInvariant, PTL DEF Spec, Mint!Spec, Sup!Spec

-----------------------------------------------------------------------------
(***************************************************************************)
(* What is proved of the minter and of the supervisor, in the runs.        *)
(***************************************************************************)
MintProofs == INSTANCE AuthTokenMinter_proofs WITH Call <- Attach
SupProofs == INSTANCE LaunchSupervisor_proofs WITH MaxStops <- 0

LEMMA MinterAssumed ==
    /\ Grants \subseteq [ttl : Nat, stated : BOOLEAN]
    /\ AskedTtl \in Nat \ {0}
    /\ Timeout \in Nat
    /\ Skew \in Nat \ {0}
    /\ Drift \in Nat
    /\ MaxTime \in Nat
    /\ NoCall \notin Attach
BY RunAssumption

LEMMA SupervisorAssumed ==
    /\ KeyOf \in [Attach -> Key]
    /\ NoChild \notin Attach
    /\ SpawnOutcomes \subseteq {"running", "failed"}
    /\ MaxMs \in Nat
    /\ 0 \in Nat
BY RunAssumption DEF Key, KeyOf

LEMMA MintProofsApply == Mint!Spec => MintProofs!Spec
<1>1. Mint!Init => MintProofs!Init
  BY DEF Mint!Init, MintProofs!Init, Mint!idle, MintProofs!idle, Mint!CacheKeys,
         MintProofs!CacheKeys, Mint!cacheKey, MintProofs!cacheKey
<1>2. [Mint!Next]_(Mint!vars) => [MintProofs!Next]_(MintProofs!vars)
  BY DEF Mint!Next, MintProofs!Next, Mint!vars, MintProofs!vars,
         Mint!MintHit, MintProofs!MintHit, Mint!MintJoin, MintProofs!MintJoin,
         Mint!MintRequest, MintProofs!MintRequest, Mint!ServiceIssues,
         MintProofs!ServiceIssues, Mint!RequestSucceeds, MintProofs!RequestSucceeds,
         Mint!RequestFails, MintProofs!RequestFails, Mint!Tick, MintProofs!Tick,
         Mint!Settle, MintProofs!Settle, Mint!Fresh, MintProofs!Fresh,
         Mint!Open, MintProofs!Open, Mint!ttlSeconds, MintProofs!ttlSeconds,
         Mint!cacheKey, MintProofs!cacheKey, Mint!idle, MintProofs!idle,
         Mint!waiting, MintProofs!waiting, Mint!failed, MintProofs!failed
<1>3. QED
  BY <1>1, <1>2, PTL DEF Mint!Spec, MintProofs!Spec

LEMMA SupProofsApply == Sup!Spec => SupProofs!Spec
<1>1. Sup!Init => SupProofs!Init
  BY DEF Sup!Init, SupProofs!Init
<1>2. [Sup!Next]_(Sup!vars) => [SupProofs!Next]_(SupProofs!vars)
  BY DEF Sup!Next, SupProofs!Next, Sup!vars, SupProofs!vars,
         Sup!LaunchExisting, SupProofs!LaunchExisting, Sup!LaunchSpawn, SupProofs!LaunchSpawn,
         Sup!LaunchThrows, SupProofs!LaunchThrows, Sup!Stop, SupProofs!Stop, Sup!StopTimeout, SupProofs!StopTimeout,
         Sup!ExitEvent, SupProofs!ExitEvent, Sup!ErrorEvent, SupProofs!ErrorEvent,
         Sup!StartupTimer, SupProofs!StartupTimer, Sup!ChildExits, SupProofs!ChildExits,
         Sup!OnModuleDestroy, SupProofs!OnModuleDestroy, Sup!ServiceExit,
         SupProofs!ServiceExit, Sup!AlreadyRunning, SupProofs!AlreadyRunning,
         Sup!HasPid, SupProofs!HasPid, Sup!WriteBootstrapFile, SupProofs!WriteBootstrapFile,
         Sup!Kill, SupProofs!Kill, Sup!TickQueueEmpty, SupProofs!TickQueueEmpty,
         Sup!Tracked, SupProofs!Tracked, Sup!CleanupBootstrapFile,
         SupProofs!CleanupBootstrapFile
<1>3. QED
  BY <1>1, <1>2, PTL DEF Sup!Spec, SupProofs!Spec

\* A burst of runs costs one request for each sender and scopes, and no run waits for
\* a request that has settled.
THEOREM RunsShareRequests == Spec => [](Mint!OneRequestPerKey /\ Mint!WaitersAreServed)
<1>1. MintProofs!Spec => [](MintProofs!OneRequestPerKey /\ MintProofs!WaitersAreServed)
  BY MinterAssumed, MintProofs!SingleFlight, MintProofs!NobodyForgotten, PTL
<1>2. MintProofs!OneRequestPerKey /\ MintProofs!WaitersAreServed
         => Mint!OneRequestPerKey /\ Mint!WaitersAreServed
  BY DEF MintProofs!OneRequestPerKey, Mint!OneRequestPerKey, MintProofs!WaitersAreServed,
         Mint!WaitersAreServed, MintProofs!Open, Mint!Open, MintProofs!cacheKey,
         Mint!cacheKey, MintProofs!waiting, Mint!waiting, MintProofs!CacheKeys, Mint!CacheKeys
<1>3. QED
  BY <1>1, <1>2, RunsUseParts, MintProofsApply, PTL

\* A token that another run's request has brought is valid where it is used again, if
\* the skew window covers the answer's time and the drift of the clocks.
THEOREM RunsGetValidTokens == ASSUME Mint!SkewCovers PROVE Spec => []Mint!HitIsValid
<1>1. MintProofs!SkewCovers
  BY Mint!SkewCovers DEF Mint!SkewCovers, MintProofs!SkewCovers
<1>2. MintProofs!Spec => []MintProofs!HitIsValid
  BY <1>1, MinterAssumed, MintProofs!CachedTokenIsValid, PTL
<1>3. MintProofs!HitIsValid => Mint!HitIsValid
  BY DEF MintProofs!HitIsValid, Mint!HitIsValid, MintProofs!ValidAt, Mint!ValidAt,
         MintProofs!LifetimeKnown, Mint!LifetimeKnown
<1>4. QED
  BY <1>2, <1>3, RunsUseParts, MintProofsApply, PTL

\* Whatever the scenarios bind and whatever fails, an agent of a run leaves the process
\* table unsignalled only through the end of another launch of its participant.
THEOREM RunsLoseNobody == Spec => []Sup!OrphanOnlyByRelaunch
<1>1. SupProofs!Spec => []SupProofs!OrphanOnlyByRelaunch
  BY SupervisorAssumed, SupProofs!LostOnlyByRelaunch, PTL
<1>2. SupProofs!OrphanOnlyByRelaunch => Sup!OrphanOnlyByRelaunch
  BY DEF SupProofs!OrphanOnlyByRelaunch, Sup!OrphanOnlyByRelaunch, SupProofs!Orphan,
         Sup!Orphan, SupProofs!Ended, Sup!Ended, SupProofs!Tracked, Sup!Tracked,
         SupProofs!Signalled, Sup!Signalled
<1>3. QED
  BY <1>1, <1>2, RunsUseParts, SupProofsApply, PTL

\* A scenario binds each participant once.
BoundOnce ==
    \A r \in Run : \A i, j \in DOMAIN Scenario[r] :
        Scenario[r][i].participant = Scenario[r][j].participant => i = j

\* If every scenario binds a participant once, the runs with all their failures keep
\* what AgentSlots promises for each of their participants.
THEOREM RunsImplementSlots == ASSUME BoundOnce PROVE Spec => Sup!ImplementsSlots
<1>1. SupProofs!FreshKeys
  <2>1. ASSUME NEW a \in Attach, NEW b \in Attach, KeyOf[a] = KeyOf[b] PROVE a = b
    <3>1. /\ a = <<a[1], a[2]>> /\ b = <<b[1], b[2]>> /\ a[1] = b[1]
          /\ Binding(a).participant = Binding(b).participant
          /\ a[1] \in Run /\ a[2] \in DOMAIN Scenario[a[1]] /\ b[2] \in DOMAIN Scenario[b[1]]
      BY <2>1, AttachFacts, RunAssumption
    <3>2. QED
      BY <3>1, BoundOnce DEF BoundOnce, Binding
  <2>2. QED
    BY <2>1 DEF SupProofs!FreshKeys
<1>2. SupProofs!Spec => SupProofs!ImplementsSlots
  BY <1>1, SupervisorAssumed, SupProofs!ImplementsAgentSlots, PTL
<1>3. SupProofs!ImplementsSlots => Sup!ImplementsSlots
  <2>1. SupProofs!slot = Sup!slot /\ SupProofs!slot' = Sup!slot'
    BY DEF SupProofs!slot, Sup!slot, SupProofs!Signalled, Sup!Signalled
  <2>2. SupProofs!Slots!Init => Sup!Slots!Init
    BY <2>1 DEF SupProofs!Slots!Init, Sup!Slots!Init
  <2>3. [SupProofs!Slots!Next]_<<SupProofs!slot, service = "up">>
           => [Sup!Slots!Next]_<<Sup!slot, service = "up">>
    BY <2>1 DEF SupProofs!Slots!Next, Sup!Slots!Next, SupProofs!Slots!Spawn, Sup!Slots!Spawn,
           SupProofs!Slots!Terminate, Sup!Slots!Terminate, SupProofs!Slots!Die,
           Sup!Slots!Die, SupProofs!Slots!Shutdown, Sup!Slots!Shutdown
  <2>4. QED
    BY <2>2, <2>3, PTL DEF SupProofs!ImplementsSlots, Sup!ImplementsSlots,
           SupProofs!Slots!Spec, Sup!Slots!Spec
<1>4. QED
  BY <1>2, <1>3, RunsUseParts, SupProofsApply, PTL
=============================================================================
