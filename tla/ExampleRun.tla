------------------------------ MODULE ExampleRun ------------------------------
(***************************************************************************)
(* POST /examples/run after compilation: ExampleRunService.run, the        *)
(* sequential loops of HostingService and the attach() of                  *)
(* ProcessExampleAgentHostProvider, composed with the minter that gives an *)
(* agent its token and the supervisor that starts its process.             *)
(*                                                                         *)
(* Runs are concurrent requests on one event loop; each attaches its       *)
(* participants one after the other and awaits a mint for each.  The       *)
(* runId is a fresh UUID, so the runs share no process-table key, but they *)
(* share the minter: sender and scopes do not name the run.  The service   *)
(* itself never calls stop(), so no step of it appears here.               *)
(***************************************************************************)
EXTENDS Naturals, Sequences

CONSTANTS
    Run,        \* requests to /examples/run that bootstrap their agents
    Scenario,   \* of each run: its bindings in order, [participant, kind]
    InitiatorOf,  \* of each run: the participant that starts its session
    ModeOf,       \* of each run: the modeName of its session
    Overrides,    \* of each participant: MACP_AUTH_SCOPES_JSON[sender], a function of
                  \* the scopes it names, empty for a participant it does not name
    Null,         \* the value of an override that clears a scope
    SpawnOutcomes, MaxMs, NoChild,
    Grants, AskedTtl, Timeout, Skew, Drift, MaxTime, NoCall, NoEntry, NoToken

\* A binding's agent definition: bootstrap mode 'attached' with a valid manifest,
\* another mode, a manifest that does not validate, no adapter or no manifest
\* (INVALID_CONFIG), or an agentRef that is not in the catalog (AGENT_NOT_FOUND).
Kind == {"attached", "deferred", "invalid", "misconfigured", "unknown"}

Attach == UNION {{<<r, i>> : i \in DOMAIN Scenario[r]} : r \in Run}
Binding(a) == Scenario[a[1]][a[2]]
KeyOf == [a \in Attach |-> <<a[1], Binding(a).participant>>]
Key == {KeyOf[a] : a \in Attach}

ASSUME RunAssumption ==
    /\ \A r \in Run :
          /\ Len(Scenario[r]) \in Nat
          /\ DOMAIN Scenario[r] = 1 .. Len(Scenario[r])
          /\ \A i \in DOMAIN Scenario[r] : Scenario[r][i].kind \in Kind
    /\ SpawnOutcomes \subseteq {"running", "failed"}
    /\ NoChild \notin Attach
    /\ NoCall \notin Attach
    /\ Grants \subseteq [ttl : Nat, stated : BOOLEAN]
    /\ AskedTtl \in Nat \ {0}
    /\ {Timeout, Skew, Drift, MaxTime, MaxMs} \subseteq Nat
    /\ Skew # 0

\* The defaults of a role: only the initiator may start sessions, and everyone speaks
\* in the run's mode and, with no mode, in ambient envelopes.
RoleScopes(a) ==
    [can_start_sessions |-> Binding(a).participant = InitiatorOf[a[1]],
     is_observer |-> FALSE,
     allowed_modes |-> {ModeOf[a[1]], ""}]

\* An override replaces the scopes it names and clears those it gives as Null.
mergeScopes(base, override) ==
    [f \in {g \in DOMAIN base \cup DOMAIN override :
               g \in DOMAIN override => override[g] # Null} |->
        IF f \in DOMAIN override THEN override[f] ELSE base[f]]

SenderOf == [a \in Attach |-> Binding(a).participant]
ScopesOf == [a \in Attach |-> mergeScopes(RoleScopes(a), Overrides[Binding(a).participant])]

VARIABLES
    phase,  \* of each run: "idle", "attaching", "completed" or "failed"
    at,     \* the binding the attach loop has come to
    processes, health, os, signals, file, files, stops, timers, ms, service,
    now, cache, inflight, req, start, issued, waitsOn, result

supervisorVars == <<processes, health, os, signals, file, files, stops, timers, ms, service>>
minterVars == <<now, cache, inflight, req, start, issued, waitsOn, result>>
vars == <<phase, at, supervisorVars, minterVars>>

Sup == INSTANCE LaunchSupervisor WITH MaxStops <- 0
Mint == INSTANCE AuthTokenMinter WITH Call <- Attach

Init ==
    /\ phase = [r \in Run |-> "idle"]
    /\ at = [r \in Run |-> 1]
    /\ Sup!Init
    /\ Mint!Init

-----------------------------------------------------------------------------
KindAt(r) == Scenario[r][at[r]].kind

\* attach() runs for binding at[r] and has not called the minter yet.
AtBinding(r) ==
    /\ service # "exited"
    /\ phase[r] = "attaching"
    /\ at[r] <= Len(Scenario[r])
    /\ result[<<r, at[r]>>] = Mint!idle

Advance(r) == at' = [at EXCEPT ![r] = @ + 1]

\* HostingService.resolve() looks every agent up before any is attached.
Resolve(r) ==
    /\ service # "exited"
    /\ phase[r] = "idle"
    /\ phase' = [phase EXCEPT ![r] =
                    IF \E i \in DOMAIN Scenario[r] : Scenario[r][i].kind = "unknown"
                    THEN "failed" ELSE "attaching"]
    /\ UNCHANGED <<at, supervisorVars, minterVars>>

\* Bootstrapped without a launch: the participant's process is running already,
\* or the agent is not of the attached mode.  An invalid manifest is reported,
\* and the loop goes on.
AttachWithoutLaunch(r) ==
    /\ AtBinding(r)
    /\ \/ Sup!AlreadyRunning(KeyOf[<<r, at[r]>>])
       \/ KindAt(r) \in {"deferred", "invalid"}
    /\ Advance(r)
    /\ UNCHANGED <<phase, supervisorVars, minterVars>>

\* No adapter or no manifest: attach() throws, and with it the loop and the run.
AttachThrows(r) ==
    /\ AtBinding(r)
    /\ ~Sup!AlreadyRunning(KeyOf[<<r, at[r]>>])
    /\ KindAt(r) = "misconfigured"
    /\ phase' = [phase EXCEPT ![r] = "failed"]
    /\ UNCHANGED <<at, supervisorVars, minterVars>>

AttachMints(r) ==
    LET a == <<r, at[r]>> IN
    /\ AtBinding(r)
    /\ ~Sup!AlreadyRunning(KeyOf[a])
    /\ KindAt(r) = "attached"
    /\ Mint!MintHit(a) \/ Mint!MintJoin(a) \/ Mint!MintRequest(a)
    /\ UNCHANGED <<phase, at, supervisorVars>>

\* The mint has settled: the bootstrap file is written and the process launched
\* without looking at the service's or the run's state again.
AttachLaunches(r) ==
    LET a == <<r, at[r]>> IN
    /\ phase[r] = "attaching"
    /\ a \in Attach
    /\ Mint!GotToken(a)
    /\ Sup!LaunchExisting(a) \/ Sup!LaunchSpawn(a)
    /\ Advance(r)
    /\ UNCHANGED <<phase, minterVars>>

\* The file cannot be written or the process not spawned: the error ends the run too.
AttachLaunchThrows(r) ==
    LET a == <<r, at[r]>> IN
    /\ phase[r] = "attaching"
    /\ a \in Attach
    /\ Mint!GotToken(a)
    /\ Sup!LaunchThrows(a)
    /\ phase' = [phase EXCEPT ![r] = "failed"]
    /\ UNCHANGED <<at, minterVars>>

\* Mutant of AttachMintFails: the error is reported for the one agent only.
AttachMintSwallowed(r) ==
    LET a == <<r, at[r]>> IN
    /\ service # "exited"
    /\ phase[r] = "attaching"
    /\ a \in Attach
    /\ result[a] = Mint!failed
    /\ Advance(r)
    /\ UNCHANGED <<phase, supervisorVars, minterVars>>

\* AUTH_MINT_FAILED ends the run; the agents attached before stay.
AttachMintFails(r) ==
    LET a == <<r, at[r]>> IN
    /\ service # "exited"
    /\ phase[r] = "attaching"
    /\ a \in Attach
    /\ result[a] = Mint!failed
    /\ phase' = [phase EXCEPT ![r] = "failed"]
    /\ UNCHANGED <<at, supervisorVars, minterVars>>

Complete(r) ==
    /\ service # "exited"
    /\ phase[r] = "attaching"
    /\ at[r] > Len(Scenario[r])
    /\ phase' = [phase EXCEPT ![r] = "completed"]
    /\ UNCHANGED <<at, supervisorVars, minterVars>>

SupervisorStep ==
    /\ \/ \E a \in Attach : \/ Sup!ExitEvent(a) \/ Sup!ErrorEvent(a)
                            \/ Sup!StartupTimer(a) \/ Sup!ChildExits(a)
       \/ Sup!OnModuleDestroy
       \/ Sup!ServiceExit
    /\ UNCHANGED <<phase, at, minterVars>>

\* A settled mint resumes its run before the clock is read again.
Resuming(r) ==
    LET a == <<r, at[r]>> IN
    /\ phase[r] = "attaching"
    /\ a \in Attach
    /\ Mint!GotToken(a) \/ result[a] = Mint!failed

MinterStep ==
    /\ service # "exited"
    /\ \/ \E a \in Attach : \/ Mint!ServiceIssues(a)
                            \/ Mint!RequestSucceeds(a)
                            \/ Mint!RequestFails(a)
       \/ Mint!Tick /\ \A r \in Run : ~Resuming(r)
    /\ UNCHANGED <<phase, at, supervisorVars>>

RunStep(r) ==
    \/ Resolve(r)
    \/ AttachWithoutLaunch(r)
    \/ AttachThrows(r)
    \/ AttachMints(r)
    \/ AttachLaunches(r)
    \/ AttachLaunchThrows(r)
    \/ AttachMintFails(r)
    \/ Complete(r)

Next ==
    \/ \E r \in Run : RunStep(r)
    \/ SupervisorStep
    \/ MinterStep

Spec == Init /\ [][Next]_vars

\* A request that has been accepted is carried on by the event loop, and its mint
\* settles by the timeout; nothing makes a child exit or the service stop.
Fairness ==
    /\ \A r \in Run : WF_vars(phase[r] # "idle" /\ RunStep(r))
    /\ \A a \in Attach :
          WF_vars(/\ service # "exited"
                  /\ Mint!RequestSucceeds(a) \/ Mint!RequestFails(a)
                  /\ UNCHANGED <<phase, at, supervisorVars>>)

FairSpec == Spec /\ Fairness

-----------------------------------------------------------------------------
\* launch() has answered with a record, of a new child or of the running one.
Launched(a) == os[a] \notin {"idle", "refused"}

\* A run that succeeds has called launch() for every attached binding it had no
\* process for; one that fails has started nothing at or after the binding
\* that failed, and nothing at all when an agent is unknown.
LaunchesMatchOutcome ==
    \A a \in Attach :
        /\ Launched(a) => a[2] < at[a[1]] /\ Binding(a).kind = "attached"
        /\ phase[a[1]] = "completed" /\ Binding(a).kind = "attached" =>
              \E b \in Attach : KeyOf[b] = KeyOf[a] /\ b[2] <= a[2] /\ Launched(b)

\* An agent's bootstrap file carries a token of its own participant.  A scope the
\* operator has not overridden is that of its role and mode in its own run, although
\* runs share requests and cache entries and a participant's role and mode differ from
\* run to run; a scope that is overridden is the override's, and gone if it is Null.
BootstrapToken(a) == result[a].token
HasScope(a, f, v) == f \in DOMAIN BootstrapToken(a).scopes /\ BootstrapToken(a).scopes[f] = v
LaunchedWithOwnToken ==
    \A a \in Attach : Launched(a) =>
        LET override == Overrides[Binding(a).participant] IN
        /\ BootstrapToken(a).sender = Binding(a).participant
        /\ "can_start_sessions" \notin DOMAIN override =>
              HasScope(a, "can_start_sessions", Binding(a).participant = InitiatorOf[a[1]])
        /\ "allowed_modes" \notin DOMAIN override =>
              HasScope(a, "allowed_modes", {ModeOf[a[1]], ""})
        /\ \A f \in DOMAIN override :
              IF override[f] = Null THEN f \notin DOMAIN BootstrapToken(a).scopes
              ELSE HasScope(a, f, override[f])

\* A launch of the key has failed.  Its 'error' event deletes the key, also when a
\* launch after it has put a live child there.
FailedLaunch(k) == \E a \in Attach : KeyOf[a] = k /\ os[a] \in {"failed", "errored"}

\* The shutdown tells every live agent of every run, also of runs that failed half
\* way and of runs whose attach loop is still going; it can miss only one that was
\* launched again after a failed launch.
ShutdownTellsEveryAgent ==
    [][Sup!OnModuleDestroy =>
          \A a \in Attach :
              os[a] = "running" /\ ~FailedLaunch(KeyOf[a]) => Sup!Signalled(a)']_vars

\* While the service is up no participant of a run has two live processes, also
\* when the scenario binds the participant more than once.
OneAgentPerParticipant ==
    service = "up" =>
        \A a, b \in Attach :
            /\ a # b /\ KeyOf[a] = KeyOf[b] /\ ~FailedLaunch(KeyOf[a])
            /\ os[a] = "running" /\ os[b] = "running"
            => Sup!Signalled(a) \/ Sup!Signalled(b)

\* Every run that was accepted comes to an answer or the service goes away.
RunsAnswer ==
    \A r \in Run :
        phase[r] = "attaching" ~> phase[r] \in {"completed", "failed"} \/ service = "exited"
=============================================================================
