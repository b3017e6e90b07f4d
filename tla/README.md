# TLA+ verification of the MACP playground

The MACP playground (the `examples-service` of this repository) is one NestJS process that
lists scenario packs, compiles user inputs into a run, starts the agents of the run as child
processes and gives each a bearer token. The agents (a risk coordinator in TypeScript and
three specialist workers in Python) then hold a decision session on an external MACP runtime.

This directory models the parts of that system whose correctness depends on the order of
events: process supervision, token minting, concurrent runs, the decision session, the
registry cache and the registration of policies at start-up. It also models the logic that
several programs of the repository implement side by side and must agree on: the policy
strategy, the compiler with the launch form and `scenario:validate`, the pack loader with
`scenario:lint` and `scenario:new`. TLC checks small instances; TLAPS proves the theorems for
any constants.

```
tlc -workers 2 -config SupervisorFresh.cfg MCLaunchSupervisor     # a run of the table below
tlapm LaunchSupervisor_proofs.tla                                 # the proofs of a module
```

## Inventory

Paths are relative to the repository.

### Launch supervisor — `src/hosting/launch-supervisor.ts`
- **State**: the map `runId:participantId -> SupervisedProcess` (child, health, bootstrap
  file, startup timer); the files in the temporary directory; the operating system's view
  of each child, which the service learns of only through events.
- **Operations**: `writeBootstrapFile`, `launch` (returns the existing record if there is
  one), `stop` (SIGTERM, a race of exit and timeout, SIGKILL), `stopRun` (stop for every
  process of a run), `onModuleDestroy`, the `exit` and `error` handlers, the startup timer;
  queries `getProcess`, `getProcessesForRun`, `health`.
- **Hard**: every handler deletes *the key*, not *its record*; `stop` deletes the key again
  after its await; the timer finds its record by key; `spawn` reports failure by a later
  event; the service may shut down between any two steps.
- **Correct when**: no live child leaves the table untold, files with tokens do not outlive
  records, `stop` ends, and a startup window is ended by its own timer unless an older
  record's end came between.

### Process host provider, hosting and example runs — `src/hosting/process-example-agent-host.provider.ts`, `src/hosting/hosting.service.ts`, `src/launch/example-run.service.ts`
- **State**: none of their own; the position in the attach loop lives in a suspended async
  function. Several runs are in progress at once and share the minter and the supervisor.
- **Operations**: `run` (compile, resolve every binding, attach one after the other),
  `attach` (early returns for a process that runs already, for a mode that is not attached
  and for an invalid manifest; throws for a missing adapter or manifest; derives the scopes of
  the agent's role and merges the operator's overrides over them; mints; launches, which may
  throw).
- **Hard**: the check for a running process is made before the await of the mint, the launch
  after it; a run that fails half way leaves agents behind; equal roles of different runs
  share one request and one cache entry.
- **Correct when**: the agents started agree with the answer, each has a token of its own
  role and mode up to the overrides, a shutdown reaches all of them, and every run is answered.

### Auth token minter — `src/auth/auth-token-minter.service.ts`
- **State**: `cache` (key to token and expiry) and `inflight` (key to promise).
- **Operations**: `mintToken`; its request to the auth-service settles with a token, an
  error status, a malformed body, a network error or the timeout.
- **Hard**: callers join a request that another started; the expiry is reckoned from the
  arrival of the answer, by the local clock; `finally` must clear the key before waiters run.
- **Correct when**: one request per key at a time, nobody waits for a settled promise, a
  token belongs to its caller, a cached token is still valid where it is used.

### Registry index — `src/registry/registry-index.service.ts`
- **State**: one snapshot with its time, one loading promise; the pack files on disk.
- **Operations**: `getSnapshot` (hit, join, load), `invalidate`, look-ups in the snapshot.
- **Hard**: the files are edited while they are read; what a load cannot reach it leaves out,
  and succeeds; `invalidate()` and a second load overlap the first; a failed load must not
  stick; `compile()` reads twice, and the second read may come from another load.
- **Correct when**: edits show in bounded time, the snapshot never goes back, a second read
  is not older than the first, all callers are served.

### File loader, includes and scenario scaffolding — `src/registry/file-registry.loader.ts`, `src/registry/include-resolver.ts`, `scripts/scenario/lint.ts`, `scripts/scenario/new.ts`
- **State**: the files and symbolic links under the packs directory and nothing else.
- **Operations**: `loadAll` (packs, versions, templates, each with its includes), the
  look-ups of a scenario and a template, `lint`, `new` (from the starter or `--from` another
  version), and any edit of a file.
- **Hard**: an error in one file ends the whole load, or loses its pack, or is passed over,
  by its kind and place; an include is relative to a file that may be copied elsewhere;
  cycles; of two packs with one slug the later one wins; lint walks the packs in its own code,
  which passes over symbolic links.
- **Correct when**: what lint passes is served, up to exceptions that can be named, lint can
  load what is served, and `new` takes nothing from the service in any other way than those
  that can be named.

### Compiler, launch form and validation — `src/compiler/`, `src/launch/launch.service.ts`, `scripts/scenario/validate.ts`
- **State**: none; each is a function of a scenario, a template and inputs.
- **Operations**: `compile`, `getLaunchSchema`, `validate`; below them `deepMerge`,
  `extractSchemaDefaults`, `resolvePath` and `substitute`.
- **Hard**: the precedence of schema defaults, template and inputs; placeholders that only
  some inputs satisfy; three programs that merge the same files independently.
- **Correct when**: the form shows what a run is compiled to, and a scenario that validates
  compiles.

### Policy loader and registrar — `src/policy/`
- **State**: the policies of the files, read once; the summary of a start-up. The runtime
  keeps the registered policies in memory.
- **Operations**: load, mint, `registerPolicy` one after the other, the count of each
  outcome; then `main.ts` listens.
- **Hard**: any step may fail or lose its answer, and `registerPolicy` has no deadline; a
  request sent before a crash may be executed after the restart; the runtime may restart on
  its own; "already registered" is the normal answer after a restart, and is recognised by a
  word in the error's text; the client is made outside of any `try`; listening waits for all
  of it.
- **Correct when**: a policy counted as registered is in force, and only a call that never
  settles, a client that cannot be made or a crash keeps the service from listening.

### Risk coordinator and policy strategy — `src/example-agents/runtime/`
- **State**: the last signal of each specialist, the wait-all timer, the `committed` flag,
  the last handler context.
- **Operations**: handlers of Proposal, Evaluation, Vote and Objection, the deadline,
  `tryCommit` (quorum, the suspend demo, decision, vote, commitment, cancellation), and the
  pure `isQuorumMet` and `decide`.
- **Hard**: `tryCommit` is entered again while it awaits; each RPC can fail or be refused;
  a later message of a specialist replaces its earlier one.
- **Correct when**: it decides once and on the evaluations, acts early only on its deadline,
  and leaves no session open.

### Specialist workers — `agents/langgraph_worker`, `agents/langchain_worker`, `agents/crewai_worker`
- **State**: the staged vote and the set of peers that have evaluated.
- **Operations**: handle Proposal (evaluate, stage the vote), handle a peer's Evaluation,
  `_maybe_vote`, stop. The three differ in the framework that produces the opinion.
- **Hard**: the runtime rejects an Evaluation once a Vote is in, so nobody may vote before
  all peers have evaluated; a peer that died keeps the others waiting.

### Not modelled
- **Catalog and agent-profile listings**: projections of one snapshot that keep no state. The
  agent catalog's look-up is the `"unknown"` kind of a binding and `KnownAgents` of the form.
- **HTTP controllers, DTOs, guards, formatting**: delegation, no state.
- **Configuration**: read once at start-up; the constants of the modules.
- **Agent frameworks, prompts and mappers**: data, a choice of opinions.
- **The in-memory host provider**: a stateless stand-in that starts nothing.
- **`scenario dry-run`**: `compile()` on a registry of its own. The orphan and `policyVersion`
  checks of `lint` and `validatePolicy` of the loader only print warnings.
- **Bootstrap payload, callback port, request overrides and tags**: data that no modelled
  state depends on.

The MACP runtime, the auth-service, Node's event loop and the operating system are external:
they are modelled from how this code uses them, and marked so.

### How the parts interact

```
 start-up: PolicyRegistrar --registerPolicy--> MACP runtime      authors: lint, new, validate
                  |  mints, then the service listens                       |
                  v                                                        v
 POST /examples/run                         auth-service             PackFiles (disk)
        |                                        ^                         | loadAll
        |                                        |                         v
   ExampleRun  --mintToken-->  AuthTokenMinter --+            RegistryIndex (snapshot)
        |                                                                  | two reads
        |  compile first  <---------------------------  Compiler (TemplateResolver)
        |
        +-- writeBootstrapFile, launch -->  LaunchSupervisor -- spawn/kill --> agent processes
                                                 implements AgentSlots           |
                                                                                 v
                                        DecisionSession: coordinator, specialists, runtime
                                                 uses PolicyStrategy
```

## Modules

| Module | Models | State |
|---|---|---|
| `AgentSlots` | what hosting promises: one slot per (run, participant), `empty`, `live` or `ending` | abstract |
| `LaunchSupervisor` | the process table, files, timers, events and shutdown | `processes`, `health`, `os`, `signals`, `file`, `files`, `stops`, `timers`, `ms`, `service` |
| `AuthTokenMinter` | cache and single flight, with a clock | `now`, `cache`, `inflight`, `req`, `start`, `issued`, `waitsOn`, `result` |
| `ExampleRun` | concurrent runs over instances of both | `phase`, `at` and theirs |
| `PolicyStrategy` | `isQuorumMet` and `decide` as operators | none |
| `PolicyBallot` | the coordinator's signal map under every policy | `policy`, `signals` |
| `DecisionSession` | coordinator, specialists and runtime of one session | `log`, `session`, `demo`, `read`, workers', coordinator's |
| `RegistryIndex` | the snapshot cache over files that are edited | `disk`, `cached`, `loading`, ... |
| `PackFiles` | the pack files, the loader's and the linter's view of them, `scenario:new` | `disk`, `links`, `edits` |
| `Trees` | the trees of YAML and JSON: look-up, defaults of a schema, spread | none |
| `TemplateResolver` | merging and substitution, which go down the trees | none |
| `Compiler` | `compile`, `getLaunchSchema` and `validate` over what authors and clients write | `schema`, `launch`, `template`, `fixtures`, `inputs` |
| `PolicyRegistrar` | policy registration at start-up, with crashes and restarts | `files`, `phase`, `boots`, `loaded`, `outcome`, `call`, `answer`, `wire`, `known`, `forgot` |
| `MC...` | the small instances the `.cfg` files use | |
| `..._proofs` | theorems and their proofs, for the supervisor, the minter, runs, the registry, the registrar, the session, the ballot and (`ScenarioFiles_proofs`) the compiler and the pack files | |

The correspondence of a definition to its lines is in `PROJECT.json`, `"map"`.

**Steps.** Node runs one callback at a time. An action of `LaunchSupervisor`,
`AuthTokenMinter`, `ExampleRun`, `RegistryIndex` or `PolicyRegistrar` is what runs between two
awaits, with every promise continuation it triggers that cannot be overtaken. `ExitEvent`
therefore contains the rest of each `stop()` that was waiting, and `Settle` contains the
`finally()` and the return to every caller. What the operating system or a remote service does
is a step of its own: `ChildExits` long before `ExitEvent`, `ServiceIssues` before
`RequestSucceeds`.

**`LaunchSupervisor`.** A launch request and its child share a name. `os` distinguishes a
child that died (`dead`) from one whose exit event was delivered (`reaped`), and a spawn that
failed from its `error` event. That event waits in Node's nextTick queue, hence
`TickQueueEmpty`: no other event or timer comes first, but another promise continuation may.
Bootstrap files are named by key and millisecond, so equal names are possible, as in the code.
`LaunchThrows` is a launch that throws synchronously, in writing the file or in `spawn`; it
leaves no record, and the bootstrap file stays if it was written by then.

**`AuthTokenMinter`.** A request goes by the name of the call that started it. The clock is in
seconds, and `Tick` may not pass a request's timeout. `Drift` is by how much the verifier's
clock may be ahead; the code knows nothing of it, and `SkewCovers` is the condition on the
configuration under which the skew window suffices. A grant is a lifetime that the answer
states or keeps to itself; in the latter case the minter assumes the lifetime it asked for
(`AskedTtl`), although the auth-service may have capped it, and `HitIsValid` says so
(`LifetimeKnown`). `Settle` also resets the bookkeeping of
a request that nothing reads any more (`start`, `issued`).

**`ExampleRun`.** `Scenario` gives each run its bindings, of five kinds that lead to the five
outcomes of `attach()`. A token's scopes are a function, the role's and mode's defaults
(`RoleScopes`) with the sender's overrides of `MACP_AUTH_SCOPES_JSON` merged over them
(`mergeScopes`; `Null` clears a scope). The actions of the two instances are conjoined with
the loop's position; `Resuming` keeps the clock still while a settled mint resumes its run, as
the code does. The service never calls `stop()`, so no such step appears.

**`DecisionSession`.** The runtime keeps one history and shows it to everyone in that order
(`hosting.service.ts` line 25-27 relies on the replay). It takes messages only in an open
session, and no Evaluation once a Vote is in (the workers' comment in
`langgraph_worker/main.py`, line 132-136). Each handler is one step up to its next RPC. An RPC
of the coordinator is answered, refused, lost on its way, or carried out with its answer lost;
the policy engine may deny a commitment. A worker may die at any moment. An opinion is the
framework's word, which is free-form, and a confidence; the evaluation and the vote read the
word each in its own way (`evalRecommendation`, `voteFor`), so that an approving evaluation
may go with a rejecting vote. Whether this session shows the suspension (`demo`) is chosen at
the start. Ambient Progress and Signal messages and `session.context` change no state and are
left out.

**`RegistryIndex`.** A file's contents are the number of edits it has seen. A load reads the
files one at a time; one that it cannot reach (the loader swallows the errors of `readdir`,
`stat` and `access`), or whose pack it drops, is `Missing` in a snapshot that is served all
the same. The properties compare the files that the snapshots have. `After` names, for a call
that is the second read of a caller (as in `compile()`, scenario then template), the first.
`editedAt` and `floor` are history variables for the properties.

**`PackFiles`.** Of a file counts whether it parses, whether it is of the kind its place asks
for, what it includes and, for a pack, its slug. The load is a function of the disk here, and
a process that edits overtake in `RegistryIndex`. The order of `FileAt` matters because the
first bad file of a pack decides between losing the pack and failing the load. The code walks
the includes with a set of the files it is in; `Loads` counts their depth instead, up to the
number of files, and `FailsExactly` proves that this comes to the same: a file fails to load
exactly if it belongs to files of which each is missing, broken, refuses an include, or
includes another of them, as in a circle. An include starts from the directory of the file's
version, of its pack, or of the packs root, so that a path into another version of the same
pack is relative to the pack's directory; what matters for a copy is which of the three moves
along. `links` are the directories that are symbolic links: the loader's `stat` follows them
(`PackDirs`), lint's directory entries do not (`LintPackDirs`). `Loaded` are the packs that load
without an error, `Snapshot` those that are served, that is, not replaced by a later pack of
the same slug; `Registry` are the scenarioRefs that resolve, none while the load fails. A step
is an edit or a call of `scenario:new`.

**`Trees`, `TemplateResolver`, `Compiler`.** Trees are leaves, objects, arrays, and strings with a
placeholder, alone or with text around it: the difference decides whether the value keeps its
type. The steps of `Compiler` are those of the author (schema, launch section, template,
fixtures) and of the client (inputs), so that TLC reaches every combination of a small
vocabulary. Session ids, timestamps and the requester are left out of the result. What
goes down a tree, `Compiler` takes as its constants `DeepMerge`, `Substitute`, `PlaceholdersIn`:
its properties do not depend on how that is done, and its theorems hold for any such operators.
`MCCompiler` gives them the definitions of `TemplateResolver`.

**`PolicyRegistrar`.** A file holds a policy id and rules, or is unusable. `wire` holds
registrations that were sent and not executed; the runtime may execute one after its sender
has given up or crashed. `forgot` is history: the runtime restarted since this start.
`Misworded` are policies whose refusal has "already" in its text, which is all that
`isAlreadyRegisteredError` looks at. `ClientThrows` is the constructor outside of any `try`.

## Runs

| Run | Question | Result |
|---|---|---|
| `SupervisorFresh` | with one launch per key (the service's own use), is a child, a file or a `stop()` ever lost? | holds; refines `AgentSlots` |
| `SupervisorRetry` | with three launches under one key, what can lose a live child or end a startup window early? | only the end of another record of that key |
| `SupervisorDedup` | is `launch()` deduplicated by key, as its test says? | **violated** |
| `Minter` | single flight, ownership and validity of tokens; is every caller served? | holds |
| `RunsMixedBindings` | three concurrent runs, all kinds of bindings, shutdown at any moment: do launches match the answers, and is every run answered? | holds |
| `PolicyDecides` | is `decide` monotone, deaf to low confidence, unanimous when it says so? | holds |
| `SessionDecides` | crashes, lost RPCs, expiry, the suspend demo: is the decision the one on the evaluations, taken once, and the session closed? | holds |
| `SessionHangs` | does the deadline keep the session from hanging, as its comment says? | **violated** |
| `RegistryServes` | staleness, order of two reads, order and liveness of the snapshot cache | holds |
| `PolicyRegistration` | is the start-up summary true, and does the service come to listen if no call stays open for ever? | holds |
| `Compile` | does the form show what a run is compiled to, and does what validates compile? | holds |
| `Packs` | where do lint and loader disagree, and what can `scenario:new` take from the service? | only as named below |

What `Packs` shows in words. When lint passes, the load can still fail or miss a pack, in three
ways: a `pack.yaml` or `scenario.yaml` is empty or of another `apiVersion` or `kind`
(`Foreign`); a pack behind a symbolic link, which lint has not looked at, makes the load throw;
a later pack has the same slug. `scenario:new` can take scenarioRefs from the service in three
ways (`LosesOnly`): what the loader newly reads in the directory makes the whole load throw,
and *every* scenarioRef is lost; it makes the loader drop that pack; or the directory becomes
a pack, and its name is the slug of another one. The first happens to a `--from` copy into
another pack with an include relative to the source's pack (`include-resolver.ts` lines 43-45,
`file-registry.loader.ts` line 61), to a starter whose shared files are gone, and to versions
that lay in a directory without `pack.yaml`. Into a directory that is `Ready`, a scaffold that
`Fits` takes nothing.

Every property of a passing run has a mutant in `PROJECT.json`: a plausible bug of the code
(it stands next to the definition it changes, marked "Mutant of") under which TLC finds the
property violated in the same run.

### Bounds, and why they are enough
- *Supervisor*: two keys show independence of keys; three requests for one key are the
  fewest for stop, relaunch and relaunch again. `MaxStops = 2` lets two `stop()` calls wait
  for one child. `MaxMs` is 0 or 1: the same millisecond, or a later one.
- *Minter*: three calls with one key (one requests, one joins, one comes later) and a fourth
  with other scopes. A stated lifetime of 4, and one of 1 that the answer does not state, of 4
  that are asked for, with a skew of 2, a timeout and a drift of 1, and time
  up to 3, so that an entry is fresh, in its skew window, and an answer can be late.
- *Runs*: three runs, `r1` with a repeated participant, `r2` whose third binding comes after
  one that throws, `r3` with an unknown agent. `p1` is the initiator in `r1` and `r3`, not in
  `r2`, where the mode is another one too, and has an override that sets one scope and clears
  another. Spawns succeed, fail, or throw. The clock stands still, so no cached token is used
  here: two runs share open requests, and cache hits are `Minter`'s subject (and the proof's,
  which covers both).
- *Policy*: three specialists (majorities and ties), confidences 0 to 2, thresholds 1/2, 0.67
  and 1, vetoes of 1 and 2, a floor or none, for every policy type. The specialists are
  interchangeable, hence the symmetry; no property here is a liveness property.
- *Session*: two specialists, one of which may crash, under a majority policy, for which one
  signal is a quorum: the coordinator can be early, forced, or complete. Opinions: a sure
  approval whose vote rejects (`ACCEPT`), a doubt whose vote approves, a rejection. Crashes,
  lost RPCs, expiry and the demo together make 2 million states, and a third specialist is out
  of reach with them; the safety properties of this run are proved for any set of specialists.
- *Registry*: three calls (two that load, join or hit, and the second read of one of them), one
  file and one edit, since each file is read and compared by itself; a TTL and a load time of
  1; a clock up to 4, two moments beyond the first at which an edit at 0 must show, enough
  for three loads one after the other.
- *Registration*: two policies, so that one can fail and the other succeed, of which one has
  a refusal that is taken for "already"; two rules, two
  files (which may hold the same id) and two starts, the fewest for a late request of the
  first start to meet the second.
- *Compile*: two inputs, one nested; each launch section absent or with a placeholder; two
  templates, of which one replaces participants and the other only a default; two fixtures at
  most, the fewest for a placeholder that only one of them satisfies.
- *Packs*: two directories with two versions, of which one may be a link, two shared files
  that may include each other, every form a file can have at each place; two edits from a
  small valid tree, and any number of calls of `scenario:new`, which end because versions are
  not overwritten.

Deadlock is not checked where the system may stop: every call answered and every child gone
is a legitimate end. `PolicyBallot` and `Compiler` never
end, and there it is checked.

### Fairness
- `LaunchSupervisor`: the event loop delivers events and fires armed timers (weak fairness of
  `ExitEvent`, `ErrorEvent`, `StartupTimer`, `StopTimeout`), and the kernel ends a child that
  got SIGKILL. Nobody must call `stop()`, a child need not heed SIGTERM, and the service need
  not shut down; the liveness properties allow for a service that has exited.
- `AuthTokenMinter`: a request settles, because `AbortSignal.timeout` aborts it if nothing else
  does. Nobody must call.
- `ExampleRun`: a run that was accepted is carried on, and mints settle. No run must be posted.
- `DecisionSession`: live workers go on, the stream is delivered, the timer fires, RPCs are
  answered. No fairness for crashes or for the session's TTL, so `SessionSettles` cannot be
  met by expiry.
- `RegistryIndex`: a load that is under way goes on.
- `PolicyRegistrar`: the mint settles by its timeout, and the loop goes on once its call has
  settled. Nothing makes `registerPolicy` settle, for the registrar sets no deadline: `Listens`
  has as its premise that no call stays open for ever (`CallsSettle`), and the runtime need not
  execute anything.
- `PolicyBallot`, `Compiler` and `PackFiles` claim no liveness: nobody has to edit a file.

## Findings

1. **A relaunch can lose a live child** (`SupervisorDedup`). The `exit` and `error` handlers
   and the end of `stop()` delete the key whoever holds it. Stop a participant, launch it
   again while the old child is still ending: the old child's exit removes the new record.
   The new child is then out of reach of `stop`, `stopRun` and `onModuleDestroy`, and a
   further launch starts a second live child of that key. `OrphanOnlyByRelaunch`, proved in
   general, says that there is no other way to lose one. Within one run it takes a
   participant bound twice and a spawn that fails the first time; `ExampleRun` states its
   properties up to exactly that (`FailedLaunch`).
2. **The deadline does not prevent a hang** (`SessionHangs`). `tryCommit(ctx, true)` still
   returns at the quorum check, and for the types `none` (the default) and `unanimous` the
   quorum is every specialist. With one of them dead the timer fires in vain and the session
   waits for its TTL. With a `majority` policy the forced commitment does happen.
Smaller observations, not run as findings.

*Hosting and registry.* A token from the cache may have little more than the skew window of
its lifetime left when an agent opens its stream with it. A run whose mint is answered after
`onModuleDestroy` starts a process that no shutdown will reach. When a run fails at its k-th
binding the agents before it keep running. With a registry TTL of 0 a request that joins a
load in flight can miss an edit made before it. A directory that cannot be read for a moment is
missing from the snapshot for a TTL. An auth-service that caps a lifetime without saying so
makes the minter serve tokens past their end. `invalidate()` has no caller; a load in flight
still fills the cache after it, although `docs/architecture.md` line 192 says that it forces a
reload.

*Session and policies.* `ABSTAIN` votes are filed as `REVIEW` by the coordinator, so the
strategy's exclusion of `ABSTAIN` from the denominator never applies to votes. The coordinator
counts evaluations as signals and so usually commits before any vote is cast, although its
comments speak of votes. With the threshold 0.67 two approvals of three do not reach the
"two-thirds" that `policies/policy.fraud.supermajority.json` describes. An edited policy file
comes back as "already", and the runtime keeps the old rules until it restarts. A
registration that fails is only logged, so that, unlike `docs/policy-authoring.md` lines
98-101 promise, a run can still meet an unknown policy. The service listens only after every
`registerPolicy` has settled, and sets none a deadline; a client that cannot be made ends the
process. A word that the workers do not know (or `ACCEPT`) becomes a rejecting vote beside a
doubtful (or approving) evaluation.

*Compiler and command line.* `docs/scenario-authoring.md` lines 150 and 164 speak of
commitments that the compiler forwards and substitutes; `compile()` does neither, while
`validate` checks their placeholders. `validate` does not check the placeholders of a
template's overrides, and takes a placeholder for reachable if any one fixture satisfies it.
`lint` does not look at `apiVersion` and `kind`: an empty `scenario.yaml` passes and loses its
pack. It says nothing of two packs with one slug, and does not look behind symbolic links. Its
search for unused files looks two levels of includes deep. `scenario:new` wakes
versions that lay in a directory without `pack.yaml`, and shadows another directory that has
claimed the slug; a copy into another pack keeps includes that lead nowhere there, which ends
every load; a `--from` that does not parse leaves an empty version directory, so that
the next try is refused. Versions are sorted as strings, so `10.0.0` comes before `2.0.0`.

## Proofs

`LaunchSupervisor_proofs` (assumption: `SupervisorAssumption`, which says no more than what
kinds of things the constants are):
- `TypeCorrect`: the type invariant is inductive.
- `LostOnlyByRelaunch`: `OrphanOnlyByRelaunch` is not inductive by itself. `TableInv` adds
  that an entry is under its own key, that an entry's record is not over (`failed`, `running`
  or `dead`), that a pending `stop()` has marked its record, that a marked record was spawned,
  and that a live child whose record is marked was signalled. The step that matters is
  `LaunchSpawn`: it overwrites an entry only if that entry has no live child or one that was
  told to end.
- `NobodyLost`: with a key for every request (`FreshKeys`: run ids are fresh UUIDs) the only
  way to lose a child is gone.
- `FilesFollowRecords`: under `FreshKeys`, from `TableInv` and the fact that a file's name
  carries its record's key.
- `EarlyHealth` (`EarlyHealthOnlyByRelaunch`): for any keys, while the service is up, a timer
  that fires for a later record of its key presupposes a record of that key that is over, and
  that stays so (`EndIsFinal`).
- `ImplementsAgentSlots`: the refinement. `SlotSteps` shows that a step which changes what
  one child shows changes one slot. The shutdown is the interesting case: it signals the
  children that are *in the table*, while `AgentSlots!Shutdown` ends every live slot. The two
  agree because of `NobodyLost`.

`AuthTokenMinter_proofs` (assumption: `MinterAssumption`):
- `TypeCorrect`, with the strengthening that an issued request has a token.
- `SingleFlight` and `NobodyForgotten`, from `FlightInv`: every open request is the one
  registered under its key, and every waiter waits for an open request of its own key.
- `OwnToken` and `CachedTokenIsValid`, from `AgeInv`: a token was issued after its request was
  sent, a request is no older than the timeout, and a cache entry's expiry is at most the
  timeout after the token's. `CachedTokenIsValid` assumes `SkewCovers`, that is timeout plus
  drift within the skew window, and speaks of tokens whose lifetime the minter knows. The
  defaults (5 s timeout, 10 s skew) leave 5 s for the drift.

`RegistryIndex_proofs` (assumption: `RegistryAssumption`, the kinds of the constants):
- `TypeCorrect`, and `NobodyForgotten`, which is inductive over the type invariant: a call that
  starts a load or joins one was idle, so no waiter changes hands.
- `EditsShow` (`EditsShowInTime`), from `StaleInv`. `ClockInv`: a load is no older than
  `MaxLoad`, and a call that joined it asked at most `MaxLoad` after it. `LoadSees`: what a load
  has read has every edit made before the load was asked for. `CacheSees`: the snapshot has
  every edit made more than `MaxLoad` before it was stored. For a hit, due means more than
  `MaxLoad` before `cachedAt`, because less than a TTL has passed since; for a joiner, due
  means before the load. With `Ttl = 0` there are no hits, and a joiner may have asked
  `MaxLoad` after its load to the moment: an edit at that very moment of the load's start is
  not yet due, hence the strict comparison in `Due`.
- `ServesForward` (`NeverGoesBack`), from `ForwardInv`: until somebody invalidates, the load in
  flight is the only one, and what it has read, of a file it did not miss, is no older than
  what the snapshot it replaces has of it.
  `invalidate()` forgets the load in flight without stopping it; from then on two loads can
  overlap and the older one can be the last to store. That is why the property stops there.

- `ReadsInOrder` (`LaterReadNotOlder`), from `LaterInv`: no contents that were served are newer
  than the snapshot (`CachedIsNewest`), and a second read begins after the first was answered
  (`InTurn`). Like `NeverGoesBack` it ends with the first `invalidate()`.

`MaxLoad` is an assumption about the file system, not about the code: `loadAll()` has no
timeout. It is the guard of `Tick`.

`ExampleRun_proofs` (assumption: `RunAssumption`: scenarios are finite sequences of bindings,
the "none" values are not requests, and times are naturals), all from `RunInv`, for any
scenarios and number of runs. It has three parts and shows how the components fit together
(`StepsOfParts`: every step of the composition is a step, or none, of each part):
- `MintInv`: what is issued, cached, shared and returned under a key is of that key.
- `TableInv`: an entry is a launch of its key, and a child whose key has seen no failed launch
  keeps its entry until its exit is heard of. This needs that no one calls `stop()`.
- `LoopInv`: the loop has come past what it has launched, and past an attached binding only
  with the participant's process launched.

`LaunchesAgree` (`LaunchesMatchOutcome`) and `LaunchesWithOwnToken` (`LaunchedWithOwnToken`)
follow from the third, the latter with the first; `OneAgentEach` (`OneAgentPerParticipant`) and
`ShutdownReachesAll` (`ShutdownTellsEveryAgent`) from the second.

`RunsUseParts` is the same argument for whole behaviours: runs of any scenarios are behaviours
of the minter, with the bindings as its calls, and of the supervisor, with the bindings as its
requests. The theorems about each part are then instantiated (`MintProofs`, `SupProofs`, after
showing that `RunAssumption` gives what they assume) and hold of the runs:
- `RunsShareRequests`: `OneRequestPerKey` and `WaitersAreServed` among the runs.
- `RunsGetValidTokens`: `HitIsValid`, under `SkewCovers`.
- `RunsLoseNobody`: `OrphanOnlyByRelaunch`, with no condition on the scenarios.
- `RunsImplementSlots`: if every scenario binds a participant once (`BoundOnce`), the runs
  implement `AgentSlots`, whatever fails in them. The condition is needed: of a participant
  bound twice the second launch can come after the shutdown has told the first child to end
  and before that child is dead.

`PolicyRegistrar_proofs` (assumption: `RegistrarAssumption`): `TypeCorrect`, and `TrueSummary`
(`SummaryIsTrue`). `AnswerInv` says that an answer belongs to the call that is awaited and is
true of its policy, `WireInv` that a request with this start's number carries the rules this
start has read. The step that matters is the late execution of a request of an earlier start:
it may change `known`, but only for a policy the runtime did not have, and is not taken for
the answer to this start's request.

`DecisionSession_proofs` (assumption: `SessionAssumption`), for any set of specialists, any
policy, any opinions, crashes and faults:
- `TypeCorrect`, with `LogInv`: nobody has read beyond the log.
- `VotesAfterEvaluations` (`EvaluationsBeforeVotes`): a vote's sender had seen every peer's
  evaluation in the log (`SeenInv`), hence it is there before the vote.
- `NothingLeftOpen` (`LeavesNothingOpen`), inductive over the type invariant.
- `CommitsOnlyOnce` (`CommitsOnce`), from `DecisionInv`: there is no decision before the
  coordinator's own vote is due.
- `NeverEarly` (`EarlyOnlyByDeadline`), from `ProposalInv`: until the coordinator has handled
  the Proposal, the first and only one, there is neither a timer nor a decision to make.
- `DecidesOnEvaluations` (`DecidedOnEvaluations`), the deepest one, from `SessionInv` with the
  further parts `OwnInv`, `WaitInv` and `DecidedInv`. When the coordinator decides unforced, it
  had not heard everybody up to the message it decides on. So somebody had not evaluated
  before that message, so by the barrier nobody has voted in what it has read, so its signals
  are the evaluations.

`PolicyBallot_proofs` (assumption: `BallotAssumption`, thresholds and floors are naturals), for
any set of specialists and policies: `UnanimousMeansAll`, `LowConfidenceMute` and
`TurningInFavourHelps` (`UnanimityNeedsAll`, `LowConfidenceIsMute`, `FavourIsMonotone`).
`decide` sees a ballot only through some sets of specialists (`DecideBySets`): who was heard,
who objected, who says what. `SetsMove` says how a signal that turns in favour moves them, and
`RateStays` is the arithmetic of the rate rule: a rate of approvals that is reached stays so
with more approvals of no more ballots, and with one approval and one ballot more.

`ScenarioFiles_proofs`, on the compiler (assumption: `CompilerAssumption`: a launch section may
have participants, a placeholder is a path of strings, and what JSON sends holds no
`undefined`), for any vocabulary of schemas, templates and inputs and any `DeepMerge` and
`Substitute`:
- `FormMatches` (`FormMatchesRun`): the form and the run merge the scenario and the template in
  code of their own, and apply the client's inputs at different moments; `FormShowsRun` follows
  each key of both. Reachability of a value is by `resolvePath`, a descent along a path, so that
  `DescentsMeet` and `SpreadKeepsReachable` compare two descents step by step.
- `Validated` (`ValidatedCompiles`), from the same lemmas: what `validate` looks up in any
  fixture `compile` finds in the one there is.

On the pack files (assumption: `PackFilesAssumption`: names are listed once, no name stands for
two places, a disk has finitely many files, and each is absent or of a form the loader knows),
for any packs, versions, includes and contents:
- `LoadsOver`, `FailsExactly`: what `Loads` means, see above. The first is a count: as long as
  another level of includes lets one more file load, there are more files than levels, so
  after as many levels as there are files nothing more comes.
- `LintAgrees` (`LintAgreesWithLoad`), from `DiskInv` (which files there can be): the loader's
  list of files and the linter's are compared file by file (`ReadFacts`).
- `NewAdds` (`NewOnlyAdds`). A disk that has for every file of another one of the same content,
  whose includes correspond, loads what the other loads (`SimulationLoads`). It is applied
  twice: what there was loads as before, and a copy that fits loads where its source did
  (`CopiesLoad`), each file corresponding to its copy and every other to itself. Hence a pack
  that loaded or was dropped can fare worse only by a file that is newly read in it
  (`EffectOfReads`), which is in the directory of the new version (`NewFates`). The rest is
  about names: which pack shadows which before and after (`NewShadows`).

Their inductions (over the levels of includes, over the keys of a path) are by the least number
for which a claim fails, `InductionOverSet`: a set of naturals in place of the predicate that
the induction rules of the library take.

What is only model-checked: all liveness (`StopCompletes`, `StartupSettles`, `CallsSettle`,
`RunsAnswer`, `SessionSettles`, `Listens`) and with it fairness and `ENABLED`; what
`TemplateResolver`'s recursive `deepMerge` and `substitute` compute, which only `Compile` runs;
`SupervisorDedup`'s and `SessionHangs`' counterexamples, which are TLC's. Every invariant and
every action property of a passing run, the type invariants among them, is proved for all
constants.

## Plan

Done: the modules above, in the order supervisor, minter, runs, policy, session, registry,
registrar, compiler, pack files, and the proofs of their safety properties.

What could come next:
1. `AgentSlots` for a participant that a scenario binds twice: it needs a slot that can be told
   to end and be live again after the shutdown.
2. `PackFiles` with a load that takes time, so that an edit in the middle of it can produce a
   snapshot no state of the disk corresponds to; today that is `RegistryIndex`'s subject, file
   by file.
3. Decisions of three specialists under crashes, once TLC has the room; the proofs cover their
   safety, not `SessionSettles`.
4. The remaining hazards without a property (`PROJECT.json`), each with its reason there.
