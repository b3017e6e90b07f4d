--------------------------- MODULE LaunchSupervisor ---------------------------
(***************************************************************************)
(* The process table of src/src/hosting/launch-supervisor.ts: one Node     *)
(* event loop that starts, watches and terminates the agent processes of   *)
(* the runs, and the bootstrap files it hands to them.                     *)
(*                                                                         *)
(* A step is one run of the event loop between two awaits: a call of a     *)
(* public method up to its first await, a child's event with every         *)
(* listener and promise continuation it triggers, or a timer callback.     *)
(* The operating system's side (a child dies) is a step of its own, so a   *)
(* child may be dead long before its 'exit' event is delivered.            *)
(*                                                                         *)
(* A request to launch is a member of Attach.  It starts at most one       *)
(* child, and that child (with its SupervisedProcess record) goes by the   *)
(* name of the request.                                                    *)
(***************************************************************************)
EXTENDS Naturals

CONSTANTS
    Attach,    \* launch requests, and the children they start
    Key,       \* the 'runId:participantId' keys
    KeyOf,     \* the key of each request
    NoChild,   \* no entry in the process table
    SpawnOutcomes,  \* what spawn() may come to: "running", "failed" or either
    MaxMs,     \* bound: Date.now() readings are 0 .. MaxMs
    MaxStops   \* bound: stop() calls pending on one child at a time

ASSUME SupervisorAssumption ==
    /\ KeyOf \in [Attach -> Key]
    /\ NoChild \notin Attach
    /\ SpawnOutcomes \subseteq {"running", "failed"}
    /\ MaxMs \in Nat
    /\ MaxStops \in Nat

VARIABLES
    processes,  \* the Map: key -> the record it holds, or NoChild
    health,     \* record.healthStatus
    os,         \* what became of the request and of the child's OS process
    signals,    \* the signals sent to the child while it was running
    file,       \* record.bootstrapFilePath, a <<key, millisecond>> name
    files,      \* the bootstrap files on disk
    stops,      \* stop() calls that await the child's exit
    timers,     \* children whose startup timer is still armed
    ms,         \* the last Date.now() that named a file
    service     \* "up", "destroyed" (onModuleDestroy has run) or "exited"

vars == <<processes, health, os, signals, file, files, stops, timers, ms, service>>

FileName == Key \X (0 .. MaxMs)

\* "idle": not called yet.  "deduped": answered with the existing record, and
\* no child started.  "refused": the call threw before it had a child.
\* "failed"/"errored": spawn failed, and its 'error' event is pending/delivered.
\* "dead"/"reaped": exited, 'exit' event pending/delivered.
OsState == {"idle", "deduped", "refused", "failed", "errored", "running", "dead", "reaped"}
HealthStatus == {"starting", "healthy", "unhealthy", "stopped"}

Spawned(a) == os[a] \in {"failed", "errored", "running", "dead", "reaped"}
HasPid(a)  == os[a] \in {"running", "dead", "reaped"}
Tracked(a) == processes[KeyOf[a]] = a
Signalled(a) == "SIGTERM" \in signals[a]

\* The 'error' of a failed spawn waits on the nextTick queue, which is drained
\* before the loop takes another event or timer: only promise continuations
\* (another launch, another stop) still come before it.
TickQueueEmpty == \A a \in Attach : os[a] # "failed"

Init ==
    /\ processes = [k \in Key |-> NoChild]
    /\ health = [a \in Attach |-> "starting"]
    /\ os = [a \in Attach |-> "idle"]
    /\ signals = [a \in Attach |-> {}]
    /\ file = [a \in Attach |-> <<KeyOf[a], 0>>]
    /\ files = {}
    /\ stops = [a \in Attach |-> 0]
    /\ timers = {}
    /\ ms = 0
    /\ service = "up"

-----------------------------------------------------------------------------
\* Mutant of Kill: only records that are healthy are signalled.
KillHealthy(cs, signal) ==
    [a \in Attach |->
        IF a \in cs /\ os[a] = "running" /\ health[a] # "starting"
        THEN signals[a] \cup {signal} ELSE signals[a]]

\* Mutant of Kill: child.killed is taken for dead, so SIGKILL never follows SIGTERM.
KillOnce(cs, signal) ==
    [a \in Attach |->
        IF a \in cs /\ os[a] = "running" /\ signals[a] = {} THEN {signal} ELSE signals[a]]

\* kill(signal): delivered only to a live child; on a dead one it returns false.
Kill(cs, signal) ==
    [a \in Attach |->
        IF a \in cs /\ os[a] = "running" THEN signals[a] \cup {signal} ELSE signals[a]]

\* Mutant of CleanupBootstrapFile: the unlink is forgotten.
KeepBootstrapFile(cs) == files

\* cleanupBootstrapFile() of some records.
CleanupBootstrapFile(cs) == files \ {file[a] : a \in cs}

\* Mutant of AlreadyRunning: only a record past its startup window counts.
AlreadyHealthy(k) == processes[k] # NoChild /\ health[processes[k]] = "healthy"

\* The existing record makes launch() (and attach() before it) return early.
AlreadyRunning(k) ==
    /\ processes[k] # NoChild
    /\ HasPid(processes[k])
    /\ health[processes[k]] # "stopped"

\* The file is named before launch() looks for an existing record.  Two names
\* of one key collide when they are made in the same millisecond.
WriteBootstrapFile(a, t) ==
    /\ t >= ms
    /\ ms' = t
    /\ file' = [file EXCEPT ![a] = <<KeyOf[a], t>>]
    /\ files' = files \cup {<<KeyOf[a], t>>}

\* The provider writes the file and calls launch() without an await between.
LaunchExisting(a) ==
    /\ service # "exited"
    /\ os[a] = "idle"
    /\ AlreadyRunning(KeyOf[a])
    /\ \E t \in 0 .. MaxMs : WriteBootstrapFile(a, t)
    /\ os' = [os EXCEPT ![a] = "deduped"]
    /\ UNCHANGED <<processes, health, signals, stops, timers, service>>

LaunchSpawn(a) ==
    /\ service # "exited"
    /\ os[a] = "idle"
    /\ ~AlreadyRunning(KeyOf[a])
    /\ \E t \in 0 .. MaxMs : WriteBootstrapFile(a, t)
    /\ \E outcome \in SpawnOutcomes : os' = [os EXCEPT ![a] = outcome]
    /\ processes' = [processes EXCEPT ![KeyOf[a]] = a]
    /\ health' = [health EXCEPT ![a] = "starting"]
    /\ timers' = timers \cup {a}
    /\ UNCHANGED <<signals, stops, service>>

\* writeBootstrapFile(), prepareLaunch() or spawn() throws: no record is made, and
\* the file stays if it was written by then.
LaunchThrows(a) ==
    /\ service # "exited"
    /\ os[a] = "idle"
    /\ \/ \E t \in 0 .. MaxMs : WriteBootstrapFile(a, t)
       \/ UNCHANGED <<ms, file, files>>
    /\ os' = [os EXCEPT ![a] = "refused"]
    /\ UNCHANGED <<processes, health, signals, stops, timers, service>>

\* stop() up to its await: the record is marked, the child is asked to end.
Stop(a) ==
    /\ service # "exited"
    /\ Tracked(a)
    /\ stops[a] < MaxStops
    /\ health' = [health EXCEPT ![a] = "stopped"]
    /\ signals' = Kill({a}, "SIGTERM")
    /\ stops' = [stops EXCEPT ![a] = @ + 1]
    /\ UNCHANGED <<processes, os, file, files, timers, ms, service>>

\* The rest of stop() when the wait ran out: SIGKILL, then the record's file and
\* whatever the key holds by now are deleted.
StopTimeout(a) ==
    /\ service # "exited"
    /\ TickQueueEmpty
    /\ stops[a] > 0
    /\ signals' = Kill({a}, "SIGKILL")
    /\ files' = CleanupBootstrapFile({a})
    /\ processes' = [processes EXCEPT ![KeyOf[a]] = NoChild]
    /\ stops' = [stops EXCEPT ![a] = @ - 1]
    /\ UNCHANGED <<health, os, file, timers, ms, service>>

\* Mutant of ExitEvent: one waiting stop() resumes, whether there is one or not.
ExitResumesOne(a) ==
    /\ service # "exited"
    /\ TickQueueEmpty
    /\ os[a] = "dead"
    /\ os' = [os EXCEPT ![a] = "reaped"]
    /\ health' = [health EXCEPT ![a] = "stopped"]
    /\ files' = CleanupBootstrapFile({a})
    /\ processes' = [processes EXCEPT ![KeyOf[a]] = NoChild]
    /\ stops' = [stops EXCEPT ![a] = @ - 1]
    /\ UNCHANGED <<signals, file, timers, ms, service>>

\* 'exit': the handler, and the rest of every stop() that waited for it.
ExitEvent(a) ==
    /\ service # "exited"
    /\ TickQueueEmpty
    /\ os[a] = "dead"
    /\ os' = [os EXCEPT ![a] = "reaped"]
    /\ health' = [health EXCEPT ![a] = "stopped"]
    /\ files' = CleanupBootstrapFile({a})
    /\ processes' = [processes EXCEPT ![KeyOf[a]] = NoChild]
    /\ stops' = [stops EXCEPT ![a] = 0]
    /\ UNCHANGED <<signals, file, timers, ms, service>>

\* 'error' of a spawn that failed: the file stays.
ErrorEvent(a) ==
    /\ service # "exited"
    /\ os[a] = "failed"
    /\ os' = [os EXCEPT ![a] = "errored"]
    /\ health' = [health EXCEPT ![a] = "unhealthy"]
    /\ processes' = [processes EXCEPT ![KeyOf[a]] = NoChild]
    /\ UNCHANGED <<signals, file, files, stops, timers, ms, service>>

\* Mutant of StartupTimer: the record is not updated.
StartupTimerForgets(a) ==
    /\ service # "exited"
    /\ TickQueueEmpty
    /\ a \in timers
    /\ timers' = timers \ {a}
    /\ UNCHANGED <<processes, health, os, signals, file, files, stops, ms, service>>

\* The timer looks the record up by key, so it may find a later one.
StartupTimer(a) ==
    /\ service # "exited"
    /\ TickQueueEmpty
    /\ a \in timers
    /\ timers' = timers \ {a}
    /\ health' = [b \in Attach |->
                    IF processes[KeyOf[a]] = b /\ health[b] = "starting"
                    THEN "healthy" ELSE health[b]]
    /\ UNCHANGED <<processes, os, signals, file, files, stops, ms, service>>

\* onModuleDestroy() runs for the supervisor and again through the provider;
\* the second run finds an empty map.
OnModuleDestroy ==
    /\ service = "up"
    /\ TickQueueEmpty
    /\ service' = "destroyed"
    /\ signals' = Kill({a \in Attach : Tracked(a)}, "SIGTERM")
    /\ files' = CleanupBootstrapFile({a \in Attach : Tracked(a)})
    /\ processes' = [k \in Key |-> NoChild]
    /\ UNCHANGED <<health, os, file, stops, timers, ms>>

\* Nest re-raises the signal once its shutdown hooks are done.
ServiceExit ==
    /\ service = "destroyed"
    /\ TickQueueEmpty
    /\ service' = "exited"
    /\ UNCHANGED <<processes, health, os, signals, file, files, stops, timers, ms>>

\* A child ends: on its own, by a crash, or because it was told to.
ChildExits(a) ==
    /\ os[a] = "running"
    /\ os' = [os EXCEPT ![a] = "dead"]
    /\ UNCHANGED <<processes, health, signals, file, files, stops, timers, ms, service>>

Next ==
    \/ \E a \in Attach :
          \/ LaunchExisting(a)
          \/ LaunchSpawn(a)
          \/ LaunchThrows(a)
          \/ Stop(a)
          \/ StopTimeout(a)
          \/ ExitEvent(a)
          \/ ErrorEvent(a)
          \/ StartupTimer(a)
          \/ ChildExits(a)
    \/ OnModuleDestroy
    \/ ServiceExit

Spec == Init /\ [][Next]_vars

\* The event loop delivers what is pending and fires armed timers; the kernel
\* ends a child that was sent SIGKILL.  Nobody has to call stop() or to shut the
\* service down, and a child may ignore SIGTERM for ever.
Fairness ==
    \A a \in Attach :
        /\ WF_vars(StopTimeout(a))
        /\ WF_vars(ExitEvent(a))
        /\ WF_vars(ErrorEvent(a))
        /\ WF_vars(StartupTimer(a))
        /\ WF_vars("SIGKILL" \in signals[a] /\ ChildExits(a))

FairSpec == Spec /\ Fairness

-----------------------------------------------------------------------------
\* The promise behind the table: an agent is live until it is told to end or dies,
\* and a shutdown tells every live agent.
slot ==
    [k \in Key |->
        IF \E a \in Attach : KeyOf[a] = k /\ os[a] = "running" /\ ~Signalled(a) THEN "live"
        ELSE IF \E a \in Attach : KeyOf[a] = k /\ os[a] = "running" THEN "ending"
        ELSE "empty"]

Slots == INSTANCE AgentSlots WITH slot <- slot, open <- (service = "up")

ImplementsSlots == Slots!Spec

\* No two requests share a key: runId is a fresh UUID for every run, and a
\* participant is bound once in a run.
FreshKeys == \A a, b \in Attach : KeyOf[a] = KeyOf[b] => a = b

TypeOK ==
    /\ processes \in [Key -> Attach \cup {NoChild}]
    /\ health \in [Attach -> HealthStatus]
    /\ os \in [Attach -> OsState]
    /\ signals \in [Attach -> SUBSET {"SIGTERM", "SIGKILL"}]
    /\ file \in [Attach -> FileName]
    /\ files \in SUBSET FileName
    /\ stops \in [Attach -> 0 .. MaxStops]
    /\ timers \in SUBSET Attach
    /\ ms \in 0 .. MaxMs
    /\ service \in {"up", "destroyed", "exited"}

\* A child that escaped the table: alive, never signalled and under no key, so
\* neither stop(), stopRun() nor onModuleDestroy() can reach it any more.
Orphan(a) == os[a] = "running" /\ ~Tracked(a) /\ ~Signalled(a)

\* The record's life is over for the table: it exited, failed or is being stopped.
Ended(a) == health[a] \in {"stopped", "unhealthy"}

\* A live child leaves the table unsignalled only through the end of another record
\* of its key, whose exit, error or stop() deletes the key whoever holds it: no other
\* path of the supervisor can lose a process.
OrphanOnlyByRelaunch ==
    \A a \in Attach :
        Orphan(a) => \E b \in Attach \ {a} : KeyOf[b] = KeyOf[a] /\ Ended(b)

\* With a key of its own, a live child is in the table or has been told to end:
\* the exit, error, stop, timeout and shutdown paths together lose nobody.
NoOrphan == \A a \in Attach : ~Orphan(a)

\* A child under its key has its bootstrap file (it reads the file after it has
\* started); a file outlives its record only when the spawn failed.
BootstrapFileLife ==
    \A a \in Attach : Spawned(a) =>
        /\ Tracked(a) => file[a] \in files
        /\ file[a] \in files => Tracked(a) \/ os[a] = "errored"

\* A startup timer looks its record up by key, so one that outlives its record may
\* find a later one and end that one's startup window early.  While the service is
\* up this takes the end of another record of the key: launch() hands a key on only
\* when its record is over, however often it is called.
EarlyHealthOnlyByRelaunch ==
    \A a \in Attach :
        health[a] = "healthy" /\ a \in timers =>
            \/ service # "up"
            \/ \E b \in Attach \ {a} : KeyOf[b] = KeyOf[a] /\ Ended(b)

\* launch() is deduplicated by key: no two children of one key are live and
\* unsignalled, else two processes would speak for one participant.
Deduplicated ==
    \A a, b \in Attach :
        /\ a # b /\ KeyOf[a] = KeyOf[b]
        /\ os[a] = "running" /\ os[b] = "running"
        => Signalled(a) \/ Signalled(b)

\* A stop() call ends: its child is dead or never existed and its key is free,
\* unless the service goes away before the timeout.
StopCompletes ==
    \A a \in Attach :
        stops[a] > 0 ~> \/ os[a] \in {"dead", "reaped", "errored"} /\ ~Tracked(a)
                        \/ service = "exited"

\* A record does not stay in the table as 'starting'.
StartupSettles ==
    \A a \in Attach :
        Tracked(a) ~> ~Tracked(a) \/ health[a] # "starting" \/ service = "exited"
=============================================================================
