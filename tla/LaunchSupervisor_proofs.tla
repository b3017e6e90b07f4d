------------------------ MODULE LaunchSupervisor_proofs ------------------------
(***************************************************************************)
(* Proofs about the process table, for any requests, keys and bounds.      *)
(***************************************************************************)
EXTENDS LaunchSupervisor, TLAPS

\* Every variable keeps the shape its declaration gives it, whatever the
\* interleaving of calls, events and timers.
THEOREM TypeCorrect == Spec => []TypeOK
<1> USE SupervisorAssumption
<1>1. Init => TypeOK
  BY DEF Init, TypeOK, FileName, HealthStatus, OsState
<1>2. TypeOK /\ [Next]_vars => TypeOK'
  <2> SUFFICES ASSUME TypeOK, [Next]_vars PROVE TypeOK'
    OBVIOUS
  <2> USE DEF TypeOK, FileName, HealthStatus, OsState, Kill, CleanupBootstrapFile
  <2>1. ASSUME NEW a \in Attach, LaunchExisting(a) PROVE TypeOK'
    BY <2>1 DEF LaunchExisting, WriteBootstrapFile
  <2>2. ASSUME NEW a \in Attach, LaunchSpawn(a) PROVE TypeOK'
    BY <2>2 DEF LaunchSpawn, WriteBootstrapFile
  <2>3. ASSUME NEW a \in Attach, Stop(a) PROVE TypeOK'
    BY <2>3 DEF Stop
  <2>4. ASSUME NEW a \in Attach, StopTimeout(a) PROVE TypeOK'
    BY <2>4 DEF StopTimeout
  <2>5. ASSUME NEW a \in Attach, ExitEvent(a) PROVE TypeOK'
    BY <2>5 DEF ExitEvent
  <2>6. ASSUME NEW a \in Attach, ErrorEvent(a) PROVE TypeOK'
    BY <2>6 DEF ErrorEvent
  <2>7. ASSUME NEW a \in Attach, StartupTimer(a) PROVE TypeOK'
    BY <2>7 DEF StartupTimer
  <2>8. ASSUME NEW a \in Attach, ChildExits(a) PROVE TypeOK'
    BY <2>8 DEF ChildExits
  <2>9. CASE OnModuleDestroy
    BY <2>9 DEF OnModuleDestroy
  <2>10. CASE ServiceExit
    BY <2>10 DEF ServiceExit
  <2>11. ASSUME NEW a \in Attach, LaunchThrows(a) PROVE TypeOK'
    BY <2>11 DEF LaunchThrows, WriteBootstrapFile
  <2>12. CASE UNCHANGED vars
    BY <2>12 DEF vars
  <2>13. QED
    BY <2>1, <2>2, <2>3, <2>4, <2>5, <2>6, <2>7, <2>8, <2>9, <2>10, <2>11, <2>12 DEF Next
<1>3. QED
  BY <1>1, <1>2, PTL DEF Spec

-----------------------------------------------------------------------------
\* What OrphanOnlyByRelaunch rests on: a record under a key is not over, a pending
\* stop() has marked its record, and a live child whose record is marked was signalled.
EntryIsOwn == \A k \in Key : processes[k] # NoChild => KeyOf[processes[k]] = k

EntryIsPresent == \A a \in Attach : Tracked(a) => os[a] \in {"failed", "running", "dead"}

EndedByCause ==
    \A a \in Attach :
        /\ stops[a] > 0 => Ended(a)
        /\ Ended(a) => Spawned(a)
        /\ os[a] = "running" /\ Ended(a) => Signalled(a)

TableInv == TypeOK /\ EntryIsOwn /\ EntryIsPresent /\ EndedByCause /\ OrphanOnlyByRelaunch

\* The table invariant holds initially and is kept by every step.
LEMMA TableInvInductive ==
    /\ Init => TableInv
    /\ TableInv /\ TypeOK' /\ [Next]_vars => TableInv'
<1> USE SupervisorAssumption
<1> USE DEF Tracked, Spawned, Signalled, Ended, Orphan
<1>1. Init => TableInv
  <2>1. Init => TypeOK
    BY DEF Init, TypeOK, FileName, HealthStatus, OsState
  <2>2. QED
    BY <2>1 DEF Init, TableInv, EntryIsOwn, EntryIsPresent, EndedByCause,
                OrphanOnlyByRelaunch
<1>2. ASSUME TableInv, TypeOK', [Next]_vars PROVE TableInv'
  <2> USE <1>2
  <2> USE DEF TableInv, TypeOK, Kill
  <2>1. EntryIsOwn'
    <3>1. ASSUME NEW a \in Attach, LaunchSpawn(a) PROVE EntryIsOwn'
      BY <3>1 DEF LaunchSpawn, EntryIsOwn
    <3>2. CASE \A k \in Key : processes'[k] \in {processes[k], NoChild}
      BY <3>2 DEF EntryIsOwn
    <3>3. ASSUME NEW a \in Attach,
                 \/ LaunchExisting(a) \/ LaunchThrows(a) \/ Stop(a) \/ StopTimeout(a)
                 \/ ExitEvent(a) \/ ErrorEvent(a) \/ StartupTimer(a) \/ ChildExits(a)
          PROVE  \A k \in Key : processes'[k] \in {processes[k], NoChild}
      BY <3>3 DEF LaunchExisting, LaunchThrows, Stop, StopTimeout, ExitEvent, ErrorEvent,
                  StartupTimer, ChildExits
    <3>4. CASE OnModuleDestroy \/ ServiceExit \/ UNCHANGED vars
      BY <3>4 DEF OnModuleDestroy, ServiceExit, vars, EntryIsOwn
    <3>5. QED
      BY <3>1, <3>2, <3>3, <3>4 DEF Next
  <2>2. EntryIsPresent'
    <3> USE DEF EntryIsPresent
    <3>1. ASSUME NEW a \in Attach, LaunchSpawn(a) PROVE EntryIsPresent'
      <4>1. PICK outcome \in SpawnOutcomes :
               /\ os' = [os EXCEPT ![a] = outcome]
               /\ processes' = [processes EXCEPT ![KeyOf[a]] = a]
        BY <3>1 DEF LaunchSpawn
      <4>2. outcome \in {"failed", "running"}
        OBVIOUS
      <4>3. os \in [Attach -> OsState] /\ processes \in [Key -> Attach \cup {NoChild}]
        OBVIOUS
      <4>4. EntryIsPresent
        OBVIOUS
      <4> HIDE <1>2 DEF TypeOK, TableInv
      <4>5. QED
        BY <4>1, <4>2, <4>3, <4>4
    <3>2. ASSUME NEW a \in Attach,
                 LaunchExisting(a) \/ LaunchThrows(a) \/ Stop(a) \/ ChildExits(a)
          PROVE  EntryIsPresent'
      BY <3>2 DEF LaunchExisting, LaunchThrows, Stop, ChildExits, AlreadyRunning
    <3>3. ASSUME NEW a \in Attach, StopTimeout(a) \/ ExitEvent(a) \/ ErrorEvent(a)
          PROVE  EntryIsPresent'
      BY <3>3 DEF StopTimeout, ExitEvent, ErrorEvent
    <3>4. ASSUME NEW a \in Attach, StartupTimer(a) PROVE EntryIsPresent'
      BY <3>4 DEF StartupTimer
    <3>5. CASE OnModuleDestroy \/ ServiceExit \/ UNCHANGED vars
      BY <3>5 DEF OnModuleDestroy, ServiceExit, vars
    <3>6. QED
      BY <3>1, <3>2, <3>3, <3>4, <3>5 DEF Next
  <2>3. EndedByCause'
    <3> USE DEF EndedByCause
    <3>1. ASSUME NEW a \in Attach, LaunchExisting(a) \/ LaunchSpawn(a) \/ LaunchThrows(a)
          PROVE  EndedByCause'
      BY <3>1 DEF LaunchExisting, LaunchSpawn, LaunchThrows
    <3>2. ASSUME NEW a \in Attach, Stop(a) PROVE EndedByCause'
      BY <3>2 DEF Stop, EntryIsPresent
    <3>3. ASSUME NEW a \in Attach, StopTimeout(a) PROVE EndedByCause'
      BY <3>3 DEF StopTimeout
    <3>4. ASSUME NEW a \in Attach, ExitEvent(a) \/ ErrorEvent(a) PROVE EndedByCause'
      BY <3>4 DEF ExitEvent, ErrorEvent
    <3>5. ASSUME NEW a \in Attach, StartupTimer(a) PROVE EndedByCause'
      BY <3>5 DEF StartupTimer
    <3>6. ASSUME NEW a \in Attach, ChildExits(a) PROVE EndedByCause'
      BY <3>6 DEF ChildExits
    <3>7. CASE OnModuleDestroy \/ ServiceExit \/ UNCHANGED vars
      BY <3>7 DEF OnModuleDestroy, ServiceExit, vars
    <3>8. QED
      BY <3>1, <3>2, <3>3, <3>4, <3>5, <3>6, <3>7 DEF Next
  <2>4. OrphanOnlyByRelaunch'
    <3> USE DEF OrphanOnlyByRelaunch
    <3>1. ASSUME NEW a \in Attach, LaunchExisting(a) \/ LaunchThrows(a)
          PROVE  OrphanOnlyByRelaunch'
      BY <3>1 DEF LaunchExisting, LaunchThrows
    \* An entry that is overwritten has no live child, or one told to end.
    <3>2. ASSUME NEW a \in Attach, LaunchSpawn(a) PROVE OrphanOnlyByRelaunch'
      <4>1. \A b \in Attach : b # a /\ Orphan(b)' => Orphan(b)
        BY <3>2 DEF LaunchSpawn, AlreadyRunning, HasPid, EndedByCause
      <4>2. ~Orphan(a)'
        BY <3>2 DEF LaunchSpawn
      <4>3. \A b \in Attach : Ended(b) => b # a /\ Ended(b)'
        BY <3>2 DEF LaunchSpawn, EndedByCause
      <4>4. QED
        BY <4>1, <4>2, <4>3
    <3>3. ASSUME NEW a \in Attach, Stop(a) PROVE OrphanOnlyByRelaunch'
      BY <3>3 DEF Stop
    \* The record whose end deletes the key has itself ended.
    <3>4. ASSUME NEW a \in Attach, StopTimeout(a) PROVE OrphanOnlyByRelaunch'
      BY <3>4 DEF StopTimeout, EndedByCause
    <3>5. ASSUME NEW a \in Attach, ExitEvent(a) PROVE OrphanOnlyByRelaunch'
      BY <3>5 DEF ExitEvent
    <3>6. ASSUME NEW a \in Attach, ErrorEvent(a) PROVE OrphanOnlyByRelaunch'
      BY <3>6 DEF ErrorEvent
    <3>7. ASSUME NEW a \in Attach, StartupTimer(a) PROVE OrphanOnlyByRelaunch'
      BY <3>7 DEF StartupTimer
    <3>8. ASSUME NEW a \in Attach, ChildExits(a) PROVE OrphanOnlyByRelaunch'
      BY <3>8 DEF ChildExits
    <3>9. CASE OnModuleDestroy
      BY <3>9 DEF OnModuleDestroy
    <3>10. CASE ServiceExit \/ UNCHANGED vars
      BY <3>10 DEF ServiceExit, vars
    <3>11. QED
      BY <3>1, <3>2, <3>3, <3>4, <3>5, <3>6, <3>7, <3>8, <3>9, <3>10 DEF Next
  <2>5. QED
    BY <2>1, <2>2, <2>3, <2>4
<1>3. QED
  BY <1>1, <1>2

LEMMA TableInvariant == Spec => []TableInv
<1>1. TypeOK /\ TypeOK' /\ TableInv /\ [Next]_vars => TableInv'
  BY TableInvInductive
<1>2. Init => TableInv
  BY TableInvInductive
<1>3. QED
  BY <1>1, <1>2, TypeCorrect, PTL DEF Spec

\* A live child is lost by the table, unsignalled, only through the end of another
\* record of its key: for any number of requests, keys, stops and shutdowns.
THEOREM LostOnlyByRelaunch == Spec => []OrphanOnlyByRelaunch
<1>1. TableInv => OrphanOnlyByRelaunch
  BY DEF TableInv
<1>2. QED
  BY <1>1, TableInvariant, PTL

\* With a key for each request no live child is ever lost.
THEOREM NobodyLost == ASSUME FreshKeys PROVE Spec => []NoOrphan
<1>1. \A a, b \in Attach : KeyOf[a] = KeyOf[b] => a = b
  BY DEF FreshKeys
<1>2. ASSUME OrphanOnlyByRelaunch, NEW a \in Attach PROVE ~Orphan(a)
  BY <1>1, <1>2 DEF OrphanOnlyByRelaunch
<1>3. OrphanOnlyByRelaunch => NoOrphan
  BY <1>2 DEF NoOrphan
<1>4. QED
  BY <1>3, LostOnlyByRelaunch, PTL

-----------------------------------------------------------------------------
\* The files: a name carries its key, so requests with keys of their own never
\* share a file.
FileInv ==
    /\ \A a \in Attach : file[a][1] = KeyOf[a]
    /\ BootstrapFileLife

\* A child under its key has its bootstrap file, and only the file of a spawn that
\* failed outlives its record.
THEOREM FilesFollowRecords == ASSUME FreshKeys PROVE Spec => []BootstrapFileLife
<1> USE SupervisorAssumption
<1> USE DEF Tracked, Spawned, FileInv, BootstrapFileLife, CleanupBootstrapFile
<1>0. \A a, b \in Attach : KeyOf[a] = KeyOf[b] => a = b
  BY DEF FreshKeys
<1>1. Init => FileInv
  BY DEF Init
<1>2. ASSUME TableInv, FileInv, [Next]_vars PROVE FileInv'
  <2> USE <1>0, <1>2
  <2> USE DEF TableInv, TypeOK
  <2>1. ASSUME NEW a \in Attach, LaunchExisting(a) PROVE FileInv'
    <3>1. file' = [file EXCEPT ![a] = <<KeyOf[a], ms'>>]
          /\ files' = files \cup {<<KeyOf[a], ms'>>}
          /\ os' = [os EXCEPT ![a] = "deduped"] /\ processes' = processes
      BY <2>1 DEF LaunchExisting, WriteBootstrapFile
    <3>2. QED
      BY <3>1
  <2>2. ASSUME NEW a \in Attach, LaunchSpawn(a) PROVE FileInv'
    <3>1. file' = [file EXCEPT ![a] = <<KeyOf[a], ms'>>]
          /\ files' = files \cup {<<KeyOf[a], ms'>>}
          /\ processes' = [processes EXCEPT ![KeyOf[a]] = a]
          /\ \A b \in Attach \ {a} : os'[b] = os[b]
      BY <2>2 DEF LaunchSpawn, WriteBootstrapFile
    <3>2. QED
      BY <3>1
  <2>3. ASSUME NEW a \in Attach, Stop(a) \/ ChildExits(a) \/ StartupTimer(a) PROVE FileInv'
    BY <2>3 DEF Stop, ChildExits, StartupTimer
  <2>4. ASSUME NEW a \in Attach, StopTimeout(a) \/ ExitEvent(a) PROVE FileInv'
    BY <2>4 DEF StopTimeout, ExitEvent
  <2>5. ASSUME NEW a \in Attach, ErrorEvent(a) PROVE FileInv'
    BY <2>5 DEF ErrorEvent
  <2>6. CASE OnModuleDestroy
    BY <2>6 DEF OnModuleDestroy
  <2>7. CASE ServiceExit \/ UNCHANGED vars
    BY <2>7 DEF ServiceExit, vars
  <2>8. ASSUME NEW a \in Attach, LaunchThrows(a) PROVE FileInv'
    <3>1. /\ \/ /\ file' = [file EXCEPT ![a] = <<KeyOf[a], ms'>>]
                /\ files' = files \cup {<<KeyOf[a], ms'>>}
             \/ file' = file /\ files' = files
          /\ os' = [os EXCEPT ![a] = "refused"] /\ os[a] = "idle" /\ processes' = processes
      BY <2>8 DEF LaunchThrows, WriteBootstrapFile
    <3>2. QED
      BY <3>1
  <2>9. QED
    BY <2>1, <2>2, <2>3, <2>4, <2>5, <2>6, <2>7, <2>8 DEF Next
<1>3. FileInv => BootstrapFileLife
  OBVIOUS
<1>4. QED
  BY <1>1, <1>2, <1>3, TableInvariant, PTL DEF Spec

-----------------------------------------------------------------------------
\* What a startup timer may find.  A record leaves its key only when a record of the
\* key is over or its spawn has failed, and a record that is not spawned is "starting".
KeyHandedOn(k) == \E b \in Attach : KeyOf[b] = k /\ (Ended(b) \/ os[b] = "failed")

WindowInv ==
    /\ \A a \in Attach : a \in timers \/ health[a] # "starting" => Spawned(a)
    /\ service = "up" =>
          \A a \in Attach : Spawned(a) /\ ~Tracked(a) => KeyHandedOn(KeyOf[a])
    /\ EarlyHealthOnlyByRelaunch

\* The end of a record is final, so a key that was handed on stays so, and a record
\* whose window was ended early by then stays excused.
LEMMA EndIsFinal ==
    ASSUME TableInv, TableInv', [Next]_vars
    PROVE  /\ \A a \in Attach : Ended(a) => Ended(a)'
           /\ \A a \in Attach : os[a] = "failed" => Ended(a)' \/ os'[a] = "failed"
           /\ \A a \in Attach : Spawned(a) => Spawned(a)'
           /\ service # "up" => service' # "up"
<1> USE DEF TableInv, TypeOK, EndedByCause, EntryIsPresent, Ended, Spawned
<1>1. ASSUME NEW a \in Attach,
             LaunchExisting(a) \/ LaunchSpawn(a) \/ LaunchThrows(a) \/ Stop(a) \/ StopTimeout(a)
      PROVE  /\ \A b \in Attach : Ended(b) => Ended(b)'
             /\ \A b \in Attach : os[b] = "failed" => os'[b] = "failed"
             /\ \A b \in Attach : Spawned(b) => Spawned(b)'
             /\ service' = service
  BY <1>1 DEF LaunchExisting, LaunchSpawn, LaunchThrows, Stop, StopTimeout
<1>2. ASSUME NEW a \in Attach,
             ExitEvent(a) \/ ErrorEvent(a) \/ StartupTimer(a) \/ ChildExits(a)
      PROVE  /\ \A b \in Attach : Ended(b) => Ended(b)'
             /\ \A b \in Attach : os[b] = "failed" => Ended(b)' \/ os'[b] = "failed"
             /\ \A b \in Attach : Spawned(b) => Spawned(b)'
             /\ service' = service
  BY <1>2 DEF ExitEvent, ErrorEvent, StartupTimer, ChildExits
<1>3. CASE OnModuleDestroy \/ ServiceExit \/ UNCHANGED vars
  BY <1>3 DEF OnModuleDestroy, ServiceExit, vars
<1>4. QED
  BY <1>1, <1>2, <1>3 DEF Next

\* While the service is up a record is taken for healthy before its own startup
\* window only when another record of its key has ended.
THEOREM EarlyHealth == Spec => []EarlyHealthOnlyByRelaunch
<1> USE SupervisorAssumption
<1>1. Init => WindowInv
  BY DEF Init, WindowInv, Spawned, EarlyHealthOnlyByRelaunch
<1>2. ASSUME TableInv, TableInv', WindowInv, [Next]_vars PROVE WindowInv'
  <2> USE <1>2
  <2> USE DEF TableInv, TypeOK, WindowInv, EarlyHealthOnlyByRelaunch
  <2> DEFINE Kept(c) == /\ health'[c] = "healthy" /\ c \in timers'
                        => health[c] = "healthy" /\ c \in timers
  <2>1. \A k \in Key : KeyHandedOn(k) => KeyHandedOn(k)'
    BY EndIsFinal DEF KeyHandedOn
  \* A record that was under its key, and is not after the step, hands the key on.
  <2>2. ASSUME (\A a \in Attach : a \in timers' \/ health'[a] # "starting" => Spawned(a)'),
               service' = "up" =>
                  \A a \in Attach :
                     Spawned(a)' /\ ~Tracked(a)' =>
                        (Spawned(a) /\ ~Tracked(a)) \/ KeyHandedOn(KeyOf[a])',
               \A c \in Attach : Kept(c)
        PROVE  WindowInv'
    BY <2>1, <2>2, EndIsFinal
  <2>3. ASSUME NEW a \in Attach, LaunchSpawn(a) PROVE WindowInv'
    <3>1. \A b \in Attach : Spawned(b)' => b = a \/ Spawned(b)
      BY <2>3 DEF LaunchSpawn, Spawned
    <3>2. Tracked(a)' /\ \A b \in Attach : KeyOf[b] # KeyOf[a] => Tracked(b)' = Tracked(b)
      BY <2>3 DEF LaunchSpawn, Tracked
    \* An entry that is overwritten is over, or its spawn has failed.
    <3>3. ASSUME NEW b \in Attach, Tracked(b), KeyOf[b] = KeyOf[a] PROVE KeyHandedOn(KeyOf[a])
      BY <2>3, <3>3 DEF LaunchSpawn, AlreadyRunning, HasPid, EntryIsPresent, Tracked,
                        KeyHandedOn, Ended
    <3>4. \A c \in Attach : Kept(c)
      BY <2>3 DEF LaunchSpawn
    <3>5. \A b \in Attach : b \in timers' \/ health'[b] # "starting" => Spawned(b)'
      BY <2>3 DEF LaunchSpawn, Spawned
    <3>6. QED
      BY <3>1, <3>2, <3>3, <3>4, <3>5, <2>1, <2>2
  <2>4. ASSUME NEW a \in Attach, LaunchExisting(a) \/ LaunchThrows(a) PROVE WindowInv'
    BY <2>4, <2>2 DEF LaunchExisting, LaunchThrows, Spawned, Tracked
  <2>5. ASSUME NEW a \in Attach, Stop(a) PROVE WindowInv'
    BY <2>5, <2>2 DEF Stop, Spawned, Tracked, EntryIsPresent
  <2>6. ASSUME NEW a \in Attach, StopTimeout(a) PROVE WindowInv'
    <3>1. Ended(a)'
      BY <2>6 DEF StopTimeout, EndedByCause, Ended
    <3>2. QED
      BY <2>6, <3>1, <2>2 DEF StopTimeout, Spawned, Tracked, KeyHandedOn
  <2>7. ASSUME NEW a \in Attach, ExitEvent(a) \/ ErrorEvent(a) PROVE WindowInv'
    <3>1. Ended(a)'
      BY <2>7 DEF ExitEvent, ErrorEvent, Ended
    <3>2. QED
      BY <2>7, <3>1, <2>2 DEF ExitEvent, ErrorEvent, Spawned, Tracked, KeyHandedOn
  \* The timer of a record that is gone finds another: by then one of its key ended.
  <2>8. ASSUME NEW a \in Attach, StartupTimer(a) PROVE WindowInv'
    <3>1. /\ \A b \in Attach : Spawned(b)' = Spawned(b) /\ Tracked(b)' = Tracked(b)
          /\ Spawned(a) /\ timers' = timers \ {a} /\ service' = service
      BY <2>8 DEF StartupTimer, Spawned, Tracked
    <3>2. \A b \in Attach : health'[b] = health[b]
                           \/ /\ Tracked(b) /\ KeyOf[b] = KeyOf[a]
                              /\ health[b] = "starting" /\ health'[b] = "healthy"
      BY <2>8 DEF StartupTimer, Tracked, EntryIsOwn
    <3>3. ASSUME NEW b \in Attach \ {a}, Tracked(b), KeyOf[b] = KeyOf[a],
                 health[b] = "starting", service = "up"
          PROVE  \E c \in Attach \ {b} : KeyOf[c] = KeyOf[b] /\ Ended(c)
      <4>1. ~Tracked(a)
        BY <3>3 DEF Tracked
      <4>2. PICK c \in Attach : KeyOf[c] = KeyOf[a] /\ (Ended(c) \/ os[c] = "failed")
        BY <3>1, <3>3, <4>1 DEF KeyHandedOn
      <4>3. os[c] # "failed"
        BY <2>8 DEF StartupTimer, TickQueueEmpty
      <4>4. QED
        BY <3>3, <4>2, <4>3 DEF Ended
    <3>4. \A b \in Attach : b \in timers' \/ health'[b] # "starting" => Spawned(b)'
      BY <3>1, <3>2, <2>8 DEF EntryIsPresent, Spawned
    <3>5. \A b \in Attach : Ended(b) => Ended(b)'
      BY EndIsFinal
    <3>6. EarlyHealthOnlyByRelaunch'
      BY <3>1, <3>2, <3>3, <3>5
    <3>7. QED
      BY <3>1, <3>4, <3>6, <2>1
  <2>9. ASSUME NEW a \in Attach, ChildExits(a) PROVE WindowInv'
    BY <2>9, <2>2 DEF ChildExits, Spawned, Tracked
  <2>10. CASE OnModuleDestroy \/ ServiceExit
    BY <2>10, <2>2 DEF OnModuleDestroy, ServiceExit, Spawned
  <2>11. CASE UNCHANGED vars
    BY <2>11, <2>2 DEF vars, Spawned, Tracked
  <2>12. QED
    BY <2>3, <2>4, <2>5, <2>6, <2>7, <2>8, <2>9, <2>10, <2>11 DEF Next
<1>3. WindowInv => EarlyHealthOnlyByRelaunch
  BY DEF WindowInv
<1>4. QED
  BY <1>1, <1>2, <1>3, TableInvariant, PTL DEF Spec

-----------------------------------------------------------------------------
\* Only a child that has lived was ever signalled.
SignalledHaveLived == \A a \in Attach : os[a] \notin {"running", "dead", "reaped"} => signals[a] = {}

LEMMA SignalsNeedALife == Spec => []SignalledHaveLived
<1> USE SupervisorAssumption DEF SignalledHaveLived, TypeOK
<1>1. Init => SignalledHaveLived
  BY DEF Init
<1>2. ASSUME TypeOK, SignalledHaveLived, [Next]_vars PROVE SignalledHaveLived'
  <2> USE <1>2
  <2>1. ASSUME NEW a \in Attach, LaunchExisting(a) \/ LaunchSpawn(a) \/ LaunchThrows(a)
        PROVE  SignalledHaveLived'
    BY <2>1 DEF LaunchExisting, LaunchSpawn, LaunchThrows
  <2>2. ASSUME NEW a \in Attach, Stop(a) \/ StopTimeout(a) PROVE SignalledHaveLived'
    BY <2>2 DEF Stop, StopTimeout, Kill
  <2>3. ASSUME NEW a \in Attach, ExitEvent(a) \/ ErrorEvent(a) PROVE SignalledHaveLived'
    BY <2>3 DEF ExitEvent, ErrorEvent
  <2>4. ASSUME NEW a \in Attach, StartupTimer(a) \/ ChildExits(a) PROVE SignalledHaveLived'
    BY <2>4 DEF StartupTimer, ChildExits
  <2>5. CASE OnModuleDestroy
    BY <2>5 DEF OnModuleDestroy, Kill
  <2>6. CASE ServiceExit \/ UNCHANGED vars
    BY <2>6 DEF ServiceExit, vars
  <2>7. QED
    BY <2>1, <2>2, <2>3, <2>4, <2>5, <2>6 DEF Next
<1>3. QED
  BY <1>1, <1>2, TypeCorrect, PTL DEF Spec

\* What a slot shows is the state of the one child of its key.
AgentState(a) ==
    IF os[a] # "running" THEN "empty" ELSE IF Signalled(a) THEN "ending" ELSE "live"

\* A step that changes what one child shows changes one slot, and a step that
\* changes no child's changes none.
LEMMA SlotSteps ==
    ASSUME FreshKeys
    PROVE  /\ \A a \in Attach : slot[KeyOf[a]] = AgentState(a)
           /\ \A c \in Attach : (\A b \in Attach \ {c} : AgentState(b)' = AgentState(b))
                 => slot' = [slot EXCEPT ![KeyOf[c]] = AgentState(c)']
           /\ (\A b \in Attach : AgentState(b)' = AgentState(b)) => slot' = slot
<1> USE SupervisorAssumption
<1>1. \A a, b \in Attach : KeyOf[a] = KeyOf[b] => a = b
  BY DEF FreshKeys
<1>2. \A a \in Attach : slot[KeyOf[a]] = AgentState(a)
  BY <1>1 DEF slot, AgentState
<1>3. \A a \in Attach : slot'[KeyOf[a]] = AgentState(a)'
  BY <1>1 DEF slot, AgentState
<1>4. \A k \in Key : (\A a \in Attach : KeyOf[a] # k) => slot[k] = "empty" /\ slot'[k] = "empty"
  BY DEF slot
<1>5. slot = [k \in Key |-> slot[k]] /\ slot' = [k \in Key |-> slot'[k]]
  BY DEF slot
<1>6. ASSUME NEW c \in Attach, \A b \in Attach \ {c} : AgentState(b)' = AgentState(b)
      PROVE  slot' = [slot EXCEPT ![KeyOf[c]] = AgentState(c)']
  <2>1. \A k \in Key : slot'[k] = IF k = KeyOf[c] THEN AgentState(c)' ELSE slot[k]
    BY <1>1, <1>2, <1>3, <1>4, <1>6
  <2>2. QED
    BY <2>1, <1>5
<1>7. ASSUME \A b \in Attach : AgentState(b)' = AgentState(b) PROVE slot' = slot
  <2>1. \A k \in Key : slot'[k] = slot[k]
    BY <1>2, <1>3, <1>4, <1>7
  <2>2. QED
    BY <2>1, <1>5
<1>8. QED
  BY <1>2, <1>6, <1>7

\* The process table implements the abstract slots: its steps start, end or
\* terminate an agent, shut all of them down, or change nothing that is promised.
THEOREM ImplementsAgentSlots == ASSUME FreshKeys PROVE Spec => ImplementsSlots
<1> USE SupervisorAssumption
<1> DEFINE Same == (\A b \in Attach : AgentState(b)' = AgentState(b)) /\ service' = service
<1> DEFINE slots == <<slot, service = "up">>
<1>1. Init => Slots!Init
  BY DEF Init, Slots!Init, slot
<1>2. ASSUME TypeOK, SignalledHaveLived, NoOrphan, [Next]_vars
      PROVE  [Slots!Next]_slots
  <2> USE <1>2 DEF TypeOK
  <2>1. Same => UNCHANGED slots
    BY SlotSteps
  <2>2. ASSUME NEW a \in Attach, LaunchSpawn(a) PROVE [Slots!Next]_slots
    <3>1. CASE os'[a] = "running"
      <4>1. slot[KeyOf[a]] = "empty"
        BY <2>2, SlotSteps DEF LaunchSpawn, AgentState
      <4>2. slot' = [slot EXCEPT ![KeyOf[a]] = "live"]
        BY <2>2, <3>1, SlotSteps DEF LaunchSpawn, AgentState, Signalled, SignalledHaveLived
      <4>3. Slots!Spawn(KeyOf[a])
        BY <2>2, <4>1, <4>2 DEF Slots!Spawn, LaunchSpawn
      <4>4. QED
        BY <4>3 DEF Slots!Next
    <3>2. CASE os'[a] # "running"
      <4>1. Same
        BY <2>2, <3>2 DEF LaunchSpawn, AgentState, Signalled
      <4>2. QED
        BY <4>1, <2>1
    <3>3. QED
      BY <3>1, <3>2
  <2>3. ASSUME NEW a \in Attach, Stop(a) \/ StopTimeout(a) PROVE [Slots!Next]_slots
    <3>1. \A b \in Attach \ {a} : AgentState(b)' = AgentState(b)
      BY <2>3 DEF Stop, StopTimeout, Kill, AgentState, Signalled
    <3>2. CASE AgentState(a)' = AgentState(a)
      BY <3>1, <3>2, <2>1, <2>3 DEF Stop, StopTimeout
    <3>3. CASE AgentState(a)' # AgentState(a)
      <4>1. AgentState(a) = "live" /\ AgentState(a)' = "ending"
        BY <2>3, <3>3 DEF Stop, StopTimeout, Kill, AgentState, Signalled
      <4>2. Slots!Terminate(KeyOf[a])
        BY <2>3, <3>1, <4>1, SlotSteps DEF Slots!Terminate, Stop, StopTimeout
      <4>3. QED
        BY <4>2 DEF Slots!Next
    <3>4. QED
      BY <3>2, <3>3
  <2>4. ASSUME NEW a \in Attach, ChildExits(a) PROVE [Slots!Next]_slots
    <3>1. AgentState(a) # "empty" /\ AgentState(a)' = "empty"
      BY <2>4 DEF ChildExits, AgentState
    <3>2. \A b \in Attach \ {a} : AgentState(b)' = AgentState(b)
      BY <2>4 DEF ChildExits, AgentState, Signalled
    <3>3. Slots!Die(KeyOf[a])
      BY <2>4, <3>1, <3>2, SlotSteps DEF Slots!Die, ChildExits
    <3>4. QED
      BY <3>3 DEF Slots!Next
  <2>5. ASSUME NEW a \in Attach,
               \/ LaunchExisting(a) \/ LaunchThrows(a)
               \/ ExitEvent(a) \/ ErrorEvent(a) \/ StartupTimer(a)
        PROVE  [Slots!Next]_slots
    <3>1. Same
      BY <2>5 DEF LaunchExisting, LaunchThrows, ExitEvent, ErrorEvent, StartupTimer, AgentState, Signalled
    <3>2. QED
      BY <3>1, <2>1
  \* No live child is outside the table, so clearing it tells every one of them.
  <2>6. CASE OnModuleDestroy
    <3>1. \A b \in Attach : AgentState(b)' = IF AgentState(b) = "live" THEN "ending"
                                             ELSE AgentState(b)
      BY <2>6 DEF OnModuleDestroy, Kill, AgentState, Signalled, NoOrphan, Orphan
    <3>2. \A k \in Key : slot'[k] = IF slot[k] = "live" THEN "ending" ELSE slot[k]
      BY <3>1 DEF slot, AgentState
    <3>3. slot' = [k \in Key |-> IF slot[k] = "live" THEN "ending" ELSE slot[k]]
      BY <3>2 DEF slot
    <3>4. Slots!Shutdown
      BY <2>6, <3>3 DEF OnModuleDestroy, Slots!Shutdown
    <3>5. QED
      BY <3>4 DEF Slots!Next
  <2>7. CASE ServiceExit
    <3>1. (\A b \in Attach : AgentState(b)' = AgentState(b)) /\ (service = "up") = (service = "up")'
      BY <2>7 DEF ServiceExit, AgentState, Signalled
    <3>2. QED
      BY <3>1, SlotSteps
  <2>8. CASE UNCHANGED vars
    <3>1. Same
      BY <2>8 DEF vars, AgentState, Signalled
    <3>2. QED
      BY <3>1, <2>1
  <2>9. QED
    BY <2>2, <2>3, <2>4, <2>5, <2>6, <2>7, <2>8 DEF Next
<1>3. QED
  BY <1>1, <1>2, TypeCorrect, SignalsNeedALife, NobodyLost, PTL
     DEF Spec, ImplementsSlots, Slots!Spec
=============================================================================
