---------------------------- MODULE RegistryIndex ----------------------------
(***************************************************************************)
(* The registry cache of src/src/registry/registry-index.service.ts: one   *)
(* snapshot of the packs on disk, a TTL, and one load in flight that the   *)
(* calls which find no fresh snapshot share.  A load                       *)
(* (file-registry.loader.ts) awaits between files, so it can see an edit   *)
(* in one file and miss an edit in another.                                *)
(*                                                                         *)
(* A file's contents are the number of edits it has seen.  A load goes by  *)
(* the name of the call that started it.  A load leaves out what it cannot *)
(* reach, and what breaks it with anything but an AppException, and        *)
(* succeeds all the same: such a file is Missing in the snapshot.          *)
(***************************************************************************)
EXTENDS Naturals

CONSTANTS
    Call,      \* calls of getSnapshot()
    After,     \* of a call: the call of the same request whose answer it follows, or NoCall
    File,      \* the YAML files of the packs
    Ttl,       \* registryCacheTtlMs
    MayInvalidate,  \* invalidate() is called
    MayFail,   \* a file may be broken or out of reach when it is read
    MaxLoad,   \* how long a load takes at most
    MaxEdits,  \* bound on the edits of a file
    MaxTime,   \* bound on the clock
    NoCall, NoSnapshot, Failed

ASSUME RegistryAssumption ==
    /\ Ttl \in Nat /\ MaxLoad \in Nat /\ MaxEdits \in Nat /\ MaxTime \in Nat
    /\ MayInvalidate \in BOOLEAN /\ MayFail \in BOOLEAN
    /\ NoCall \notin Call
    /\ After \in [Call -> Call \cup {NoCall}]
    /\ NoSnapshot \notin [File -> 0 .. MaxEdits + 1]

VARIABLES
    disk,      \* the files' contents
    now,
    cached,    \* cachedSnapshot, or NoSnapshot
    cachedAt,
    loading,   \* loadingPromise: the call that started the load, or NoCall
    got,       \* what a load under way has read: the contents of a file, Missing or Unread
    waitsOn,   \* the load whose promise a call awaits
    result,    \* what a call returned: a snapshot, Failed, or NoSnapshot so far
    askedAt,   \* when the call was made
    editedAt,  \* history: when a file got its contents
    floor      \* history: the disk when invalidate() was last called, or NoSnapshot

cacheVars == <<cached, cachedAt, loading>>
historyVars == <<editedAt, floor>>
vars == <<disk, now, cacheVars, got, waitsOn, result, askedAt, historyVars>>

Missing == MaxEdits + 1
Unread == MaxEdits + 2
Contents == [File -> 0 .. MaxEdits]
Snapshot == [File -> 0 .. Missing]
Original == [f \in File |-> 0]
Nothing == [f \in File |-> Unread]

Idle(c) == waitsOn[c] = NoCall /\ result[c] = NoSnapshot
Reading(c) == waitsOn[c] = c
Answered(c) == result[c] \notin {NoSnapshot, Failed}

Init ==
    /\ disk = Original
    /\ now = 0
    /\ cached = NoSnapshot
    /\ cachedAt = 0
    /\ loading = NoCall
    /\ got = [c \in Call |-> Nothing]
    /\ waitsOn = [c \in Call |-> NoCall]
    /\ result = [c \in Call |-> NoSnapshot]
    /\ askedAt = [c \in Call |-> 0]
    /\ editedAt = [f \in File |-> [v \in 0 .. MaxEdits |-> 0]]
    /\ floor = NoSnapshot

-----------------------------------------------------------------------------
\* Mutant of Fresh: a snapshot serves at the end of its TTL, too.
FreshToTheEnd == cached # NoSnapshot /\ now - cachedAt <= Ttl

Fresh == cached # NoSnapshot /\ now - cachedAt < Ttl

\* The call is made.  compile() asks for the template when it has got the scenario.
Noted(c) ==
    /\ Idle(c)
    /\ After[c] # NoCall => Answered(After[c])
    /\ askedAt' = [askedAt EXCEPT ![c] = now]
    /\ UNCHANGED <<disk, now, editedAt, floor>>

\* getSnapshot() up to its return or its await: from the cache, ...
Hit(c) ==
    /\ Noted(c)
    /\ Fresh
    /\ result' = [result EXCEPT ![c] = cached]
    /\ UNCHANGED <<cacheVars, got, waitsOn>>

\* ... from the load in flight, ...
Join(c) ==
    /\ Noted(c)
    /\ ~Fresh
    /\ loading # NoCall
    /\ waitsOn' = [waitsOn EXCEPT ![c] = loading]
    /\ UNCHANGED <<cacheVars, got, result>>

\* Mutant of Load: a load in flight is not looked for.
LoadAgain(c) ==
    /\ Noted(c)
    /\ ~Fresh
    /\ loading' = c
    /\ waitsOn' = [waitsOn EXCEPT ![c] = c]
    /\ UNCHANGED <<cached, cachedAt, got, result>>

\* ... or from a load of its own.
Load(c) ==
    /\ Noted(c)
    /\ ~Fresh
    /\ loading = NoCall
    /\ loading' = c
    /\ waitsOn' = [waitsOn EXCEPT ![c] = c]
    /\ UNCHANGED <<cached, cachedAt, got, result>>

\* loadAll() goes through the files.
ReadFile(c, f) ==
    /\ Reading(c)
    /\ got[c][f] = Unread
    /\ got' = [got EXCEPT ![c][f] = disk[f]]
    /\ UNCHANGED <<disk, now, cacheVars, waitsOn, result, askedAt, historyVars>>

\* An unreadable directory counts as an empty one, a file that cannot be accessed as
\* absent, and a pack whose load throws anything but an AppException is left out.
ReadMisses(c, f) ==
    /\ MayFail
    /\ Reading(c)
    /\ got[c][f] = Unread
    /\ got' = [got EXCEPT ![c][f] = Missing]
    /\ UNCHANGED <<disk, now, cacheVars, waitsOn, result, askedAt, historyVars>>

\* Mutant of Resume: only the call that loaded is served.
ResumeLoader(c, r) ==
    /\ got' = [got EXCEPT ![c] = Nothing]
    /\ waitsOn' = [waitsOn EXCEPT ![c] = NoCall]
    /\ result' = [result EXCEPT ![c] = r]

\* The promise of c's load settles for every call that awaits it.
Resume(c, r) ==
    /\ got' = [got EXCEPT ![c] = Nothing]
    /\ waitsOn' = [d \in Call |-> IF waitsOn[d] = c THEN NoCall ELSE waitsOn[d]]
    /\ result' = [d \in Call |-> IF waitsOn[d] = c THEN r ELSE result[d]]

\* Mutant of LoadSucceeds: the loader does not await its files.
LoadUnawaited(c) ==
    /\ Reading(c)
    /\ cached' = got[c]
    /\ cachedAt' = now
    /\ loading' = NoCall
    /\ Resume(c, got[c])
    /\ UNCHANGED <<disk, now, askedAt, historyVars>>

\* The then() of the load does not ask whether it is still the one in flight.
LoadSucceeds(c) ==
    /\ Reading(c)
    /\ \A f \in File : got[c][f] # Unread
    /\ cached' = got[c]
    /\ cachedAt' = now
    /\ loading' = NoCall
    /\ Resume(c, got[c])
    /\ UNCHANGED <<disk, now, askedAt, historyVars>>

\* A file that does not parse or is of the wrong kind fails the whole load; the old
\* snapshot stays.
LoadFails(c) ==
    /\ MayFail
    /\ Reading(c)
    /\ loading' = NoCall
    /\ Resume(c, Failed)
    /\ UNCHANGED <<disk, now, cached, cachedAt, askedAt, historyVars>>

Invalidate ==
    /\ MayInvalidate
    /\ cached' = NoSnapshot
    /\ cachedAt' = 0
    /\ loading' = NoCall
    /\ floor' = disk
    /\ UNCHANGED <<disk, now, got, waitsOn, result, askedAt, editedAt>>

\* Someone edits a file of a pack.
Edit(f) ==
    /\ disk[f] < MaxEdits
    /\ disk' = [disk EXCEPT ![f] = @ + 1]
    /\ editedAt' = [editedAt EXCEPT ![f][disk[f] + 1] = now]
    /\ UNCHANGED <<now, cacheVars, got, waitsOn, result, askedAt, floor>>

Tick ==
    /\ now < MaxTime
    /\ \A c \in Call : Reading(c) => now < askedAt[c] + MaxLoad
    /\ now' = now + 1
    /\ UNCHANGED <<disk, cacheVars, got, waitsOn, result, askedAt, historyVars>>

GoesOn(c) ==
    \/ \E f \in File : ReadFile(c, f) \/ ReadMisses(c, f)
    \/ LoadSucceeds(c)
    \/ LoadFails(c)

Next ==
    \/ \E c \in Call : Hit(c) \/ Join(c) \/ Load(c) \/ GoesOn(c)
    \/ Invalidate
    \/ \E f \in File : Edit(f)
    \/ Tick

Spec == Init /\ [][Next]_vars

\* A load that is under way goes on.
FairSpec == Spec /\ \A c \in Call : WF_vars(GoesOn(c))

-----------------------------------------------------------------------------
TypeOK ==
    /\ disk \in Contents
    /\ now \in 0 .. MaxTime
    /\ cached \in Snapshot \cup {NoSnapshot}
    /\ cachedAt \in 0 .. now
    /\ loading \in Call \cup {NoCall}
    /\ got \in [Call -> [File -> 0 .. Unread]]
    /\ waitsOn \in [Call -> Call \cup {NoCall}]
    /\ result \in [Call -> Snapshot \cup {NoSnapshot, Failed}]
    /\ askedAt \in [Call -> 0 .. MaxTime]
    /\ editedAt \in [File -> [0 .. MaxEdits -> 0 .. MaxTime]]
    /\ floor \in Contents \cup {NoSnapshot}

\* No file is older in the one snapshot than in the other; a file that either of them
\* lacks is not compared.
AtLeast(snapshot, other) ==
    \A f \in File : other[f] = Missing \/ snapshot[f] >= other[f]

\* An edit shows in the answer to every call made Ttl after it, plus the time a load
\* takes: the TTL runs from the end of a load, and what it read may be as old as its
\* start.  Joined loads, failures and invalidations make it no worse.  Without a TTL
\* the moment itself does not count: the joined load may have read just before it.
\* A file the load did not reach is absent, which is not old.
Due(f, v, c) ==
    IF Ttl > 0 THEN editedAt[f][v] + Ttl + MaxLoad <= askedAt[c]
               ELSE editedAt[f][v] + MaxLoad < askedAt[c]

EditsShowInTime ==
    \A c \in Call, f \in File : Answered(c) =>
        \A v \in 1 .. disk[f] : Due(f, v, c) => result[c][f] >= v

\* Until somebody invalidates, the snapshot served never goes back behind the one
\* before it, in no file that both have.
NeverGoesBack ==
    [][cached # NoSnapshot /\ floor' = NoSnapshot =>
          cached' # NoSnapshot /\ AtLeast(cached', cached)]_vars

\* Of two reads of one request (compile() reads the scenario and then the template, each
\* in a snapshot of its own) the second sees no file in an older state than the first,
\* whatever loads come between, unless somebody invalidates.
LaterReadNotOlder ==
    floor = NoSnapshot =>
        \A c \in Call : After[c] # NoCall /\ Answered(c) => AtLeast(result[c], result[After[c]])

\* Nobody awaits a load that has settled, and a failure does not stick: the call after
\* it loads anew.
WaitersAreServed ==
    /\ \A c \in Call : waitsOn[c] # NoCall => Reading(waitsOn[c])
    /\ loading # NoCall => Reading(loading)

\* Every call returns or throws.
CallsSettle == \A c \in Call : waitsOn[c] # NoCall ~> waitsOn[c] = NoCall /\ result[c] # NoSnapshot
=============================================================================
