------------------------- MODULE RegistryIndex_proofs -------------------------
(***************************************************************************)
(* Proofs about the snapshot cache, for any calls, files and bounds.       *)
(***************************************************************************)
EXTENDS RegistryIndex, TLAPS

\* The type invariant holds initially and is kept by every step.
LEMMA TypeInductive ==
    /\ Init => TypeOK
    /\ TypeOK /\ [Next]_vars => TypeOK'
<1> USE RegistryAssumption
<1> USE DEF TypeOK, Contents, Snapshot, Original, Missing, Unread, Nothing
<1>1. Init => TypeOK
  BY DEF Init
<1>2. ASSUME TypeOK, [Next]_vars PROVE TypeOK'
  <2> USE <1>2 DEF cacheVars, historyVars
  <2>1. ASSUME NEW c \in Call, Hit(c) PROVE TypeOK'
    BY <2>1 DEF Hit, Noted, Fresh
  <2>2. ASSUME NEW c \in Call, Join(c) PROVE TypeOK'
    BY <2>2 DEF Join, Noted
  <2>3. ASSUME NEW c \in Call, Load(c) PROVE TypeOK'
    BY <2>3 DEF Load, Noted
  <2>4. ASSUME NEW c \in Call, NEW f \in File, ReadFile(c, f) PROVE TypeOK'
    <3>1. disk[f] \in 0 .. Unread
      OBVIOUS
    <3>2. got' \in [Call -> [File -> 0 .. Unread]]
      BY <2>4, <3>1 DEF ReadFile
    <3>3. QED
      BY <2>4, <3>2 DEF ReadFile
  <2>12. ASSUME NEW c \in Call, NEW f \in File, ReadMisses(c, f) PROVE TypeOK'
    <3>1. got' \in [Call -> [File -> 0 .. Unread]]
      BY <2>12 DEF ReadMisses
    <3>2. QED
      BY <2>12, <3>1 DEF ReadMisses
  <2>5. ASSUME NEW c \in Call, LoadSucceeds(c) PROVE TypeOK'
    <3>1. got[c] \in Snapshot
      <4>1. \A f \in File : got[c][f] \in 0 .. Missing
        BY <2>5 DEF LoadSucceeds
      <4>2. got[c] = [f \in File |-> got[c][f]]
        OBVIOUS
      <4>3. QED
        BY <4>1, <4>2
    <3>2. got' \in [Call -> [File -> 0 .. Unread]] /\ waitsOn' \in [Call -> Call \cup {NoCall}]
      BY <2>5 DEF LoadSucceeds, Resume
    <3>3. result' \in [Call -> Snapshot \cup {NoSnapshot, Failed}]
      <4> HIDE DEF Snapshot
      <4>1. QED
        BY <2>5, <3>1 DEF LoadSucceeds, Resume
    <3>4. cached' \in Snapshot /\ cachedAt' \in 0 .. now' /\ loading' = NoCall
      BY <2>5, <3>1 DEF LoadSucceeds
    <3>5. QED
      BY <2>5, <3>2, <3>3, <3>4 DEF LoadSucceeds
  <2>6. ASSUME NEW c \in Call, LoadFails(c) PROVE TypeOK'
    <3> HIDE DEF Contents, Snapshot
    <3>1. got' \in [Call -> [File -> 0 .. Unread]] /\ waitsOn' \in [Call -> Call \cup {NoCall}]
      BY <2>6 DEF LoadFails, Resume
    <3>2. result' \in [Call -> Snapshot \cup {NoSnapshot, Failed}]
      BY <2>6 DEF LoadFails, Resume
    <3>3. QED
      BY <2>6, <3>1, <3>2 DEF LoadFails
  <2>7. CASE Invalidate
    <3> HIDE DEF Contents, Snapshot
    <3>1. QED
      BY <2>7 DEF Invalidate
  <2>8. ASSUME NEW f \in File, Edit(f) PROVE TypeOK'
    <3>0. disk[f] \in 0 .. MaxEdits /\ disk[f] < MaxEdits
      BY <2>8 DEF Edit
    <3>1. disk[f] + 1 \in 0 .. MaxEdits
      <4> HIDE <1>2 DEF TypeOK
      <4>1. QED
        BY <3>0
    <3>2. disk' \in Contents
      BY <2>8, <3>1 DEF Edit
    <3>3. editedAt' \in [File -> [0 .. MaxEdits -> 0 .. MaxTime]]
      BY <2>8 DEF Edit
    <3>4. QED
      BY <2>8, <3>2, <3>3 DEF Edit
  <2>9. CASE Tick
    BY <2>9 DEF Tick
  <2>10. CASE UNCHANGED vars
    BY <2>10 DEF vars
  <2>11. QED
    BY <2>1, <2>2, <2>3, <2>4, <2>12, <2>5, <2>6, <2>7, <2>8, <2>9, <2>10 DEF Next, GoesOn
<1>3. QED
  BY <1>1, <1>2

\* Every variable keeps the shape its declaration gives it; in particular no snapshot is
\* served before its load has gone through all files.
THEOREM TypeCorrect == Spec => []TypeOK
<1>1. QED
  BY TypeInductive, PTL DEF Spec

-----------------------------------------------------------------------------
\* Nobody awaits a load that has settled, whatever loads overlap and whenever
\* somebody invalidates.
THEOREM NobodyForgotten == Spec => []WaitersAreServed
<1> USE RegistryAssumption
<1> USE DEF WaitersAreServed, Reading
<1>1. Init => WaitersAreServed
  BY DEF Init
<1>2. ASSUME TypeOK, WaitersAreServed, [Next]_vars PROVE WaitersAreServed'
  <2> USE <1>2 DEF TypeOK, cacheVars, historyVars
  <2>1. ASSUME NEW c \in Call,
               Hit(c) \/ (\E f \in File : ReadFile(c, f) \/ ReadMisses(c, f))
        PROVE  WaitersAreServed'
    BY <2>1 DEF Hit, Noted, ReadFile, ReadMisses
  \* The call was idle, so nobody awaited it.
  <2>2. ASSUME NEW c \in Call, Join(c) PROVE WaitersAreServed'
    BY <2>2 DEF Join, Noted, Idle
  <2>3. ASSUME NEW c \in Call, Load(c) PROVE WaitersAreServed'
    BY <2>3 DEF Load, Noted, Idle
  <2>4. ASSUME NEW c \in Call, LoadSucceeds(c) \/ LoadFails(c) PROVE WaitersAreServed'
    BY <2>4 DEF LoadSucceeds, LoadFails, Resume
  <2>5. CASE Invalidate \/ (\E f \in File : Edit(f)) \/ Tick \/ UNCHANGED vars
    BY <2>5 DEF Invalidate, Edit, Tick, vars
  <2>6. QED
    BY <2>1, <2>2, <2>3, <2>4, <2>5 DEF Next, GoesOn
<1>3. QED
  BY <1>1, <1>2, TypeCorrect, PTL DEF Spec

-----------------------------------------------------------------------------
\* What the age of an answer rests on: a load under way has all edits made before it was
\* asked for, and is no older than MaxLoad; so has the snapshot it leaves behind, and so
\* have the calls that joined it.
ClockInv ==
    /\ \A f \in File : \A v \in 1 .. disk[f] : editedAt[f][v] <= now
    /\ \A c \in Call : askedAt[c] <= now
    /\ \A c \in Call : Reading(c) => now <= askedAt[c] + MaxLoad
    /\ \A c, d \in Call : waitsOn[d] = c => askedAt[d] <= askedAt[c] + MaxLoad

LoadSees ==
    \A c \in Call, f \in File :
        /\ ~Reading(c) => got[c][f] = Unread
        /\ \A v \in 1 .. disk[f] :
              Reading(c) /\ editedAt[f][v] < askedAt[c] => got[c][f] >= v

CacheSees ==
    cached # NoSnapshot => \A f \in File : \A v \in 1 .. disk[f] :
        editedAt[f][v] + MaxLoad < cachedAt => cached[f] >= v

StaleInv == ClockInv /\ LoadSees /\ CacheSees /\ EditsShowInTime

\* The invariant of ages holds initially and is kept by every step.
LEMMA StaleInvInductive ==
    /\ Init => StaleInv
    /\ TypeOK /\ WaitersAreServed /\ StaleInv /\ [Next]_vars => StaleInv'
<1> USE RegistryAssumption
<1> USE DEF Reading
<1>1. Init => StaleInv
  BY DEF Init, Original, Nothing, StaleInv, ClockInv, LoadSees, CacheSees, EditsShowInTime, Answered
<1>2. ASSUME TypeOK, WaitersAreServed, StaleInv, [Next]_vars PROVE StaleInv'
  <2> USE <1>2
  <2> USE DEF TypeOK, Contents, Snapshot, Missing, Unread, cacheVars, historyVars, StaleInv
  <2>0. /\ now \in Nat /\ cachedAt \in Nat /\ MaxLoad \in Nat /\ Ttl \in Nat
        /\ \A c \in Call : askedAt[c] \in Nat
        /\ \A g \in File : disk[g] \in Nat /\ \A v \in 1 .. disk[g] : editedAt[g][v] \in Nat
    <3>1. ASSUME NEW g \in File, NEW v \in 1 .. disk[g] PROVE editedAt[g][v] \in Nat
      <4>1. v \in 0 .. MaxEdits
        OBVIOUS
      <4>2. QED
        BY <4>1
    <3>2. QED
      BY <3>1
  <2>1. ASSUME NEW c \in Call, Hit(c) PROVE StaleInv'
    <3>1. waitsOn[c] = NoCall /\ \A d \in Call : waitsOn[d] # c
      BY <2>1 DEF Hit, Noted, Idle, WaitersAreServed
    <3>a. \A d \in Call : askedAt'[d] = IF d = c THEN now ELSE askedAt[d]
      BY <2>1 DEF Hit, Noted
    <3>b. UNCHANGED <<disk, now, got, waitsOn, editedAt, cached, cachedAt>>
      BY <2>1 DEF Hit, Noted
    <3>2. ClockInv'
      <4>1. now \in Nat
        OBVIOUS
      <4>2. ClockInv
        OBVIOUS
      <4> HIDE <1>2 DEF TypeOK
      <4>3. QED
        BY <3>1, <3>a, <3>b, <4>1, <4>2 DEF ClockInv
    <3>3. LoadSees'
      <4>1. LoadSees
        OBVIOUS
      <4> HIDE <1>2 DEF TypeOK
      <4>2. QED
        BY <3>1, <3>a, <3>b, <4>1 DEF LoadSees
    <3>4. CacheSees'
      BY <2>1 DEF Hit, Noted, CacheSees
    <3>5. EditsShowInTime'
      <4>1. ASSUME NEW f \in File, NEW v \in 1 .. disk[f], Due(f, v, c)' PROVE cached[f] >= v
        <5>1. cached # NoSnapshot /\ now - cachedAt < Ttl
          BY <2>1 DEF Hit, Fresh
        <5>2. IF Ttl > 0 THEN editedAt[f][v] + Ttl + MaxLoad <= now
                         ELSE editedAt[f][v] + MaxLoad < now
          BY <3>a, <3>b, <4>1 DEF Due
        <5>3. CacheSees
          OBVIOUS
        <5> HIDE <1>2 DEF TypeOK
        <5>4. editedAt[f][v] + MaxLoad < cachedAt
          BY <2>0, <5>1, <5>2
        <5>5. QED
          BY <5>1, <5>3, <5>4 DEF CacheSees
      <4>2. \A d \in Call : result'[d] = IF d = c THEN cached ELSE result[d]
        BY <2>1 DEF Hit
      <4>3. EditsShowInTime
        OBVIOUS
      <4> HIDE <1>2 DEF TypeOK
      <4>4. QED
        BY <3>a, <3>b, <4>1, <4>2, <4>3 DEF EditsShowInTime, Answered, Due
    <3>6. QED
      BY <3>2, <3>3, <3>4, <3>5
  <2>2. ASSUME NEW c \in Call, Join(c) PROVE StaleInv'
    <3>1. waitsOn[c] = NoCall /\ \A d \in Call : waitsOn[d] # c
      BY <2>2 DEF Join, Noted, Idle, WaitersAreServed
    <3>2. ClockInv'
      BY <2>2, <3>1 DEF Join, Noted, ClockInv, WaitersAreServed
    <3>3. LoadSees'
      BY <2>2, <3>1 DEF Join, Noted, LoadSees, WaitersAreServed
    <3>4. CacheSees'
      BY <2>2 DEF Join, Noted, CacheSees
    <3>5. EditsShowInTime'
      BY <2>2 DEF Join, Noted, Idle, EditsShowInTime, Answered, Due
    <3>6. QED
      BY <3>2, <3>3, <3>4, <3>5
  <2>3. ASSUME NEW c \in Call, Load(c) PROVE StaleInv'
    <3>1. waitsOn[c] = NoCall /\ \A d \in Call : waitsOn[d] # c
      BY <2>3 DEF Load, Noted, Idle, WaitersAreServed
    <3>2. ClockInv'
      BY <2>3, <3>1 DEF Load, Noted, ClockInv
    <3>3. LoadSees'
      <4>1. \A d \in Call : /\ askedAt'[d] = IF d = c THEN now ELSE askedAt[d]
                            /\ Reading(d)' <=> (d = c \/ Reading(d))
        BY <2>3 DEF Load, Noted
      <4>2. UNCHANGED <<disk, got, editedAt>>
        BY <2>3 DEF Load, Noted
      <4>3. LoadSees
        OBVIOUS
      <4>4. ~Reading(c) /\ \A f \in File : got[c][f] >= disk[f] /\ disk[f] \in Nat /\ got[c][f] \in Nat
        BY <3>1, <4>3 DEF LoadSees
      <4> HIDE <1>2 DEF TypeOK
      <4>5. ASSUME NEW d \in Call, d # c, NEW f \in File
            PROVE  /\ ~Reading(d)' => got'[d][f] = Unread
                   /\ \A v \in 1 .. disk'[f] :
                        Reading(d)' /\ editedAt'[f][v] < askedAt'[d] => got'[d][f] >= v
        BY <4>1, <4>2, <4>3, <4>5 DEF LoadSees
      <4>6. ASSUME NEW f \in File
            PROVE  /\ ~Reading(c)' => got'[c][f] = Unread
                   /\ \A v \in 1 .. disk'[f] : got'[c][f] >= v
        BY <4>1, <4>2, <4>4
      <4>7. QED
        BY <4>5, <4>6 DEF LoadSees
    <3>4. CacheSees'
      BY <2>3 DEF Load, Noted, CacheSees
    <3>5. EditsShowInTime'
      BY <2>3 DEF Load, Noted, Idle, EditsShowInTime, Answered, Due
    <3>6. QED
      BY <3>2, <3>3, <3>4, <3>5
  \* What is read now has every edit there is.
  <2>4. ASSUME NEW c \in Call, NEW f \in File, ReadFile(c, f) PROVE StaleInv'
    <3>1. ClockInv' /\ CacheSees' /\ EditsShowInTime'
      BY <2>4 DEF ReadFile, ClockInv, CacheSees, EditsShowInTime, Answered, Due
    <3>2. \A d \in Call, g \in File :
             got'[d][g] = IF d = c /\ g = f THEN disk[f] ELSE got[d][g]
      BY <2>4 DEF ReadFile
    <3>3. LoadSees'
      <4>1. ASSUME NEW d \in Call, NEW g \in File, ~Reading(d) PROVE got'[d][g] = Unread
        BY <2>4, <3>2, <4>1 DEF ReadFile, LoadSees
      <4>2. ASSUME NEW d \in Call, NEW g \in File, NEW v \in 1 .. disk[g],
                   Reading(d), editedAt[g][v] < askedAt[d]
            PROVE  got'[d][g] >= v
        <5>1. CASE d = c /\ g = f
          <6>1. got'[d][g] = disk[g]
            BY <3>2, <5>1
          <6>2. disk[g] \in Nat /\ v \in Nat /\ v <= disk[g]
            OBVIOUS
          <6>3. QED
            BY <6>1, <6>2
        <5>2. CASE ~(d = c /\ g = f)
          BY <3>2, <4>2, <5>2 DEF LoadSees
        <5>3. QED
          BY <5>1, <5>2
      <4>3. QED
        BY <2>4, <4>1, <4>2 DEF ReadFile, LoadSees
    <3>4. QED
      BY <3>1, <3>3
  \* What is missing counts as younger than every edit.
  <2>12. ASSUME NEW c \in Call, NEW f \in File, ReadMisses(c, f) PROVE StaleInv'
    <3>1. ClockInv' /\ CacheSees' /\ EditsShowInTime'
      BY <2>12 DEF ReadMisses, ClockInv, CacheSees, EditsShowInTime, Answered, Due
    <3>2. \A d \in Call, g \in File :
             got'[d][g] = IF d = c /\ g = f THEN Missing ELSE got[d][g]
      BY <2>12 DEF ReadMisses
    <3>3. /\ LoadSees /\ Reading(c)
          /\ UNCHANGED <<disk, waitsOn, askedAt, editedAt>>
          /\ \A g \in File : \A v \in 1 .. disk[g] : Missing >= v
      BY <2>12 DEF ReadMisses
    <3>4. LoadSees'
      <4> HIDE <1>2 DEF TypeOK, Missing
      <4>1. QED
        BY <3>2, <3>3 DEF LoadSees
    <3>5. QED
      BY <3>1, <3>4
  \* The snapshot is younger than its load by MaxLoad at most, and so is a joiner.
  <2>5. ASSUME NEW c \in Call, LoadSucceeds(c) PROVE StaleInv'
    <3>1. ClockInv'
      BY <2>5 DEF LoadSucceeds, Resume, ClockInv
    <3>2. LoadSees'
      BY <2>5 DEF LoadSucceeds, Resume, LoadSees, Nothing
    <3>3. CacheSees'
      BY <2>5 DEF LoadSucceeds, Resume, CacheSees, LoadSees, ClockInv
    <3>4. EditsShowInTime'
      <4>1. ASSUME NEW d \in Call, waitsOn[d] = c,
                   NEW f \in File, NEW v \in 1 .. disk[f], Due(f, v, d)
            PROVE  got[c][f] >= v
        <5>1. /\ Reading(c) /\ ClockInv /\ LoadSees
              /\ IF Ttl > 0 THEN editedAt[f][v] + Ttl + MaxLoad <= askedAt[d]
                            ELSE editedAt[f][v] + MaxLoad < askedAt[d]
          BY <2>5, <4>1 DEF LoadSucceeds, Due
        <5> HIDE <1>2 DEF TypeOK
        <5>2. editedAt[f][v] < askedAt[c]
          BY <2>0, <4>1, <5>1 DEF ClockInv
        <5>3. QED
          BY <5>1, <5>2 DEF LoadSees
      <4>2. \A d \in Call : result'[d] = IF waitsOn[d] = c THEN got[c] ELSE result[d]
        BY <2>5 DEF LoadSucceeds, Resume
      <4>3. QED
        BY <2>5, <4>1, <4>2 DEF LoadSucceeds, EditsShowInTime, Answered, Due
    <3>5. QED
      BY <3>1, <3>2, <3>3, <3>4
  <2>6. ASSUME NEW c \in Call, LoadFails(c) PROVE StaleInv'
    <3>1. ClockInv' /\ CacheSees'
      BY <2>6 DEF LoadFails, Resume, ClockInv, CacheSees
    <3>2. LoadSees'
      BY <2>6 DEF LoadFails, Resume, LoadSees, Nothing
    <3>3. EditsShowInTime'
      BY <2>6 DEF LoadFails, Resume, EditsShowInTime, Answered, Due
    <3>4. QED
      BY <3>1, <3>2, <3>3
  <2>7. CASE Invalidate
    BY <2>7 DEF Invalidate, ClockInv, LoadSees, CacheSees, EditsShowInTime, Answered, Due
  \* A new edit is too young to be due for anybody.
  <2>8. ASSUME NEW f \in File, Edit(f) PROVE StaleInv'
    <3>1. \A g \in File : \A v \in 1 .. disk'[g] :
             \/ v \in 1 .. disk[g] /\ editedAt'[g][v] = editedAt[g][v]
             \/ editedAt'[g][v] = now
      <4> SUFFICES ASSUME NEW g \in File, NEW v \in 1 .. disk'[g]
                   PROVE  \/ v \in 1 .. disk[g] /\ editedAt'[g][v] = editedAt[g][v]
                          \/ editedAt'[g][v] = now
        OBVIOUS
      <4>1. CASE g = f
        <5>1. disk'[f] = disk[f] + 1 /\ disk[f] \in 0 .. MaxEdits /\ disk[f] < MaxEdits
          BY <2>8 DEF Edit
        <5>2. editedAt'[f] = [editedAt[f] EXCEPT ![disk[f] + 1] = now]
          BY <2>8 DEF Edit
        <5>3. editedAt[f] \in [0 .. MaxEdits -> 0 .. MaxTime]
          OBVIOUS
        <5>4. CASE v = disk[f] + 1
          <6>1. disk[f] + 1 \in 0 .. MaxEdits
            <7> HIDE <1>2 DEF TypeOK
            <7>1. QED
              BY <5>1
          <6>2. editedAt'[f][disk[f] + 1] = now
            BY <5>2, <5>3, <6>1
          <6>3. QED
            BY <4>1, <5>4, <6>2
        <5>5. CASE v # disk[f] + 1
          BY <4>1, <5>1, <5>2, <5>3, <5>5
        <5>6. QED
          BY <5>4, <5>5
      <4>2. CASE g # f
        BY <2>8, <4>2 DEF Edit
      <4>3. QED
        BY <4>1, <4>2
    <3>0. \A g \in File : \A v \in 1 .. disk'[g] : editedAt'[g][v] \in Nat
      <4>1. TypeOK'
        BY TypeInductive
      <4>2. \A g \in File : disk'[g] \in 0 .. MaxEdits
        BY <4>1
      <4>3. ASSUME NEW g \in File, NEW v \in 1 .. disk'[g] PROVE editedAt'[g][v] \in Nat
        <5>1. v \in 0 .. MaxEdits
          BY <4>2
        <5>2. QED
          BY <4>1, <5>1
      <4>4. QED
        BY <4>3
    <3>2. ClockInv'
      <4>1. ClockInv /\ UNCHANGED <<now, askedAt, waitsOn>>
        BY <2>8 DEF Edit
      <4> HIDE <1>2 DEF TypeOK
      <4>2. \A g \in File : \A v \in 1 .. disk'[g] : editedAt'[g][v] <= now
        BY <2>0, <3>1, <4>1 DEF ClockInv
      <4>3. QED
        BY <4>1, <4>2 DEF ClockInv
    <3>3. LoadSees'
      <4>1. ASSUME NEW c \in Call, NEW g \in File, NEW v \in 1 .. disk'[g],
                   Reading(c), editedAt'[g][v] < askedAt[c]
            PROVE  got[c][g] >= v
        <5>1. askedAt[c] \in Nat /\ now \in Nat /\ askedAt[c] <= now
          BY DEF ClockInv
        <5>2. v \in 1 .. disk[g] /\ editedAt'[g][v] = editedAt[g][v]
          <6>1. editedAt'[g][v] \in Nat
            BY <3>0
          <6> HIDE <1>2 DEF TypeOK
          <6>2. editedAt'[g][v] # now
            BY <4>1, <5>1, <6>1
          <6>3. QED
            BY <3>1, <6>2
        <5>3. QED
          BY <4>1, <5>2 DEF LoadSees
      <4>2. QED
        BY <2>8, <4>1 DEF Edit, LoadSees
    <3>4. CacheSees'
      <4>1. ASSUME cached # NoSnapshot, NEW g \in File, NEW v \in 1 .. disk'[g],
                   editedAt'[g][v] + MaxLoad < cachedAt
            PROVE  cached[g] >= v
        <5>1. cachedAt \in Nat /\ now \in Nat /\ cachedAt <= now
          OBVIOUS
        <5>2. v \in 1 .. disk[g] /\ editedAt'[g][v] = editedAt[g][v]
          <6>1. editedAt'[g][v] \in Nat /\ MaxLoad \in Nat
            BY <3>0
          <6> HIDE <1>2 DEF TypeOK
          <6>2. editedAt'[g][v] # now
            BY <4>1, <5>1, <6>1
          <6>3. QED
            BY <3>1, <6>2
        <5>3. QED
          BY <4>1, <5>2 DEF CacheSees
      <4>2. QED
        BY <2>8, <4>1 DEF Edit, CacheSees
    <3>5. EditsShowInTime'
      <4>1. ASSUME NEW c \in Call, Answered(c), NEW g \in File, NEW v \in 1 .. disk'[g],
                   Due(g, v, c)'
            PROVE  result[c][g] >= v
        <5>1. askedAt[c] \in Nat /\ now \in Nat /\ askedAt[c] <= now
          BY DEF ClockInv
        <5>2. v \in 1 .. disk[g] /\ editedAt'[g][v] = editedAt[g][v]
          <6>1. editedAt'[g][v] \in Nat /\ MaxLoad \in Nat /\ Ttl \in Nat
            BY <3>0
          <6>2. askedAt' = askedAt
            BY <2>8 DEF Edit
          <6> HIDE <1>2 DEF TypeOK
          <6>3. editedAt'[g][v] < askedAt[c]
            BY <4>1, <5>1, <6>1, <6>2 DEF Due
          <6>4. editedAt'[g][v] # now
            BY <5>1, <6>1, <6>3
          <6>5. QED
            BY <3>1, <6>4
        <5>3. Due(g, v, c)
          BY <2>8, <4>1, <5>2 DEF Edit, Due
        <5>4. QED
          BY <4>1, <5>2, <5>3 DEF EditsShowInTime
      <4>2. QED
        BY <2>8, <4>1 DEF Edit, EditsShowInTime, Answered
    <3>6. QED
      BY <3>2, <3>3, <3>4, <3>5
  <2>9. CASE Tick
    <3>1. ClockInv'
      BY <2>9 DEF Tick, ClockInv
    <3>2. LoadSees' /\ CacheSees'
      BY <2>9 DEF Tick, LoadSees, CacheSees
    <3>3. EditsShowInTime'
      BY <2>9 DEF Tick, EditsShowInTime, Answered, Due
    <3>4. QED
      BY <3>1, <3>2, <3>3
  <2>10. CASE UNCHANGED vars
    BY <2>10 DEF vars, ClockInv, LoadSees, CacheSees, EditsShowInTime, Answered, Due
  <2>11. QED
    BY <2>1, <2>2, <2>3, <2>4, <2>12, <2>5, <2>6, <2>7, <2>8, <2>9, <2>10 DEF Next, GoesOn
<1>3. QED
  BY <1>1, <1>2

\* An edit shows a TTL and a load later, for any TTL, number of calls, files and edits.
THEOREM EditsShow == Spec => []EditsShowInTime
<1>1. StaleInv => EditsShowInTime
  BY DEF StaleInv
<1>2. QED
  BY <1>1, StaleInvInductive, TypeCorrect, NobodyForgotten, PTL DEF Spec

-----------------------------------------------------------------------------
\* Until somebody invalidates, the load in flight is the only one, and what it has read
\* is no older than the snapshot it is going to replace.
OnlyLoad == floor = NoSnapshot => \A c \in Call : Reading(c) => loading = c

ReadsForward ==
    \A c \in Call, f \in File :
        /\ ~Reading(c) => got[c][f] = Unread
        /\ got[c][f] \notin {Unread, Missing} => got[c][f] <= disk[f]
        /\ floor = NoSnapshot /\ cached # NoSnapshot =>
              cached[f] = Missing \/ (got[c][f] >= cached[f] /\ disk[f] >= cached[f])

ForwardInv == OnlyLoad /\ ReadsForward

\* The invariant of the order of loads holds initially and is kept by every step.
LEMMA ForwardInductive ==
    /\ Init => ForwardInv
    /\ TypeOK /\ WaitersAreServed /\ ForwardInv /\ [Next]_vars => ForwardInv'
<1> USE RegistryAssumption
<1> USE DEF Reading
<1>1. Init => ForwardInv
  BY DEF Init, Original, Nothing, ForwardInv, OnlyLoad, ReadsForward
<1>2. ASSUME TypeOK, WaitersAreServed, ForwardInv, [Next]_vars PROVE ForwardInv'
  <2> USE <1>2
  <2> USE DEF TypeOK, Contents, Snapshot, Missing, Unread, cacheVars, historyVars, ForwardInv
  <2>0. \A c \in Call, f \in File :
           /\ got[c][f] \in 0 .. Unread /\ disk[f] \in 0 .. MaxEdits
           /\ cached # NoSnapshot => cached[f] \in 0 .. Missing
    OBVIOUS
  <2>1. ASSUME NEW c \in Call, Hit(c) PROVE ForwardInv'
    BY <2>1 DEF Hit, Noted, OnlyLoad, ReadsForward
  <2>2. ASSUME NEW c \in Call, Join(c) PROVE ForwardInv'
    BY <2>2 DEF Join, Noted, Idle, OnlyLoad, ReadsForward, WaitersAreServed
  <2>3. ASSUME NEW c \in Call, Load(c) PROVE ForwardInv'
    BY <2>3 DEF Load, Noted, Idle, OnlyLoad, ReadsForward
  <2>4. ASSUME NEW c \in Call, NEW f \in File, ReadFile(c, f) PROVE ForwardInv'
    <3>1. OnlyLoad'
      BY <2>4 DEF ReadFile, OnlyLoad
    <3>2. \A d \in Call, g \in File :
             got'[d][g] = IF d = c /\ g = f THEN disk[f] ELSE got[d][g]
      BY <2>4 DEF ReadFile
    <3>3. /\ ReadsForward /\ Reading(c)
          /\ UNCHANGED <<disk, cached, waitsOn, floor>>
      BY <2>4 DEF ReadFile
    <3> HIDE <1>2 DEF TypeOK
    <3>4. ReadsForward'
      BY <2>0, <3>2, <3>3 DEF ReadsForward
    <3>5. QED
      BY <3>1, <3>4
  <2>12. ASSUME NEW c \in Call, NEW f \in File, ReadMisses(c, f) PROVE ForwardInv'
    <3>1. OnlyLoad'
      BY <2>12 DEF ReadMisses, OnlyLoad
    <3>2. \A d \in Call, g \in File :
             got'[d][g] = IF d = c /\ g = f THEN Missing ELSE got[d][g]
      BY <2>12 DEF ReadMisses
    <3>3. /\ ReadsForward /\ Reading(c)
          /\ UNCHANGED <<disk, cached, waitsOn, floor>>
      BY <2>12 DEF ReadMisses
    <3> HIDE <1>2 DEF TypeOK
    <3>4. ReadsForward'
      BY <2>0, <3>2, <3>3 DEF ReadsForward
    <3>5. QED
      BY <3>1, <3>4
  <2>5. ASSUME NEW c \in Call, LoadSucceeds(c) PROVE ForwardInv'
    <3>1. OnlyLoad'
      BY <2>5 DEF LoadSucceeds, Resume, OnlyLoad
    <3>2. \A d \in Call, g \in File :
             got'[d][g] = IF d = c THEN Unread ELSE got[d][g]
      BY <2>5 DEF LoadSucceeds, Resume, Nothing
    <3>3. /\ OnlyLoad /\ ReadsForward /\ Reading(c)
          /\ \A f \in File : got[c][f] # Unread
          /\ cached' = got[c] /\ UNCHANGED <<disk, floor>>
          /\ \A d \in Call : waitsOn'[d] = IF waitsOn[d] = c THEN NoCall ELSE waitsOn[d]
      BY <2>5 DEF LoadSucceeds, Resume
    \* Any other call has read nothing, for it would be in flight instead.
    <3>4. floor = NoSnapshot => \A d \in Call, g \in File : got'[d][g] = Unread
      BY <3>2, <3>3 DEF OnlyLoad, ReadsForward
    <3> HIDE <1>2 DEF TypeOK
    <3>5. ReadsForward'
      BY <2>0, <3>2, <3>3, <3>4 DEF ReadsForward
    <3>6. QED
      BY <3>1, <3>5
  <2>6. ASSUME NEW c \in Call, LoadFails(c) PROVE ForwardInv'
    <3>1. OnlyLoad'
      BY <2>6 DEF LoadFails, Resume, OnlyLoad
    <3>2. \A d \in Call, g \in File :
             got'[d][g] = IF d = c THEN Unread ELSE got[d][g]
      BY <2>6 DEF LoadFails, Resume, Nothing
    <3>3. /\ ReadsForward /\ UNCHANGED <<disk, cached, floor>>
          /\ \A d \in Call : waitsOn'[d] = IF waitsOn[d] = c THEN NoCall ELSE waitsOn[d]
      BY <2>6 DEF LoadFails, Resume
    <3> HIDE <1>2 DEF TypeOK
    <3>4. ReadsForward'
      BY <2>0, <3>2, <3>3 DEF ReadsForward
    <3>5. QED
      BY <3>1, <3>4
  <2>7. CASE Invalidate
    BY <2>7 DEF Invalidate, OnlyLoad, ReadsForward
  <2>8. ASSUME NEW f \in File, Edit(f) PROVE ForwardInv'
    <3>1. \A g \in File : disk'[g] = IF g = f THEN disk[f] + 1 ELSE disk[g]
      BY <2>8 DEF Edit
    <3>2. OnlyLoad /\ ReadsForward /\ UNCHANGED <<cached, loading, got, waitsOn, floor>>
      BY <2>8 DEF Edit
    <3> HIDE <1>2 DEF TypeOK
    <3>3. OnlyLoad'
      BY <3>2 DEF OnlyLoad
    <3>4. ReadsForward'
      BY <2>0, <3>1, <3>2 DEF ReadsForward
    <3>5. QED
      BY <3>3, <3>4
  <2>9. CASE Tick \/ UNCHANGED vars
    BY <2>9 DEF Tick, vars, OnlyLoad, ReadsForward
  <2>10. QED
    BY <2>1, <2>2, <2>3, <2>4, <2>12, <2>5, <2>6, <2>7, <2>8, <2>9 DEF Next, GoesOn
<1>3. QED
  BY <1>1, <1>2

\* Until the first invalidate() no file of the snapshot served goes back to an older
\* content, whatever fails and however long loads take.
THEOREM ServesForward == Spec => NeverGoesBack
<1> USE RegistryAssumption
<1>1. TypeOK /\ ForwardInv /\ [Next]_vars =>
        (cached # NoSnapshot /\ floor' = NoSnapshot => cached' # NoSnapshot /\ AtLeast(cached', cached))
  <2> SUFFICES ASSUME TypeOK, ForwardInv, [Next]_vars, cached # NoSnapshot, floor' = NoSnapshot
               PROVE  cached' # NoSnapshot /\ AtLeast(cached', cached)
    OBVIOUS
  <2>1. ASSUME NEW c \in Call, LoadSucceeds(c)
        PROVE  cached' # NoSnapshot /\ AtLeast(cached', cached)
    <3>1. TypeOK' /\ cached' = got[c] /\ floor = NoSnapshot
      BY <2>1, TypeInductive DEF LoadSucceeds, historyVars
    <3>2. got[c] \in Snapshot
      <4>1. \A f \in File : got[c][f] \in 0 .. Missing
        BY <2>1 DEF LoadSucceeds, TypeOK, Unread, Missing
      <4>2. got[c] = [f \in File |-> got[c][f]]
        BY DEF TypeOK
      <4>3. QED
        BY <4>1, <4>2 DEF Snapshot
    <3>3. QED
      <4>1. got[c] # NoSnapshot
        BY <3>2 DEF Snapshot, Missing
      <4>2. \A f \in File : cached[f] = Missing \/ got[c][f] >= cached[f]
        BY <3>1 DEF ForwardInv, ReadsForward
      <4>3. QED
        BY <3>1, <4>1, <4>2 DEF AtLeast
  <2>2. CASE Invalidate
    BY <2>2 DEF Invalidate, TypeOK, Contents
  <2>3. CASE UNCHANGED cached
    BY <2>3 DEF AtLeast, TypeOK, Snapshot, Missing
  <2>4. QED
    BY <2>1, <2>2, <2>3
    DEF Next, GoesOn, Hit, Join, Load, ReadFile, ReadMisses, LoadFails, Edit, Tick, vars, cacheVars
<1>2. QED
  BY <1>1, ForwardInductive, TypeCorrect, NobodyForgotten, PTL DEF Spec, NeverGoesBack

-----------------------------------------------------------------------------
\* Until somebody invalidates, nobody has got anything newer than the snapshot that is
\* cached, than what a load under way has read, or than the disk; a second read is made
\* when the first has been answered.
NotAhead(c) ==
    \A f \in File : result[c][f] # Missing =>
        disk[f] >= result[c][f] /\ \A d \in Call : got[d][f] >= result[c][f]

CachedIsNewest ==
    floor = NoSnapshot =>
        \A c \in Call : Answered(c) =>
            cached # NoSnapshot /\ AtLeast(cached, result[c]) /\ NotAhead(c)

InTurn ==
    /\ \A c \in Call : waitsOn[c] # NoCall => result[c] = NoSnapshot
    /\ \A c \in Call : After[c] # NoCall /\ ~Idle(c) => Answered(After[c])

LaterInv == CachedIsNewest /\ InTurn /\ LaterReadNotOlder

\* A load that ends leaves no file unread; without an invalidation it was the only one,
\* and what it got is no newer than the disk.
LEMMA LoadIsAlone ==
    ASSUME TypeOK, ForwardInv, NEW c \in Call, LoadSucceeds(c)
    PROVE  /\ got[c] \in Snapshot
           /\ floor = NoSnapshot => \A d \in Call, f \in File : got'[d][f] = Unread
           /\ \A f \in File : got[c][f] # Missing => got[c][f] <= disk[f]
<1>1. \A f \in File : got[c][f] \in 0 .. Missing /\ got[c][f] # Unread
  BY RegistryAssumption DEF LoadSucceeds, TypeOK, Unread, Missing
<1>2. got[c] = [f \in File |-> got[c][f]]
  BY DEF TypeOK
<1>3. \A d \in Call, f \in File : got'[d][f] = IF d = c THEN Unread ELSE got[d][f]
  BY DEF LoadSucceeds, Resume, Nothing, TypeOK
<1>4. QED
  BY <1>1, <1>2, <1>3
  DEF Snapshot, ForwardInv, ReadsForward, OnlyLoad, LoadSucceeds, Reading

\* The invariant of the order of answers holds initially and is kept by every step.
LEMMA LaterInductive ==
    /\ Init => LaterInv
    /\ TypeOK /\ WaitersAreServed /\ ForwardInv /\ LaterInv /\ [Next]_vars => LaterInv'
<1> USE RegistryAssumption
<1>1. Init => LaterInv
  BY DEF Init, LaterInv, CachedIsNewest, InTurn, LaterReadNotOlder, Answered, Idle
<1>2. ASSUME TypeOK, WaitersAreServed, ForwardInv, LaterInv, [Next]_vars PROVE LaterInv'
  <2> USE <1>2 DEF LaterInv
  <2>t. /\ cached \in Snapshot \cup {NoSnapshot}
        /\ result \in [Call -> Snapshot \cup {NoSnapshot, Failed}]
        /\ waitsOn \in [Call -> Call \cup {NoCall}]
        /\ NoSnapshot \notin Snapshot
    BY DEF TypeOK, Snapshot, Missing
  <2>r. \A d \in Call : Answered(d) => result[d] \in Snapshot
    BY <2>t DEF Answered
  <2>s. \A x \in Snapshot : AtLeast(x, x)
    BY DEF AtLeast, Snapshot, Missing
  <2>1. ASSUME NEW c \in Call, Hit(c) PROVE LaterInv'
    <3>1. /\ Idle(c) /\ (After[c] # NoCall => Answered(After[c])) /\ cached # NoSnapshot
          /\ \A d \in Call : result'[d] = IF d = c THEN cached ELSE result[d]
          /\ UNCHANGED <<floor, cached, waitsOn, disk, got>>
      BY <2>1, <2>t DEF Hit, Noted, Fresh, cacheVars
    <3>2. \A d \in Call : Answered(d) => d # c
      BY <3>1 DEF Idle, Answered
    <3>3. CachedIsNewest'
      <4>1. ASSUME floor = NoSnapshot PROVE NotAhead(c)'
        BY <3>1, <4>1 DEF NotAhead, ForwardInv, ReadsForward
      <4>2. ASSUME NEW d \in Call, d # c, NotAhead(d) PROVE NotAhead(d)'
        BY <3>1, <4>2 DEF NotAhead
      <4>3. QED
        BY <2>s, <2>t, <3>1, <4>1, <4>2 DEF CachedIsNewest, Answered
    <3>4. InTurn'
      BY <3>1, <3>2 DEF InTurn, Idle, Answered
    <3>5. LaterReadNotOlder'
      BY <3>1, <3>2 DEF LaterReadNotOlder, CachedIsNewest, InTurn, Idle, Answered
    <3>6. QED
      BY <3>3, <3>4, <3>5
  <2>2. ASSUME NEW c \in Call, Join(c) \/ Load(c) PROVE LaterInv'
    <3>1. /\ Idle(c) /\ (After[c] # NoCall => Answered(After[c]))
          /\ \A d \in Call : d # c => waitsOn'[d] = waitsOn[d]
          /\ UNCHANGED <<floor, cached, result, disk, got>>
      BY <2>2, <2>t DEF Join, Load, Noted, cacheVars
    <3>2. CachedIsNewest' /\ LaterReadNotOlder'
      BY <3>1 DEF CachedIsNewest, NotAhead, LaterReadNotOlder, Answered
    <3>3. InTurn'
      BY <3>1 DEF InTurn, Idle, Answered
    <3>4. QED
      BY <3>2, <3>3
  <2>3. ASSUME NEW c \in Call, LoadSucceeds(c) PROVE LaterInv'
    <3>1. /\ waitsOn[c] = c /\ cached' = got[c] /\ floor' = floor /\ disk' = disk
          /\ \A d \in Call : waitsOn'[d] = IF waitsOn[d] = c THEN NoCall ELSE waitsOn[d]
          /\ \A d \in Call : result'[d] = IF waitsOn[d] = c THEN got[c] ELSE result[d]
      BY <2>3, <2>t DEF LoadSucceeds, Resume, Reading, historyVars
    <3>2. /\ got[c] \in Snapshot
          /\ floor = NoSnapshot => \A d \in Call, f \in File : got'[d][f] = Unread
          /\ \A f \in File : got[c][f] # Missing => got[c][f] <= disk[f]
      BY <2>3, LoadIsAlone
    <3>3. \A d \in Call : waitsOn[d] = c => ~Answered(d)
      BY DEF InTurn, Answered
    <3>4. ASSUME floor = NoSnapshot, NEW d \in Call, Answered(d) PROVE AtLeast(got[c], result[d])
      BY <3>4 DEF CachedIsNewest, NotAhead, AtLeast
    <3>5. CachedIsNewest'
      <4>1. \A x \in Snapshot, f \in File : x[f] \in 0 .. Missing /\ x[f] <= Unread
        BY DEF Snapshot, Missing, Unread
      <4>2. \A f \in File : disk[f] \in Nat
        BY DEF TypeOK, Contents
      <4>3. ASSUME floor = NoSnapshot, NEW d \in Call, waitsOn[d] = c PROVE NotAhead(d)'
        BY <3>1, <3>2, <4>1, <4>2, <4>3 DEF NotAhead, Missing
      <4>4. ASSUME floor = NoSnapshot, NEW d \in Call, Answered(d), NotAhead(d) PROVE NotAhead(d)'
        BY <2>r, <3>1, <3>2, <3>3, <4>1, <4>4 DEF NotAhead, Missing, Unread
      <4>5. QED
        BY <2>s, <2>t, <3>1, <3>2, <3>4, <4>3, <4>4 DEF CachedIsNewest, Answered
    <3>6. InTurn'
      BY <2>t, <3>1, <3>2, <3>3 DEF InTurn, Idle, Answered
    <3>7. LaterReadNotOlder'
      BY <3>1, <3>2, <3>3, <3>4 DEF LaterReadNotOlder, InTurn, Idle, Answered
    <3>8. QED
      BY <3>5, <3>6, <3>7
  <2>4. ASSUME NEW c \in Call, LoadFails(c) PROVE LaterInv'
    <3>1. /\ waitsOn[c] = c /\ cached' = cached /\ floor' = floor /\ disk' = disk
          /\ \A d \in Call : waitsOn'[d] = IF waitsOn[d] = c THEN NoCall ELSE waitsOn[d]
          /\ \A d \in Call : result'[d] = IF waitsOn[d] = c THEN Failed ELSE result[d]
          /\ \A d \in Call, f \in File : got'[d][f] = IF d = c THEN Unread ELSE got[d][f]
      BY <2>4, <2>t DEF LoadFails, Resume, Reading, historyVars, Nothing, TypeOK
    <3>2. \A d \in Call : waitsOn[d] = c => ~Answered(d)
      BY DEF InTurn, Answered
    <3>3. CachedIsNewest'
      <4>1. \A x \in Snapshot, f \in File : x[f] \in 0 .. Missing /\ x[f] <= Unread
        BY DEF Snapshot, Missing, Unread
      <4>2. ASSUME NEW d \in Call, Answered(d), NotAhead(d) PROVE NotAhead(d)'
        BY <2>r, <3>1, <3>2, <4>1, <4>2 DEF NotAhead, Missing, Unread
      <4>3. QED
        BY <3>1, <4>2 DEF CachedIsNewest, Answered
    <3>4. InTurn' /\ LaterReadNotOlder'
      BY <3>1, <3>2 DEF InTurn, LaterReadNotOlder, Idle, Answered
    <3>5. QED
      BY <3>3, <3>4
  <2>5. CASE Invalidate
    <3>1. floor' # NoSnapshot /\ UNCHANGED <<result, waitsOn>>
      BY <2>5 DEF Invalidate, TypeOK, Contents
    <3>2. QED
      BY <3>1 DEF CachedIsNewest, LaterReadNotOlder, InTurn, Idle, Answered
  <2>d. disk \in [File -> Nat] /\ got \in [Call -> [File -> Nat]]
    BY DEF TypeOK, Contents, Unread
  \* What is read, and what is edited, only goes up.
  <2>6. ASSUME UNCHANGED <<cached, result, waitsOn, floor>>,
               \A f \in File : disk'[f] >= disk[f],
               \A d \in Call, f \in File :
                  got'[d][f] = got[d][f] \/ got'[d][f] = disk[f] \/ got'[d][f] = Missing
        PROVE  LaterInv'
    <3>1. ASSUME NEW d \in Call, Answered(d), NotAhead(d) PROVE NotAhead(d)'
      <4>1. \A f \in File : result[d][f] \in 0 .. Missing /\ disk[f] \in Nat /\ disk'[f] \in Nat
        BY <2>r, <3>1, TypeInductive DEF TypeOK, Snapshot, Contents
      <4>2. \A e \in Call, f \in File : got[e][f] \in Nat
        BY DEF TypeOK, Unread
      <4>3. QED
        BY <2>6, <3>1, <4>1, <4>2 DEF NotAhead, Missing
    <3>2. QED
      BY <2>6, <3>1 DEF CachedIsNewest, LaterReadNotOlder, InTurn, Idle, Answered
  <2>7. ASSUME NEW c \in Call, NEW f \in File, ReadFile(c, f) \/ ReadMisses(c, f)
        PROVE  LaterInv'
    <3>1. CASE ReadFile(c, f)
      <4>1. \A d \in Call, g \in File :
               got'[d][g] = IF d = c /\ g = f THEN disk[f] ELSE got[d][g]
        BY <2>d, <3>1 DEF ReadFile
      <4>2. UNCHANGED <<cached, result, waitsOn, floor, disk>>
        BY <3>1 DEF ReadFile, cacheVars, historyVars
      <4>3. QED
        BY <2>d, <2>6, <4>1, <4>2
    <3>2. CASE ReadMisses(c, f)
      <4>1. \A d \in Call, g \in File :
               got'[d][g] = IF d = c /\ g = f THEN Missing ELSE got[d][g]
        BY <2>d, <3>2 DEF ReadMisses
      <4>2. UNCHANGED <<cached, result, waitsOn, floor, disk>>
        BY <3>2 DEF ReadMisses, cacheVars, historyVars
      <4>3. QED
        BY <2>d, <2>6, <4>1, <4>2
    <3>3. QED
      BY <2>7, <3>1, <3>2
  <2>8. CASE (\E f \in File : Edit(f)) \/ Tick \/ UNCHANGED vars
    <3>1. CASE \E f \in File : Edit(f)
      <4>1. PICK f \in File : disk' = [disk EXCEPT ![f] = disk[f] + 1]
        BY <3>1 DEF Edit
      <4>2. \A g \in File : disk'[g] >= disk[g]
        BY <2>d, <4>1
      <4>3. UNCHANGED <<cached, result, waitsOn, floor, got>>
        BY <3>1 DEF Edit, cacheVars
      <4>4. QED
        BY <2>6, <4>2, <4>3
    <3>2. CASE Tick \/ UNCHANGED vars
      <4>1. UNCHANGED <<cached, result, waitsOn, floor, got, disk>>
        BY <3>2 DEF Tick, vars, cacheVars, historyVars
      <4>2. QED
        BY <2>d, <2>6, <4>1
    <3>3. QED
      BY <2>8, <3>1, <3>2
  <2>9. QED
    BY <2>1, <2>2, <2>3, <2>4, <2>5, <2>7, <2>8 DEF Next, GoesOn
<1>3. QED
  BY <1>1, <1>2

\* compile()'s second read is never older than its first, in no file, whatever calls,
\* loads, failures and edits come between.
THEOREM ReadsInOrder == Spec => []LaterReadNotOlder
<1>1. LaterInv => LaterReadNotOlder
  BY DEF LaterInv
<1>2. QED
  BY <1>1, LaterInductive, ForwardInductive, TypeCorrect, NobodyForgotten, PTL DEF Spec
=============================================================================
