------------------------- MODULE MCLaunchSupervisor -------------------------
(* Small instances of LaunchSupervisor for TLC. *)
EXTENDS LaunchSupervisor, TLC

CONSTANTS a1, a2, a3, k1, k2

\* Two participants of fresh runs: every request has a key of its own.
FreshAttach == {a1, a2}
FreshKey == {k1, k2}
FreshKeyOf == [a \in FreshAttach |-> IF a = a1 THEN k1 ELSE k2]

\* Three requests for one key: retries of one (runId, participantId).
RetryAttach == {a1, a2, a3}
RetryKey == {k1}
RetryKeyOf == [a \in RetryAttach |-> k1]
RetrySymmetry == Permutations(RetryAttach)

AnyOutcome == {"running", "failed"}
RunningOnly == {"running"}
=============================================================================
