----------------------------- MODULE MCExampleRun -----------------------------
(* Small instances of ExampleRun for TLC. *)
EXTENDS ExampleRun

CONSTANTS r1, r2, r3, p1, p2, p3

bind(p, k) == [participant |-> p, kind |-> k]

\* Every kind of binding, and a participant bound twice.  r1 can succeed, the others
\* cannot, and p1 starts the sessions of r1 and r3 but not that of r2.
ThreeRuns == {r1, r2, r3}
MixedScenario ==
    [r \in ThreeRuns |->
        CASE r = r1 -> <<bind(p1, "attached"), bind(p2, "deferred"), bind(p3, "invalid"),
                         bind(p1, "attached")>>
          [] r = r2 -> <<bind(p1, "attached"), bind(p2, "misconfigured"), bind(p3, "attached")>>
          [] r = r3 -> <<bind(p1, "attached"), bind(p2, "unknown")>>]
MixedInitiator == [r \in ThreeRuns |-> IF r = r2 THEN p2 ELSE p1]
MixedModes == [r \in ThreeRuns |-> IF r = r2 THEN "quorum" ELSE "decision"]

\* p1, the one that is launched in several roles and modes, has an override of others.
NoOverride == [f \in {} |-> Null]
MixedOverrides ==
    [p \in {p1, p2, p3} |->
        IF p = p1 THEN [is_observer |-> Null, max_open_sessions |-> 1] ELSE NoOverride]

AnyOutcome == {"running", "failed"}

OneGrant == {[ttl |-> 1, stated |-> TRUE]}
=============================================================================
