-------------------------- MODULE MCDecisionSession --------------------------
(* Small instances of DecisionSession for TLC. *)
EXTENDS DecisionSession

CONSTANTS s1, s2

TwoSpecialists == {s1, s2}
OneSpecialist == {s2}

\* policies/: default and fraud.majority-veto.  Of two specialists, one is a quorum of
\* the majority policy.
DefaultPolicy ==
    [type |-> "none", num |-> 1, den |-> 2, vetoEnabled |-> FALSE, vetoThreshold |-> 1,
     minimumConfidence |-> 0]
MajorityPolicy == [DefaultPolicy EXCEPT !.type = "majority"]

opinion(word, confidence) == [word |-> word, confidence |-> confidence]

\* An approval whose vote rejects, a doubt whose vote approves, a rejection.
ThreeOpinions == {opinion("ACCEPT", 2), opinion("REVIEW", 1), opinion("BLOCK", 1)}
OneOpinion == {opinion("APPROVE", 1)}
=============================================================================
