---------------------------- MODULE MCPolicyBallot ----------------------------
(* A small instance of PolicyBallot for TLC. *)
EXTENDS PolicyBallot, TLC

CONSTANTS s1, s2, s3

Specialists == {s1, s2, s3}
SpecialistSymmetry == Permutations(Specialists)

policyOf(type, num, den, veto, confidence) ==
    [type |-> type, num |-> num, den |-> den, vetoEnabled |-> veto > 0,
     vetoThreshold |-> veto, minimumConfidence |-> confidence]

\* The shapes of the shipped policies (a half and 0.67, with and without a veto
\* of one or two, with and without a confidence floor), and a weighted one.
ShippedShapes ==
    {policyOf(p[1], p[2], p[3], veto, confidence) :
        p \in {<<"none", 1, 2>>, <<"unanimous", 1, 1>>, <<"majority", 1, 2>>,
               <<"supermajority", 67, 100>>, <<"weighted", 1, 2>>},
        veto \in {0, 1, 2}, confidence \in {0, 1}}
=============================================================================
