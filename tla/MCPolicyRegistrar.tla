-------------------------- MODULE MCPolicyRegistrar --------------------------
(* A small instance of PolicyRegistrar for TLC. *)
EXTENDS PolicyRegistrar

CONSTANTS p1, p2, old, new

TwoPolicies == {p1, p2}

OneMisworded == {p2}

TwoRules == {old, new}
=============================================================================
