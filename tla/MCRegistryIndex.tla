--------------------------- MODULE MCRegistryIndex ---------------------------
(* A small instance of RegistryIndex for TLC. *)
EXTENDS RegistryIndex

CONSTANTS c1, c2, c3, scenario

\* c3 is the second read of the request that made c1.
ThreeCalls == {c1, c2, c3}
SecondRead == [c \in ThreeCalls |-> IF c = c3 THEN c1 ELSE NoCall]

OneFile == {scenario}
=============================================================================
