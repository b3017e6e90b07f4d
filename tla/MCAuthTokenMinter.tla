-------------------------- MODULE MCAuthTokenMinter --------------------------
(* A small instance of AuthTokenMinter for TLC. *)
EXTENDS AuthTokenMinter

CONSTANTS c1, c2, c3, c4

\* Three calls of one agent as initiator and one with other scopes.
FourCalls == {c1, c2, c3, c4}
OneSender == [c \in FourCalls |-> "fraud-agent"]
TwoScopes == [c \in FourCalls |-> IF c = c4 THEN {} ELSE {"can_start_sessions"}]

\* A lifetime the answer states, and one it caps without saying so.
grant(t, s) == [ttl |-> t, stated |-> s]
MixedGrants == {grant(4, TRUE), grant(1, FALSE)}
=============================================================================
