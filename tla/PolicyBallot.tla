----------------------------- MODULE PolicyBallot -----------------------------
(***************************************************************************)
(* The coordinator's signal map while messages come in, and the decision   *)
(* it would take at each moment: what the specialists may rely on when     *)
(* they change their minds, whatever the policy.  A later message of a     *)
(* specialist replaces the earlier one, of whatever type.                  *)
(***************************************************************************)
EXTENDS PolicyStrategy

CONSTANT Policies

ASSUME BallotAssumption ==
    /\ IsFiniteSet(Specialist) /\ NoSignal \notin Signal
    /\ \A p \in Policies : /\ p.num \in Nat /\ p.den \in Nat
                          /\ p.minimumConfidence \in Nat /\ p.vetoThreshold \in Nat

VARIABLES policy, signals

Init ==
    /\ policy \in Policies
    /\ signals = [s \in Specialist |-> NoSignal]

Receive(s, signal) ==
    /\ signals' = [signals EXCEPT ![s] = signal]
    /\ UNCHANGED policy

ReceiveEvaluation(s) ==
    \E r \in Recommendation, c \in 0 .. FullConfidence : Receive(s, Evaluation(r, c))
ReceiveObjection(s) == \E v \in {"high", "critical"} : Receive(s, Objection(v))
ReceiveVote(s) == \E v \in {"APPROVE", "REJECT", "ABSTAIN"} : Receive(s, VoteSignal(v))

Next == \E s \in Specialist : ReceiveEvaluation(s) \/ ReceiveObjection(s) \/ ReceiveVote(s)

Spec == Init /\ [][Next]_<<policy, signals>>

-----------------------------------------------------------------------------
Rank(action) == CASE action = "decline" -> 0 [] action = "step_up" -> 1 [] action = "approve" -> 2

Favour(signal) ==
    IF signal.kind = "Objection" THEN IF signal.severity = "critical" THEN 0 ELSE 1
    ELSE CASE signal.recommendation = "BLOCK" -> 2
           [] signal.recommendation \in {"REVIEW", "ABSTAIN"} -> 3
           [] signal.recommendation = "APPROVE" -> 4

SameConfidence(x, y) ==
    x.kind = "Evaluation" /\ y.kind = "Evaluation" => x.confidence = y.confidence

\* A specialist who turns in favour never makes the outcome worse: from an objection
\* to an evaluation, from BLOCK to REVIEW or ABSTAIN, from there to APPROVE.
FavourIsMonotone ==
    [][\A s \in Specialist :
         /\ signals[s] # NoSignal
         /\ SameConfidence(signals[s], signals'[s])
         /\ Favour(signals[s]) < Favour(signals'[s])
         /\ \A t \in Specialist \ {s} : signals'[t] = signals[t]
         => Rank(decide(policy, signals')) >= Rank(decide(policy, signals))]_<<policy, signals>>

BelowFloor(signal) == signal.kind = "Evaluation" /\ signal.confidence < policy.minimumConfidence

\* What an evaluation below the minimum confidence recommends has no influence.
LowConfidenceIsMute ==
    [][\A s \in Specialist :
         /\ signals[s] # NoSignal
         /\ BelowFloor(signals[s]) /\ BelowFloor(signals'[s])
         /\ \A t \in Specialist \ {s} : signals'[t] = signals[t]
         => decide(policy, signals') = decide(policy, signals)]_<<policy, signals>>

\* Under a unanimous policy one signal that is not a confident APPROVE prevents approval.
UnanimityNeedsAll ==
    policy.type = "unanimous" /\ decide(policy, signals) = "approve" =>
        \A s \in Heard(signals) :
            /\ signals[s].kind = "Evaluation"
            /\ signals[s].recommendation = "APPROVE"
            /\ signals[s].confidence >= policy.minimumConfidence
=============================================================================
