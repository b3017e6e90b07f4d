---------------------------- MODULE PolicyStrategy ----------------------------
(***************************************************************************)
(* How the risk coordinator judges the specialists' signals:               *)
(* createPolicyStrategy() of                                               *)
(* src/src/example-agents/runtime/policy-strategy.ts, and the signals that *)
(* the handlers of risk-decider.worker.ts make of the messages.            *)
(*                                                                         *)
(* A policy is a record [type, num, den, vetoEnabled, vetoThreshold,       *)
(* minimumConfidence], with the threshold num/den.  A signal map gives     *)
(* each specialist its last signal, or NoSignal.                           *)
(***************************************************************************)
EXTENDS Naturals, FiniteSets

CONSTANTS Specialist, NoSignal

PolicyType == {"none", "majority", "supermajority", "unanimous", "weighted"}
Recommendation == {"APPROVE", "REVIEW", "BLOCK", "ABSTAIN"}  \* REJECT counts as BLOCK
FullConfidence == 2  \* confidences are 0 .. 2 for the real 0.0 .. 1.0

Evaluation(recommendation, confidence) ==
    [kind |-> "Evaluation", recommendation |-> recommendation, confidence |-> confidence]
Objection(severity) == [kind |-> "Objection", severity |-> severity]

Signal ==
    {Evaluation(r, c) : r \in Recommendation, c \in 0 .. FullConfidence}
        \cup {Objection(v) : v \in {"high", "critical"}}

\* The Vote handler files a vote as an evaluation of full confidence.
VoteSignal(vote) ==
    Evaluation(CASE vote = "APPROVE" -> "APPROVE"
                 [] vote = "ABSTAIN" -> "REVIEW"
                 [] OTHER -> "BLOCK", FullConfidence)

-----------------------------------------------------------------------------
Heard(signals) == {s \in Specialist : signals[s] # NoSignal}

Objecting(signals) == {s \in Heard(signals) : signals[s].kind = "Objection"}
Critical(signals) == {s \in Objecting(signals) : signals[s].severity = "critical"}

\* Evaluations that meet the minimum confidence, and those that do not.
Qualified(policy, signals) ==
    {s \in Heard(signals) \ Objecting(signals) :
        signals[s].confidence >= policy.minimumConfidence}
Disqualified(policy, signals) ==
    (Heard(signals) \ Objecting(signals)) \ Qualified(policy, signals)

\* Mutant of Saying: low confidence does not disqualify.
SayingAnyhow(policy, signals, recommendation) ==
    {s \in Heard(signals) \ Objecting(signals) : signals[s].recommendation = recommendation}

Saying(policy, signals, recommendation) ==
    {s \in Qualified(policy, signals) : signals[s].recommendation = recommendation}

\* isQuorumMet: size >= max(1, ceil(total * threshold)).
isQuorumMet(policy, signals, total) ==
    IF policy.type \in {"unanimous", "none"}
    THEN Cardinality(Heard(signals)) >= total
    ELSE /\ Cardinality(Heard(signals)) >= 1
         /\ Cardinality(Heard(signals)) * policy.den >= total * policy.num

Vetoed(policy, signals) ==
    policy.vetoEnabled /\ Cardinality(Critical(signals)) >= policy.vetoThreshold

\* Mutant of decideUnanimous: evaluations below the minimum confidence are left out.
decideUnanimousOfQualified(policy, signals) ==
    IF Saying(policy, signals, "BLOCK") # {} \/ Objecting(signals) # {} THEN "decline"
    ELSE IF Saying(policy, signals, "APPROVE") = Qualified(policy, signals) THEN "approve"
    ELSE "step_up"

decideUnanimous(policy, signals) ==
    IF Saying(policy, signals, "BLOCK") # {} \/ Objecting(signals) # {} THEN "decline"
    ELSE IF Disqualified(policy, signals) # {} THEN "step_up"
    ELSE IF Saying(policy, signals, "APPROVE") = Heard(signals) THEN "approve"
    ELSE "step_up"

RateReached(policy, approvals, total) ==
    IF total > 0 THEN approvals * policy.den >= policy.num * total ELSE policy.num = 0

\* Mutant of decideByRate: objections are left out of the denominator.
decideByRateOfEvaluations(policy, signals) ==
    LET approvals == Cardinality(Saying(policy, signals, "APPROVE"))
        against == Cardinality(Saying(policy, signals, "BLOCK") \cup Objecting(signals))
        total == Cardinality((Heard(signals) \ Objecting(signals))
                                \ Saying(policy, signals, "ABSTAIN"))
    IN  IF RateReached(policy, approvals, total) THEN "approve"
        ELSE IF against > approvals THEN "decline" ELSE "step_up"

\* ABSTAIN is left out of the denominator.
decideByRate(policy, signals) ==
    LET approvals == Cardinality(Saying(policy, signals, "APPROVE"))
        against == Cardinality(Saying(policy, signals, "BLOCK") \cup Objecting(signals))
        total == Cardinality(Heard(signals) \ Saying(policy, signals, "ABSTAIN"))
    IN  IF RateReached(policy, approvals, total) THEN "approve"
        ELSE IF against > approvals THEN "decline" ELSE "step_up"

\* For 'none' and for every type the strategy does not know, 'weighted' among them.
decideByDefault(policy, signals) ==
    IF Saying(policy, signals, "BLOCK") # {} \/ Objecting(signals) # {}
    THEN "decline" ELSE "approve"

decide(policy, signals) ==
    IF Vetoed(policy, signals) THEN "decline"
    ELSE CASE policy.type = "unanimous" -> decideUnanimous(policy, signals)
           [] policy.type \in {"majority", "supermajority"} -> decideByRate(policy, signals)
           [] OTHER -> decideByDefault(policy, signals)
=============================================================================
