-------------------------- MODULE PolicyBallot_proofs --------------------------
(***************************************************************************)
(* Proofs about the policy strategy, for any set of specialists and any    *)
(* policy.                                                                 *)
(***************************************************************************)
EXTENDS PolicyBallot, FiniteSetTheorems, TLAPS

\* What a specialist was heard to say is a signal.
HeardInv ==
    /\ signals \in [Specialist -> Signal \cup {NoSignal}]
    /\ \A s \in Heard(signals) : signals[s].kind \in {"Evaluation", "Objection"}
    /\ policy \in Policies

LEMMA EvaluationIsSignal ==
    ASSUME NEW r \in Recommendation, NEW c \in 0 .. FullConfidence
    PROVE  Evaluation(r, c) \in Signal
BY DEF Signal

LEMMA VoteIsSignal == ASSUME NEW v PROVE VoteSignal(v) \in Signal
<1>1. PICK r \in Recommendation : VoteSignal(v) = Evaluation(r, FullConfidence)
  BY DEF VoteSignal, Recommendation
<1>2. FullConfidence \in 0 .. FullConfidence
  BY DEF FullConfidence
<1>3. QED
  BY <1>1, <1>2, EvaluationIsSignal

LEMMA SignalKind == \A x \in Signal : x.kind \in {"Evaluation", "Objection"}
BY DEF Signal, Evaluation, Objection

\* A step is the receipt of one signal.
LEMMA StepReceives ==
    ASSUME Next PROVE \E s \in Specialist : \E x \in Signal : Receive(s, x)
<1>1. PICK s \in Specialist : ReceiveEvaluation(s) \/ ReceiveObjection(s) \/ ReceiveVote(s)
  BY DEF Next
<1>2. CASE ReceiveEvaluation(s)
  BY <1>2, EvaluationIsSignal DEF ReceiveEvaluation
<1>3. CASE ReceiveObjection(s)
  BY <1>3 DEF ReceiveObjection, Signal
<1>4. CASE ReceiveVote(s)
  BY <1>4, VoteIsSignal DEF ReceiveVote
<1>5. QED
  BY <1>1, <1>2, <1>3, <1>4

LEMMA HeardInductive ==
    /\ Init => HeardInv
    /\ HeardInv /\ [Next]_<<policy, signals>> => HeardInv'
<1>1. Init => HeardInv
  BY DEF Init, HeardInv, Heard
<1>2. ASSUME HeardInv, [Next]_<<policy, signals>> PROVE HeardInv'
  <2>1. signals' \in [Specialist -> Signal \cup {NoSignal}]
    <3>1. CASE Next
      BY <1>2, <3>1, StepReceives DEF HeardInv, Receive
    <3>2. QED
      BY <1>2, <3>1 DEF HeardInv
  <2>2. \A s \in Specialist : signals'[s] # NoSignal => signals'[s].kind \in {"Evaluation", "Objection"}
    BY <2>1, SignalKind
  <2>3. policy' \in Policies
    BY <1>2, StepReceives DEF HeardInv, Receive
  <2>4. QED
    BY <2>1, <2>2, <2>3 DEF HeardInv, Heard
<1>3. QED
  BY <1>1, <1>2

\* Unanimity is unanimity, for any number of specialists.
THEOREM UnanimousMeansAll == Spec => []UnanimityNeedsAll
<1>1. HeardInv => UnanimityNeedsAll
  <2>1. SUFFICES ASSUME HeardInv, policy.type = "unanimous", decide(policy, signals) = "approve",
                        NEW s \in Heard(signals)
                 PROVE  /\ signals[s].kind = "Evaluation"
                        /\ signals[s].recommendation = "APPROVE"
                        /\ signals[s].confidence >= policy.minimumConfidence
    BY DEF UnanimityNeedsAll
  <2>2. decideUnanimous(policy, signals) = "approve"
    BY <2>1 DEF decide
  <2>3. Saying(policy, signals, "APPROVE") = Heard(signals)
    BY <2>2 DEF decideUnanimous
  <2>4. s \in Qualified(policy, signals) /\ signals[s].recommendation = "APPROVE"
    BY <2>3 DEF Saying
  <2>5. signals[s].kind # "Objection" /\ signals[s].confidence >= policy.minimumConfidence
    BY <2>4 DEF Qualified, Objecting
  <2>6. QED
    BY <2>1, <2>4, <2>5 DEF HeardInv
<1>2. QED
  BY <1>1, HeardInductive, PTL DEF Spec

-----------------------------------------------------------------------------
\* decide() sees a ballot only through these sets.
LEMMA DecideBySets ==
    ASSUME NEW p, NEW x, NEW y,
           Heard(x) = Heard(y), Objecting(x) = Objecting(y), Critical(x) = Critical(y),
           Qualified(p, x) = Qualified(p, y),
           \A r \in Recommendation : Saying(p, x, r) = Saying(p, y, r)
    PROVE  decide(p, x) = decide(p, y)
<1>1. /\ Disqualified(p, x) = Disqualified(p, y)
      /\ Vetoed(p, x) = Vetoed(p, y)
  BY DEF Disqualified, Vetoed
<1>2. /\ Saying(p, x, "APPROVE") = Saying(p, y, "APPROVE")
      /\ Saying(p, x, "BLOCK") = Saying(p, y, "BLOCK")
      /\ Saying(p, x, "ABSTAIN") = Saying(p, y, "ABSTAIN")
  BY DEF Recommendation
<1>3. decideUnanimous(p, x) = decideUnanimous(p, y)
  BY <1>1, <1>2 DEF decideUnanimous
<1>4. decideByRate(p, x) = decideByRate(p, y)
  BY <1>1, <1>2 DEF decideByRate
<1>5. decideByDefault(p, x) = decideByDefault(p, y)
  BY <1>1, <1>2 DEF decideByDefault
<1>6. QED
  BY <1>1, <1>3, <1>4, <1>5 DEF decide

\* An evaluation has a confidence that can be compared.
LEMMA ConfidenceIsNat == \A x \in Signal : x.kind = "Evaluation" => x.confidence \in Nat
BY DEF Signal, Evaluation, Objection

\* What an evaluation below the floor recommends changes none of them.
THEOREM LowConfidenceMute == Spec => LowConfidenceIsMute
<1> DEFINE Mute ==
      \A s \in Specialist :
         /\ signals[s] # NoSignal
         /\ BelowFloor(signals[s]) /\ BelowFloor(signals'[s])
         /\ \A t \in Specialist \ {s} : signals'[t] = signals[t]
         => decide(policy, signals') = decide(policy, signals)
<1>1. ASSUME HeardInv, HeardInv', Next, NEW s \in Specialist, signals[s] # NoSignal,
             BelowFloor(signals[s]), BelowFloor(signals'[s]),
             \A t \in Specialist \ {s} : signals'[t] = signals[t]
      PROVE  decide(policy, signals') = decide(policy, signals)
  <2>1. signals'[s] # NoSignal
    <3>1. PICK r \in Specialist, x \in Signal : Receive(r, x)
      BY <1>1, StepReceives
    <3>2. QED
      BY <1>1, <3>1, BallotAssumption DEF Receive, HeardInv
  <2>2. /\ signals[s].kind = "Evaluation" /\ signals'[s].kind = "Evaluation"
        /\ signals[s].confidence < policy.minimumConfidence
        /\ signals'[s].confidence < policy.minimumConfidence
    BY <1>1 DEF BelowFloor
  <2>3. Heard(signals') = Heard(signals)
    BY <1>1, <2>1 DEF Heard
  <2>4. Objecting(signals') = Objecting(signals)
    BY <1>1, <2>2, <2>3 DEF Objecting, Heard
  <2>5. Critical(signals') = Critical(signals)
    BY <1>1, <2>2, <2>4 DEF Critical, Objecting, Heard
  <2>6. /\ ~(signals[s].confidence >= policy.minimumConfidence)
        /\ ~(signals'[s].confidence >= policy.minimumConfidence)
    <3>1. policy.minimumConfidence \in Nat
      BY <1>1, BallotAssumption DEF HeardInv
    <3>2. signals[s].confidence \in Nat /\ signals'[s].confidence \in Nat
      BY <1>1, <2>1, <2>2, ConfidenceIsNat DEF HeardInv
    <3>3. QED
      BY <2>2, <3>1, <3>2
  <2>7. /\ Qualified(policy, signals') = Qualified(policy, signals)
        /\ s \notin Qualified(policy, signals)
    BY <1>1, <2>3, <2>4, <2>6 DEF Qualified, Heard
  <2>8. \A r \in Recommendation : Saying(policy, signals', r) = Saying(policy, signals, r)
    BY <1>1, <2>7 DEF Saying, Qualified, Heard
  <2>9. QED
    BY <2>3, <2>4, <2>5, <2>7, <2>8, DecideBySets
<1>2. HeardInv /\ HeardInv' /\ [Next]_<<policy, signals>> => [Mute]_<<policy, signals>>
  BY <1>1
<1>3. QED
  BY <1>2, HeardInductive, PTL DEF Spec, LowConfidenceIsMute

-----------------------------------------------------------------------------
\* A rate of approvals that is reached stays so with more approvals of no more ballots,
\* and with one approval and one ballot more.
LEMMA RateStays ==
    ASSUME NEW n \in Nat, NEW d \in Nat,
           NEW a \in Nat, NEW t \in Nat, a <= t,
           NEW b \in Nat, NEW u \in Nat, b <= u,
           IF t > 0 THEN a * d >= n * t ELSE n = 0,
           \/ b >= a /\ u <= t
           \/ b = a + 1 /\ u = t + 1
    PROVE  IF u > 0 THEN b * d >= n * u ELSE n = 0
<1>1. CASE n = 0
  <2>1. b * d >= 0 /\ n * u = 0
    BY <1>1
  <2>2. QED
    BY <1>1, <2>1
<1>2. CASE n > 0
  <2>1. t > 0 /\ a * d >= n * t
    BY <1>2
  <2>2. CASE b >= a /\ u <= t
    <3>1. b * d >= a * d /\ n * t >= n * u
      BY <2>2
    <3>2. a > 0
      BY <1>2, <2>1
    <3>3. QED
      BY <2>1, <2>2, <3>1, <3>2
  <2>3. CASE b = a + 1 /\ u = t + 1
    <3>1. d >= n
      <4>1. SUFFICES ASSUME n >= d + 1 PROVE FALSE
        OBVIOUS
      <4>2. n * t >= (d + 1) * t
        BY <4>1
      <4>3. t * d >= a * d
        OBVIOUS
      <4>4. (d + 1) * t = t * d + t
        OBVIOUS
      <4>5. n * t \in Nat /\ a * d \in Nat /\ t * d \in Nat
        OBVIOUS
      <4>6. QED
        BY <2>1, <4>2, <4>3, <4>4, <4>5
    <3>2. b * d = a * d + d /\ n * u = n * t + n
      BY <2>3
    <3>3. a * d \in Nat /\ n * t \in Nat
      OBVIOUS
    <3>4. QED
      BY <2>1, <2>3, <3>1, <3>2, <3>3
  <2>4. QED
    BY <2>2, <2>3
<1>3. QED
  BY <1>1, <1>2

\* Two ballots of which the second is the first but for s, who has turned in favour.
Turned(p, x, y, s) ==
    /\ x[s] \in Signal /\ y[s] \in Signal
    /\ SameConfidence(x[s], y[s])
    /\ Favour(x[s]) < Favour(y[s])
    /\ \A t \in Specialist \ {s} : y[t] = x[t]

\* What a signal that is better than another can be.
LEMMA BetterSignal ==
    ASSUME NEW v \in Signal, NEW w \in Signal, Favour(v) < Favour(w)
    PROVE  /\ w.kind = "Objection" => /\ v.kind = "Objection"
                                      /\ w.severity # "critical"
           /\ w.kind # "Objection" /\ w.recommendation = "BLOCK" => v.kind = "Objection"
           /\ v.kind # "Objection" => /\ w.kind # "Objection"
                                      /\ v.recommendation # "APPROVE"
                                      /\ v.recommendation = "ABSTAIN" => w.recommendation = "APPROVE"
<1>1. /\ v.kind \in {"Evaluation", "Objection"} /\ w.kind \in {"Evaluation", "Objection"}
      /\ v.kind = "Evaluation" => v.recommendation \in Recommendation
      /\ w.kind = "Evaluation" => w.recommendation \in Recommendation
  BY DEF Signal, Evaluation, Objection
<1>2. ASSUME NEW x \in {v, w}
      PROVE  /\ x.kind = "Objection" /\ x.severity = "critical" => Favour(x) = 0
             /\ x.kind = "Objection" /\ x.severity # "critical" => Favour(x) = 1
             /\ x.kind # "Objection" =>
                   /\ x.recommendation = "BLOCK" => Favour(x) = 2
                   /\ x.recommendation \in {"REVIEW", "ABSTAIN"} => Favour(x) = 3
                   /\ x.recommendation = "APPROVE" => Favour(x) = 4
  BY DEF Favour
<1>3. QED
  BY <1>1, <1>2 DEF Recommendation

\* How the sets that decide() looks at move.
LEMMA SetsMove ==
    ASSUME NEW p, NEW x, NEW y, NEW s \in Specialist, Turned(p, x, y, s), NoSignal \notin Signal
    PROVE  /\ Heard(y) = Heard(x) /\ s \in Heard(x)
           /\ Critical(y) \subseteq Critical(x)
           /\ Objecting(y) \subseteq Objecting(x)
           /\ Saying(p, y, "BLOCK") \subseteq Saying(p, x, "BLOCK") \cup Objecting(x)
           /\ s \notin Saying(p, x, "APPROVE")
           /\ Saying(p, x, "APPROVE") \subseteq Saying(p, y, "APPROVE")
           /\ \/ Saying(p, x, "ABSTAIN") \subseteq Saying(p, y, "ABSTAIN")
              \/ /\ Saying(p, y, "APPROVE") = Saying(p, x, "APPROVE") \cup {s}
                 /\ s \in Saying(p, x, "ABSTAIN")
                 /\ Saying(p, y, "ABSTAIN") = Saying(p, x, "ABSTAIN") \ {s}
<1> DEFINE v == x[s]
           w == y[s]
<1>1. /\ v \in Signal /\ w \in Signal /\ SameConfidence(v, w) /\ Favour(v) < Favour(w)
      /\ \A t \in Specialist : t # s => y[t] = x[t]
  BY DEF Turned
<1>2. /\ w.kind = "Objection" => v.kind = "Objection" /\ w.severity # "critical"
      /\ w.kind # "Objection" /\ w.recommendation = "BLOCK" => v.kind = "Objection"
      /\ v.kind # "Objection" => /\ w.kind # "Objection"
                                 /\ v.recommendation # "APPROVE"
                                 /\ v.recommendation = "ABSTAIN" => w.recommendation = "APPROVE"
      /\ v.kind \in {"Evaluation", "Objection"} /\ w.kind \in {"Evaluation", "Objection"}
  BY <1>1, BetterSignal, SignalKind
<1>3. v.kind # "Objection" => w.confidence = v.confidence
  BY <1>1, <1>2 DEF SameConfidence
<1> HIDE DEF v, w
<1>4. Heard(y) = Heard(x) /\ s \in Heard(x)
  BY <1>1 DEF Heard, v, w
<1>5. Objecting(y) \subseteq Objecting(x) /\ Critical(y) \subseteq Critical(x)
  BY <1>1, <1>2, <1>4 DEF Objecting, Critical, Heard, v, w
<1>6. ASSUME NEW t \in Specialist, t # s
      PROVE  /\ t \in Objecting(y) <=> t \in Objecting(x)
             /\ t \in Qualified(p, y) <=> t \in Qualified(p, x)
             /\ \A r : t \in Saying(p, y, r) <=> t \in Saying(p, x, r)
  BY <1>1, <1>4, <1>6 DEF Objecting, Qualified, Saying, Heard
<1>7. /\ \A r : s \in Saying(p, x, r) => /\ v.kind # "Objection" /\ v.recommendation = r
                                         /\ v.confidence >= p.minimumConfidence
      /\ \A r : s \in Saying(p, y, r) => w.kind # "Objection" /\ w.recommendation = r
      /\ \A r : w.kind # "Objection" /\ w.recommendation = r
                   /\ w.confidence >= p.minimumConfidence => s \in Saying(p, y, r)
      /\ v.kind = "Objection" => s \in Objecting(x)
  BY <1>4 DEF Saying, Qualified, Objecting, v, w
<1>8. \A r : Saying(p, x, r) \subseteq Specialist /\ Saying(p, y, r) \subseteq Specialist
  BY DEF Saying, Qualified, Heard
<1>9. s \notin Saying(p, x, "APPROVE")
  BY <1>2, <1>7
<1>10. Saying(p, x, "APPROVE") \subseteq Saying(p, y, "APPROVE")
  BY <1>6, <1>8, <1>9
<1>11. Saying(p, y, "BLOCK") \subseteq Saying(p, x, "BLOCK") \cup Objecting(x)
  BY <1>2, <1>6, <1>7, <1>8
<1>12. CASE s \in Saying(p, x, "ABSTAIN")
  <2>1. s \in Saying(p, y, "APPROVE") /\ s \notin Saying(p, y, "ABSTAIN")
    BY <1>2, <1>3, <1>7, <1>12
  <2>2. /\ Saying(p, y, "APPROVE") = Saying(p, x, "APPROVE") \cup {s}
        /\ Saying(p, y, "ABSTAIN") = Saying(p, x, "ABSTAIN") \ {s}
    BY <1>6, <1>8, <2>1
  <2>3. QED
    BY <1>4, <1>5, <1>9, <1>10, <1>11, <1>12, <2>2
<1>13. CASE s \notin Saying(p, x, "ABSTAIN")
  <2>1. Saying(p, x, "ABSTAIN") \subseteq Saying(p, y, "ABSTAIN")
    BY <1>6, <1>8, <1>13
  <2>2. QED
    BY <1>4, <1>5, <1>9, <1>10, <1>11, <2>1
<1>14. QED
  BY <1>12, <1>13

LEMMA CardinalityOfSubset ==
    ASSUME NEW T \in SUBSET Specialist, NEW S \in SUBSET T
    PROVE  /\ IsFiniteSet(T)
           /\ Cardinality(S) \in Nat /\ Cardinality(T) \in Nat
           /\ Cardinality(S) <= Cardinality(T)
BY BallotAssumption, FS_Subset, FS_CardinalityType

\* The rate rule: approvals are of the ballots that count; with s turned in favour there
\* are no fewer of them, or it was an abstention that became one.
Approvals(p, x) == Saying(p, x, "APPROVE")
Ballots(p, x) == Heard(x) \ Saying(p, x, "ABSTAIN")
Against(p, x) == Saying(p, x, "BLOCK") \cup Objecting(x)

LEMMA RateRuleMoves ==
    ASSUME NEW p, p.num \in Nat, p.den \in Nat,
           NEW x, NEW y, NEW s \in Specialist, Turned(p, x, y, s)
    PROVE  /\ decideByRate(p, x) = "approve" => decideByRate(p, y) = "approve"
           /\ decideByRate(p, y) = "decline" => decideByRate(p, x) = "decline"
<1> DEFINE a == Cardinality(Approvals(p, x))
           b == Cardinality(Approvals(p, y))
           t == Cardinality(Ballots(p, x))
           u == Cardinality(Ballots(p, y))
           g == Cardinality(Against(p, x))
           h == Cardinality(Against(p, y))
<1>1. \A z \in {x, y} : /\ Approvals(p, z) \subseteq Ballots(p, z)
                        /\ Ballots(p, z) \subseteq Specialist
                        /\ Against(p, z) \subseteq Specialist
  BY DEF Approvals, Ballots, Against, Saying, Qualified, Objecting, Heard
<1>2. /\ a \in Nat /\ t \in Nat /\ a <= t
      /\ b \in Nat /\ u \in Nat /\ b <= u
      /\ g \in Nat /\ h \in Nat
  BY <1>1, CardinalityOfSubset
<1>3. h <= g
  <2>1. Against(p, y) \subseteq Against(p, x)
    BY BallotAssumption, SetsMove DEF Against
  <2>2. QED
    BY <1>1, <2>1, CardinalityOfSubset
<1>4. a <= b
  <2>1. Approvals(p, x) \subseteq Approvals(p, y)
    BY BallotAssumption, SetsMove DEF Approvals
  <2>2. Approvals(p, y) \in SUBSET Specialist
    BY <1>1
  <2>3. QED
    BY <2>1, <2>2, CardinalityOfSubset
<1>5. u <= t \/ (b = a + 1 /\ u = t + 1)
  <2>1. CASE Saying(p, x, "ABSTAIN") \subseteq Saying(p, y, "ABSTAIN")
    <3>1. Ballots(p, y) \subseteq Ballots(p, x)
      BY <2>1, BallotAssumption, SetsMove DEF Ballots
    <3>2. QED
      BY <1>1, <3>1, CardinalityOfSubset
  <2>2. CASE ~(Saying(p, x, "ABSTAIN") \subseteq Saying(p, y, "ABSTAIN"))
    <3>1. /\ Approvals(p, y) = Approvals(p, x) \cup {s} /\ s \notin Approvals(p, x)
          /\ Ballots(p, y) = Ballots(p, x) \cup {s} /\ s \notin Ballots(p, x)
      BY <2>2, BallotAssumption, SetsMove DEF Approvals, Ballots
    <3>2. IsFiniteSet(Approvals(p, x)) /\ IsFiniteSet(Ballots(p, x))
      BY <1>1, BallotAssumption, FS_Subset
    <3>3. b = a + 1 /\ u = t + 1
      BY <3>1, <3>2, FS_AddElement
    <3>4. QED
      BY <3>3
  <2>3. QED
    BY <2>1, <2>2
<1>6. \A z \in {x, y} :
         decideByRate(p, z) =
            IF RateReached(p, Cardinality(Approvals(p, z)), Cardinality(Ballots(p, z))) THEN "approve"
            ELSE IF Cardinality(Against(p, z)) > Cardinality(Approvals(p, z)) THEN "decline"
            ELSE "step_up"
  BY DEF decideByRate, Approvals, Ballots, Against
<1> HIDE DEF a, b, t, u, g, h
<1>7. RateReached(p, a, t) => RateReached(p, b, u)
  <2>1. SUFFICES ASSUME RateReached(p, a, t) PROVE RateReached(p, b, u)
    OBVIOUS
  <2>2. IF t > 0 THEN a * p.den >= p.num * t ELSE p.num = 0
    BY <2>1 DEF RateReached
  <2>3. IF u > 0 THEN b * p.den >= p.num * u ELSE p.num = 0
    BY <1>2, <1>4, <1>5, <2>2, RateStays
  <2>4. QED
    BY <2>3 DEF RateReached
<1>8. h > b => g > a
  BY <1>2, <1>3, <1>4
<1>9. QED
  BY <1>6, <1>7, <1>8 DEF a, b, t, u, g, h

\* Turning in favour loses no approval and causes no decline.
LEMMA DecisionMoves ==
    ASSUME NEW p \in Policies, NEW x, NEW y, NEW s \in Specialist, Turned(p, x, y, s)
    PROVE  /\ decide(p, x) = "approve" => decide(p, y) = "approve"
           /\ decide(p, y) = "decline" => decide(p, x) = "decline"
<1>1. p.num \in Nat /\ p.den \in Nat /\ p.vetoThreshold \in Nat
  BY BallotAssumption
<1>2. /\ Heard(y) = Heard(x) /\ s \in Heard(x)
      /\ Critical(y) \subseteq Critical(x)
      /\ Objecting(y) \subseteq Objecting(x)
      /\ Saying(p, y, "BLOCK") \subseteq Saying(p, x, "BLOCK") \cup Objecting(x)
      /\ s \notin Saying(p, x, "APPROVE")
  BY BallotAssumption, SetsMove
<1>3. Vetoed(p, y) => Vetoed(p, x)
  <2>1. Critical(x) \in SUBSET Specialist /\ Critical(y) \in SUBSET Critical(x)
    BY <1>2 DEF Critical, Objecting, Heard
  <2>2. /\ Cardinality(Critical(x)) \in Nat /\ Cardinality(Critical(y)) \in Nat
        /\ Cardinality(Critical(y)) <= Cardinality(Critical(x))
    BY <2>1, CardinalityOfSubset
  <2>3. QED
    BY <1>1, <2>2 DEF Vetoed
<1>4. /\ decideUnanimous(p, x) = "approve" => decideUnanimous(p, y) = "approve"
      /\ decideUnanimous(p, y) = "decline" => decideUnanimous(p, x) = "decline"
  <2>1. decideUnanimous(p, x) # "approve"
    BY <1>2 DEF decideUnanimous
  <2>2. decideUnanimous(p, y) = "decline" =>
           Saying(p, y, "BLOCK") # {} \/ Objecting(y) # {}
    BY DEF decideUnanimous
  <2>3. Saying(p, x, "BLOCK") # {} \/ Objecting(x) # {} => decideUnanimous(p, x) = "decline"
    BY DEF decideUnanimous
  <2>4. QED
    BY <1>2, <2>1, <2>2, <2>3
<1>5. /\ decideByDefault(p, x) = "approve" => decideByDefault(p, y) = "approve"
      /\ decideByDefault(p, y) = "decline" => decideByDefault(p, x) = "decline"
  BY <1>2 DEF decideByDefault
<1>6. /\ decideByRate(p, x) = "approve" => decideByRate(p, y) = "approve"
      /\ decideByRate(p, y) = "decline" => decideByRate(p, x) = "decline"
  BY <1>1, RateRuleMoves
<1>7. CASE Vetoed(p, x)
  <2>1. decide(p, x) = "decline"
    BY <1>7 DEF decide
  <2>2. QED
    BY <2>1
<1>8. CASE ~Vetoed(p, x)
  <2>1. ~Vetoed(p, y)
    BY <1>3, <1>8
  <2>2. CASE p.type = "unanimous"
    BY <1>4, <1>8, <2>1, <2>2 DEF decide
  <2>3. CASE p.type \in {"majority", "supermajority"}
    BY <1>6, <1>8, <2>1, <2>3 DEF decide
  <2>4. CASE p.type \notin {"unanimous", "majority", "supermajority"}
    BY <1>5, <1>8, <2>1, <2>4 DEF decide
  <2>5. QED
    BY <2>2, <2>3, <2>4
<1>9. QED
  BY <1>7, <1>8

LEMMA DecisionType == ASSUME NEW p, NEW x PROVE decide(p, x) \in {"approve", "step_up", "decline"}
BY DEF decide, decideUnanimous, decideByRate, decideByDefault

\* Under any policy, with any number of specialists: a specialist who turns in favour never
\* makes the outcome worse, at whatever boundary the counts are.
THEOREM TurningInFavourHelps == Spec => FavourIsMonotone
<1> DEFINE Monotone ==
      \A s \in Specialist :
         /\ signals[s] # NoSignal
         /\ SameConfidence(signals[s], signals'[s])
         /\ Favour(signals[s]) < Favour(signals'[s])
         /\ \A t \in Specialist \ {s} : signals'[t] = signals[t]
         => Rank(decide(policy, signals')) >= Rank(decide(policy, signals))
<1>1. ASSUME HeardInv, HeardInv', Next, NEW s \in Specialist, signals[s] # NoSignal,
             SameConfidence(signals[s], signals'[s]),
             Favour(signals[s]) < Favour(signals'[s]),
             \A t \in Specialist \ {s} : signals'[t] = signals[t]
      PROVE  Rank(decide(policy, signals')) >= Rank(decide(policy, signals))
  <2>1. signals'[s] # NoSignal
    <3>1. PICK r \in Specialist, x \in Signal : Receive(r, x)
      BY <1>1, StepReceives
    <3>2. QED
      BY <1>1, <3>1, BallotAssumption DEF Receive, HeardInv
  <2>2. Turned(policy, signals, signals', s)
    BY <1>1, <2>1 DEF Turned, HeardInv
  <2>3. /\ decide(policy, signals) = "approve" => decide(policy, signals') = "approve"
        /\ decide(policy, signals') = "decline" => decide(policy, signals) = "decline"
    BY <1>1, <2>2, DecisionMoves DEF HeardInv
  <2>4. /\ decide(policy, signals) \in {"approve", "step_up", "decline"}
        /\ decide(policy, signals') \in {"approve", "step_up", "decline"}
    BY DecisionType
  <2>5. Rank("decline") = 0 /\ Rank("step_up") = 1 /\ Rank("approve") = 2
    BY DEF Rank
  <2>6. QED
    BY <2>3, <2>4, <2>5
<1>2. HeardInv /\ HeardInv' /\ [Next]_<<policy, signals>> => [Monotone]_<<policy, signals>>
  BY <1>1
<1>3. QED
  BY <1>2, HeardInductive, PTL DEF Spec, FavourIsMonotone
=============================================================================
