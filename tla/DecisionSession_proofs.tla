----------------------- MODULE DecisionSession_proofs -----------------------
(***************************************************************************)
(* Proofs about a decision session, for any finite set of specialists, any *)
(* policy and any faults.                                                  *)
(***************************************************************************)
EXTENDS DecisionSession, FiniteSetTheorems, SequenceTheorems, TLAPS

\* Only specialists evaluate, and what a specialist sends is a signal.
LogInv ==
    \A i \in 1 .. Len(log) :
        /\ log[i].type = "Evaluation" => log[i].sender \in Specialist
        /\ log[i].sender \in Specialist => log[i].signal # NoSignal

\* The log only grows, by one message at most.
LEMMA SendExtends ==
    ASSUME log \in Seq(Messages), NEW m \in Messages, Send(m)
    PROVE  /\ log' \in Seq(Messages)
           /\ Len(log) \in Nat /\ Len(log') \in Nat
           /\ \/ Len(log') = Len(log)
              \/ Len(log') = Len(log) + 1 /\ log'[Len(log) + 1] = m
           /\ \A i \in 1 .. Len(log) : log'[i] = log[i]
<1>1. CASE Accepts(m)
  BY <1>1, AppendProperties, LenProperties DEF Send
<1>2. CASE ~Accepts(m)
  BY <1>2, LenProperties DEF Send
<1>3. QED
  BY <1>1, <1>2

\* A vote is filed as a signal, and an opinion is one.
LEMMA VoteIsSignal == ASSUME NEW v \in {"APPROVE", "REJECT"} PROVE VoteSignal(v) \in Signal
<1>1. PICK r \in {"APPROVE", "REVIEW", "BLOCK"} : VoteSignal(v) = Evaluation(r, FullConfidence)
  BY DEF VoteSignal
<1>2. FullConfidence \in 0 .. FullConfidence
  BY DEF FullConfidence
<1>3. QED
  BY <1>1, <1>2 DEF Signal, Recommendation

LEMMA OpinionIsSignal == ASSUME NEW o \in Opinions PROVE evaluationOf(o) \in Signal
<1>1. o.confidence \in 0 .. FullConfidence
  BY SessionAssumption
<1>2. evalRecommendation(o.word) \in Recommendation
  BY DEF evalRecommendation, Recommendation
<1>3. QED
  BY <1>1, <1>2 DEF evaluationOf, Signal

\* The decision is one of the three.
LEMMA DecideType ==
    ASSUME NEW sigs PROVE decide(Policy, sigs) \in {"approve", "step_up", "decline"}
BY DEF decide, decideUnanimous, decideByRate, decideByDefault

-----------------------------------------------------------------------------
\* What of the types a step of each group can change.
SpecialistTypes ==
    /\ worker \in [Specialist -> {"running", "stopped", "crashed"}]
    /\ pending \in [Specialist -> {"APPROVE", "REJECT", NoVote}]
    /\ seen \in [Specialist -> SUBSET Specialist]

CoordinatorTypes ==
    /\ signals \in [Specialist -> Signal \cup {NoSignal}]
    /\ demo \in BOOLEAN
    /\ ctx \in BOOLEAN
    /\ timer \in {"unarmed", "armed", "cleared", "fired"}
    /\ step \in Steps
    /\ decision \in {"approve", "step_up", "decline", NoDecision}
    /\ failures \in SUBSET {"suspend", "resume", "vote", "commit", "cancel"}

LogTypes ==
    /\ log \in Seq(Messages)
    /\ read \in [Participant -> Nat]
    /\ \A p \in Participant : read[p] <= Len(log)
    /\ LogInv

SessionTypes == session \in {"open", "suspended"} \cup Terminal

\* A message that is handled is in the log.
LEMMA NextIsMessage ==
    ASSUME LogTypes, NEW p \in Participant, Unread(p)
    PROVE  /\ NextMessage(p) \in Messages
           /\ read[p] + 1 \in 1 .. Len(log)
           /\ NextMessage(p).type = "Evaluation" => NextMessage(p).sender \in Specialist
           /\ NextMessage(p).sender \in Specialist => NextMessage(p).signal \in Signal
<1>1. read[p] \in Nat /\ Len(log) \in Nat /\ read[p] < Len(log)
  BY LenProperties DEF LogTypes, Unread
<1>2. read[p] + 1 \in 1 .. Len(log)
  BY <1>1
<1>3. log[read[p] + 1] \in Messages
  BY <1>2, ElementOfSeq DEF LogTypes
<1>4. QED
  BY <1>2, <1>3 DEF LogTypes, LogInv, NextMessage, Messages

\* Sending and handling keep the log's types.
LEMMA LogTypesKept ==
    ASSUME LogTypes,
           \/ UNCHANGED log
           \/ \E m \in Messages :
                 /\ Send(m)
                 /\ m.type = "Evaluation" => m.sender \in Specialist
                 /\ m.sender \in Specialist => m.signal # NoSignal,
           UNCHANGED read \/ \E p \in Participant : Unread(p) /\ Handled(p)
    PROVE  LogTypes'
<1>1. /\ log' \in Seq(Messages) /\ Len(log) \in Nat /\ Len(log') \in Nat
      /\ Len(log) <= Len(log')
      /\ LogInv'
  <2>1. CASE UNCHANGED log
    BY <2>1, LenProperties DEF LogTypes, LogInv
  <2>2. ASSUME NEW m \in Messages, Send(m),
               m.type = "Evaluation" => m.sender \in Specialist,
               m.sender \in Specialist => m.signal # NoSignal
        PROVE  /\ log' \in Seq(Messages) /\ Len(log) \in Nat /\ Len(log') \in Nat
               /\ Len(log) <= Len(log')
               /\ LogInv'
    <3>1. /\ log' \in Seq(Messages) /\ Len(log) \in Nat /\ Len(log') \in Nat
          /\ \/ Len(log') = Len(log)
             \/ Len(log') = Len(log) + 1 /\ log'[Len(log) + 1] = m
          /\ \A i \in 1 .. Len(log) : log'[i] = log[i]
      BY <2>2, SendExtends DEF LogTypes
    <3>2. \A i \in 1 .. Len(log') : i \in 1 .. Len(log) \/ log'[i] = m
      BY <3>1
    <3>3. QED
      BY <2>2, <3>1, <3>2 DEF LogTypes, LogInv
  <2>3. QED
    BY <2>1, <2>2
<1>2. read' \in [Participant -> Nat] /\ \A p \in Participant : read'[p] <= Len(log)
  <2>1. CASE UNCHANGED read
    BY <2>1 DEF LogTypes
  <2>2. ASSUME NEW p \in Participant, Unread(p), Handled(p)
        PROVE  read' \in [Participant -> Nat] /\ \A q \in Participant : read'[q] <= Len(log)
    <3>1. read[p] \in Nat /\ read[p] < Len(log)
      BY <2>2 DEF Unread, LogTypes
    <3>2. QED
      BY <1>1, <2>2, <3>1 DEF LogTypes, Handled
  <2>3. QED
    BY <2>1, <2>2
<1>3. \A p \in Participant : read'[p] <= Len(log')
  BY <1>1, <1>2
<1>4. QED
  BY <1>1, <1>2, <1>3 DEF LogTypes

Types == SpecialistTypes /\ CoordinatorTypes /\ LogTypes /\ SessionTypes

\* The type invariant, with what is known of the log, holds initially and is kept by
\* every step.
LEMMA TypeInductive ==
    /\ Init => Types
    /\ Types /\ [Next]_vars => Types'
<1> USE SessionAssumption
<1>1. Init => Types
  <2> SUFFICES ASSUME Init PROVE Types
    OBVIOUS
  <2>1. log \in Seq(Messages) /\ Len(log) = 1 /\ log[1] = Proposal
    BY DEF Init, Messages, Message, Proposal, Participant
  <2>2. LogTypes
    BY <2>1 DEF Init, LogTypes, LogInv, Proposal, Message
  <2>3. SpecialistTypes /\ CoordinatorTypes /\ SessionTypes
    BY DEF Init, SpecialistTypes, CoordinatorTypes, SessionTypes, Steps
  <2>4. QED
    BY <2>2, <2>3 DEF Types
<1>2. ASSUME Types, [Next]_vars PROVE Types'
  <2> USE <1>2 DEF Types, specialistVars, coordinatorVars
  <2>p. Specialist \subseteq Participant /\ Coordinator \in Participant
    BY DEF Participant
  <2>1. ASSUME NEW s \in Specialist, HandleProposal(s) PROVE Types'
    <3>1. PICK opinion \in Opinions :
             /\ Send(Message("Evaluation", s, evaluationOf(opinion)))
             /\ pending' = [pending EXCEPT ![s] = voteFor(opinion.word)]
      BY <2>1 DEF HandleProposal
    <3>2. /\ Message("Evaluation", s, evaluationOf(opinion)) \in Messages
          /\ Message("Evaluation", s, evaluationOf(opinion)).sender = s
          /\ Message("Evaluation", s, evaluationOf(opinion)).signal # NoSignal
      BY <2>p, OpinionIsSignal DEF Message, Messages
    <3>3. LogTypes'
      BY <2>p, <2>1, <3>1, <3>2, LogTypesKept DEF HandleProposal
    <3>4. SpecialistTypes'
      BY <2>1, <3>1 DEF HandleProposal, SpecialistTypes, voteFor
    <3>5. QED
      BY <2>1, <3>3, <3>4 DEF HandleProposal, CoordinatorTypes, SessionTypes
  <2>2. ASSUME NEW s \in Specialist, HandleMessage(s) PROVE Types'
    <3>1. LogTypes'
      BY <2>p, <2>2, LogTypesKept DEF HandleMessage
    <3>2. NextMessage(s).type = "Evaluation" => NextMessage(s).sender \in Specialist
      BY <2>p, <2>2, NextIsMessage DEF HandleMessage
    <3>3. SpecialistTypes'
      BY <2>2, <3>2 DEF HandleMessage, SpecialistTypes
    <3>4. QED
      BY <2>2, <3>1, <3>3 DEF HandleMessage, CoordinatorTypes, SessionTypes
  <2>3. ASSUME NEW s \in Specialist, SendVote(s) PROVE Types'
    <3>1. pending[s] \in {"APPROVE", "REJECT"}
      BY <2>3 DEF SendVote, BarrierOpen, SpecialistTypes
    <3>2. /\ Message("Vote", s, VoteSignal(pending[s])) \in Messages
          /\ Message("Vote", s, VoteSignal(pending[s])).type # "Evaluation"
          /\ Message("Vote", s, VoteSignal(pending[s])).signal # NoSignal
      BY <2>p, <3>1, VoteIsSignal DEF Message, Messages
    <3>3. LogTypes'
      BY <2>3, <3>2, LogTypesKept DEF SendVote
    <3>4. SpecialistTypes'
      BY <2>3 DEF SendVote, SpecialistTypes
    <3>5. QED
      BY <2>3, <3>3, <3>4 DEF SendVote, CoordinatorTypes, SessionTypes
  <2>4. ASSUME NEW s \in Specialist, StreamEnds(s) \/ Crash(s) PROVE Types'
    <3>1. LogTypes'
      BY <2>4, LogTypesKept DEF StreamEnds, Crash
    <3>2. SpecialistTypes'
      BY <2>4 DEF StreamEnds, Crash, SpecialistTypes
    <3>3. QED
      BY <2>4, <3>1, <3>2 DEF StreamEnds, Crash, CoordinatorTypes, SessionTypes
  <2>5. CASE ObserveProposal \/ ObserveOwn
    <3>1. LogTypes'
      BY <2>p, <2>5, LogTypesKept DEF ObserveProposal, ObserveOwn
    <3>2. QED
      BY <2>5, <3>1
      DEF ObserveProposal, ObserveOwn, CoordinatorTypes, SpecialistTypes, SessionTypes
  <2>6. CASE ObserveSignal
    <3>1. LogTypes'
      BY <2>p, <2>6, LogTypesKept DEF ObserveSignal
    <3>2. signals' \in [Specialist -> Signal \cup {NoSignal}]
      BY <2>p, <2>6, NextIsMessage DEF ObserveSignal, CoordinatorTypes
    <3>3. CoordinatorTypes'
      BY <2>6, <3>2, DecideType DEF ObserveSignal, TryCommit, CoordinatorTypes, Steps
    <3>4. QED
      BY <2>6, <3>1, <3>3 DEF ObserveSignal, SpecialistTypes, SessionTypes
  <2>7. CASE Deadline
    <3>1. LogTypes'
      BY <2>7, LogTypesKept DEF Deadline
    <3>2. CoordinatorTypes'
      BY <2>7, DecideType DEF Deadline, TryCommit, CoordinatorTypes, Steps
    <3>3. QED
      BY <2>7, <3>1, <3>2 DEF Deadline, SpecialistTypes, SessionTypes
  <2>8. CASE Suspend \/ Resume
    <3>1. LogTypes'
      BY <2>8, LogTypesKept DEF Suspend, Resume
    <3>2. CoordinatorTypes'
      BY <2>8, DecideType DEF Suspend, Resume, Decide, Answered, Refused, CoordinatorTypes, Steps
    <3>3. QED
      BY <2>8, <3>1, <3>2 DEF Suspend, Resume, SpecialistTypes, SessionTypes
  <2>9. CASE SendCoordinatorVote
    <3>1. /\ Message("Vote", Coordinator, NoSignal) \in Messages
          /\ Message("Vote", Coordinator, NoSignal).type # "Evaluation"
          /\ Message("Vote", Coordinator, NoSignal).sender \notin Specialist
      BY <2>p DEF Message, Messages
    <3>2. LogTypes'
      BY <2>9, <3>1, LogTypesKept DEF SendCoordinatorVote
    <3>3. CoordinatorTypes'
      BY <2>9 DEF SendCoordinatorVote, Answered, Refused, CoordinatorTypes, Steps
    <3>4. QED
      BY <2>9, <3>2, <3>3 DEF SendCoordinatorVote, SpecialistTypes, SessionTypes
  <2>10. CASE Commit \/ Cancel
    <3>1. LogTypes'
      BY <2>10, LogTypesKept DEF Commit, Cancel
    <3>2. CoordinatorTypes'
      BY <2>10 DEF Commit, Cancel, Answered, Refused, CoordinatorTypes, Steps
    <3>3. SessionTypes'
      BY <2>10 DEF Commit, Cancel, SessionTypes, Terminal
    <3>4. QED
      BY <2>10, <3>1, <3>2, <3>3 DEF Commit, Cancel, SpecialistTypes
  <2>11. CASE Expire \/ UNCHANGED vars
    <3>1. LogTypes'
      BY <2>11, LogTypesKept DEF Expire, vars
    <3>2. QED
      BY <2>11, <3>1
      DEF Expire, vars, SpecialistTypes, CoordinatorTypes, SessionTypes, Terminal
  <2>12. QED
    BY <2>1, <2>2, <2>3, <2>4, <2>5, <2>6, <2>7, <2>8, <2>9, <2>10, <2>11
    DEF Next, Specialists, Observe, Finish
<1>3. QED
  BY <1>1, <1>2

\* Every variable keeps the shape its declaration gives it; in particular nobody reads
\* beyond the end of the log.
THEOREM TypeCorrect == Spec => []TypeOK
<1>1. Types => TypeOK
  BY DEF Types, TypeOK, SpecialistTypes, CoordinatorTypes, LogTypes, SessionTypes
<1>2. QED
  BY <1>1, TypeInductive, PTL DEF Spec

-----------------------------------------------------------------------------
\* What the barrier rests on: the evaluations a specialist has seen are in the part of
\* the log it has read.
SeenInv ==
    \A s \in Specialist : \A t \in seen[s] : EvaluatedBy(t, read[s])

BarrierInv == SeenInv /\ EvaluationsBeforeVotes

\* What has been evaluated stays so, when the log grows and when more of it is looked at.
LEMMA EvaluatedStays ==
    ASSUME log \in Seq(Messages),
           \/ UNCHANGED log
           \/ \E m \in Messages : Send(m),
           NEW t, NEW k \in Nat, NEW n \in Nat, k <= Len(log), k <= n, EvaluatedBy(t, k)
    PROVE  EvaluatedBy(t, n) /\ EvaluatedBy(t, n)'
<1>1. \A i \in 1 .. Len(log) : log'[i] = log[i]
  BY SendExtends
<1>2. PICK j \in 1 .. k : log[j].type = "Evaluation" /\ log[j].sender = t
  BY DEF EvaluatedBy
<1>3. Len(log) \in Nat /\ j \in 1 .. n /\ j \in 1 .. Len(log)
  BY LenProperties
<1>4. QED
  BY <1>1, <1>2, <1>3 DEF EvaluatedBy

\* The invariant of the barrier holds initially and is kept by every step.
LEMMA BarrierInductive ==
    /\ Init => BarrierInv
    /\ Types /\ BarrierInv /\ [Next]_vars => BarrierInv'
<1> USE SessionAssumption
<1>1. Init => BarrierInv
  BY DEF Init, BarrierInv, SeenInv, EvaluationsBeforeVotes, Proposal, Message
<1>2. ASSUME Types, BarrierInv, [Next]_vars PROVE BarrierInv'
  <2> USE <1>2 DEF specialistVars, coordinatorVars
  <2>p. /\ Specialist \subseteq Participant /\ Coordinator \in Participant
        /\ log \in Seq(Messages) /\ Len(log) \in Nat
        /\ \A s \in Specialist : read[s] \in Nat /\ read[s] <= Len(log)
    BY LenProperties DEF Participant, Types, LogTypes
  <2>q. \A s \in Specialist : seen[s] \subseteq Specialist
    BY DEF Types, SpecialistTypes
  \* A step that sends no vote of a specialist and reads on for nobody but perhaps the
  \* coordinator.
  <2>1. ASSUME \/ UNCHANGED log
               \/ \E m \in Messages :
                     Send(m) /\ ~(m.type = "Vote" /\ m.sender \in Specialist)
        PROVE  EvaluationsBeforeVotes'
    <3>1. CASE UNCHANGED log
      <4>1. SUFFICES ASSUME NEW i \in 1 .. Len(log), log[i].type = "Vote", log[i].sender \in Specialist,
                            NEW t \in Peers(log[i].sender)
                     PROVE  EvaluatedBy(t, i - 1)'
        BY <3>1 DEF EvaluationsBeforeVotes, Peers
      <4>2. EvaluatedBy(t, i - 1)
        BY <4>1 DEF BarrierInv, EvaluationsBeforeVotes
      <4>3. QED
        BY <3>1, <4>2 DEF EvaluatedBy
    <3>2. ASSUME NEW m \in Messages, Send(m), ~(m.type = "Vote" /\ m.sender \in Specialist)
          PROVE  EvaluationsBeforeVotes'
      <4>1. /\ Len(log') \in Nat
            /\ \/ Len(log') = Len(log)
               \/ Len(log') = Len(log) + 1 /\ log'[Len(log) + 1] = m
            /\ \A i \in 1 .. Len(log) : log'[i] = log[i]
        BY <2>p, <3>2, SendExtends
      <4>2. SUFFICES ASSUME NEW i \in 1 .. Len(log'), log'[i].type = "Vote", log'[i].sender \in Specialist,
                            NEW t \in Peers(log'[i].sender)
                     PROVE  EvaluatedBy(t, i - 1)'
        BY DEF EvaluationsBeforeVotes
      <4>3. i \in 1 .. Len(log) /\ log'[i] = log[i]
        BY <2>p, <3>2, <4>1, <4>2
      <4>4. EvaluatedBy(t, i - 1) /\ i - 1 \in Nat /\ i - 1 <= Len(log)
        BY <2>p, <4>2, <4>3 DEF BarrierInv, EvaluationsBeforeVotes
      <4>5. QED
        BY <2>p, <3>2, <4>4, EvaluatedStays
    <3>3. QED
      BY <2>1, <3>1, <3>2
  <2>2. ASSUME UNCHANGED seen,
               UNCHANGED read \/ \E p \in Participant \ Specialist : Handled(p),
               UNCHANGED log \/ \E m \in Messages : Send(m)
        PROVE  SeenInv'
    <3>1. \A s \in Specialist : read'[s] = read[s] /\ seen'[s] = seen[s]
      BY <2>p, <2>2 DEF Handled, Types, LogTypes
    <3>2. SUFFICES ASSUME NEW s \in Specialist, NEW t \in seen[s] PROVE EvaluatedBy(t, read[s])'
      BY <3>1 DEF SeenInv
    <3>3. EvaluatedBy(t, read[s])
      BY DEF BarrierInv, SeenInv
    <3>4. \A n \in Nat : n = read[s] => EvaluatedBy(t, n)'
      BY <2>p, <2>2, <3>3, EvaluatedStays
    <3>5. QED
      BY <2>p, <3>1, <3>4 DEF EvaluatedBy
  <2>3. ASSUME NEW s \in Specialist, HandleProposal(s) \/ HandleMessage(s) PROVE BarrierInv'
    <3>1. UNCHANGED log \/ \E m \in Messages : Send(m) /\ m.type # "Vote"
      <4>1. CASE HandleMessage(s)
        BY <4>1 DEF HandleMessage
      <4>2. CASE HandleProposal(s)
        <5>1. PICK opinion \in Opinions : Send(Message("Evaluation", s, evaluationOf(opinion)))
          BY <4>2 DEF HandleProposal
        <5>2. /\ Message("Evaluation", s, evaluationOf(opinion)) \in Messages
              /\ Message("Evaluation", s, evaluationOf(opinion)).type # "Vote"
          BY <2>p, OpinionIsSignal DEF Message, Messages
        <5>3. QED
          BY <5>1, <5>2
      <4>3. QED
        BY <2>3, <4>1, <4>2
    <3>2. EvaluationsBeforeVotes'
      BY <3>1, <2>1
    <3>3. /\ read[s] + 1 \in 1 .. Len(log)
          /\ read' = [read EXCEPT ![s] = @ + 1]
          /\ \A t \in seen'[s] : t \in seen[s] \/ EvaluatedBy(t, read[s] + 1)
          /\ \A r \in Specialist \ {s} : seen'[r] = seen[r]
      <4>1. read[s] + 1 \in 1 .. Len(log) /\ read' = [read EXCEPT ![s] = @ + 1]
        BY <2>3, <2>p, NextIsMessage DEF HandleProposal, HandleMessage, Handled, Types
      <4>2. CASE UNCHANGED seen
        BY <4>1, <4>2
      <4>3. CASE seen' = [seen EXCEPT ![s] =
                   IF NextMessage(s).type = "Evaluation" /\ NextMessage(s).sender # s
                   THEN @ \cup {NextMessage(s).sender} ELSE @]
        BY <4>1, <4>3, <2>p DEF Types, SpecialistTypes, EvaluatedBy, NextMessage
      <4>4. QED
        BY <2>3, <4>1, <4>2, <4>3 DEF HandleProposal, HandleMessage
    <3>4. ASSUME NEW r \in Specialist, NEW t \in seen'[r] PROVE EvaluatedBy(t, read[r])'
      <4>1. PICK k \in Nat : k <= Len(log) /\ k <= read'[r] /\ EvaluatedBy(t, k)
        <5>1. CASE t \in seen[r]
          BY <5>1, <3>3, <2>p DEF BarrierInv, SeenInv, Types, LogTypes
        <5>2. CASE t \notin seen[r]
          BY <5>2, <3>3, <3>4, <2>p DEF Types, LogTypes
        <5>3. QED
          BY <5>1, <5>2
      <4>2. read'[r] \in Nat
        BY <3>3, <2>p DEF Types, LogTypes
      <4>3. \A n \in Nat : n = read'[r] => EvaluatedBy(t, n)'
        BY <2>p, <3>1, <4>1, EvaluatedStays
      <4>4. QED
        BY <4>2, <4>3 DEF EvaluatedBy
    <3>5. QED
      BY <3>2, <3>4 DEF BarrierInv, SeenInv
  <2>4. ASSUME NEW s \in Specialist, SendVote(s) PROVE BarrierInv'
    <3>1. PICK m \in Messages : Send(m) /\ m.type = "Vote" /\ m.sender = s
      <4>1. pending[s] \in {"APPROVE", "REJECT"}
        BY <2>4 DEF SendVote, BarrierOpen, Types, SpecialistTypes
      <4>2. QED
        BY <2>4, <2>p, <4>1, VoteIsSignal DEF SendVote, Message, Messages
    <3>2. SeenInv'
      BY <2>2, <2>4, <3>1 DEF SendVote
    <3>3. /\ Len(log') \in Nat
          /\ \/ Len(log') = Len(log)
             \/ Len(log') = Len(log) + 1 /\ log'[Len(log) + 1] = m
          /\ \A i \in 1 .. Len(log) : log'[i] = log[i]
      BY <2>p, <3>1, SendExtends
    <3>4. ASSUME NEW i \in 1 .. Len(log'), log'[i].type = "Vote", log'[i].sender \in Specialist,
                 NEW t \in Peers(log'[i].sender)
          PROVE  EvaluatedBy(t, i - 1)'
      <4>1. \E k \in Nat : k <= Len(log) /\ k <= i - 1 /\ EvaluatedBy(t, k)
        <5>1. CASE i \in 1 .. Len(log)
          <6>1. EvaluatedBy(t, i - 1)
            BY <5>1, <3>3, <3>4 DEF BarrierInv, EvaluationsBeforeVotes
          <6>2. QED
            BY <5>1, <6>1, <2>p
        <5>2. CASE i \notin 1 .. Len(log)
          <6>1. i = Len(log) + 1 /\ t \in seen[s]
            BY <5>2, <2>4, <2>p, <3>1, <3>3, <3>4 DEF SendVote, BarrierOpen
          <6>2. EvaluatedBy(t, read[s])
            BY <6>1 DEF BarrierInv, SeenInv
          <6>3. QED
            BY <6>1, <6>2, <2>p
        <5>3. QED
          BY <5>1, <5>2
      <4>2. i - 1 \in Nat
        BY <3>3
      <4>3. \A n \in Nat : n = i - 1 => EvaluatedBy(t, n)'
        BY <2>p, <3>1, <4>1, EvaluatedStays
      <4>4. QED
        BY <4>2, <4>3 DEF EvaluatedBy
    <3>5. QED
      BY <3>2, <3>4 DEF BarrierInv, EvaluationsBeforeVotes
  <2>5. CASE SendCoordinatorVote
    <3>1. \/ UNCHANGED log
          \/ \E m \in Messages : Send(m) /\ ~(m.type = "Vote" /\ m.sender \in Specialist)
      BY <2>5, <2>p DEF SendCoordinatorVote, Message, Messages
    <3>2. UNCHANGED <<seen, read>>
      BY <2>5 DEF SendCoordinatorVote
    <3>3. QED
      BY <2>1, <2>2, <3>1, <3>2 DEF BarrierInv
  <2>6. CASE Observe
    <3>1. UNCHANGED <<log, seen>> /\ Handled(Coordinator)
      BY <2>6 DEF Observe, ObserveProposal, ObserveSignal, ObserveOwn
    <3>2. QED
      BY <2>1, <2>2, <2>p, <3>1 DEF BarrierInv
  <2>7. ASSUME UNCHANGED <<log, seen, read>> PROVE BarrierInv'
    BY <2>1, <2>2, <2>7 DEF BarrierInv
  <2>8. ASSUME NEW s \in Specialist, StreamEnds(s) \/ Crash(s) PROVE BarrierInv'
    BY <2>7, <2>8 DEF StreamEnds, Crash
  <2>9. CASE \/ Deadline \/ Suspend \/ Resume \/ Commit \/ Cancel
             \/ Expire \/ UNCHANGED vars
    BY <2>7, <2>9 DEF Deadline, Suspend, Resume, Commit, Cancel, Expire, vars
  <2>10. QED
    BY <2>3, <2>4, <2>5, <2>6, <2>8, <2>9 DEF Next, Specialists, Finish
<1>3. QED
  BY <1>1, <1>2

\* No specialist's vote locks a peer's evaluation out, however many specialists there
\* are and whichever of them crash: the barrier of _maybe_vote suffices.
THEOREM VotesAfterEvaluations == Spec => []EvaluationsBeforeVotes
<1>1. BarrierInv => EvaluationsBeforeVotes
  BY DEF BarrierInv
<1>2. QED
  BY <1>1, TypeInductive, BarrierInductive, PTL DEF Spec

-----------------------------------------------------------------------------
\* The coordinator's cancellation covers every way a session may stand when the
\* commitment did not go through.
THEOREM NothingLeftOpen == Spec => []LeavesNothingOpen
<1>1. Init => LeavesNothingOpen
  BY DEF Init, LeavesNothingOpen
<1>2. LeavesNothingOpen /\ [Next]_vars => LeavesNothingOpen'
  <2> SUFFICES ASSUME LeavesNothingOpen, [Next]_vars PROVE LeavesNothingOpen'
    OBVIOUS
  <2> USE DEF LeavesNothingOpen, specialistVars, coordinatorVars
  <2>1. ASSUME NEW s \in Specialist, Specialists(s) \/ Crash(s) PROVE LeavesNothingOpen'
    BY <2>1 DEF Specialists, HandleProposal, HandleMessage, SendVote, StreamEnds, Crash
  <2>2. CASE Observe
    BY <2>2 DEF Observe, ObserveProposal, ObserveSignal, ObserveOwn, TryCommit, MayCommit
  <2>3. CASE Deadline
    BY <2>3 DEF Deadline, TryCommit, MayCommit
  <2>4. CASE Suspend \/ Resume \/ SendCoordinatorVote
    BY <2>4 DEF Suspend, Resume, SendCoordinatorVote, Decide
  <2>5. CASE Commit
    BY <2>5 DEF Commit, Terminal
  <2>6. CASE Cancel
    BY <2>6 DEF Cancel, Answered, Refused, Terminal
  <2>7. CASE Expire \/ UNCHANGED vars
    BY <2>7 DEF Expire, vars, Terminal
  <2>8. QED
    BY <2>1, <2>2, <2>3, <2>4, <2>5, <2>6, <2>7 DEF Next, Finish
<1>3. QED
  BY <1>1, <1>2, PTL DEF Spec
-----------------------------------------------------------------------------
\* The decision is there from the coordinator's own vote on, and not before.
DecisionInv == decision # NoDecision => step \in {"voting", "committing", "cancelling", "done"}

\* No step goes back, and none changes the decision.
LEMMA DecisionInductive ==
    /\ Init => DecisionInv
    /\ Types /\ DecisionInv /\ [Next]_vars =>
          /\ DecisionInv'
          /\ [/\ StepOrder[step] <= StepOrder[step']
              /\ decision # NoDecision => decision' = decision]_vars
<1>1. Init => DecisionInv
  BY DEF Init, DecisionInv
<1>2. ASSUME Types, DecisionInv, [Next]_vars
      PROVE  /\ DecisionInv'
             /\ [/\ StepOrder[step] <= StepOrder[step']
                 /\ decision # NoDecision => decision' = decision]_vars
  <2> USE <1>2 DEF DecisionInv, specialistVars, coordinatorVars
  <2> DEFINE Goal == /\ DecisionInv'
                     /\ StepOrder[step] <= StepOrder[step']
                     /\ decision # NoDecision => decision' = decision
  <2>1. ASSUME UNCHANGED <<step, decision>> PROVE Goal
    <3>1. step \in Steps
      BY DEF Types, CoordinatorTypes
    <3>2. StepOrder[step] <= StepOrder[step']
      BY <2>1, <3>1 DEF StepOrder, Steps
    <3>3. QED
      BY <2>1, <3>2
  <2>2. ASSUME NEW s \in Specialist, Specialists(s) \/ Crash(s) PROVE Goal
    <3>1. UNCHANGED <<step, decision>>
      BY <2>2 DEF Specialists, HandleProposal, HandleMessage, SendVote, StreamEnds, Crash
    <3>2. QED
      BY <2>1, <3>1
  <2>3. CASE Observe \/ Deadline
    <3>1. CASE UNCHANGED <<step, decision>>
      BY <2>1, <3>1
    <3>2. CASE ~UNCHANGED <<step, decision>>
      <4>1. /\ step = "waiting"
            /\ \/ step' = "suspending" /\ UNCHANGED decision
               \/ step' = "voting"
        BY <2>3, <3>2
        DEF Observe, ObserveProposal, ObserveSignal, ObserveOwn, Deadline, TryCommit, MayCommit
      <4>2. QED
        BY <4>1 DEF StepOrder
    <3>3. QED
      BY <3>1, <3>2
  <2>4. CASE Suspend \/ Resume
    <3>1. \/ step = "suspending" /\ step' \in {"holding", "voting"}
          \/ step = "holding" /\ step' = "voting"
      BY <2>4 DEF Suspend, Resume, Decide
    <3>2. decision = NoDecision /\ (step' = "voting" \/ UNCHANGED decision)
      BY <2>4, <3>1 DEF Suspend, Resume, Decide
    <3>3. QED
      BY <3>1, <3>2 DEF StepOrder
  <2>5. CASE SendCoordinatorVote \/ Commit \/ Cancel
    <3>1. /\ UNCHANGED decision
          /\ \/ step = "voting" /\ step' = "committing"
             \/ step = "committing" /\ step' \in {"cancelling", "done"}
             \/ step = "cancelling" /\ step' = "done"
      BY <2>5 DEF SendCoordinatorVote, Commit, Cancel
    <3>2. QED
      BY <3>1 DEF StepOrder
  <2>6. CASE Expire \/ UNCHANGED vars
    BY <2>1, <2>6 DEF Expire, vars
  <2>7. QED
    BY <2>2, <2>3, <2>4, <2>5, <2>6 DEF Next, Finish
<1>3. QED
  BY <1>1, <1>2

\* tryCommit is gone through once whoever calls it, and its decision stands.
THEOREM CommitsOnlyOnce == Spec => CommitsOnce
BY TypeInductive, DecisionInductive, PTL DEF Spec, CommitsOnce

-----------------------------------------------------------------------------
\* The Proposal is the first message and the only one, and until the coordinator has
\* handled it there is neither a timer nor a decision to be made.
ProposalInv ==
    /\ Len(log) >= 1 /\ log[1] = Proposal
    /\ \A i \in 2 .. Len(log) : log[i].type # "Proposal"
    /\ read[Coordinator] = 0 => step = "waiting" /\ timer = "unarmed"

EarlyInv == ProposalInv /\ EarlyOnlyByDeadline

\* Who has a signal from every specialist has them all.
LEMMA EveryoneHeard ==
    ASSUME NEW sigs, Everyone(sigs) PROVE \A s \in Specialist : sigs[s] # NoSignal
<1>1. Heard(sigs) \subseteq Specialist /\ IsFiniteSet(Specialist)
  BY SessionAssumption DEF Heard
<1>2. Heard(sigs) = Specialist
  BY <1>1, FS_Subset, FS_CardinalityType DEF Everyone
<1>3. QED
  BY <1>2 DEF Heard

\* The invariant of the deadline holds initially and is kept by every step.
LEMMA EarlyInductive ==
    /\ Init => EarlyInv
    /\ Types /\ EarlyInv /\ [Next]_vars => EarlyInv'
<1> USE SessionAssumption
<1>1. Init => EarlyInv
  BY DEF Init, EarlyInv, ProposalInv, EarlyOnlyByDeadline, Participant
<1>2. ASSUME Types, EarlyInv, [Next]_vars PROVE EarlyInv'
  <2> USE <1>2 DEF specialistVars, coordinatorVars, EarlyInv
  <2>p. /\ Specialist \subseteq Participant /\ Coordinator \in Participant
        /\ log \in Seq(Messages) /\ Len(log) \in Nat
        /\ read \in [Participant -> Nat]
        /\ signals \in [Specialist -> Signal \cup {NoSignal}]
    BY LenProperties DEF Participant, Types, LogTypes, CoordinatorTypes
  <2>q. log[1].type = "Proposal" /\ log[1].sender \notin Specialist
    BY DEF ProposalInv, Proposal, Message
  \* What is sent is no Proposal.
  <2>1. ASSUME UNCHANGED log \/ \E m \in Messages : Send(m) /\ m.type # "Proposal",
               read'[Coordinator] = 0 => step' = "waiting" /\ timer' = "unarmed"
        PROVE  ProposalInv'
    <3>1. CASE UNCHANGED log
      BY <2>1, <3>1 DEF ProposalInv, Proposal
    <3>2. ASSUME NEW m \in Messages, Send(m), m.type # "Proposal" PROVE ProposalInv'
      <4>1. /\ Len(log') \in Nat
            /\ \/ Len(log') = Len(log)
               \/ Len(log') = Len(log) + 1 /\ log'[Len(log) + 1] = m
            /\ \A i \in 1 .. Len(log) : log'[i] = log[i]
        BY <2>p, <3>2, SendExtends
      <4>2. QED
        BY <2>1, <2>p, <3>2, <4>1 DEF ProposalInv, Proposal
    <3>3. QED
      BY <2>1, <3>1, <3>2
  <2>2. ASSUME UNCHANGED <<signals, step, timer>>,
               UNCHANGED read \/ \E p \in Participant : Unread(p) /\ Handled(p),
               UNCHANGED log \/ \E m \in Messages : Send(m) /\ m.type # "Proposal"
        PROVE  EarlyInv'
    <3>1. read'[Coordinator] = 0 => read[Coordinator] = 0
      BY <2>p, <2>2 DEF Handled
    <3>2. QED
      BY <2>1, <2>2, <3>1 DEF ProposalInv, EarlyOnlyByDeadline
  <2>3. ASSUME NEW s \in Specialist, HandleProposal(s) PROVE EarlyInv'
    <3>1. PICK opinion \in Opinions : Send(Message("Evaluation", s, evaluationOf(opinion)))
      BY <2>3 DEF HandleProposal
    <3>2. /\ Message("Evaluation", s, evaluationOf(opinion)) \in Messages
          /\ Message("Evaluation", s, evaluationOf(opinion)).type # "Proposal"
      BY <2>p, OpinionIsSignal DEF Message, Messages
    <3>3. QED
      BY <2>2, <2>3, <2>p, <3>1, <3>2 DEF HandleProposal
  <2>4. ASSUME NEW s \in Specialist, SendVote(s) PROVE EarlyInv'
    <3>1. pending[s] \in {"APPROVE", "REJECT"}
      BY <2>4 DEF SendVote, BarrierOpen, Types, SpecialistTypes
    <3>2. /\ Message("Vote", s, VoteSignal(pending[s])) \in Messages
          /\ Message("Vote", s, VoteSignal(pending[s])).type # "Proposal"
      BY <2>p, <3>1, VoteIsSignal DEF Message, Messages
    <3>3. QED
      BY <2>2, <2>4, <3>2 DEF SendVote
  <2>5. ASSUME NEW s \in Specialist, HandleMessage(s) \/ StreamEnds(s) \/ Crash(s) PROVE EarlyInv'
    BY <2>2, <2>5, <2>p DEF HandleMessage, StreamEnds, Crash
  <2>6. CASE ObserveProposal
    <3>1. read[Coordinator] = 0
      BY <2>6, <2>p DEF ObserveProposal, Unread, NextMessage, ProposalInv
    <3>2. read'[Coordinator] # 0 /\ step = "waiting"
      BY <2>6, <2>p, <3>1 DEF ObserveProposal, Handled, ProposalInv
    <3>3. QED
      BY <2>1, <2>6, <3>2 DEF ObserveProposal, EarlyOnlyByDeadline
  <2>7. CASE ObserveOwn
    BY <2>2, <2>7, <2>p DEF ObserveOwn
  <2>8. CASE ObserveSignal
    <3> DEFINE next == NextMessage(Coordinator)
    <3>1. /\ Unread(Coordinator) /\ next.sender \in Specialist
          /\ signals' = [signals EXCEPT ![next.sender] = next.signal]
          /\ TryCommit(signals', timer, FALSE)
          /\ Handled(Coordinator)
          /\ UNCHANGED log
      BY <2>8 DEF ObserveSignal
    <3>2. next.signal # NoSignal
      BY <2>p, <3>1, NextIsMessage DEF Types
    <3>3. read'[Coordinator] # 0
      BY <2>p, <3>1 DEF Handled
    <3>4. ProposalInv'
      BY <2>1, <3>1, <3>3
    <3>5. \A s \in Specialist : signals[s] # NoSignal => signals'[s] # NoSignal
      BY <2>p, <3>1, <3>2
    <3>6. EarlyOnlyByDeadline'
      <4>1. CASE MayCommit(signals', FALSE)
        <5>1. Everyone(signals')
          BY <4>1 DEF MayCommit
        <5>2. \A s \in Specialist : signals'[s] # NoSignal
          BY <5>1, EveryoneHeard
        <5>3. QED
          BY <5>2 DEF EarlyOnlyByDeadline
      <4>2. CASE ~MayCommit(signals', FALSE)
        BY <3>1, <3>5, <4>2 DEF TryCommit, EarlyOnlyByDeadline
      <4>3. QED
        BY <4>1, <4>2
    <3>7. QED
      BY <3>4, <3>6
  <2>9. CASE Deadline
    <3>1. timer' = "fired" /\ UNCHANGED <<log, read, signals>> /\ timer = "armed"
      BY <2>9 DEF Deadline, TryCommit
    <3>2. QED
      BY <2>1, <3>1 DEF ProposalInv, EarlyOnlyByDeadline
  <2>10. CASE SendCoordinatorVote
    <3>1. /\ Message("Vote", Coordinator, NoSignal) \in Messages
          /\ Message("Vote", Coordinator, NoSignal).type # "Proposal"
      BY <2>p DEF Message, Messages
    <3>2. /\ step = "voting" /\ UNCHANGED <<read, signals, timer>>
          /\ UNCHANGED log \/ Send(Message("Vote", Coordinator, NoSignal))
      BY <2>10 DEF SendCoordinatorVote
    <3>3. ProposalInv'
      BY <2>1, <3>1, <3>2 DEF ProposalInv
    <3>4. QED
      BY <3>2, <3>3 DEF EarlyOnlyByDeadline
  <2>11. CASE Suspend \/ Resume \/ Commit \/ Cancel
    <3>1. step # "waiting" /\ UNCHANGED <<log, read, signals, timer>>
      BY <2>11 DEF Suspend, Resume, Commit, Cancel
    <3>2. QED
      BY <2>1, <3>1 DEF ProposalInv, EarlyOnlyByDeadline
  <2>12. CASE Expire \/ UNCHANGED vars
    BY <2>2, <2>12 DEF Expire, vars
  <2>13. QED
    BY <2>3, <2>4, <2>5, <2>6, <2>7, <2>8, <2>9, <2>10, <2>11, <2>12
    DEF Next, Specialists, Observe, Finish
<1>3. QED
  BY <1>1, <1>2

\* Without the deadline the coordinator never decides on part of the signals.
THEOREM NeverEarly == Spec => []EarlyOnlyByDeadline
<1>1. EarlyInv => EarlyOnlyByDeadline
  BY DEF EarlyInv
<1>2. QED
  BY <1>1, TypeInductive, EarlyInductive, PTL DEF Spec
-----------------------------------------------------------------------------
\* A specialist evaluates once: when it handles the Proposal, before it has done
\* anything else.
OnceInv ==
    /\ \A s \in Specialist : read[s] = 0 =>
          /\ pending[s] = NoVote
          /\ \A i \in 1 .. Len(log) : log[i].sender # s
    /\ \A i, j \in 1 .. Len(log) :
          /\ log[i].type = "Evaluation" /\ log[j].type = "Evaluation"
          /\ log[i].sender = log[j].sender
          => i = j

\* Only the first message is a Proposal.
LEMMA ProposalIsFirst ==
    ASSUME Types, ProposalInv, NEW p \in Participant, Unread(p)
    PROVE  NextMessage(p).type = "Proposal" <=> read[p] = 0
<1>1. read[p] \in Nat /\ read[p] + 1 \in 1 .. Len(log) /\ Len(log) \in Nat
  BY NextIsMessage, LenProperties DEF Types, LogTypes
<1>2. CASE read[p] = 0
  BY <1>2 DEF NextMessage, ProposalInv, Proposal, Message
<1>3. CASE read[p] # 0
  <2>1. read[p] + 1 \in 2 .. Len(log)
    BY <1>1, <1>3
  <2>2. QED
    BY <1>3, <2>1 DEF NextMessage, ProposalInv
<1>4. QED
  BY <1>2, <1>3

LEMMA OnceInductive ==
    /\ Init => OnceInv
    /\ Types /\ ProposalInv /\ OnceInv /\ [Next]_vars => OnceInv'
<1> USE SessionAssumption
<1>1. Init => OnceInv
  <2> SUFFICES ASSUME Init PROVE OnceInv
    OBVIOUS
  <2>1. Len(log) = 1 /\ log[1].sender \notin Specialist
    BY DEF Init, Proposal, Message
  <2>2. QED
    BY <2>1 DEF Init, OnceInv
<1>2. ASSUME Types, ProposalInv, OnceInv, [Next]_vars PROVE OnceInv'
  <2> USE <1>2 DEF specialistVars, coordinatorVars
  <2>p. /\ Specialist \subseteq Participant /\ Coordinator \in Participant
        /\ log \in Seq(Messages) /\ Len(log) \in Nat
        /\ read \in [Participant -> Nat]
        /\ pending \in [Specialist -> {"APPROVE", "REJECT", NoVote}]
    BY LenProperties DEF Participant, Types, LogTypes, SpecialistTypes
  <2>1. ASSUME UNCHANGED pending, \A s \in Specialist : read'[s] = 0 => read[s] = 0,
               \/ UNCHANGED log
               \/ \E m \in Messages :
                     /\ Send(m)
                     /\ m.type # "Evaluation"
                     /\ m.sender \in Specialist => read[m.sender] # 0
        PROVE  OnceInv'
    <3>1. CASE UNCHANGED log
      BY <2>1, <3>1 DEF OnceInv
    <3>2. ASSUME NEW m \in Messages, Send(m), m.type # "Evaluation",
                 m.sender \in Specialist => read[m.sender] # 0
          PROVE  OnceInv'
      <4>1. /\ Len(log') \in Nat
            /\ \/ Len(log') = Len(log)
               \/ Len(log') = Len(log) + 1 /\ log'[Len(log) + 1] = m
            /\ \A i \in 1 .. Len(log) : log'[i] = log[i]
        BY <2>p, <3>2, SendExtends
      <4>2. \A i \in 1 .. Len(log') : (i \in 1 .. Len(log) /\ log'[i] = log[i]) \/ log'[i] = m
        BY <2>p, <4>1
      <4>3. QED
        BY <2>1, <3>2, <4>2 DEF OnceInv
    <3>3. QED
      BY <2>1, <3>1, <3>2
  <2>2. ASSUME NEW s \in Specialist, HandleProposal(s) PROVE OnceInv'
    <3>1. PICK opinion \in Opinions :
             /\ Send(Message("Evaluation", s, evaluationOf(opinion)))
             /\ pending' = [pending EXCEPT ![s] = voteFor(opinion.word)]
      BY <2>2 DEF HandleProposal
    <3> DEFINE m == Message("Evaluation", s, evaluationOf(opinion))
    <3>2. m \in Messages /\ m.sender = s
      BY <2>p, OpinionIsSignal DEF Message, Messages
    <3>3. read[s] = 0
      BY <2>p, <2>2, ProposalIsFirst DEF HandleProposal
    <3>4. \A r \in Specialist : /\ read'[r] = 0 => r # s /\ read[r] = 0
                                /\ r # s => pending'[r] = pending[r]
      BY <2>p, <2>2, <3>1, <3>3 DEF HandleProposal, Handled
    <3>5. /\ Len(log') \in Nat
          /\ \/ Len(log') = Len(log)
             \/ Len(log') = Len(log) + 1 /\ log'[Len(log) + 1] = m
          /\ \A i \in 1 .. Len(log) : log'[i] = log[i]
      BY <2>p, <3>1, <3>2, SendExtends
    <3>6. \A i \in 1 .. Len(log') : \/ i \in 1 .. Len(log) /\ log'[i] = log[i] /\ log[i].sender # s
                                    \/ i = Len(log) + 1 /\ log'[i].sender = s
      BY <2>p, <3>2, <3>3, <3>5 DEF OnceInv
    <3>7. \A i, j \in 1 .. Len(log') :
             /\ log'[i].type = "Evaluation" /\ log'[j].type = "Evaluation"
             /\ log'[i].sender = log'[j].sender
             => i = j
      BY <3>6 DEF OnceInv
    <3>8. QED
      BY <3>4, <3>6, <3>7 DEF OnceInv
  <2>3. ASSUME NEW s \in Specialist, SendVote(s) PROVE OnceInv'
    <3>1. pending[s] \in {"APPROVE", "REJECT"} /\ read[s] # 0
      BY <2>3, <2>p DEF SendVote, BarrierOpen, OnceInv
    <3>2. /\ Message("Vote", s, VoteSignal(pending[s])) \in Messages
          /\ Message("Vote", s, VoteSignal(pending[s])).type # "Evaluation"
          /\ Message("Vote", s, VoteSignal(pending[s])).sender = s
      BY <2>p, <3>1, VoteIsSignal DEF Message, Messages
    <3>3. QED
      BY <2>1, <2>3, <3>1, <3>2 DEF SendVote
  <2>4. CASE SendCoordinatorVote
    <3>1. /\ Message("Vote", Coordinator, NoSignal) \in Messages
          /\ Message("Vote", Coordinator, NoSignal).type # "Evaluation"
          /\ Message("Vote", Coordinator, NoSignal).sender \notin Specialist
      BY <2>p DEF Message, Messages
    <3>2. /\ UNCHANGED <<read, pending>>
          /\ UNCHANGED log \/ Send(Message("Vote", Coordinator, NoSignal))
      BY <2>4 DEF SendCoordinatorVote
    <3>3. QED
      BY <2>1, <3>1, <3>2
  <2>5. ASSUME NEW s \in Specialist, HandleMessage(s) PROVE OnceInv'
    <3>1. \A r \in Specialist : read'[r] = 0 => read[r] = 0
      BY <2>5, <2>p DEF HandleMessage, Handled
    <3>2. QED
      BY <2>1, <2>5, <3>1 DEF HandleMessage
  <2>6. CASE Observe
    <3>1. UNCHANGED <<log, pending>> /\ Handled(Coordinator)
      BY <2>6 DEF Observe, ObserveProposal, ObserveSignal, ObserveOwn
    <3>2. QED
      BY <2>1, <2>p, <3>1 DEF Handled
  <2>7. ASSUME UNCHANGED <<log, read, pending>> PROVE OnceInv'
    BY <2>1, <2>7
  <2>8. ASSUME NEW s \in Specialist, StreamEnds(s) \/ Crash(s) PROVE OnceInv'
    BY <2>7, <2>8 DEF StreamEnds, Crash
  <2>9. CASE \/ Deadline \/ Suspend \/ Resume \/ Commit \/ Cancel
             \/ Expire \/ UNCHANGED vars
    BY <2>7, <2>9 DEF Deadline, Suspend, Resume, Commit, Cancel, Expire, vars
  <2>10. QED
    BY <2>2, <2>3, <2>4, <2>5, <2>6, <2>8, <2>9 DEF Next, Specialists, Finish
<1>3. QED
  BY <1>1, <1>2
-----------------------------------------------------------------------------
\* The log grows by at most one message a step, while the session is open, and which
\* step that is shows in the message.
LEMMA LogStep ==
    ASSUME Types, [Next]_vars
    PROVE  /\ Len(log) \in Nat /\ Len(log') \in Nat
           /\ \A i \in 1 .. Len(log) : log'[i] = log[i]
           /\ \/ Len(log') = Len(log)
              \/ /\ Len(log') = Len(log) + 1 /\ session = "open"
                 /\ \/ \E s \in Specialist : /\ HandleProposal(s)
                                             /\ log'[Len(log) + 1].type = "Evaluation"
                                             /\ log'[Len(log) + 1].sender = s
                    \/ \E s \in Specialist : /\ SendVote(s)
                                             /\ log'[Len(log) + 1].type = "Vote"
                                             /\ log'[Len(log) + 1].sender = s
                    \/ /\ SendCoordinatorVote
                       /\ log'[Len(log) + 1].type = "Vote"
                       /\ log'[Len(log) + 1].sender = Coordinator
<1> DEFINE Goal == /\ Len(log) \in Nat /\ Len(log') \in Nat
                   /\ \A i \in 1 .. Len(log) : log'[i] = log[i]
                   /\ \/ Len(log') = Len(log)
                      \/ /\ Len(log') = Len(log) + 1 /\ session = "open"
                         /\ \/ \E s \in Specialist : /\ HandleProposal(s)
                                                     /\ log'[Len(log) + 1].type = "Evaluation"
                                                     /\ log'[Len(log) + 1].sender = s
                            \/ \E s \in Specialist : /\ SendVote(s)
                                                     /\ log'[Len(log) + 1].type = "Vote"
                                                     /\ log'[Len(log) + 1].sender = s
                            \/ /\ SendCoordinatorVote
                               /\ log'[Len(log) + 1].type = "Vote"
                               /\ log'[Len(log) + 1].sender = Coordinator
<1> USE SessionAssumption
<1>p. /\ Specialist \subseteq Participant /\ Coordinator \in Participant
      /\ log \in Seq(Messages) /\ Len(log) \in Nat
  BY LenProperties DEF Participant, Types, LogTypes
<1>1. ASSUME UNCHANGED log PROVE Goal
  BY <1>p, <1>1
<1>2. ASSUME NEW m \in Messages, Send(m)
      PROVE  /\ Len(log') \in Nat
             /\ \A i \in 1 .. Len(log) : log'[i] = log[i]
             /\ \/ Len(log') = Len(log)
                \/ Len(log') = Len(log) + 1 /\ session = "open" /\ log'[Len(log) + 1] = m
  <2>1. session # "open" => UNCHANGED log
    BY <1>2 DEF Send, Accepts
  <2>2. QED
    BY <1>p, <1>2, <2>1, SendExtends
<1>3. ASSUME NEW s \in Specialist, HandleProposal(s) PROVE Goal
  <2>1. PICK opinion \in Opinions : Send(Message("Evaluation", s, evaluationOf(opinion)))
    BY <1>3 DEF HandleProposal
  <2> DEFINE m == Message("Evaluation", s, evaluationOf(opinion))
  <2>2. m \in Messages /\ m.type = "Evaluation" /\ m.sender = s
    BY <1>p, OpinionIsSignal DEF Message, Messages
  <2> HIDE DEF m
  <2>3. Send(m)
    BY <2>1 DEF m
  <2>4. QED
    BY <1>p, <1>2, <1>3, <2>2, <2>3
<1>4. ASSUME NEW s \in Specialist, SendVote(s) PROVE Goal
  <2> DEFINE m == Message("Vote", s, VoteSignal(pending[s]))
  <2>1. pending[s] \in {"APPROVE", "REJECT"}
    BY <1>4 DEF SendVote, BarrierOpen, Types, SpecialistTypes
  <2>2. m \in Messages /\ m.type = "Vote" /\ m.sender = s /\ Send(m)
    BY <1>p, <1>4, <2>1, VoteIsSignal DEF Message, Messages, SendVote
  <2> HIDE DEF m
  <2>3. QED
    BY <1>p, <1>2, <1>4, <2>2
<1>5. CASE SendCoordinatorVote
  <2> DEFINE m == Message("Vote", Coordinator, NoSignal)
  <2>1. m \in Messages /\ m.type = "Vote" /\ m.sender = Coordinator
    BY <1>p DEF Message, Messages
  <2>2. Send(m) \/ UNCHANGED log
    BY <1>5 DEF SendCoordinatorVote
  <2> HIDE DEF m
  <2>3. QED
    BY <1>p, <1>1, <1>2, <1>5, <2>1, <2>2
<1>6. ASSUME NEW s \in Specialist, HandleMessage(s) \/ StreamEnds(s) \/ Crash(s) PROVE Goal
  BY <1>1, <1>6 DEF HandleMessage, StreamEnds, Crash
<1>7. CASE \/ Observe \/ Deadline \/ Suspend \/ Resume \/ Commit \/ Cancel
           \/ Expire \/ UNCHANGED vars
  BY <1>1, <1>7 DEF Observe, ObserveProposal, ObserveSignal, ObserveOwn, Deadline,
                    Suspend, Resume, Commit, Cancel, Expire, vars
<1>8. QED
  BY <1>3, <1>4, <1>5, <1>6, <1>7 DEF Next, Specialists, Finish

\* The coordinator has a signal of exactly the specialists it has heard, and each is one
\* that the specialist sent.
SignalInv ==
    \A s \in Specialist :
        IF signals[s] = NoSignal
        THEN \A i \in 1 .. read[Coordinator] : log[i].sender # s
        ELSE \E i \in 1 .. read[Coordinator] : log[i].sender = s /\ log[i].signal = signals[s]

LEMMA SignalInductive ==
    /\ Init => SignalInv
    /\ Types /\ ProposalInv /\ SignalInv /\ [Next]_vars => SignalInv'
<1> USE SessionAssumption
<1>1. Init => SignalInv
  BY DEF Init, SignalInv, Participant
<1>2. ASSUME Types, ProposalInv, SignalInv, [Next]_vars PROVE SignalInv'
  <2> USE <1>2 DEF specialistVars, coordinatorVars
  <2> DEFINE c == read[Coordinator]
  <2>p. /\ Specialist \subseteq Participant /\ Coordinator \in Participant
        /\ c \in Nat /\ c <= Len(log) /\ Len(log) \in Nat
        /\ read \in [Participant -> Nat]
        /\ signals \in [Specialist -> Signal \cup {NoSignal}]
        /\ \A i \in 1 .. Len(log) : log'[i] = log[i]
    BY LogStep DEF Participant, Types, LogTypes, CoordinatorTypes
  <2>1. ASSUME UNCHANGED signals, read'[Coordinator] = c PROVE SignalInv'
    BY <2>1, <2>p DEF SignalInv
  \* A message handled leaves the signals of those who did not send it.
  <2>2. ASSUME NEW s \in Specialist, c + 1 \in 1 .. Len(log), log[c + 1].sender # s,
               signals'[s] = signals[s]
        PROVE  IF signals'[s] = NoSignal
               THEN \A i \in 1 .. c + 1 : log'[i].sender # s
               ELSE \E i \in 1 .. c + 1 : log'[i].sender = s /\ log'[i].signal = signals'[s]
    <3>1. \A i \in 1 .. c + 1 : i = c + 1 \/ i \in 1 .. c
      BY <2>p
    <3>2. \A i \in 1 .. c : i \in 1 .. c + 1 /\ log'[i] = log[i]
      BY <2>p
    <3>3. log'[c + 1] = log[c + 1]
      BY <2>p, <2>2
    <3>4. QED
      BY <2>2, <3>1, <3>2, <3>3 DEF SignalInv
  <2>3. CASE ObserveProposal \/ ObserveOwn
    <3>1. /\ UNCHANGED signals /\ read'[Coordinator] = c + 1
          /\ c + 1 \in 1 .. Len(log)
      BY <2>3, <2>p, NextIsMessage DEF ObserveProposal, ObserveOwn, Handled, Types
    <3>2. log[c + 1].sender \notin Specialist
      <4>1. CASE ObserveProposal
        <5>1. c = 0
          BY <2>p, <4>1, ProposalIsFirst DEF ObserveProposal
        <5>2. QED
          BY <5>1 DEF ProposalInv, Proposal, Message
      <4>2. CASE ObserveOwn
        BY <4>2 DEF ObserveOwn, NextMessage
      <4>3. QED
        BY <2>3, <4>1, <4>2
    <3>3. QED
      BY <2>2, <3>1, <3>2 DEF SignalInv
  <2>4. CASE ObserveSignal
    <3>1. /\ read'[Coordinator] = c + 1
          /\ c + 1 \in 1 .. Len(log)
          /\ log[c + 1].sender \in Specialist /\ log[c + 1].signal \in Signal
          /\ signals' = [signals EXCEPT ![log[c + 1].sender] = log[c + 1].signal]
      BY <2>4, <2>p, NextIsMessage DEF ObserveSignal, Handled, NextMessage, Types
    <3>2. ASSUME NEW s \in Specialist, s = log[c + 1].sender
          PROVE  /\ signals'[s] # NoSignal
                 /\ c + 1 \in 1 .. c + 1
                 /\ log'[c + 1].sender = s /\ log'[c + 1].signal = signals'[s]
      BY <2>p, <3>1, <3>2
    <3>3. \A s \in Specialist : s # log[c + 1].sender => signals'[s] = signals[s]
      BY <2>p, <3>1
    <3>4. QED
      BY <2>2, <3>1, <3>2, <3>3 DEF SignalInv
  <2>5. ASSUME NEW s \in Specialist, Specialists(s) \/ Crash(s) PROVE SignalInv'
    <3>1. UNCHANGED signals /\ (UNCHANGED read \/ Handled(s))
      BY <2>5 DEF Specialists, HandleProposal, HandleMessage, SendVote, StreamEnds, Crash
    <3>2. QED
      BY <2>1, <2>p, <3>1 DEF Handled
  <2>6. CASE Deadline \/ Finish \/ Expire \/ UNCHANGED vars
    <3>1. UNCHANGED <<signals, read>>
      BY <2>6 DEF Deadline, Finish, Suspend, Resume, SendCoordinatorVote, Commit, Cancel, Expire, vars
    <3>2. QED
      BY <2>1, <3>1
  <2>7. QED
    BY <2>3, <2>4, <2>5, <2>6 DEF Next, Observe
<1>3. QED
  BY <1>1, <1>2

\* The coordinator votes after its decision, and only the demo suspends.
CoordinatorInv ==
    /\ (\E i \in 1 .. Len(log) : log[i].type = "Vote" /\ log[i].sender = Coordinator) =>
          step \in {"committing", "cancelling", "done"}
    /\ ~demo => session # "suspended" /\ step \notin {"suspending", "holding"}

LEMMA CoordinatorInductive ==
    /\ Init => CoordinatorInv
    /\ Types /\ CoordinatorInv /\ [Next]_vars => CoordinatorInv'
<1> USE SessionAssumption
<1>1. Init => CoordinatorInv
  BY DEF Init, CoordinatorInv, Proposal, Message
<1>2. ASSUME Types, CoordinatorInv, [Next]_vars PROVE CoordinatorInv'
  <2> USE <1>2 DEF specialistVars, coordinatorVars
  <2> DEFINE Late == {"committing", "cancelling", "done"}
  <2> DEFINE Goal == /\ step \in Late => step' \in Late
                     /\ SendCoordinatorVote => step' \in Late
                     /\ ~demo' => session' # "suspended" /\ step' \notin {"suspending", "holding"}
  <2>1. ASSUME UNCHANGED <<step, demo, session>>, ~SendCoordinatorVote PROVE Goal
    BY <2>1 DEF CoordinatorInv
  <2>2. ASSUME NEW s \in Specialist, Specialists(s) \/ Crash(s) PROVE Goal
    <3>1. UNCHANGED <<step, demo, session>>
      BY <2>2 DEF Specialists, HandleProposal, HandleMessage, SendVote, StreamEnds, Crash
    <3>2. SendCoordinatorVote => step' # step
      BY DEF SendCoordinatorVote
    <3>3. QED
      BY <2>1, <3>1, <3>2
  <2>3. ASSUME Observe \/ Deadline PROVE Goal
    <3>1. UNCHANGED <<demo, session>> /\ (UNCHANGED step \/ (step = "waiting" /\ (step' = "voting" \/ demo)))
      BY <2>3 DEF Observe, ObserveProposal, ObserveSignal, ObserveOwn, Deadline, TryCommit, MayCommit
    <3>2. SendCoordinatorVote => step = "voting" /\ step' = "committing"
      BY DEF SendCoordinatorVote
    <3>3. QED
      BY <3>1, <3>2 DEF CoordinatorInv
  <2>4. ASSUME Finish PROVE Goal
    BY <2>4 DEF Finish, Suspend, Resume, Decide, SendCoordinatorVote, Commit, Cancel, CoordinatorInv
  <2>5. ASSUME Expire \/ UNCHANGED vars PROVE Goal
    <3>1. UNCHANGED <<step, demo>> /\ (UNCHANGED session \/ session' = "expired")
      BY <2>5 DEF Expire, vars
    <3>2. SendCoordinatorVote => step' # step
      BY DEF SendCoordinatorVote
    <3>3. QED
      BY <3>1, <3>2 DEF CoordinatorInv
  <2>6. Goal
    BY <2>2, <2>3, <2>4, <2>5 DEF Next
  <2>7. ASSUME NEW i \in 1 .. Len(log'), log'[i].type = "Vote", log'[i].sender = Coordinator
        PROVE  step' \in Late
    <3>1. CASE i \in 1 .. Len(log)
      BY <2>6, <2>7, <3>1, LogStep DEF CoordinatorInv
    <3>2. CASE i \notin 1 .. Len(log)
      <4>1. i = Len(log) + 1 /\ Len(log') = Len(log) + 1
        BY <2>7, <3>2, LogStep
      <4>2. SendCoordinatorVote
        BY <2>7, <4>1, LogStep
      <4>3. QED
        BY <2>6, <4>2
    <3>3. QED
      BY <3>1, <3>2
  <2>8. QED
    BY <2>6, <2>7 DEF CoordinatorInv
<1>3. QED
  BY <1>1, <1>2

\* Neither the demo nor the deadline has forced anything; once they have, they stay.
Undemanded == ~demo /\ timer # "fired"

LEMMA UndemandedBefore ==
    ASSUME Types, ProposalInv, [Next]_vars, Undemanded' PROVE Undemanded
<1> USE DEF specialistVars, coordinatorVars, Undemanded
<1>1. UNCHANGED demo
  BY DEF Next, Specialists, HandleProposal, HandleMessage, SendVote, StreamEnds, Crash,
         Observe, ObserveProposal, ObserveSignal, ObserveOwn, Deadline,
         Finish, Suspend, Resume, SendCoordinatorVote, Commit, Cancel, Expire, vars
<1>2. CASE ObserveProposal
  <2>1. read[Coordinator] = 0
    BY <1>2, ProposalIsFirst DEF ObserveProposal, Participant
  <2>2. QED
    BY <1>1, <2>1 DEF ProposalInv
<1>3. ASSUME ~ObserveProposal PROVE timer = "fired" => timer' = "fired"
  BY <1>3 DEF Next, Specialists, HandleProposal, HandleMessage, SendVote, StreamEnds, Crash,
         Observe, ObserveSignal, ObserveOwn, Deadline, TryCommit,
         Finish, Suspend, Resume, SendCoordinatorVote, Commit, Cancel, Expire, vars
<1>4. QED
  BY <1>1, <1>2, <1>3

\* Unless something was forced, no vote comes before the evaluation of anybody: not even
\* before the voter's own, for the session was open when that was sent.
OwnInv ==
    Undemanded =>
        /\ session = "open" =>
              \A s \in Specialist : read[s] # 0 => EvaluatedBy(s, Len(log))
        /\ \A i \in 1 .. Len(log) :
              log[i].type = "Vote" /\ log[i].sender \in Specialist =>
                  \A t \in Specialist : EvaluatedBy(t, i - 1)

\* What the coordinator's early decision is argued from.
SessionInv == BarrierInv /\ EarlyInv /\ OnceInv /\ SignalInv /\ CoordinatorInv

LEMMA SessionInductive ==
    /\ Init => Types /\ SessionInv
    /\ Types /\ SessionInv /\ [Next]_vars => Types' /\ SessionInv'
BY TypeInductive, BarrierInductive, EarlyInductive, OnceInductive, SignalInductive,
   CoordinatorInductive
DEF SessionInv, EarlyInv

\* A specialist that is to evaluate finds nobody voting yet.
LEMMA NobodyVotesYet ==
    ASSUME Types, SessionInv, Undemanded, NEW s \in Specialist, read[s] = 0 PROVE ~Voting
<1>1. SUFFICES ASSUME NEW i \in 1 .. Len(log), log[i].type = "Vote" PROVE FALSE
  BY DEF Voting
<1>p. Len(log) \in Nat /\ read[Coordinator] \in Nat /\ read[Coordinator] <= Len(log)
  BY LenProperties DEF Types, LogTypes, Participant
<1>2. \A j \in 1 .. Len(log) : log[j].sender # s
  BY DEF SessionInv, OnceInv
<1>3. CASE log[i].sender \in Specialist
  <2>1. s \in Peers(log[i].sender)
    BY <1>2, <1>3 DEF Peers
  <2>2. EvaluatedBy(s, i - 1)
    BY <1>1, <1>3, <2>1 DEF SessionInv, BarrierInv, EvaluationsBeforeVotes
  <2>3. QED
    BY <1>p, <1>2, <2>2 DEF EvaluatedBy
<1>4. CASE log[i].sender \notin Specialist
  <2>1. log[i] \in Messages
    BY ElementOfSeq DEF Types, LogTypes
  <2>2. log[i].sender = Coordinator
    BY <1>4, <2>1 DEF Messages, Participant
  <2>3. step # "waiting"
    BY <1>1, <2>2 DEF SessionInv, CoordinatorInv
  <2>4. signals[s] # NoSignal
    BY <2>3 DEF SessionInv, EarlyInv, EarlyOnlyByDeadline, Undemanded
  <2>5. \E j \in 1 .. read[Coordinator] : log[j].sender = s
    BY <2>4 DEF SessionInv, SignalInv
  <2>6. QED
    BY <1>p, <1>2, <2>5
<1>5. QED
  BY <1>3, <1>4

LEMMA EvaluatedKept ==
    ASSUME Types, [Next]_vars, NEW t, NEW k \in Nat, k <= Len(log), EvaluatedBy(t, k),
           NEW n \in Nat, k <= n
    PROVE  \E j \in 1 .. n : log'[j].type = "Evaluation" /\ log'[j].sender = t
<1>1. PICK j \in 1 .. k : log[j].type = "Evaluation" /\ log[j].sender = t
  BY DEF EvaluatedBy
<1>2. j \in 1 .. n /\ log'[j] = log[j]
  BY LogStep
<1>3. QED
  BY <1>1, <1>2

LEMMA OwnInductive ==
    /\ Init => OwnInv
    /\ Types /\ SessionInv /\ OwnInv /\ [Next]_vars => OwnInv'
<1> USE SessionAssumption
<1>1. Init => OwnInv
  BY DEF Init, OwnInv, Participant, Proposal, Message
<1>2. ASSUME Types, SessionInv, OwnInv, [Next]_vars, Undemanded'
      PROVE  /\ session' = "open" =>
                    \A s \in Specialist : read'[s] # 0 =>
                        \E j \in 1 .. Len(log') : log'[j].type = "Evaluation" /\ log'[j].sender = s
             /\ \A i \in 1 .. Len(log') :
                    log'[i].type = "Vote" /\ log'[i].sender \in Specialist =>
                        \A t \in Specialist :
                            \E j \in 1 .. i - 1 : log'[j].type = "Evaluation" /\ log'[j].sender = t
  <2> USE <1>2
  <2>p. /\ Specialist \subseteq Participant /\ Coordinator \in Participant
        /\ Len(log) \in Nat /\ Len(log') \in Nat /\ Len(log) <= Len(log')
        /\ read \in [Participant -> Nat]
        /\ Undemanded /\ ProposalInv
    BY LogStep, UndemandedBefore DEF Participant, Types, LogTypes, SessionInv, EarlyInv
  <2>1. ASSUME session' = "open", NEW s \in Specialist, read'[s] # 0
        PROVE  \E j \in 1 .. Len(log') : log'[j].type = "Evaluation" /\ log'[j].sender = s
    <3>1. session = "open"
      <4>1. CASE Suspend \/ Resume
        BY <2>p, <4>1 DEF Suspend, Resume, SessionInv, CoordinatorInv, Undemanded
      <4>2. CASE ~(Suspend \/ Resume)
        BY <2>1, <4>2 DEF Next, Specialists, HandleProposal, HandleMessage, SendVote, StreamEnds,
           Crash, Observe, ObserveProposal, ObserveSignal, ObserveOwn, Deadline,
           Finish, SendCoordinatorVote, Commit, Cancel, Expire, vars, specialistVars, coordinatorVars
      <4>3. QED
        BY <4>1, <4>2
    <3>2. CASE read[s] # 0
      <4>1. EvaluatedBy(s, Len(log))
        BY <2>p, <3>1, <3>2 DEF OwnInv
      <4>2. QED
        BY <2>p, <4>1, EvaluatedKept
    <3>3. CASE read[s] = 0
      <4>1. HandleProposal(s)
        <5>1. \E p \in Participant : p = s /\ Unread(p) /\ Handled(p)
                 /\ (HandleProposal(p) \/ HandleMessage(p))
          <6>1. ASSUME NEW r \in Specialist, HandleProposal(r) \/ HandleMessage(r)
                PROVE  r = s
            <7>1. Handled(r) /\ r \in Participant
              BY <2>p, <6>1 DEF HandleProposal, HandleMessage
            <7>2. QED
              BY <2>1, <2>p, <3>3, <7>1 DEF Handled
          <6>2. \E r \in Specialist : HandleProposal(r) \/ HandleMessage(r)
            <7>1. SUFFICES ASSUME \A r \in Specialist : ~HandleProposal(r) /\ ~HandleMessage(r)
                           PROVE  FALSE
              OBVIOUS
            <7>2. UNCHANGED read \/ Handled(Coordinator)
              BY <7>1 DEF Next, Specialists, SendVote, StreamEnds, Crash, Observe, ObserveProposal,
                 ObserveSignal, ObserveOwn, Deadline, Finish, Suspend, Resume, SendCoordinatorVote,
                 Commit, Cancel, Expire, vars
            <7>3. QED
              BY <2>1, <2>p, <3>3, <7>2 DEF Handled
          <6>3. QED
            BY <2>p, <6>1, <6>2 DEF HandleProposal, HandleMessage
        <5>2. NextMessage(s).type = "Proposal"
          BY <2>p, <3>3, <5>1, ProposalIsFirst
        <5>3. QED
          BY <5>1, <5>2 DEF HandleMessage
      <4>2. PICK opinion \in Opinions : Send(Message("Evaluation", s, evaluationOf(opinion)))
        BY <4>1 DEF HandleProposal
      <4> DEFINE m == Message("Evaluation", s, evaluationOf(opinion))
      <4>3. m \in Messages /\ m.type = "Evaluation" /\ m.sender = s
        BY <2>p, OpinionIsSignal DEF Message, Messages
      <4>4. log' = Append(log, m)
        BY <2>p, <3>1, <3>3, <4>2, NobodyVotesYet DEF Send, Accepts
      <4>5. log \in Seq(Messages)
        BY DEF Types, LogTypes
      <4> HIDE DEF m
      <4>6. Len(log') = Len(log) + 1 /\ log'[Len(log) + 1] = m
        BY <4>3, <4>4, <4>5, AppendProperties
      <4>7. QED
        BY <2>p, <4>3, <4>6
    <3>4. QED
      BY <3>2, <3>3
  <2>2. ASSUME NEW i \in 1 .. Len(log'), log'[i].type = "Vote", log'[i].sender \in Specialist,
               NEW t \in Specialist
        PROVE  \E j \in 1 .. i - 1 : log'[j].type = "Evaluation" /\ log'[j].sender = t
    <3>1. CASE i \in 1 .. Len(log)
      <4>1. log'[i] = log[i] /\ i - 1 \in Nat /\ i - 1 <= Len(log)
        BY <2>p, <3>1, LogStep
      <4>2. EvaluatedBy(t, i - 1)
        BY <2>2, <2>p, <3>1, <4>1 DEF OwnInv
      <4>3. QED
        BY <4>1, <4>2, EvaluatedKept
    <3>2. CASE i \notin 1 .. Len(log)
      <4>1. i = Len(log) + 1 /\ session = "open"
        BY <2>2, <3>2, LogStep
      <4>2. SendVote(log'[i].sender)
        BY <2>2, <2>p, <4>1, LogStep
      <4>3. EvaluatedBy(t, Len(log))
        <5>1. CASE t = log'[i].sender
          <6>1. pending[t] # NoVote
            BY <4>2, <5>1 DEF SendVote, BarrierOpen
          <6>2. read[t] # 0
            BY <6>1 DEF SessionInv, OnceInv
          <6>3. QED
            BY <2>p, <4>1, <6>2 DEF OwnInv
        <5>2. CASE t # log'[i].sender
          <6>1. t \in seen[log'[i].sender]
            BY <4>2, <5>2 DEF SendVote, BarrierOpen, Peers
          <6>2. EvaluatedBy(t, read[log'[i].sender])
            BY <2>2, <6>1 DEF SessionInv, BarrierInv, SeenInv
          <6>3. read[log'[i].sender] \in Nat /\ read[log'[i].sender] <= Len(log)
            BY <2>2, <2>p DEF Types, LogTypes
          <6>4. QED
            BY <2>p, <6>2, <6>3 DEF EvaluatedBy
        <5>3. QED
          BY <5>1, <5>2
      <4>4. QED
        BY <2>p, <4>1, <4>3, EvaluatedKept
    <3>3. QED
      BY <3>1, <3>2
  <2>3. QED
    BY <2>1, <2>2
<1>3. QED
  BY <1>1, <1>2 DEF OwnInv, EvaluatedBy

\* Once all signals are in, only a quorum that they do not make keeps the coordinator waiting.
WaitInv ==
    /\ step = "waiting"
    /\ Specialist # {}
    /\ \A s \in Specialist : signals[s] # NoSignal
    => ~isQuorumMet(Policy, signals, Cardinality(Specialist))

LEMMA AllHeard ==
    ASSUME NEW sigs, \A s \in Specialist : sigs[s] # NoSignal
    PROVE  Heard(sigs) = Specialist /\ Everyone(sigs)
<1>1. Heard(sigs) = Specialist
  BY DEF Heard
<1>2. Cardinality(Specialist) \in Nat
  BY SessionAssumption, FS_CardinalityType
<1>3. QED
  BY <1>1, <1>2 DEF Everyone

\* The quorum depends on who was heard, not on what they said.
LEMMA QuorumOfHeard ==
    ASSUME NEW a, NEW b, NEW n, Heard(a) = Heard(b), isQuorumMet(Policy, a, n)
    PROVE  isQuorumMet(Policy, b, n)
BY DEF isQuorumMet

LEMMA WaitInductive ==
    /\ Init => WaitInv
    /\ Types /\ WaitInv /\ [Next]_vars => WaitInv'
<1> USE SessionAssumption
<1>1. Init => WaitInv
  BY DEF Init, WaitInv
<1>2. ASSUME Types, WaitInv, [Next]_vars PROVE WaitInv'
  <2> USE <1>2 DEF specialistVars, coordinatorVars
  <2>1. ASSUME UNCHANGED signals, step' = "waiting" => step = "waiting" PROVE WaitInv'
    BY <2>1 DEF WaitInv, isQuorumMet, Heard
  <2>2. CASE ObserveSignal
    <3>1. SUFFICES ASSUME step' = "waiting", \A s \in Specialist : signals'[s] # NoSignal
                   PROVE  ~isQuorumMet(Policy, signals', Cardinality(Specialist))
      BY DEF WaitInv, isQuorumMet, Heard
    <3>2. ~MayCommit(signals', FALSE) /\ step = "waiting"
      BY <2>2, <3>1 DEF ObserveSignal, TryCommit
    <3>3. Everyone(signals')
      BY <3>1, AllHeard
    <3>4. QED
      BY <3>2, <3>3 DEF MayCommit
  <2>3. CASE ObserveProposal \/ ObserveOwn \/ Deadline
    BY <2>1, <2>3 DEF ObserveProposal, ObserveOwn, Deadline, TryCommit, MayCommit
  <2>4. ASSUME NEW s \in Specialist, Specialists(s) \/ Crash(s) PROVE WaitInv'
    <3>1. UNCHANGED <<signals, step>>
      BY <2>4 DEF Specialists, HandleProposal, HandleMessage, SendVote, StreamEnds, Crash
    <3>2. QED
      BY <2>1, <3>1
  <2>5. CASE Finish \/ Expire \/ UNCHANGED vars
    <3>1. UNCHANGED signals /\ (step' = "waiting" => step = "waiting")
      BY <2>5 DEF Finish, Suspend, Resume, Decide, SendCoordinatorVote, Commit, Cancel, Expire, vars
    <3>2. QED
      BY <2>1, <3>1
  <2>6. QED
    BY <2>2, <2>3, <2>4, <2>5 DEF Next, Observe
<1>3. QED
  BY <1>1, <1>2

\* Where there is one evaluation of a specialist, that is the one found.
LEMMA TheEvaluation ==
    ASSUME NEW l, NEW n, NEW s, NEW i \in 1 .. n,
           l[i].type = "Evaluation", l[i].sender = s,
           \A j \in 1 .. n : l[j].type = "Evaluation" /\ l[j].sender = s => j = i
    PROVE  (CHOOSE j \in 1 .. n : l[j].type = "Evaluation" /\ l[j].sender = s) = i
OBVIOUS

\* Once the coordinator has decided unforced, everyone has evaluated, and the decision is
\* the one on the evaluations.
DecidedInv ==
    Undemanded /\ step # "waiting" =>
        /\ \A s \in Specialist : EvaluatedBy(s, Len(log))
        /\ decision = decide(Policy, Evaluated)

\* A specialist is unheard when the coordinator decides, up to the message it decides on:
\* so nobody has voted in what it has read, and what it holds are the evaluations.
LEMMA DecidesAsLastIsHeard ==
    ASSUME Types, SessionInv, OwnInv, WaitInv, Undemanded, ObserveSignal,
           step = "waiting", step' # "waiting"
    PROVE  /\ \A s \in Specialist : EvaluatedBy(s, Len(log))
           /\ signals' = Evaluated
<1> USE SessionAssumption
<1> DEFINE c == read[Coordinator]
           t == log[c + 1].sender
<1>p. /\ c \in Nat /\ Len(log) \in Nat /\ c + 1 \in 1 .. Len(log)
      /\ t \in Specialist
      /\ signals \in [Specialist -> Signal \cup {NoSignal}]
      /\ signals' = [signals EXCEPT ![t] = log[c + 1].signal]
  BY NextIsMessage, LenProperties
  DEF ObserveSignal, NextMessage, Participant, Types, LogTypes, CoordinatorTypes
<1>1. Everyone(signals') /\ isQuorumMet(Policy, signals', Cardinality(Specialist))
  BY DEF ObserveSignal, TryCommit, MayCommit
<1>2. \A s \in Specialist : signals'[s] # NoSignal
  BY <1>1, EveryoneHeard
<1>3. signals[t] = NoSignal
  <2>1. SUFFICES ASSUME signals[t] # NoSignal PROVE FALSE
    OBVIOUS
  <2>2. \A s \in Specialist : signals[s] # NoSignal
    BY <1>p, <1>2, <2>1
  <2>3. Heard(signals) = Specialist /\ Heard(signals') = Specialist
    BY <1>2, <2>2 DEF Heard
  <2>4. isQuorumMet(Policy, signals, Cardinality(Specialist))
    BY <1>1, <2>3, QuorumOfHeard
  <2>5. QED
    BY <1>p, <2>2, <2>4 DEF WaitInv
<1>4. \A i \in 1 .. c : log[i].sender # t
  BY <1>p, <1>3 DEF SessionInv, SignalInv
<1>5. ASSUME NEW i \in 1 .. c + 1, log[i].sender \in Specialist
      PROVE  log[i].type = "Evaluation"
  <2>1. i \in 1 .. Len(log) /\ log[i] \in Messages
    BY <1>p, ElementOfSeq DEF Types, LogTypes
  <2>2. log[i].type # "Proposal"
    BY <1>5, <1>p, <2>1 DEF SessionInv, EarlyInv, ProposalInv, Proposal, Message
  <2>3. log[i].type # "Vote"
    <3>1. SUFFICES ASSUME log[i].type = "Vote" PROVE FALSE
      OBVIOUS
    <3>2. EvaluatedBy(t, i - 1)
      BY <1>p, <1>5, <2>1, <3>1 DEF OwnInv
    <3>3. QED
      BY <1>p, <1>4, <3>2 DEF EvaluatedBy
  <2>4. QED
    BY <2>1, <2>2, <2>3 DEF Messages
<1>6. ASSUME NEW s \in Specialist
      PROVE  \E i \in 1 .. c + 1 : log[i].sender = s /\ log[i].signal = signals'[s]
  <2>1. CASE s = t
    <3>1. log[c + 1].sender = s /\ log[c + 1].signal = signals'[s] /\ c + 1 \in 1 .. c + 1
      BY <1>p, <2>1
    <3>2. QED
      BY <3>1
  <2>2. CASE s # t
    <3>1. signals[s] = signals'[s] /\ signals[s] # NoSignal
      BY <1>p, <1>2, <2>2
    <3>2. PICK i \in 1 .. c : log[i].sender = s /\ log[i].signal = signals[s]
      BY <3>1 DEF SessionInv, SignalInv
    <3>3. i \in 1 .. c + 1
      BY <1>p
    <3>4. QED
      BY <3>1, <3>2, <3>3
  <2>3. QED
    BY <2>1, <2>2
<1>7. ASSUME NEW s \in Specialist
      PROVE  EvaluatedBy(s, Len(log)) /\ Evaluated[s] = signals'[s]
  <2>1. PICK i \in 1 .. c + 1 : log[i].sender = s /\ log[i].signal = signals'[s]
    BY <1>6
  <2>2. i \in 1 .. Len(log) /\ log[i].type = "Evaluation"
    BY <1>p, <1>5, <2>1
  <2>3. \A j \in 1 .. Len(log) : log[j].type = "Evaluation" /\ log[j].sender = s => j = i
    BY <2>1, <2>2 DEF SessionInv, OnceInv
  <2>4. (CHOOSE j \in 1 .. Len(log) : log[j].type = "Evaluation" /\ log[j].sender = s) = i
    BY <2>1, <2>2, <2>3, TheEvaluation
  <2>5. EvaluatedBy(s, Len(log))
    BY <2>1, <2>2 DEF EvaluatedBy
  <2>6. QED
    BY <2>1, <2>4, <2>5 DEF Evaluated
<1>8. signals' = Evaluated
  <2>1. signals' = [s \in Specialist |-> signals'[s]]
    BY <1>p
  <2>2. Evaluated = [s \in Specialist |-> Evaluated[s]]
    BY DEF Evaluated
  <2>3. QED
    BY <1>7, <2>1, <2>2
<1>9. QED
  BY <1>7, <1>8

LEMMA DecidedInductive ==
    /\ Init => DecidedInv
    /\ /\ Types /\ SessionInv /\ SessionInv' /\ OwnInv /\ WaitInv /\ DecisionInv
       /\ DecidedInv /\ [Next]_vars
       => DecidedInv'
<1> USE SessionAssumption
<1>1. Init => DecidedInv
  BY DEF Init, DecidedInv
<1>2. ASSUME Types, SessionInv, SessionInv', OwnInv, WaitInv, DecisionInv, DecidedInv, [Next]_vars,
             Undemanded', step' # "waiting"
      PROVE  /\ \A s \in Specialist :
                    \E j \in 1 .. Len(log') : log'[j].type = "Evaluation" /\ log'[j].sender = s
             /\ decision' = decide(Policy, Evaluated')
  <2> USE <1>2
  <2>p. /\ Len(log) \in Nat /\ Len(log') \in Nat /\ Len(log) <= Len(log')
        /\ \A i \in 1 .. Len(log) : log'[i] = log[i]
        /\ Undemanded
    BY LogStep, UndemandedBefore DEF SessionInv, EarlyInv
  \* Evaluations that are in are not replaced.
  <2>1. ASSUME \A s \in Specialist : EvaluatedBy(s, Len(log))
        PROVE  /\ \A s \in Specialist :
                      \E j \in 1 .. Len(log') : log'[j].type = "Evaluation" /\ log'[j].sender = s
               /\ Evaluated' = Evaluated
    <3>1. ASSUME NEW s \in Specialist
          PROVE  /\ \E j \in 1 .. Len(log') : log'[j].type = "Evaluation" /\ log'[j].sender = s
                 /\ Evaluated'[s] = Evaluated[s]
      <4>1. PICK i \in 1 .. Len(log) : log[i].type = "Evaluation" /\ log[i].sender = s
        BY <2>1 DEF EvaluatedBy
      <4>2. i \in 1 .. Len(log') /\ log'[i] = log[i]
        BY <2>p
      <4>3. \A j \in 1 .. Len(log) : log[j].type = "Evaluation" /\ log[j].sender = s => j = i
        BY <4>1 DEF SessionInv, OnceInv
      <4>4. \A j \in 1 .. Len(log') : log'[j].type = "Evaluation" /\ log'[j].sender = s => j = i
        BY <4>1, <4>2 DEF SessionInv, OnceInv
      <4>5. (CHOOSE j \in 1 .. Len(log) : log[j].type = "Evaluation" /\ log[j].sender = s) = i
        BY <4>1, <4>3, TheEvaluation
      <4>6. (CHOOSE j \in 1 .. Len(log') : log'[j].type = "Evaluation" /\ log'[j].sender = s) = i
        BY <4>1, <4>2, <4>4, TheEvaluation
      <4>7. Evaluated[s] = log[i].signal
        BY <2>1, <4>5 DEF Evaluated
      <4>8. \E j \in 1 .. Len(log') : log'[j].type = "Evaluation" /\ log'[j].sender = s
        BY <4>1, <4>2
      <4>9. Evaluated'[s] = log'[i].signal
        BY <4>6, <4>8 DEF Evaluated, EvaluatedBy
      <4>10. QED
        BY <4>2, <4>7, <4>8, <4>9
    <3>2. /\ Evaluated = [s \in Specialist |-> Evaluated[s]]
          /\ Evaluated' = [s \in Specialist |-> Evaluated'[s]]
      BY DEF Evaluated
    <3>3. QED
      BY <3>1, <3>2
  <2>2. CASE step # "waiting"
    <3>1. /\ \A s \in Specialist : EvaluatedBy(s, Len(log))
          /\ decision = decide(Policy, Evaluated)
      BY <2>p, <2>2 DEF DecidedInv
    <3>2. decision # NoDecision
      BY <3>1, DecideType
    <3>3. decision' = decision
      BY <3>2, DecisionInductive DEF vars, coordinatorVars
    <3>4. QED
      BY <2>1, <3>1, <3>3
  <2>3. CASE step = "waiting"
    <3>1. ObserveSignal
      <4>1. ~Deadline
        BY DEF Deadline, TryCommit, Undemanded
      <4>2. QED
        BY <2>3, <4>1
        DEF Next, Specialists, HandleProposal, HandleMessage, SendVote, StreamEnds, Crash,
            Observe, ObserveProposal, ObserveOwn, Finish, Suspend, Resume, SendCoordinatorVote,
            Commit, Cancel, Expire, vars, coordinatorVars
    <3>2. /\ \A s \in Specialist : EvaluatedBy(s, Len(log))
          /\ signals' = Evaluated
      BY <2>p, <2>3, <3>1, DecidesAsLastIsHeard
    <3>3. decision' = decide(Policy, signals')
      BY <2>3, <2>p, <3>1 DEF ObserveSignal, TryCommit, Undemanded
    <3>4. QED
      BY <2>1, <3>2, <3>3
  <2>4. QED
    BY <2>2, <2>3
<1>3. ASSUME Types, SessionInv, SessionInv', OwnInv, WaitInv, DecisionInv, DecidedInv, [Next]_vars
      PROVE  DecidedInv'
  BY <1>2, <1>3 DEF DecidedInv, EvaluatedBy
<1>4. QED
  BY <1>1, <1>3

\* Whatever the specialists, the policy and the faults: unless the demo or the deadline
\* forced it, the coordinator decides on the evaluations and on no vote.
THEOREM DecidesOnEvaluations == Spec => []DecidedOnEvaluations
<1> DEFINE Inv == /\ Types /\ SessionInv /\ OwnInv /\ WaitInv
                  /\ DecisionInv /\ DecidedInv
<1>1. Init => Inv
  BY SessionInductive, OwnInductive, WaitInductive, DecisionInductive, DecidedInductive
<1>2. Inv /\ [Next]_vars => Inv'
  BY SessionInductive, OwnInductive, WaitInductive, DecisionInductive, DecidedInductive
<1>3. Inv => DecidedOnEvaluations
  BY DEF DecisionInv, DecidedInv, DecidedOnEvaluations, Undemanded
<1>4. QED
  BY <1>1, <1>2, <1>3, PTL DEF Spec

=============================================================================
