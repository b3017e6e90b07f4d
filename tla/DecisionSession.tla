--------------------------- MODULE DecisionSession ---------------------------
(***************************************************************************)
(* One decision session: the risk coordinator                              *)
(* (src/src/example-agents/runtime/risk-decider.worker.ts), the specialist *)
(* workers (src/agents/<framework>_worker/main.py, alike up to the         *)
(* framework they call) and the MACP runtime between them.                 *)
(*                                                                         *)
(* The runtime is external.  It keeps the accepted messages in one order   *)
(* and shows them to everyone in that order, also to a late comer; it      *)
(* takes no message unless the session is open, and no Evaluation after a  *)
(* Vote.  Its policy engine may deny a commitment for reasons of its own.  *)
(* A step of a participant is one handler up to its next RPC.              *)
(***************************************************************************)
EXTENDS PolicyStrategy, Sequences

CONSTANTS
    Coordinator,  \* the initiator, who sends the Proposal and the Commitment
    Policy,       \* its policy hints
    Opinions,     \* what a specialist's framework may come to: [word, confidence]
    Crashable,    \* specialists that may crash
    MaySuspend,   \* the customerId may hold the 'suspend' sentinel
    MayFail,      \* the coordinator's RPCs may fail on the way
    MayExpire,    \* the session's TTL may run out
    NoVote, NoDecision

ASSUME SessionAssumption ==
    /\ IsFiniteSet(Specialist) /\ Coordinator \notin Specialist
    /\ NoSignal \notin Signal
    /\ \A o \in Opinions : o.confidence \in 0 .. FullConfidence
    /\ Crashable \subseteq Specialist
    /\ MaySuspend \in BOOLEAN /\ MayFail \in BOOLEAN /\ MayExpire \in BOOLEAN
    /\ NoVote \notin {"APPROVE", "REJECT"}
    /\ NoDecision \notin {"approve", "step_up", "decline"}

VARIABLES
    log,       \* the messages the runtime has accepted
    session,   \* its session state
    read,      \* how many messages each participant has handled
    worker,    \* of each specialist: "running", "stopped" or "crashed"
    pending,   \* the vote it has staged, or NoVote
    seen,      \* the peers whose evaluations it has handled
    signals,   \* of the coordinator: the last signal of each specialist
    demo,      \* the customerId holds the 'suspend' sentinel
    ctx,       \* pendingHandlerCtx is set
    timer,     \* "unarmed", "armed", "cleared" or "fired"
    step,      \* how far tryCommit has come
    decision,  \* what it decided, or NoDecision
    failures   \* which of its RPCs failed on the way

specialistVars == <<worker, pending, seen>>
coordinatorVars == <<signals, demo, ctx, timer, step, decision, failures>>
vars == <<log, session, read, specialistVars, coordinatorVars>>

Participant == Specialist \cup {Coordinator}
Terminal == {"committed", "cancelled", "expired"}

Messages ==
    [type : {"Proposal", "Evaluation", "Vote"}, sender : Participant, signal : Signal \cup {NoSignal}]
Message(type, sender, signal) == [type |-> type, sender |-> sender, signal |-> signal]
Proposal == Message("Proposal", Coordinator, NoSignal)

Init ==
    /\ log = <<Proposal>>
    /\ session = "open"
    /\ read = [p \in Participant |-> 0]
    /\ worker = [s \in Specialist |-> "running"]
    /\ pending = [s \in Specialist |-> NoVote]
    /\ seen = [s \in Specialist |-> {}]
    /\ signals = [s \in Specialist |-> NoSignal]
    /\ demo \in IF MaySuspend THEN BOOLEAN ELSE {FALSE}
    /\ ctx = FALSE
    /\ timer = "unarmed"
    /\ step = "waiting"
    /\ decision = NoDecision
    /\ failures = {}

-----------------------------------------------------------------------------
\* The runtime accepts a message or answers with a NACK.
Voting == \E i \in 1 .. Len(log) : log[i].type = "Vote"
Accepts(m) == session = "open" /\ (m.type = "Evaluation" => ~Voting)
Send(m) == log' = IF Accepts(m) THEN Append(log, m) ELSE log

Expire ==
    /\ MayExpire
    /\ session \notin Terminal
    /\ session' = "expired"
    /\ UNCHANGED <<log, read, specialistVars, coordinatorVars>>

-----------------------------------------------------------------------------
\* The specialists.
Unread(p) == read[p] < Len(log)
NextMessage(p) == log[read[p] + 1]
Handled(p) == read' = [read EXCEPT ![p] = @ + 1]

Peers(s) == Specialist \ {s}

\* Mutant of BarrierOpen: the vote follows the evaluation at once.
NoBarrier(s) == pending[s] # NoVote

\* _maybe_vote: the vote is staged and every peer has evaluated.
BarrierOpen(s) == pending[s] # NoVote /\ Peers(s) \subseteq seen[s]

\* A framework recommends in a word of its own choice, in upper case; an objection is a
\* BLOCK.  Evaluation and vote map the word each in its way: ACCEPT gives an approving
\* evaluation, an unknown word a doubtful one, and both a rejecting vote.  (An
\* evaluation of REJECT counts as BLOCK at the coordinator.)
evalRecommendation(word) ==
    CASE word \in {"APPROVE", "ALLOW", "ACCEPT", "PASS"} -> "APPROVE"
      [] word \in {"REJECT", "DENY", "DECLINE", "FAIL", "BLOCK", "VETO"} -> "BLOCK"
      [] OTHER -> "REVIEW"
voteFor(word) == IF word \in {"APPROVE", "ALLOW", "REVIEW"} THEN "APPROVE" ELSE "REJECT"

evaluationOf(opinion) == Evaluation(evalRecommendation(opinion.word), opinion.confidence)

\* The framework runs, the evaluation is sent and forgotten if it is not accepted,
\* the vote is staged.
HandleProposal(s) ==
    /\ worker[s] = "running"
    /\ Unread(s)
    /\ NextMessage(s).type = "Proposal"
    /\ \E opinion \in Opinions :
          /\ Send(Message("Evaluation", s, evaluationOf(opinion)))
          /\ pending' = [pending EXCEPT ![s] = voteFor(opinion.word)]
    /\ Handled(s)
    /\ UNCHANGED <<session, worker, seen, coordinatorVars>>

\* A handler ends with _maybe_vote, so the vote comes before the next message.
HandleMessage(s) ==
    /\ worker[s] = "running"
    /\ Unread(s)
    /\ NextMessage(s).type # "Proposal"
    /\ ~BarrierOpen(s)
    /\ seen' = [seen EXCEPT ![s] =
                   IF NextMessage(s).type = "Evaluation" /\ NextMessage(s).sender # s
                   THEN @ \cup {NextMessage(s).sender} ELSE @]
    /\ Handled(s)
    /\ UNCHANGED <<log, session, worker, pending, coordinatorVars>>

\* A session that is closed already is no error; the worker stops either way.
SendVote(s) ==
    /\ worker[s] = "running"
    /\ BarrierOpen(s)
    /\ Send(Message("Vote", s, VoteSignal(pending[s])))
    /\ worker' = [worker EXCEPT ![s] = "stopped"]
    /\ UNCHANGED <<session, read, pending, seen, coordinatorVars>>

\* The stream of a closed session ends.
StreamEnds(s) ==
    /\ worker[s] = "running"
    /\ session \in Terminal
    /\ worker' = [worker EXCEPT ![s] = "stopped"]
    /\ UNCHANGED <<log, session, read, pending, seen, coordinatorVars>>

Crash(s) ==
    /\ s \in Crashable
    /\ worker[s] = "running"
    /\ worker' = [worker EXCEPT ![s] = "crashed"]
    /\ UNCHANGED <<log, session, read, pending, seen, coordinatorVars>>

-----------------------------------------------------------------------------
\* The coordinator.
\* Mutant of Everyone: the coordinator waits for a signal of its own, too.
EveryoneAndSelf(sigs) == Cardinality(Heard(sigs)) > Cardinality(Specialist)

Everyone(sigs) == Cardinality(Heard(sigs)) >= Cardinality(Specialist)

\* Mutant of MayCommit: the local quorum is enough.
MayCommitOnQuorum(sigs, force) ==
    /\ step = "waiting"
    /\ isQuorumMet(Policy, sigs, Cardinality(Specialist))

\* Mutant of MayCommit: 'committed' is set when the commitment has been sent.
MayCommitAgain(sigs, force) ==
    /\ step \notin {"committing", "cancelling", "done"}
    /\ force \/ Everyone(sigs)
    /\ isQuorumMet(Policy, sigs, Cardinality(Specialist))

\* The early returns of tryCommit ('committed' is set once step leaves "waiting").
MayCommit(sigs, force) ==
    /\ step = "waiting"
    /\ force \/ Everyone(sigs)
    /\ isQuorumMet(Policy, sigs, Cardinality(Specialist))

\* tryCommit up to its first RPC, on a timer in state t.
TryCommit(sigs, t, force) ==
    IF MayCommit(sigs, force)
    THEN /\ timer' = IF t = "armed" THEN "cleared" ELSE t
         /\ IF demo
            THEN step' = "suspending" /\ UNCHANGED decision
            ELSE step' = "voting" /\ decision' = decide(Policy, sigs)
    ELSE timer' = t /\ UNCHANGED <<step, decision>>

ObserveProposal ==
    /\ Unread(Coordinator)
    /\ NextMessage(Coordinator).type = "Proposal"
    /\ timer' = "armed"
    /\ Handled(Coordinator)
    /\ UNCHANGED <<log, session, specialistVars, signals, demo, ctx, step, decision, failures>>

\* The handlers of Evaluation and Vote; its own messages pass.
ObserveSignal ==
    LET m == NextMessage(Coordinator) IN
    /\ Unread(Coordinator)
    /\ m.sender \in Specialist
    /\ signals' = [signals EXCEPT ![m.sender] = m.signal]
    /\ ctx' = TRUE
    /\ TryCommit(signals', timer, FALSE)
    /\ Handled(Coordinator)
    /\ UNCHANGED <<log, session, specialistVars, demo, failures>>

ObserveOwn ==
    /\ Unread(Coordinator)
    /\ NextMessage(Coordinator).type # "Proposal"
    /\ NextMessage(Coordinator).sender = Coordinator
    /\ Handled(Coordinator)
    /\ UNCHANGED <<log, session, specialistVars, coordinatorVars>>

\* The wait-all timeout fires once, and does nothing before the first signal.
Deadline ==
    /\ timer = "armed"
    /\ IF step = "waiting" /\ ctx
       THEN TryCommit(signals, "fired", TRUE)
       ELSE timer' = "fired" /\ UNCHANGED <<step, decision>>
    /\ UNCHANGED <<log, session, read, specialistVars, signals, demo, ctx, failures>>

\* An RPC of the coordinator is answered, or it gets lost on its way there or back.
Answered(rpc) ==
    \/ UNCHANGED failures
    \/ MayFail /\ failures' = failures \cup {rpc}

\* It is refused, or it gets lost on its way there.
Refused(rpc, allowed) ==
    \/ ~allowed /\ UNCHANGED failures
    \/ MayFail /\ failures' = failures \cup {rpc}

\* After the demo's pause, or what came of it, the decision is on the signals of now.
Decide == step' = "voting" /\ decision' = decide(Policy, signals)

Suspend ==
    /\ step = "suspending"
    /\ \/ /\ session = "open"
          /\ session' = "suspended"
          /\ Answered("suspend")
          /\ IF failures' = failures THEN step' = "holding" /\ UNCHANGED decision ELSE Decide
       \/ /\ Refused("suspend", session = "open")
          /\ Decide
          /\ UNCHANGED session
    /\ UNCHANGED <<log, read, specialistVars, signals, demo, ctx, timer>>

Resume ==
    /\ step = "holding"
    /\ \/ /\ session = "suspended"
          /\ session' = "open"
          /\ Answered("resume")
       \/ /\ Refused("resume", session = "suspended")
          /\ UNCHANGED session
    /\ Decide
    /\ UNCHANGED <<log, read, specialistVars, signals, demo, ctx, timer>>

\* A vote that fails is logged, and the commitment sent all the same.
SendCoordinatorVote ==
    /\ step = "voting"
    /\ step' = "committing"
    /\ \/ Send(Message("Vote", Coordinator, NoSignal)) /\ Answered("vote")
       \/ UNCHANGED log /\ Refused("vote", session = "open")
    /\ UNCHANGED <<session, read, specialistVars, signals, demo, ctx, timer, decision>>

\* Accepted; accepted and the answer lost; or denied by the policy engine, refused
\* because the session is not open, or lost.
Commit ==
    /\ step = "committing"
    /\ \/ /\ session = "open"
          /\ session' = "committed"
          /\ Answered("commit")
          /\ step' = IF failures' = failures THEN "done" ELSE "cancelling"
       \/ /\ step' = "cancelling"
          /\ Answered("commit")
          /\ UNCHANGED session
    /\ UNCHANGED <<log, read, specialistVars, signals, demo, ctx, timer, decision>>

\* Mutant of Cancel: a session that is suspended is left to its TTL.
CancelOpen ==
    /\ step = "cancelling"
    /\ step' = "done"
    /\ \/ session = "open" /\ session' = "cancelled" /\ Answered("cancel")
       \/ UNCHANGED session /\ Refused("cancel", session = "open")
    /\ UNCHANGED <<log, read, specialistVars, signals, demo, ctx, timer, decision>>

Cancel ==
    /\ step = "cancelling"
    /\ step' = "done"
    /\ \/ session \notin Terminal /\ session' = "cancelled" /\ Answered("cancel")
       \/ UNCHANGED session /\ Refused("cancel", session \notin Terminal)
    /\ UNCHANGED <<log, read, specialistVars, signals, demo, ctx, timer, decision>>

-----------------------------------------------------------------------------
Specialists(s) ==
    \/ HandleProposal(s)
    \/ HandleMessage(s)
    \/ SendVote(s)
    \/ StreamEnds(s)

Observe == ObserveProposal \/ ObserveSignal \/ ObserveOwn
Finish == Suspend \/ Resume \/ SendCoordinatorVote \/ Commit \/ Cancel

Next ==
    \/ \E s \in Specialist : Specialists(s) \/ Crash(s)
    \/ Observe
    \/ Deadline
    \/ Finish
    \/ Expire

Spec == Init /\ [][Next]_vars

\* Every worker that runs goes on, the stream is delivered, the timer fires and the
\* RPCs are answered.  Nothing makes a worker crash or the TTL run out.
Fairness ==
    /\ \A s \in Specialist : WF_vars(Specialists(s))
    /\ WF_vars(Observe)
    /\ WF_vars(Deadline)
    /\ WF_vars(Finish)

FairSpec == Spec /\ Fairness

-----------------------------------------------------------------------------
Steps == {"waiting", "suspending", "holding", "voting", "committing", "cancelling", "done"}

TypeOK ==
    /\ log \in Seq(Messages)
    /\ session \in {"open", "suspended"} \cup Terminal
    /\ read \in [Participant -> Nat]
    /\ \A p \in Participant : read[p] <= Len(log)
    /\ worker \in [Specialist -> {"running", "stopped", "crashed"}]
    /\ pending \in [Specialist -> {"APPROVE", "REJECT", NoVote}]
    /\ seen \in [Specialist -> SUBSET Specialist]
    /\ signals \in [Specialist -> Signal \cup {NoSignal}]
    /\ demo \in BOOLEAN
    /\ ctx \in BOOLEAN
    /\ timer \in {"unarmed", "armed", "cleared", "fired"}
    /\ step \in Steps
    /\ decision \in {"approve", "step_up", "decline", NoDecision}
    /\ failures \in SUBSET {"suspend", "resume", "vote", "commit", "cancel"}

\* The evaluation of t is among the first n messages.
EvaluatedBy(t, n) == \E j \in 1 .. n : log[j].type = "Evaluation" /\ log[j].sender = t

\* A specialist's vote locks no peer's evaluation out: at the first vote of a
\* specialist the evaluations of all its peers have been accepted.
EvaluationsBeforeVotes ==
    \A i \in 1 .. Len(log) :
        log[i].type = "Vote" /\ log[i].sender \in Specialist =>
            \A t \in Peers(log[i].sender) : EvaluatedBy(t, i - 1)

\* The coordinator commits on part of the signals only when the deadline forced it.
EarlyOnlyByDeadline ==
    step # "waiting" /\ timer # "fired" => \A s \in Specialist : signals[s] # NoSignal

\* tryCommit is called by every handler and by the timer, and again while it awaits an
\* RPC, yet its sequence is gone through once and its decision stands.
StepOrder == [waiting |-> 0, suspending |-> 1, holding |-> 2, voting |-> 3, committing |-> 4,
              cancelling |-> 5, done |-> 6]
CommitsOnce ==
    [][/\ StepOrder[step] <= StepOrder[step']
       /\ decision # NoDecision => decision' = decision
      ]_vars

\* The evaluations as they were accepted, whatever came after them.
Evaluated == [s \in Specialist |->
    IF EvaluatedBy(s, Len(log))
    THEN log[CHOOSE j \in 1 .. Len(log) : log[j].type = "Evaluation" /\ log[j].sender = s].signal
    ELSE NoSignal]

\* Without the suspend demo and without a deadline the decision is the one on the
\* evaluations: no vote, which turns REVIEW into APPROVE and has full confidence
\* whatever the specialist's, weighs in by coming early.
DecidedOnEvaluations ==
    ~demo /\ decision # NoDecision /\ timer # "fired" => decision = decide(Policy, Evaluated)

\* The coordinator leaves a session that is neither committed nor cancelled only
\* when the cancellation itself got lost: not for a denied commitment, and not for
\* a suspension or a resumption that failed.
LeavesNothingOpen == step = "done" /\ session \notin Terminal => "cancel" \in failures

\* A session comes to an end without its TTL, whatever RPCs of the coordinator fail,
\* unless a worker crashes or the cancellation itself gets lost.
SessionSettles ==
    <>(\/ session \in Terminal
       \/ \E s \in Specialist : worker[s] = "crashed"
       \/ "cancel" \in failures)

\* 'If any specialist crashes / never votes, this commits with whatever signals we have
\* so the session doesn't hang until TTL expiry.'
DeadlineSettles == (\E s \in Specialist : signals[s] # NoSignal) ~> session \in Terminal
=============================================================================
