----------------------- MODULE PolicyRegistrar_proofs -----------------------
(***************************************************************************)
(* Proofs about the registration of policies at start-up, for any policies,*)
(* rules, files and number of starts.                                      *)
(***************************************************************************)
EXTENDS PolicyRegistrar, TLAPS

\* What the service reads from the files is rules for each policy, or none.
LEMMA RegistrableType ==
    ASSUME files \in [File -> Content]
    PROVE  Registrable \in [Policy -> Rules \cup {NoRules}]
<1> SUFFICES ASSUME NEW p \in Policy, LastOf(p) # {}
             PROVE  files[CHOOSE f \in LastOf(p) : TRUE].rules \in Rules
  BY DEF Registrable
<1>1. PICK f \in LastOf(p) : f = (CHOOSE g \in LastOf(p) : TRUE)
  OBVIOUS
<1>2. f \in File /\ files[f] \in Content /\ files[f] # Unusable
  BY DEF LastOf, FilesOf
<1>3. files[f].rules \in Rules
  BY <1>2 DEF Content
<1>4. QED
  BY <1>1, <1>3

\* Every variable keeps the shape its declaration gives it.
THEOREM TypeCorrect == Spec => []TypeOK
<1> USE RegistrarAssumption DEF TypeOK, serviceVars, runtimeVars
<1>1. Init => TypeOK
  <2> SUFFICES ASSUME Init PROVE TypeOK
    OBVIOUS
  <2>1. files \in [File -> Content]
    BY DEF Init
  <2>2. boots \in 0 .. MaxBoots
    BY DEF Init
  <2>3. loaded \in [Policy -> Rules \cup {NoRules}]
    BY DEF Init
  <2>4. outcome \in [Policy -> {"none", "registered", "already", "failed"}]
    BY DEF Init, Unasked
  <2>5. wire \subseteq Request
    BY DEF Init
  <2>6. QED
    BY <2>1, <2>2, <2>3, <2>4, <2>5 DEF Init
<1>2. ASSUME TypeOK, [Next]_vars PROVE TypeOK'
  <2> USE <1>2
  <2>1. CASE Boot
    <3>1. boots' \in 0 .. MaxBoots
      BY <2>1 DEF Boot
    <3>2. loaded' \in [Policy -> Rules \cup {NoRules}]
      BY <2>1, RegistrableType DEF Boot
    <3>3. outcome' \in [Policy -> {"none", "registered", "already", "failed"}]
      BY <2>1 DEF Boot, Unasked
    <3>4. QED
      BY <2>1, <3>1, <3>2, <3>3 DEF Boot
  <2>2. CASE Minted \/ Listen \/ Crash
    BY <2>2 DEF Minted, MintFails, MintSucceeds, ClientThrows, Listen, Crash
  <2>3. ASSUME NEW p \in Policy, Register(p) PROVE TypeOK'
    <3>1. [id |-> p, rules |-> loaded[p], boot |-> boots] \in Request
      BY <2>3 DEF Register, Request
    <3>2. QED
      BY <2>3, <3>1 DEF Register
  <2>4. CASE RegisterReturns \/ RegisterThrows
    <3>1. Counted(call, answer) \in {"registered", "already", "failed"}
      BY DEF Counted
    <3>2. QED
      BY <2>4, <3>1 DEF RegisterReturns, RegisterThrows
  <2>5. ASSUME NEW r \in wire, RuntimeExecutes(r) PROVE TypeOK'
    BY <2>5 DEF RuntimeExecutes, Verdicts, Request
  <2>6. CASE RuntimeRestarts
    BY <2>6 DEF RuntimeRestarts
  <2>7. ASSUME NEW f \in File, NEW content \in Content, Edit(f, content) PROVE TypeOK'
    BY <2>7 DEF Edit
  <2>8. CASE UNCHANGED vars
    BY <2>8 DEF vars
  <2>9. QED
    BY <2>1, <2>2, <2>3, <2>4, <2>5, <2>6, <2>7, <2>8 DEF Next, LoopGoesOn
<1>3. QED
  BY <1>1, <1>2, PTL DEF Spec

-----------------------------------------------------------------------------
\* What the summary rests on: an answer belongs to the call that is awaited, a request of
\* this start carries the rules this start has read, and what the runtime has answered
\* is in force as long as it remembers.
AnswerInv ==
    /\ answer # "none" => call # NoPolicy
    /\ call # NoPolicy => outcome[call] = "none" /\ loaded[call] # NoRules
    /\ phase = "minting" => answer = "none"
    /\ ~forgot /\ phase = "registering" =>
          /\ answer = "ok" => known[call] = loaded[call]
          /\ answer = "already" => known[call] # NoRules

WireInv ==
    \A r \in wire : r.boot <= boots /\ (r.boot = boots => r.rules = loaded[r.id])

SummaryInv == AnswerInv /\ WireInv /\ SummaryIsTrue

\* The invariant of the summary holds initially and is kept by every step.
LEMMA SummaryInductive ==
    /\ Init => SummaryInv
    /\ TypeOK /\ SummaryInv /\ [Next]_vars => SummaryInv'
<1> USE RegistrarAssumption DEF SummaryInv
<1>1. Init => SummaryInv
  BY DEF Init, AnswerInv, WireInv, SummaryIsTrue, Unasked
<1>2. ASSUME TypeOK, SummaryInv, [Next]_vars PROVE SummaryInv'
  <2> USE <1>2 DEF serviceVars, runtimeVars
  <2>t. /\ call \in Policy \cup {NoPolicy}
        /\ loaded \in [Policy -> Rules \cup {NoRules}]
        /\ known \in [Policy -> Rules \cup {NoRules}]
        /\ outcome \in [Policy -> {"none", "registered", "already", "failed"}]
        /\ boots \in Nat
        /\ \A r \in wire : r.id \in Policy /\ r.rules \in Rules /\ r.boot \in Nat
    BY DEF TypeOK, Request
  \* The requests of earlier starts are told by their number.
  <2>1. CASE Boot
    <3>1. AnswerInv' /\ SummaryIsTrue'
      BY <2>1 DEF Boot, Unasked, AnswerInv, SummaryIsTrue
    <3>2. WireInv'
      <4>1. wire' = wire /\ boots' = boots + 1 /\ WireInv
        BY <2>1 DEF Boot
      <4>2. QED
        BY <2>t, <4>1 DEF WireInv
    <3>3. QED
      BY <3>1, <3>2
  <2>2. CASE Minted \/ Listen \/ Crash
    BY <2>2 DEF Minted, MintFails, MintSucceeds, ClientThrows, Listen, Crash,
               AnswerInv, WireInv, SummaryIsTrue
  <2>3. ASSUME NEW p \in Policy, Register(p) PROVE SummaryInv'
    <3>1. AnswerInv' /\ SummaryIsTrue'
      BY <2>3 DEF Register, AnswerInv, SummaryIsTrue
    <3>2. WireInv'
      BY <2>t, <2>3 DEF Register, WireInv
    <3>3. QED
      BY <3>1, <3>2
  <2>4. CASE RegisterReturns
    <3>1. AnswerInv' /\ WireInv'
      BY <2>4 DEF RegisterReturns, AnswerInv, WireInv
    <3>2. SummaryIsTrue'
      <4>1. /\ Counted(call, answer) = "registered" => answer = "ok"
            /\ Counted(call, answer) = "already" => answer = "already" \/ call \in Misworded
        BY <2>4 DEF RegisterReturns, Counted
      <4>2. /\ call \in Policy /\ phase = "registering" /\ loaded[call] # NoRules
            /\ \A p \in Policy :
                  outcome'[p] = IF p = call THEN Counted(call, answer) ELSE outcome[p]
            /\ UNCHANGED <<phase, loaded, known, forgot>>
        BY <2>t, <2>4 DEF RegisterReturns, AnswerInv
      <4>3. QED
        BY <4>1, <4>2 DEF AnswerInv, SummaryIsTrue
    <3>3. QED
      BY <3>1, <3>2
  <2>5. CASE RegisterThrows
    <3>1. AnswerInv' /\ WireInv'
      BY <2>5 DEF RegisterThrows, AnswerInv, WireInv
    <3>2. SummaryIsTrue'
      BY <2>t, <2>5 DEF RegisterThrows, AnswerInv, SummaryIsTrue
    <3>3. QED
      BY <3>1, <3>2
  \* A policy that is in force stays as it is, whoever asks again.
  <2>6. ASSUME NEW r \in wire, RuntimeExecutes(r) PROVE SummaryInv'
    <3>1. PICK v \in Verdicts(r) :
             /\ known' = IF v = "ok" THEN [known EXCEPT ![r.id] = r.rules] ELSE known
             /\ answer' = IF r.boot = boots /\ phase = "registering" /\ call = r.id
                          THEN v ELSE answer
      BY <2>6 DEF RuntimeExecutes
    <3>2. /\ v = "ok" => known[r.id] = NoRules
          /\ v = "already" => known[r.id] # NoRules
          /\ v \in {"ok", "already", "refused"}
      BY DEF Verdicts
    <3>3. UNCHANGED <<phase, boots, loaded, outcome, call, forgot>> /\ wire' = wire \ {r}
      BY <2>6 DEF RuntimeExecutes
    <3>4. \A p \in Policy : known[p] # NoRules => known'[p] = known[p]
      BY <2>t, <3>1, <3>2
    <3>5. r.boot = boots /\ v = "ok" => known'[r.id] = loaded[r.id]
      BY <2>t, <3>1 DEF WireInv
    <3>6. AnswerInv'
      BY <2>t, <3>1, <3>2, <3>3, <3>4, <3>5 DEF AnswerInv
    <3>7. WireInv' /\ SummaryIsTrue'
      BY <3>3, <3>4 DEF WireInv, SummaryIsTrue
    <3>8. QED
      BY <3>6, <3>7
  <2>7. CASE RuntimeRestarts
    BY <2>7 DEF RuntimeRestarts, AnswerInv, WireInv, SummaryIsTrue
  <2>8. CASE (\E f \in File, content \in Content : Edit(f, content)) \/ UNCHANGED vars
    BY <2>8 DEF Edit, vars, AnswerInv, WireInv, SummaryIsTrue
  <2>9. QED
    BY <2>1, <2>2, <2>3, <2>4, <2>5, <2>6, <2>7, <2>8 DEF Next, LoopGoesOn
<1>3. QED
  BY <1>1, <1>2

\* What a start reports about its policies is true, for any number of starts, crashes and
\* requests of earlier starts that come late.
THEOREM TrueSummary == Spec => []SummaryIsTrue
<1>1. SummaryInv => SummaryIsTrue
  BY DEF SummaryInv
<1>2. QED
  BY <1>1, SummaryInductive, TypeCorrect, PTL DEF Spec
=============================================================================
