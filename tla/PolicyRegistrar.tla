--------------------------- MODULE PolicyRegistrar ---------------------------
(***************************************************************************)
(* src/src/policy: at start-up the service reads the policy files, mints   *)
(* itself a token and registers one policy after the other with the        *)
(* runtime; only then does it listen.  The service may crash and start     *)
(* again at any moment, a registration may be executed although its answer *)
(* is lost (also after the crash of the service that sent it), and the     *)
(* runtime, which keeps its policies in memory, may restart.               *)
(*                                                                         *)
(* The rules of a policy are versions that only compare for equality.      *)
(***************************************************************************)
EXTENDS Naturals, FiniteSets

CONSTANTS
    Policy,    \* policy ids other than 'policy.default'
    Rules,     \* what a policy file may say
    Misworded, \* policies whose refusal by the runtime has 'already' in its text
    NumFiles,  \* the .json files of policies/, in the order of readdirSync
    MaxBoots,  \* bound on the starts of the service
    NoPolicy, NoRules, DefaultPolicy,
    Unusable   \* the content of a file that cannot be parsed or has no policy_id

ASSUME RegistrarAssumption ==
    /\ NumFiles \in Nat /\ MaxBoots \in Nat
    /\ NoPolicy \notin Policy /\ DefaultPolicy \notin Policy
    /\ NoRules \notin Rules
    /\ Misworded \subseteq Policy

VARIABLES
    files,    \* the policy files
    phase,    \* "down", "minting", "registering" or "listening"
    boots,    \* the starts of the service so far
    loaded,   \* cache: the rules of each registrable policy, or NoRules
    outcome,  \* how the registration of a policy was counted in this start
    call,     \* the policy whose registerPolicy() is awaited, or NoPolicy
    answer,   \* what the runtime answered to it, or "none"
    wire,     \* registrations sent and not executed
    known,    \* the runtime's policies
    forgot    \* the runtime has restarted since the service last started

serviceVars == <<phase, boots, loaded, outcome, call>>
runtimeVars == <<answer, wire, known, forgot>>
vars == <<files, serviceVars, runtimeVars>>

File == 1 .. NumFiles
Content == [id : Policy \cup {DefaultPolicy}, rules : Rules] \cup {Unusable}
Request == [id : Policy, rules : Rules, boot : 0 .. MaxBoots]

\* ensureLoaded() and listRegistrablePolicies(): an unusable file is skipped, and of
\* several files with one id the last counts.
FilesOf(p) == {f \in File : files[f] # Unusable /\ files[f].id = p}
LastOf(p) == {f \in FilesOf(p) : \A g \in FilesOf(p) : g <= f}
Registrable ==
    [p \in Policy |->
        IF LastOf(p) = {} THEN NoRules ELSE files[CHOOSE f \in LastOf(p) : TRUE].rules]

Unasked == [p \in Policy |-> "none"]

Init ==
    /\ files \in [File -> Content]
    /\ phase = "down"
    /\ boots = 0
    /\ loaded = [p \in Policy |-> NoRules]
    /\ outcome = Unasked
    /\ call = NoPolicy
    /\ answer = "none"
    /\ wire = {}
    /\ known = [p \in Policy |-> NoRules]
    /\ forgot = FALSE

-----------------------------------------------------------------------------
\* The service starts.  Registration may be switched off, or there is no runtime
\* address or no policy: then it listens at once.
Boot ==
    /\ phase = "down"
    /\ boots < MaxBoots
    /\ boots' = boots + 1
    /\ outcome' = Unasked
    /\ call' = NoPolicy
    /\ answer' = "none"
    /\ forgot' = FALSE
    /\ \/ phase' = "listening" /\ loaded' = [p \in Policy |-> NoRules]
       \/ /\ loaded' = Registrable
          /\ phase' = IF \A p \in Policy : loaded'[p] = NoRules THEN "listening" ELSE "minting"
    /\ UNCHANGED <<files, wire, known>>

\* AUTH_MINT_FAILED is logged, and nothing is registered.
MintFails ==
    /\ phase = "minting"
    /\ phase' = "listening"
    /\ UNCHANGED <<files, boots, loaded, outcome, call, runtimeVars>>

MintSucceeds ==
    /\ phase = "minting"
    /\ phase' = "registering"
    /\ UNCHANGED <<files, boots, loaded, outcome, call, runtimeVars>>

\* The client is made outside of any try: what it throws leaves the start-up hook, and
\* main.ts ends the process.
ClientThrows ==
    /\ phase = "minting"
    /\ phase' = "down"
    /\ UNCHANGED <<files, boots, loaded, outcome, call, runtimeVars>>

Register(p) ==
    /\ phase = "registering"
    /\ call = NoPolicy
    /\ loaded[p] # NoRules
    /\ outcome[p] = "none"
    /\ call' = p
    /\ answer' = "none"
    /\ wire' = wire \cup {[id |-> p, rules |-> loaded[p], boot |-> boots]}
    /\ UNCHANGED <<files, phase, boots, loaded, outcome, known, forgot>>

\* Mutant of Counted: whatever the runtime refuses counts as registered before.
CountedAsAlready(p, a) == IF a = "ok" THEN "registered" ELSE "already"

\* isAlreadyRegisteredError() looks for the word in the text of the error, whatever else
\* the text says.
Counted(p, a) ==
    CASE a = "ok" -> "registered"
      [] a = "already" \/ (a = "refused" /\ p \in Misworded) -> "already"
      [] OTHER -> "failed"

RegisterReturns ==
    /\ phase = "registering"
    /\ answer # "none"
    /\ outcome' = [outcome EXCEPT ![call] = Counted(call, answer)]
    /\ call' = NoPolicy
    /\ answer' = "none"
    /\ UNCHANGED <<files, phase, boots, loaded, wire, known, forgot>>

\* Mutant of RegisterThrows: the policy is tried again.
RegisterThrowsAgain ==
    /\ phase = "registering"
    /\ call # NoPolicy
    /\ call' = NoPolicy
    /\ answer' = "none"
    /\ UNCHANGED <<files, phase, boots, loaded, outcome, wire, known, forgot>>

\* The connection fails, or the answer gets lost.
RegisterThrows ==
    /\ phase = "registering"
    /\ call # NoPolicy
    /\ outcome' = [outcome EXCEPT ![call] = "failed"]
    /\ call' = NoPolicy
    /\ answer' = "none"
    /\ UNCHANGED <<files, phase, boots, loaded, wire, known, forgot>>

Listen ==
    /\ phase = "registering"
    /\ call = NoPolicy
    /\ \A p \in Policy : loaded[p] # NoRules => outcome[p] # "none"
    /\ phase' = "listening"
    /\ UNCHANGED <<files, boots, loaded, outcome, call, runtimeVars>>

Crash ==
    /\ phase # "down"
    /\ phase' = "down"
    /\ UNCHANGED <<files, boots, loaded, outcome, call, runtimeVars>>

-----------------------------------------------------------------------------
\* The runtime takes a policy id once, and may find a policy wanting.
Verdicts(r) == IF known[r.id] # NoRules THEN {"already"} ELSE {"ok", "refused"}

RuntimeExecutes(r) ==
    /\ wire' = wire \ {r}
    /\ \E v \in Verdicts(r) :
          /\ known' = IF v = "ok" THEN [known EXCEPT ![r.id] = r.rules] ELSE known
          /\ answer' = IF r.boot = boots /\ phase = "registering" /\ call = r.id
                       THEN v ELSE answer
    /\ UNCHANGED <<files, serviceVars, forgot>>

RuntimeRestarts ==
    /\ wire' = {}
    /\ known' = [p \in Policy |-> NoRules]
    /\ forgot' = TRUE
    /\ UNCHANGED <<files, serviceVars, answer>>

\* Someone edits a policy file.
Edit(f, content) ==
    /\ files' = [files EXCEPT ![f] = content]
    /\ UNCHANGED <<serviceVars, runtimeVars>>

Minted == MintFails \/ MintSucceeds \/ ClientThrows

LoopGoesOn ==
    \/ \E p \in Policy : Register(p)
    \/ RegisterReturns
    \/ Listen

Next ==
    \/ Boot
    \/ Minted
    \/ LoopGoesOn
    \/ RegisterThrows
    \/ Crash
    \/ \E r \in wire : RuntimeExecutes(r)
    \/ RuntimeRestarts
    \/ \E f \in File, content \in Content : Edit(f, content)

Spec == Init /\ [][Next]_vars

\* The mint settles by its timeout, and the loop goes on whenever its call has settled.
\* registerPolicy() has no deadline: nothing makes it settle.
FairSpec == Spec /\ WF_vars(Minted) /\ WF_vars(LoopGoesOn)

-----------------------------------------------------------------------------
TypeOK ==
    /\ files \in [File -> Content]
    /\ phase \in {"down", "minting", "registering", "listening"}
    /\ boots \in 0 .. MaxBoots
    /\ loaded \in [Policy -> Rules \cup {NoRules}]
    /\ outcome \in [Policy -> {"none", "registered", "already", "failed"}]
    /\ call \in Policy \cup {NoPolicy}
    /\ answer \in {"none", "ok", "already", "refused"}
    /\ wire \subseteq Request
    /\ known \in [Policy -> Rules \cup {NoRules}]
    /\ forgot \in BOOLEAN

\* The summary of a start is true, whatever was lost or sent by an earlier start: a
\* policy counted as registered is in force with the rules this start has read, one
\* counted as already registered is in force, perhaps with older rules, unless the text
\* of a refusal misled the count.  Hence, when nothing failed and no refusal did so, a
\* launch meets no unknown policy unless the runtime has restarted.
SummaryIsTrue ==
    phase # "down" /\ ~forgot =>
        \A p \in Policy :
            /\ outcome[p] # "none" => loaded[p] # NoRules
            /\ outcome[p] = "registered" => known[p] = loaded[p]
            /\ outcome[p] = "already" => known[p] # NoRules \/ p \in Misworded

\* Unless a call of registerPolicy() stays open for ever, the service comes to listen or
\* is down, by a crash or by a client that could not be made: mints that fail and
\* registrations that are refused or lost, as often as they like, hold it up no longer.
\* One call that never settles does keep it from listening.
CallsSettle == []<>(phase # "registering" \/ call = NoPolicy)

Listens == CallsSettle => (phase = "minting" ~> phase \in {"listening", "down"})
=============================================================================
