-------------------------- MODULE ScenarioFiles_proofs --------------------------
(***************************************************************************)
(* Proofs about the files of scenario authors: what becomes of one when it *)
(* is compiled (Compiler), and of all of them when they are checked,       *)
(* scaffolded and loaded (PackFiles).                                      *)
(***************************************************************************)
EXTENDS Compiler, PackFiles, FiniteSetTheorems, WellFoundedInduction, TLAPS

(***************************************************************************)
(* Induction over the natural numbers, for a set in the place of a         *)
(* predicate.                                                              *)
(***************************************************************************)
LessThan == {ss \in Nat \X Nat : ss[1] < ss[2]}

\* Every non-empty set of natural numbers has a least element.
LEMMA LeastElement ==
    ASSUME NEW S \in SUBSET Nat, S # {}
    PROVE  \E m \in S : \A n \in S : m <= n
<1>1. OpToRel(<, Nat) = LessThan
  BY DEF OpToRel, LessThan
<1>2. IsWellFoundedOn(OpToRel(<, Nat), Nat)
  BY NatLessThanWellFounded
<1>3. IsWellFoundedOn(LessThan, Nat)
  BY <1>1, <1>2
<1>4. \E m \in S : \A n \in S : ~ (<<n, m>> \in LessThan)
  BY <1>3, WFMin
<1>5. PICK m \in S : \A n \in S : ~ (<<n, m>> \in LessThan)
  BY <1>4
<1>6. ASSUME NEW n \in S PROVE m <= n
  <2>1. m \in Nat /\ n \in Nat /\ ~ (<<n, m>> \in LessThan)
    BY <1>5
  <2>2. QED
    BY <2>1 DEF LessThan
<1>7. QED
  BY <1>6

\* A set with 0 that is closed under the successor has every natural number.
LEMMA InductionOverSet ==
    ASSUME NEW S, 0 \in S, \A n \in Nat : n \in S => n + 1 \in S
    PROVE  Nat \subseteq S
<1>1. SUFFICES ASSUME Nat \ S # {} PROVE FALSE
  OBVIOUS
<1>2. PICK m \in Nat \ S : \A n \in Nat \ S : m <= n
  BY <1>1, LeastElement
<1>3. m # 0 /\ m - 1 \in Nat /\ (m - 1) + 1 = m
  BY <1>2
<1>4. m - 1 \in S
  BY <1>2, <1>3
<1>5. QED
  BY <1>2, <1>3, <1>4

-----------------------------------------------------------------------------
(***************************************************************************)
(* Going down a path.                                                      *)
(***************************************************************************)
IsDescent(down, tree, path, n) ==
    down = [i \in 0 .. n |-> IF i = 0 THEN tree ELSE Entry(down[i - 1], path[i])]

\* The recursive function in resolvePath is there for every path, and it ends at what
\* resolvePath returns.
LEMMA DescentExists ==
    ASSUME NEW tree, NEW path, Len(path) \in Nat
    PROVE  \E down : IsDescent(down, tree, path, Len(path))
                     /\ resolvePath(tree, path) = down[Len(path)]
<1> DEFINE S == {n \in Nat : \E down : IsDescent(down, tree, path, n)}
<1>1. 0 \in S
  <2>1. IsDescent([i \in 0 .. 0 |-> tree], tree, path, 0)
    BY DEF IsDescent
  <2>2. QED
    BY <2>1
<1>2. ASSUME NEW n \in Nat, n \in S PROVE n + 1 \in S
  <2>1. PICK down : IsDescent(down, tree, path, n)
    BY <1>2
  <2> DEFINE longer == [i \in 0 .. n + 1 |-> IF i = n + 1 THEN Entry(down[n], path[n + 1]) ELSE down[i]]
  <2>2. ASSUME NEW i \in 0 .. n + 1
        PROVE  longer[i] = IF i = 0 THEN tree ELSE Entry(longer[i - 1], path[i])
    <3>1. CASE i = 0
      BY <3>1, <2>1 DEF IsDescent
    <3>2. CASE i = n + 1
      BY <3>2
    <3>3. CASE i # 0 /\ i # n + 1
      <4>1. i \in 0 .. n /\ i - 1 \in 0 .. n /\ i - 1 # n + 1
        BY <3>3
      <4>2. down[i] = Entry(down[i - 1], path[i])
        BY <4>1, <3>3, <2>1 DEF IsDescent
      <4>3. QED
        BY <4>1, <4>2, <3>3
    <3>4. QED
      BY <3>1, <3>2, <3>3
  <2>3. IsDescent(longer, tree, path, n + 1)
    BY <2>2 DEF IsDescent
  <2>4. QED
    BY <2>3
<1>3. Len(path) \in S
  BY <1>1, <1>2, InductionOverSet
<1>4. PICK f : IsDescent(f, tree, path, Len(path))
  BY <1>3
<1> DEFINE g == CHOOSE down : IsDescent(down, tree, path, Len(path))
<1>5. IsDescent(g, tree, path, Len(path))
  BY <1>4
<1>6. resolvePath(tree, path) = g[Len(path)]
  BY DEF resolvePath, IsDescent
<1>7. QED
  BY <1>5, <1>6

\* Two descents of one path that have come to one tree go on to one tree.
LEMMA DescentsMeet ==
    ASSUME NEW a, NEW b, NEW s, NEW t, NEW path, NEW n \in Nat, NEW m \in 0 .. n,
           IsDescent(a, s, path, n), IsDescent(b, t, path, n), a[m] = b[m]
    PROVE  a[n] = b[n]
<1> DEFINE S == {j \in Nat : m + j \in 0 .. n => a[m + j] = b[m + j]}
<1>1. 0 \in S
  BY m + 0 = m
<1>2. ASSUME NEW j \in Nat, j \in S PROVE j + 1 \in S
  <2>1. SUFFICES ASSUME m + (j + 1) \in 0 .. n PROVE a[m + (j + 1)] = b[m + (j + 1)]
    OBVIOUS
  <2> DEFINE i == m + (j + 1)
  <2>2. i \in 0 .. n /\ i # 0 /\ i - 1 = m + j /\ m + j \in 0 .. n
    BY <2>1
  <2>3. a[m + j] = b[m + j]
    BY <1>2, <2>2
  <2>4. a[i] = Entry(a[i - 1], path[i]) /\ b[i] = Entry(b[i - 1], path[i])
    BY <2>2 DEF IsDescent
  <2>5. QED
    BY <2>2, <2>3, <2>4
<1>3. n - m \in Nat /\ m + (n - m) = n
  OBVIOUS
<1>4. n - m \in S
  BY <1>1, <1>2, <1>3, InductionOverSet
<1>5. QED
  BY <1>3, <1>4

\* There is nothing below a tree that is not an object.
LEMMA NothingBelow ==
    ASSUME NEW a, NEW tree, NEW path, NEW n \in Nat, NEW m \in 0 .. n, m < n,
           IsDescent(a, tree, path, n), a[m].is # "object"
    PROVE  a[n] = Undefined
<1> DEFINE S == {j \in Nat : m + 1 + j \in 0 .. n => a[m + 1 + j] = Undefined}
<1>1. 0 \in S
  <2>1. m + 1 + 0 = m + 1 /\ m + 1 \in 0 .. n /\ m + 1 # 0 /\ (m + 1) - 1 = m
    OBVIOUS
  <2>2. a[m + 1] = Entry(a[m], path[m + 1])
    BY <2>1 DEF IsDescent
  <2>3. QED
    BY <2>1, <2>2 DEF Entry
<1>2. ASSUME NEW j \in Nat, j \in S PROVE j + 1 \in S
  <2>1. SUFFICES ASSUME m + 1 + (j + 1) \in 0 .. n PROVE a[m + 1 + (j + 1)] = Undefined
    OBVIOUS
  <2> DEFINE i == m + 1 + (j + 1)
  <2>2. i \in 0 .. n /\ i # 0 /\ i - 1 = m + 1 + j /\ m + 1 + j \in 0 .. n
    BY <2>1
  <2>3. a[m + 1 + j] = Undefined
    BY <1>2, <2>2
  <2>4. a[i] = Entry(a[i - 1], path[i])
    BY <2>2 DEF IsDescent
  <2>5. QED
    BY <2>2, <2>3, <2>4 DEF Entry, Undefined
<1>3. n - (m + 1) \in Nat /\ m + 1 + (n - (m + 1)) = n
  OBVIOUS
<1>4. n - (m + 1) \in S
  BY <1>1, <1>2, <1>3, InductionOverSet
<1>5. QED
  BY <1>3, <1>4

\* Inputs that hold no undefined and replace no object hide no placeholder: one that
\* the defaults resolve resolves as well when the inputs are spread over them.
LEMMA SpreadKeepsReachable ==
    ASSUME NEW D, NEW f, NEW path, Len(path) \in Nat,
           \A k \in DOMAIN f : f[k] # Undefined,
           \A k \in DOMAIN f : k \in DOMAIN D => D[k].is # "object",
           resolvePath(Variables(D), path) # Undefined
    PROVE  resolvePath(Variables(spread(D, f)), path) # Undefined
<1> DEFINE M == spread(D, f)
           n == Len(path)
<1>1. PICK a : IsDescent(a, Variables(D), path, n) /\ resolvePath(Variables(D), path) = a[n]
  BY DescentExists
<1>2. PICK b : IsDescent(b, Variables(M), path, n) /\ resolvePath(Variables(M), path) = b[n]
  BY DescentExists
<1>3. /\ DOMAIN M = DOMAIN f \cup DOMAIN D
      /\ \A k \in DOMAIN M : M[k] = IF k \in DOMAIN f THEN f[k] ELSE D[k]
  BY DEF spread
<1>n. n \in Nat
  OBVIOUS
<1> HIDE DEF M, n
<1>4. CASE n = 0
  <2>1. b[n] = Variables(M)
    BY <1>2, <1>4 DEF IsDescent
  <2>2. b[n].is # Undefined.is
    BY <2>1 DEF Variables, Object, Undefined
  <2>3. QED
    BY <1>2, <2>2 DEF M
<1>5. CASE n = 1
  <2>1. /\ a[1] = Entry(Variables(D), path[1])
        /\ b[1] = Entry(Variables(M), path[1])
    BY <1>1, <1>2, <1>5 DEF IsDescent
  <2>2. path[1] = "inputs"
    BY <1>1, <1>5, <2>1 DEF Entry, Variables, Object
  <2>3. b[n] = Object(M)
    BY <1>5, <2>1, <2>2 DEF Entry, Variables, Object
  <2>4. b[n].is # Undefined.is
    BY <2>3 DEF Object, Undefined
  <2>5. QED
    BY <1>2, <2>4 DEF M
<1>6. CASE n > 1
  <2> DEFINE k == path[2]
  <2>1. /\ a[1] = Entry(Variables(D), path[1]) /\ b[1] = Entry(Variables(M), path[1])
        /\ a[2] = Entry(a[1], k) /\ b[2] = Entry(b[1], k)
    BY <1>1, <1>2, <1>6, <1>n DEF IsDescent
  <2>2. a[1].is = "object"
    <3>1. 1 \in 0 .. n /\ 1 < n
      BY <1>6, <1>n
    <3>2. QED
      BY <3>1, <1>1, <1>n, NothingBelow
  <2>3. path[1] = "inputs"
    BY <2>1, <2>2 DEF Entry, Variables, Object, Undefined
  <2>4. a[1] = Object(D) /\ b[1] = Object(M)
    BY <2>1, <2>3 DEF Entry, Variables, Object
  <2>5. /\ a[2] = IF k \in DOMAIN D THEN D[k] ELSE Undefined
        /\ b[2] = IF k \in DOMAIN M THEN M[k] ELSE Undefined
    BY <2>1, <2>4 DEF Entry, Object
  <2>6. CASE k \notin DOMAIN f
    <3>1. a[2] = b[2]
      BY <2>5, <2>6, <1>3
    <3>2. 2 \in 0 .. n
      BY <1>6, <1>n
    <3>3. a[n] = b[n]
      BY <3>1, <3>2, <1>1, <1>2, <1>n, DescentsMeet
    <3>4. QED
      BY <3>3, <1>1, <1>2 DEF M
  <2>7. CASE k \in DOMAIN f
    <3>1. b[2] = f[k] /\ f[k] # Undefined
      BY <2>5, <2>7, <1>3
    <3>2. a[2].is # "object"
      BY <2>5, <2>7 DEF Undefined
    <3>3. ~ (2 < n)
      <4>1. SUFFICES ASSUME 2 < n PROVE FALSE
        OBVIOUS
      <4>2. 2 \in 0 .. n
        BY <4>1, <1>n
      <4>3. a[n] = Undefined
        BY <4>1, <4>2, <3>2, <1>1, <1>n, NothingBelow
      <4>4. QED
        BY <4>3, <1>1
    <3>4. n = 2
      BY <3>3, <1>6, <1>n
    <3>5. QED
      BY <3>1, <3>4, <1>2 DEF M
  <2>8. QED
    BY <2>6, <2>7
<1>7. QED
  BY <1>n, <1>4, <1>5, <1>6

-----------------------------------------------------------------------------
(***************************************************************************)
(* The form and the run.                                                   *)
(***************************************************************************)
\* To spread defaults over themselves changes nothing.
LEMMA SpreadAbsorbs ==
    ASSUME NEW base, NEW override
    PROVE  spread(base, spread(base, override)) = spread(base, override)
BY DEF spread

\* The initiator that the launch names comes before every other candidate.
LEMMA NamedInitiator ==
    ASSUME NEW tree, NEW kickoff, Entry(tree, "initiatorParticipantId") # Undefined
    PROVE  initiatorOf(tree, kickoff) = Entry(tree, "initiatorParticipantId")
<1> DEFINE candidates == <<Entry(tree, "initiatorParticipantId"),
                           Entry(First(kickoff), "from"),
                           Entry(First(Entry(tree, "participants")), "id"), Undefined>>
           given == {i \in DOMAIN candidates : candidates[i] # Undefined}
<1>1. 1 \in given /\ given \subseteq 1 .. 4
  OBVIOUS
<1>2. Min(given) = 1
  BY <1>1 DEF Min
<1>3. initiatorOf(tree, kickoff) = candidates[1]
  BY <1>1, <1>2 DEF initiatorOf
<1>4. QED
  BY <1>3

\* In every state, and whatever merging and substitution do, what the form shows is what
\* a run is compiled to.
LEMMA FormShowsRun == FormMatchesRun
<1> DEFINE form == getLaunchSchema(template)
           run == compile(template, inputs)
           tree == mergeLaunch(launch, template)
           defaults == mergeDefaults(extractSchemaDefaults(schema), template)
           kickoff == Substitute(Entry(tree, "kickoffTemplate"), Variables(spread(defaults, inputs)))
<1>1. SUFFICES ASSUME form.error = "none"
               PROVE  /\ compile(template, spread(form.defaults, inputs)) = run
                      /\ run.error = "none" =>
                            /\ run.participantBindings = form.participants
                            /\ run.policyVersion = form.policyVersion
                            /\ run.runtime = form.runtime
                            /\ form.initiator # Undefined => run.initiator = form.initiator
                            /\ \A p \in Range(run.participantBindings) : p.agentRef \in KnownAgents
  BY DEF FormMatchesRun
<1>2. /\ ~ \E p \in Range(participantsOf(tree)) : p.agentRef \notin KnownAgents
      /\ form.defaults = defaults
      /\ form.participants = participantsOf(tree)
      /\ form.policyVersion = Entry(tree, "policyVersion")
      /\ form.runtime = mergeRuntime(Runtime, template)
      /\ form.initiator = Entry(tree, "initiatorParticipantId")
  BY <1>1 DEF getLaunchSchema, Error
<1>3. compile(template, spread(defaults, inputs)) = run
  BY SpreadAbsorbs DEF compile
<1>4. ASSUME run.error = "none"
      PROVE  /\ run.participantBindings = participantsOf(tree)
             /\ run.policyVersion = Entry(tree, "policyVersion")
             /\ run.runtime = mergeRuntime(Runtime, template)
             /\ run.initiator = initiatorOf(tree, kickoff)
  BY <1>4 DEF compile, Error, Substituted
<1>5. QED
  BY <1>2, <1>3, <1>4, NamedInitiator

\* Whatever the author wrote and the client sends, a scenario that gets a form is
\* compiled to what the form shows.
THEOREM FormMatches == Spec => []FormMatchesRun
BY FormShowsRun, PTL

-----------------------------------------------------------------------------
(***************************************************************************)
(* Validation and the run.                                                 *)
(***************************************************************************)
\* What authors write stays within what LaunchTrees lists, and fixtures within Inputs.
FilesInv ==
    /\ DOMAIN launch.at \subseteq DOMAIN LaunchTrees
    /\ \A k \in DOMAIN launch.at : launch.at[k] \in LaunchTrees[k]
    /\ fixtures \subseteq Inputs

LEMMA FilesInductive ==
    /\ Init => FilesInv
    /\ FilesInv /\ [Next]_vars => FilesInv'
<1>1. Init => FilesInv
  BY CompilerAssumption DEF Init, FilesInv, Object
<1>2. ASSUME FilesInv, [Next]_vars PROVE FilesInv'
  <2> USE <1>2
  <2>1. ASSUME NEW k \in DOMAIN LaunchTrees, NEW tree \in LaunchTrees[k], AuthorWrites(k, tree)
        PROVE  FilesInv'
    BY <2>1 DEF AuthorWrites, FilesInv, Object
  <2>2. ASSUME NEW f \in Inputs, AuthorSavesFixture(f) PROVE FilesInv'
    BY <2>2 DEF AuthorSavesFixture, FilesInv
  <2>3. ASSUME UNCHANGED <<launch, fixtures>> PROVE FilesInv'
    BY <2>3 DEF FilesInv
  <2>4. QED
    BY <2>1, <2>2, <2>3
    DEF Next, AuthorDeclares, AuthorRequires, AuthorOverrides, ClientChooses, vars
<1>3. QED
  BY <1>1, <1>2

\* The placeholders that a run substitutes are paths that validation has looked at.
LEMMA PlaceholdersCollected ==
    ASSUME FilesInv, NEW k \in Substituted, NEW p \in PlaceholdersIn(Entry(launch, k))
    PROVE  p \in collectPlaceholders /\ Len(p) \in Nat
<1>1. p \in collectPlaceholders
  BY DEF collectPlaceholders
<1>2. p \in Seq(STRING)
  <2>1. PICK j \in DOMAIN LaunchTrees : Entry(launch, k) \in LaunchTrees[j] \cup {Undefined}
    BY CompilerAssumption DEF FilesInv, Entry
  <2>2. QED
    BY <2>1, CompilerAssumption
<1>3. QED
  BY <1>1, <1>2

LEMMA ValidationShowsRun == FilesInv => ValidatedCompiles
<1> DEFINE D == extractSchemaDefaults(schema)
<1>1. SUFFICES ASSUME FilesInv, runValidate = 0
               PROVE  /\ \A f \in fixtures : fixtures = {f} /\ HidesNoDefault(f) =>
                            compile(NoTemplate, f).error = "none"
                      /\ fixtures = {} => compile(NoTemplate, NoInputs).error # "COMPILATION_ERROR"
  BY DEF ValidatedCompiles
<1>2. /\ ValidFixtures = MergedFixtures
      /\ \A p \in collectPlaceholders : \E s \in PlaceholderSources : resolvePath(s, p) # Undefined
  BY <1>1 DEF runValidate, UnreachablePlaceholders
<1>3. /\ mergeLaunch(launch, NoTemplate) = launch
      /\ mergeDefaults(D, NoTemplate) = D
  BY DEF mergeLaunch, mergeDefaults
<1>4. ASSUME NEW f \in fixtures, fixtures = {f}, HidesNoDefault(f)
      PROVE  compile(NoTemplate, f).error = "none"
  <2> DEFINE M == spread(D, f)
  <2>1. MergedFixtures = {M}
    BY <1>4 DEF MergedFixtures
  <2>2. validates(M)
    BY <1>2, <2>1 DEF ValidFixtures
  <2>3. PlaceholderSources = {Variables(D), Variables(M)}
    BY <1>2, <2>1 DEF PlaceholderSources
  <2>4. ASSUME NEW k \in Substituted, NEW p \in PlaceholdersIn(Entry(launch, k))
        PROVE  resolvePath(Variables(M), p) # Undefined
    <3>1. p \in collectPlaceholders /\ Len(p) \in Nat
      BY <1>1, <2>4, PlaceholdersCollected
    <3>2. CASE resolvePath(Variables(M), p) # Undefined
      BY <3>2
    <3>3. CASE resolvePath(Variables(D), p) # Undefined
      <4>1. \A j \in DOMAIN f : f[j] # Undefined
        BY <1>1, <1>4, CompilerAssumption DEF FilesInv
      <4>2. \A j \in DOMAIN f : j \in DOMAIN D => D[j].is # "object"
        BY <1>4 DEF HidesNoDefault, extractSchemaDefaults
      <4>3. QED
        BY <3>1, <3>3, <4>1, <4>2, SpreadKeepsReachable
    <3>4. QED
      BY <1>2, <2>3, <3>1, <3>2, <3>3
  <2>5. \A k \in Substituted : Unresolved(Entry(launch, k), Variables(M)) = {}
    BY <2>4 DEF Unresolved
  <2>6. QED
    BY <1>3, <2>2, <2>5 DEF compile
<1>5. ASSUME fixtures = {} PROVE compile(NoTemplate, NoInputs).error # "COMPILATION_ERROR"
  <2>1. spread(D, NoInputs) = D
    BY DEF spread, NoInputs, extractSchemaDefaults
  <2>2. PlaceholderSources = {Variables(D)}
    BY <1>5 DEF PlaceholderSources, ValidFixtures, MergedFixtures
  <2>3. ASSUME NEW k \in Substituted, NEW p \in PlaceholdersIn(Entry(launch, k))
        PROVE  resolvePath(Variables(D), p) # Undefined
    BY <1>1, <1>2, <2>2, <2>3, PlaceholdersCollected
  <2>4. \A k \in Substituted : Unresolved(Entry(launch, k), Variables(D)) = {}
    BY <2>3 DEF Unresolved
  <2>5. QED
    BY <1>3, <2>1, <2>4 DEF compile, Error
<1>6. QED
  BY <1>4, <1>5

\* A scenario that passes scenario:validate compiles from its fixture, and without one
\* misses at most an input.
THEOREM Validated == Spec => []ValidatedCompiles
<1>1. Spec => []FilesInv
  BY FilesInductive, PTL DEF Spec
<1>2. QED
  BY <1>1, ValidationShowsRun, PTL

-----------------------------------------------------------------------------
(***************************************************************************)
(* Includes.  D and E stand for what a disk holds.                         *)
(***************************************************************************)
Present(D, f) == f \in Files /\ D[f] # Absent

ParsesOver(D, f, parsed) ==
    /\ D[f].form # "broken"
    /\ \A path \in D[f].includes :
          Present(D, ResolveInclude(f, path)) /\ ResolveInclude(f, path) \in parsed

\* By levels: what parses with includes nested n deep, for n up to m.
IsParse(parses, D, m) ==
    parses = [n \in 0 .. m |->
                [f \in Files |->
                    /\ D[f].form # "broken"
                    /\ \A path \in D[f].includes :
                          LET h == ResolveInclude(f, path) IN
                          n > 0 /\ Present(D, h) /\ parses[n - 1][h]]]

LoadsOn(D, f) ==
    Present(D, f) /\ (CHOOSE parses : IsParse(parses, D, Depth))[Depth][f]

LEMMA DepthIsNatural == Depth \in Nat
BY PackFilesAssumption, FS_CardinalityType DEF Depth

\* The recursive function in Loads is there whatever the disk holds, and a file parses
\* at a level if what it includes parses at the level below.
LEMMA ParseExists ==
    ASSUME NEW D
    PROVE  LET parses == CHOOSE parses : IsParse(parses, D, Depth) IN
           \A n \in 0 .. Depth, f \in Files :
              parses[n][f] <=>
                 ParsesOver(D, f, {h \in Files : n > 0 /\ parses[n - 1][h]})
<1> DEFINE S == {m \in Nat : \E p : IsParse(p, D, m)}
<1>1. 0 \in S
  <2> DEFINE p == [n \in 0 .. 0 |->
                     [f \in Files |-> D[f].form # "broken" /\ \A path \in D[f].includes : FALSE]]
  <2>1. ASSUME NEW n \in 0 .. 0
        PROVE  p[n] = [f \in Files |->
                         /\ D[f].form # "broken"
                         /\ \A path \in D[f].includes :
                               LET h == ResolveInclude(f, path) IN
                               n > 0 /\ Present(D, h) /\ p[n - 1][h]]
    <3>1. ~ (n > 0)
      OBVIOUS
    <3>2. QED
      BY <3>1
  <2>2. p = [n \in 0 .. 0 |-> p[n]]
    OBVIOUS
  <2> HIDE DEF p
  <2>3. IsParse(p, D, 0)
    BY <2>1, <2>2 DEF IsParse
  <2>4. QED
    BY <2>3
<1>2. ASSUME NEW m \in Nat, m \in S PROVE m + 1 \in S
  <2>1. PICK p : IsParse(p, D, m)
    BY <1>2
  <2> DEFINE level(q, n) ==
                [f \in Files |->
                    /\ D[f].form # "broken"
                    /\ \A path \in D[f].includes :
                          LET h == ResolveInclude(f, path) IN
                          n > 0 /\ Present(D, h) /\ q[n - 1][h]]
             r == [n \in 0 .. m + 1 |-> IF n = m + 1 THEN level(p, m + 1) ELSE p[n]]
  <2>2. ASSUME NEW n \in 0 .. m + 1 PROVE r[n] = level(r, n)
    <3>1. n > 0 => n - 1 \in 0 .. m /\ r[n - 1] = p[n - 1]
      OBVIOUS
    <3>2. level(r, n) = level(p, n)
      BY <3>1
    <3>3. CASE n = m + 1
      BY <3>2, <3>3
    <3>4. CASE n # m + 1
      <4>1. n \in 0 .. m
        BY <3>4
      <4>2. p[n] = level(p, n)
        BY <2>1, <4>1 DEF IsParse
      <4>3. QED
        BY <3>2, <3>4, <4>2
    <3>5. QED
      BY <3>3, <3>4
  <2>3. r = [n \in 0 .. m + 1 |-> r[n]]
    OBVIOUS
  <2> HIDE DEF r
  <2>4. IsParse(r, D, m + 1)
    BY <2>2, <2>3 DEF IsParse
  <2>5. QED
    BY <2>4
<1> HIDE DEF S
<1>3. Depth \in S
  BY <1>1, <1>2, InductionOverSet, DepthIsNatural
<1>4. \E p : IsParse(p, D, Depth)
  BY <1>3 DEF S
<1> DEFINE parses == CHOOSE parses : IsParse(parses, D, Depth)
<1>5. IsParse(parses, D, Depth)
  BY <1>4
<1> HIDE DEF parses
<1>6. ASSUME NEW n \in 0 .. Depth, NEW f \in Files
      PROVE  parses[n][f] <=> ParsesOver(D, f, {h \in Files : n > 0 /\ parses[n - 1][h]})
  <2>1. parses[n] = [g \in Files |->
                        /\ D[g].form # "broken"
                        /\ \A path \in D[g].includes :
                              LET h == ResolveInclude(g, path) IN
                              n > 0 /\ Present(D, h) /\ parses[n - 1][h]]
    BY <1>5 DEF IsParse
  <2>2. parses[n][f] = (/\ D[f].form # "broken"
                        /\ \A path \in D[f].includes :
                              LET h == ResolveInclude(f, path) IN
                              n > 0 /\ Present(D, h) /\ parses[n - 1][h])
    BY <2>1
  <2>3. QED
    BY <2>2 DEF ParsesOver, Present
<1>7. QED
  BY <1>6 DEF parses

\* Loads is about the disk.
LEMMA LoadsIsOnDisk ==
    ASSUME NEW f
    PROVE  Loads(f) <=> LoadsOn(disk, f)
BY DEF Loads, LoadsOn, IsParse, Present, Exists

\* A disk E that has for every file of D that is related to one of its own the same
\* content, with related files under its includes, loads what D loads.
Simulates(R, D, E) ==
    \A f, g \in Files : <<f, g>> \in R /\ Present(D, f) =>
        /\ Present(E, g)
        /\ E[g] = D[f]
        /\ \A path \in D[f].includes : Present(D, ResolveInclude(f, path)) =>
              /\ ResolveInclude(g, path) \in Files
              /\ <<ResolveInclude(f, path), ResolveInclude(g, path)>> \in R

LEMMA SimulationLoads ==
    ASSUME NEW D, NEW E, NEW R, Simulates(R, D, E),
           NEW f \in Files, NEW g \in Files, <<f, g>> \in R, LoadsOn(D, f)
    PROVE  LoadsOn(E, g)
<1> DEFINE p == CHOOSE parses : IsParse(parses, D, Depth)
           q == CHOOSE parses : IsParse(parses, E, Depth)
           S == {n \in Nat : n <= Depth =>
                    \A x, y \in Files : <<x, y>> \in R /\ Present(D, x) /\ p[n][x] => q[n][y]}
<1>1. /\ \A n \in 0 .. Depth, x \in Files :
            p[n][x] <=> ParsesOver(D, x, {h \in Files : n > 0 /\ p[n - 1][h]})
      /\ \A n \in 0 .. Depth, x \in Files :
            q[n][x] <=> ParsesOver(E, x, {h \in Files : n > 0 /\ q[n - 1][h]})
  BY ParseExists
<1> HIDE DEF p, q
<1>2. 0 \in S
  <2>1. SUFFICES ASSUME NEW x \in Files, NEW y \in Files, <<x, y>> \in R, Present(D, x), p[0][x]
                 PROVE  q[0][y]
    BY DEF S
  <2>2. 0 \in 0 .. Depth /\ ~ (0 > 0)
    BY DepthIsNatural
  <2>3. ParsesOver(D, x, {}) /\ E[y] = D[x]
    BY <1>1, <2>1, <2>2 DEF Simulates
  <2>4. ParsesOver(E, y, {})
    BY <2>3 DEF ParsesOver
  <2>5. QED
    BY <1>1, <2>2, <2>4
<1>3. ASSUME NEW n \in Nat, n \in S PROVE n + 1 \in S
  <2>1. SUFFICES ASSUME n + 1 <= Depth, NEW x \in Files, NEW y \in Files,
                        <<x, y>> \in R, Present(D, x), p[n + 1][x]
                 PROVE  q[n + 1][y]
    BY DEF S
  <2>2. n + 1 \in 0 .. Depth /\ n + 1 > 0 /\ (n + 1) - 1 = n /\ n <= Depth
    BY <2>1, DepthIsNatural
  <2>3. ParsesOver(D, x, {h \in Files : p[n][h]})
    BY <1>1, <2>1, <2>2
  <2>4. ASSUME NEW path \in E[y].includes
        PROVE  Present(E, ResolveInclude(y, path)) /\ q[n][ResolveInclude(y, path)]
    <3>1. /\ E[y] = D[x] /\ path \in D[x].includes
          /\ Present(D, ResolveInclude(x, path)) /\ p[n][ResolveInclude(x, path)]
      BY <2>1, <2>3, <2>4 DEF Simulates, ParsesOver
    <3>2. /\ ResolveInclude(x, path) \in Files /\ ResolveInclude(y, path) \in Files
          /\ <<ResolveInclude(x, path), ResolveInclude(y, path)>> \in R
      BY <2>1, <3>1 DEF Simulates, Present
    <3>3. QED
      BY <1>3, <2>2, <3>1, <3>2 DEF Simulates
  <2>5. ParsesOver(E, y, {h \in Files : q[n][h]})
    BY <2>1, <2>3, <2>4 DEF ParsesOver, Simulates, Present
  <2>6. QED
    BY <1>1, <2>2, <2>5
<1>4. Depth \in S
  <2> HIDE DEF S
  <2>1. QED
    BY <1>2, <1>3, InductionOverSet, DepthIsNatural
<1>5. QED
  BY <1>4, DepthIsNatural DEF LoadsOn, Simulates, p, q

\* A file loads if what it includes loads: for the includes of a file that loads are
\* nested less deep than there are files.
LEMMA LoadsOver ==
    ASSUME NEW D, NEW f, Present(D, f), ParsesOver(D, f, {h \in Files : LoadsOn(D, h)})
    PROVE  LoadsOn(D, f)
<1> DEFINE p == CHOOSE parses : IsParse(parses, D, Depth)
           K(n) == {h \in Files : p[n][h]}
           T == {n \in Nat : n + 1 <= Depth => K(n) \subseteq K(n + 1)}
<1>1. \A n \in 0 .. Depth, h \in Files :
         p[n][h] <=> ParsesOver(D, h, {g \in Files : n > 0 /\ p[n - 1][g]})
  BY ParseExists
<1> HIDE DEF p
<1>2. \A n \in 0 .. Depth : K(n) \subseteq Files
  OBVIOUS
<1>3. \A h \in Files : h \in K(0) <=> ParsesOver(D, h, {})
  <2>1. 0 \in 0 .. Depth /\ ~ (0 > 0)
    BY DepthIsNatural
  <2>2. QED
    BY <1>1, <2>1
<1>4. ASSUME NEW n \in Nat, n + 1 <= Depth, NEW h \in Files
      PROVE  h \in K(n + 1) <=> ParsesOver(D, h, K(n))
  <2>1. n + 1 \in 0 .. Depth /\ n + 1 > 0 /\ (n + 1) - 1 = n
    BY <1>4, DepthIsNatural
  <2>2. QED
    BY <1>1, <2>1
<1>5. Depth \in Nat /\ 1 <= Depth /\ Depth - 1 \in Nat
  <2>1. Depth # 0
    BY PackFilesAssumption, FS_EmptySet DEF Depth, Present
  <2>2. QED
    BY <2>1, DepthIsNatural
<1>6. ASSUME NEW n \in Nat, n + 1 <= Depth PROVE K(n) \subseteq K(n + 1)
  <2>1. 0 \in T
    <3>1. SUFFICES ASSUME 0 + 1 <= Depth, NEW h \in K(0) PROVE h \in K(0 + 1)
      OBVIOUS
    <3>2. ParsesOver(D, h, {}) /\ h \in Files
      BY <1>3
    <3>3. ParsesOver(D, h, K(0))
      BY <3>2 DEF ParsesOver
    <3>4. QED
      BY <1>4, <3>1, <3>2, <3>3
  <2>2. ASSUME NEW m \in Nat, m \in T PROVE m + 1 \in T
    <3>1. SUFFICES ASSUME (m + 1) + 1 <= Depth, NEW h \in K(m + 1) PROVE h \in K((m + 1) + 1)
      OBVIOUS
    <3>2. m + 1 \in Nat /\ m + 1 <= Depth
      BY <3>1, <1>5
    <3>3. ParsesOver(D, h, K(m)) /\ h \in Files
      BY <1>4, <3>2
    <3>4. K(m) \subseteq K(m + 1)
      BY <2>2, <3>2
    <3>5. ParsesOver(D, h, K(m + 1))
      BY <3>3, <3>4 DEF ParsesOver
    <3>6. QED
      BY <1>4, <3>1, <3>2, <3>3, <3>5
  <2> HIDE DEF T
  <2>3. n \in T
    BY <2>1, <2>2, InductionOverSet
  <2>4. QED
    BY <2>3, <1>6 DEF T
<1>7. ASSUME NEW m \in Nat, m + 1 <= Depth, K(m) = K(m + 1) PROVE K(Depth - 1) = K(Depth)
  <2> DEFINE U == {j \in Nat : (m + j) + 1 <= Depth => K(m + j) = K((m + j) + 1)}
  <2>1. 0 \in U
    BY <1>7, m + 0 = m
  <2>2. ASSUME NEW j \in Nat, j \in U PROVE j + 1 \in U
    <3>1. SUFFICES ASSUME (m + (j + 1)) + 1 <= Depth
                   PROVE  K(m + (j + 1)) = K((m + (j + 1)) + 1)
      OBVIOUS
    <3>2. /\ m + (j + 1) = (m + j) + 1 /\ m + j \in Nat /\ (m + j) + 1 \in Nat
          /\ (m + j) + 1 <= Depth
      BY <3>1, <1>5
    <3>3. K(m + j) = K((m + j) + 1)
      BY <2>2, <3>2
    <3>4. \A h \in Files : h \in K((m + j) + 1) <=> h \in K(((m + j) + 1) + 1)
      <4>1. \A h \in Files : h \in K((m + j) + 1) <=> ParsesOver(D, h, K(m + j))
        BY <1>4, <3>2
      <4>2. \A h \in Files : h \in K(((m + j) + 1) + 1) <=> ParsesOver(D, h, K((m + j) + 1))
        BY <1>4, <3>1, <3>2
      <4>3. QED
        BY <3>3, <4>1, <4>2
    <3>5. K((m + j) + 1) = K(((m + j) + 1) + 1)
      BY <3>4
    <3>6. QED
      BY <3>2, <3>5
  <2> HIDE DEF U
  <2>3. (Depth - 1) - m \in Nat /\ m + ((Depth - 1) - m) = Depth - 1 /\ (Depth - 1) + 1 = Depth
    BY <1>5, <1>7
  <2>4. (Depth - 1) - m \in U
    BY <2>1, <2>2, <2>3, InductionOverSet
  <2>5. QED
    BY <2>3, <2>4 DEF U
<1>8. K(Depth - 1) = K(Depth)
  <2>1. SUFFICES ASSUME K(Depth - 1) # K(Depth) PROVE FALSE
    OBVIOUS
  <2>2. \A m \in Nat : m + 1 <= Depth => K(m) # K(m + 1)
    BY <1>7, <2>1
  <2>3. K(0) # {}
    <3>1. SUFFICES ASSUME K(0) = {} PROVE FALSE
      OBVIOUS
    <3>2. \A h \in Files : h \in K(0 + 1) <=> h \in K(0)
      BY <1>3, <1>4, <1>5, <3>1
    <3>3. K(0) = K(0 + 1)
      BY <3>2
    <3>4. QED
      BY <2>2, <3>3, <1>5
  <2> DEFINE C == {n \in Nat : n <= Depth => n + 1 <= Cardinality(K(n))}
  <2>4. \A n \in Nat : IsFiniteSet(K(n)) /\ Cardinality(K(n)) \in Nat /\ Cardinality(K(n)) <= Depth
    <3>1. ASSUME NEW n \in Nat
          PROVE  IsFiniteSet(K(n)) /\ Cardinality(K(n)) \in Nat /\ Cardinality(K(n)) <= Depth
      <4>1. IsFiniteSet(K(n)) /\ Cardinality(K(n)) <= Cardinality(Files)
        BY PackFilesAssumption, FS_Subset
      <4>2. QED
        BY <4>1, FS_CardinalityType DEF Depth
    <3>2. QED
      BY <3>1
  <2>5. 0 \in C
    <3>1. Cardinality(K(0)) # 0
      BY <2>3, <2>4, FS_EmptySet
    <3>2. Cardinality(K(0)) \in Nat
      BY <2>4
    <3>3. QED
      BY <3>1, <3>2
  <2>6. ASSUME NEW n \in Nat, n \in C PROVE n + 1 \in C
    <3>1. SUFFICES ASSUME n + 1 <= Depth PROVE (n + 1) + 1 <= Cardinality(K(n + 1))
      OBVIOUS
    <3>2. n + 1 <= Cardinality(K(n))
      BY <2>6, <3>1, <1>5
    <3>3. K(n) \subseteq K(n + 1) /\ K(n) # K(n + 1)
      BY <1>6, <2>2, <3>1
    <3>4. Cardinality(K(n)) <= Cardinality(K(n + 1)) /\ Cardinality(K(n + 1)) # Cardinality(K(n))
      BY <2>4, <3>3, FS_Subset
    <3>5. Cardinality(K(n)) \in Nat /\ Cardinality(K(n + 1)) \in Nat
      <4>1. n + 1 \in Nat
        OBVIOUS
      <4> HIDE DEF K
      <4>2. QED
        BY <2>4, <4>1
    <3>6. QED
      BY <3>2, <3>4, <3>5
  <2> HIDE DEF C
  <2>7. Depth \in C
    BY <2>5, <2>6, InductionOverSet, <1>5
  <2>8. Depth + 1 <= Cardinality(K(Depth))
    BY <2>7, <1>5 DEF C
  <2>9. Cardinality(K(Depth)) <= Depth /\ Cardinality(K(Depth)) \in Nat
    BY <2>4, <1>5
  <2>10. QED
    BY <2>8, <2>9, <1>5
<1>9. ParsesOver(D, f, K(Depth - 1))
  <2>1. \A h \in Files : LoadsOn(D, h) => h \in K(Depth)
    BY DEF LoadsOn, p
  <2>2. QED
    BY <1>8, <2>1 DEF ParsesOver
<1>10. f \in K(Depth)
  BY <1>4, <1>5, <1>9, (Depth - 1) + 1 = Depth DEF Present
<1>11. QED
  BY <1>10 DEF LoadsOn, p

\* A file of C is not there, does not parse, or includes a refused path or a file of C.
Stuck(g, C) ==
    \/ ~Exists(g)
    \/ disk[g].form = "broken"
    \/ \E path \in disk[g].includes : ResolveInclude(g, path) \notin Files \ C

\* What the visited set of include-resolver.ts comes to: a file fails to load exactly if it
\* belongs to files of which each is missing, broken, refuses an include or includes
\* another of them, be it in a circle.
THEOREM FailsExactly ==
    ASSUME NEW f \in Files
    PROVE  ~Loads(f) <=> \E C \in SUBSET Files : f \in C /\ \A g \in C : Stuck(g, C)
<1> DEFINE p == CHOOSE parses : IsParse(parses, disk, Depth)
<1>1. ASSUME NEW C \in SUBSET Files, f \in C, \A g \in C : Stuck(g, C), Loads(f)
      PROVE  FALSE
  <2> DEFINE S == {n \in Nat : n <= Depth => \A g \in C : Exists(g) => ~p[n][g]}
  <2>1. \A n \in 0 .. Depth, g \in Files :
           p[n][g] <=> ParsesOver(disk, g, {h \in Files : n > 0 /\ p[n - 1][h]})
    BY ParseExists
  <2>2. f \in Files /\ Exists(f) /\ p[Depth][f]
    BY <1>1, LoadsIsOnDisk DEF LoadsOn, Present, Exists
  <2> HIDE DEF p
  <2>3. ASSUME NEW n \in 0 .. Depth, NEW g \in C, Exists(g), p[n][g]
        PROVE  n > 0 /\ \E h \in C : Exists(h) /\ p[n - 1][h]
    <3>1. ParsesOver(disk, g, {h \in Files : n > 0 /\ p[n - 1][h]})
      BY <2>1, <2>3
    <3>2. PICK path \in disk[g].includes : ResolveInclude(g, path) \notin Files \ C
      BY <1>1, <2>3, <3>1 DEF Stuck, ParsesOver
    <3>3. QED
      BY <3>1, <3>2 DEF ParsesOver, Present, Exists
  <2>4. 0 \in S
    BY <2>3, DepthIsNatural
  <2>5. ASSUME NEW n \in Nat, n \in S PROVE n + 1 \in S
    <3>1. SUFFICES ASSUME n + 1 <= Depth, NEW g \in C, Exists(g), p[n + 1][g] PROVE FALSE
      OBVIOUS
    <3>2. n + 1 \in 0 .. Depth /\ (n + 1) - 1 = n /\ n <= Depth
      BY <3>1, DepthIsNatural
    <3>3. \E h \in C : Exists(h) /\ p[n][h]
      BY <2>3, <3>1, <3>2
    <3>4. QED
      BY <2>5, <3>2, <3>3
  <2>6. Depth \in S
    <3> HIDE DEF S
    <3>1. QED
      BY <2>4, <2>5, InductionOverSet, DepthIsNatural
  <2>7. QED
    BY <1>1, <2>2, <2>6, DepthIsNatural
<1>2. ASSUME ~Loads(f)
      PROVE  \E C \in SUBSET Files : f \in C /\ \A g \in C : Stuck(g, C)
  <2> DEFINE C == {g \in Files : ~Loads(g)}
  <2>1. ASSUME NEW g \in C, ~Stuck(g, C) PROVE FALSE
    <3>1. Present(disk, g) /\ disk[g].form # "broken"
      BY <2>1 DEF Stuck, Present, Exists
    <3>2. \A path \in disk[g].includes :
             LET h == ResolveInclude(g, path) IN h \in Files /\ LoadsOn(disk, h)
      BY <2>1, LoadsIsOnDisk DEF Stuck
    <3>3. ParsesOver(disk, g, {h \in Files : LoadsOn(disk, h)})
      BY <3>1, <3>2 DEF ParsesOver, LoadsOn
    <3>4. QED
      BY <2>1, <3>1, <3>3, LoadsOver, LoadsIsOnDisk
  <2>2. C \in SUBSET Files /\ f \in C
    BY <1>2
  <2> HIDE DEF C
  <2>3. QED
    BY <2>1, <2>2
<1>3. QED
  BY <1>1, <1>2

-----------------------------------------------------------------------------
(***************************************************************************)
(* Lint and the loader.                                                    *)
(***************************************************************************)
\* The disk has a file or Absent in each place, and its files are of known forms.
DiskInv ==
    /\ disk = [f \in Files |-> disk[f]]
    /\ \A f \in Files : disk[f] = Absent \/ disk[f].form \in Form

VersionPlace == {"scenario.yaml", "template.yaml", "data.yaml"}

LEMMA PlacesAreFiles ==
    /\ \A d \in Dir : PackFile(d, "pack.yaml") \in Files
    /\ \A d \in Dir, v \in Version, p \in VersionPlace : VersionFile(d, v, p) \in Files
    /\ \A s \in Shared : SharedFile(s) \in Files
<1>1. \A d \in Dir : PackFile(d, "pack.yaml") \in Files
  BY DEF Files
<1>2. ASSUME NEW d \in Dir, NEW v \in Version, NEW p \in VersionPlace
      PROVE  VersionFile(d, v, p) \in Files
  <2>1. VersionFile(d, v, p) \in VersionFiles(d, v)
    BY DEF VersionFiles, VersionPlace
  <2>2. QED
    BY <2>1 DEF Files
<1>3. \A s \in Shared : SharedFile(s) \in Files
  BY DEF Files
<1>4. QED
  BY <1>1, <1>2, <1>3

LEMMA FilesArePlaces ==
    ASSUME NEW f \in Files
    PROVE  \/ \E d \in Dir, p \in {"pack.yaml", "data/common.yaml"} : f = PackFile(d, p)
           \/ \E d \in Dir, v \in Version, p \in VersionPlace : f = VersionFile(d, v, p)
           \/ \E s \in Shared : f = SharedFile(s)
<1>1. CASE f \in UNION {VersionFiles(d, v) : d \in Dir, v \in Version}
  <2>1. PICK d \in Dir, v \in Version : f \in VersionFiles(d, v)
    BY <1>1
  <2>2. QED
    BY <2>1 DEF VersionFiles, VersionPlace
<1>2. CASE f \in {PackFile(d, p) : d \in Dir, p \in {"pack.yaml", "data/common.yaml"}}
  BY <1>2
<1>3. CASE f \in {SharedFile(s) : s \in Shared}
  BY <1>3
<1>4. QED
  BY <1>1, <1>2, <1>3 DEF Files

\* The names of the directories, as the assumption has them.
LEMMA DirectoryFacts ==
    /\ Len(Dirs) \in Nat /\ DOMAIN Dirs = 1 .. Len(Dirs)
    /\ Len(Versions) \in Nat /\ DOMAIN Versions = 1 .. Len(Versions)
    /\ "_shared" \notin Dir /\ "-" \notin Version
BY PackFilesAssumption

\* What an include of a file of some version leads to.
LEMMA IncludeTargets ==
    ASSUME NEW d, NEW v, NEW place, NEW path
    PROVE  /\ path.from = "version" =>
                 ResolveInclude(VersionFile(d, v, place), path) = VersionFile(d, v, path.place)
           /\ path.from \notin {"version", "packs"} =>
                 ResolveInclude(VersionFile(d, v, place), path) =
                    [dir |-> d, version |-> path.version, place |-> path.place]
BY DEF ResolveInclude, VersionFile

\* A path from the packs root, as those to shared files, leads to one file from everywhere.
LEMMA RootTargets ==
    ASSUME NEW f, NEW path, path.from = "packs"
    PROVE  ResolveInclude(f, path) = [dir |-> path.dir, version |-> path.version, place |-> path.place]
BY DEF ResolveInclude

LEMMA SharedTargets ==
    ASSUME NEW f, NEW s
    PROVE  ResolveInclude(f, InShared(s)) = SharedFile(s)
BY DEF ResolveInclude, InShared, InRoot, SharedFile

LEMMA LoadsFacts ==
    ASSUME NEW f, Loads(f)
    PROVE  Exists(f) /\ disk[f].form # "broken"
<1>1. LoadsOn(disk, f)
  BY LoadsIsOnDisk
<1>2. Depth \in 0 .. Depth
  BY DepthIsNatural
<1>3. ParsesOver(disk, f, {h \in Files : Depth > 0 /\ (CHOOSE p : IsParse(p, disk, Depth))[Depth - 1][h]})
  BY <1>1, <1>2, ParseExists DEF LoadsOn, Present
<1>4. QED
  BY <1>1, <1>3 DEF LoadsOn, Present, ParsesOver, Exists

LEMMA DiskInductive ==
    /\ PacksInit => DiskInv
    /\ DiskInv /\ [PacksNext]_packVars => DiskInv'
<1>1. PacksInit => DiskInv
  BY PackFilesAssumption DEF PacksInit, DiskInv
<1>2. ASSUME DiskInv, [PacksNext]_packVars PROVE DiskInv'
  <2>1. ASSUME NEW f \in Files, NEW content \in Contents[f.place], Edit(f, content)
        PROVE  DiskInv'
    <3>1. content = Absent \/ content.form \in Form
      BY PackFilesAssumption
    <3>2. disk' = [disk EXCEPT ![f] = content]
      BY <2>1 DEF Edit
    <3>3. QED
      BY <1>2, <3>1, <3>2 DEF DiskInv
  <2>2. ASSUME NEW d \in Dir, NEW v \in Version, NEW source \in Source, New(d, v, source)
        PROVE  DiskInv'
    <3>1. disk' = [f \in Files |->
                     IF f.dir = d /\ f.version = v THEN Scaffold(f, source)
                     ELSE IF f = PackFile(d, "pack.yaml") /\ ~Exists(f) THEN StarterPack(d)
                     ELSE disk[f]]
      BY <2>2 DEF New
    <3>2. ASSUME NEW f \in Files, f.dir = d, f.version = v
          PROVE  Scaffold(f, source) = Absent \/ Scaffold(f, source).form \in Form
      <4>1. CASE source = NoSource
        BY <4>1 DEF Scaffold, StarterFile, Plain, Form
      <4>2. CASE source # NoSource
        <5>1. source.dir \in Dir /\ source.version \in Version
          BY <2>2, <4>2 DEF Source
        <5>2. f.place \in VersionPlace
          BY <3>2, FilesArePlaces, DirectoryFacts
          DEF PackFile, VersionFile, SharedFile
        <5>3. VersionFile(source.dir, source.version, f.place) \in Files
          BY <5>1, <5>2, PlacesAreFiles
        <5>4. QED
          BY <1>2, <4>2, <5>3 DEF Scaffold, DiskInv
      <4>3. QED
        BY <4>1, <4>2
    <3>3. StarterPack(d).form \in Form
      BY DEF StarterPack, Form
    <3>4. \A f \in Files : disk'[f] = Absent \/ disk'[f].form \in Form
      BY <1>2, <3>1, <3>2, <3>3 DEF DiskInv
    <3>5. QED
      BY <3>1, <3>4 DEF DiskInv
  <2>3. CASE UNCHANGED packVars
    BY <1>2, <2>3 DEF DiskInv, packVars
  <2>4. QED
    BY <1>2, <2>1, <2>2, <2>3 DEF PacksNext
<1>3. QED
  BY <1>1, <1>2

\* What the loader reads of a pack is its pack.yaml and, of each version that has a
\* scenario.yaml, that and the template.
LEMMA ReadFacts ==
    ASSUME NEW d, NEW f
    PROVE  f \in Read(d) <=>
              /\ Exists(f)
              /\ \/ f = PackFile(d, "pack.yaml")
                 \/ \E v \in ScenarioVersions(d), p \in {"scenario.yaml", "template.yaml"} :
                       f = VersionFile(d, v, p)
<1>1. PackFile(d, "pack.yaml") = FileAt(d, 1) /\ 1 \in Position
  BY DirectoryFacts DEF FileAt, Position
<1>2. ASSUME NEW v \in Version
      PROVE  /\ \E i \in Position : VersionFile(d, v, "scenario.yaml") = FileAt(d, i)
             /\ \E i \in Position : VersionFile(d, v, "template.yaml") = FileAt(d, i)
  <2>1. PICK n \in 1 .. Len(Versions) : v = Versions[n]
    BY DirectoryFacts DEF Version
  <2>2. /\ n \in Nat \ {0} /\ 2 * n \in Position /\ 2 * n + 1 \in Position
        /\ 2 * n # 1 /\ 2 * n + 1 # 1
    BY DirectoryFacts DEF Position
  <2>3. /\ (2 * n) \div 2 = n /\ (2 * n + 1) \div 2 = n
        /\ (2 * n) % 2 = 0 /\ (2 * n + 1) % 2 # 0
    BY <2>2
  <2>4. /\ VersionFile(d, v, "scenario.yaml") = FileAt(d, 2 * n)
        /\ VersionFile(d, v, "template.yaml") = FileAt(d, 2 * n + 1)
    BY <2>1, <2>2, <2>3 DEF FileAt
  <2>5. QED
    BY <2>2, <2>4
<1>3. ASSUME NEW i \in Position, i # 1
      PROVE  \E v \in Version, p \in {"scenario.yaml", "template.yaml"} :
                FileAt(d, i) = VersionFile(d, v, p)
  <2>1. i \div 2 \in 1 .. Len(Versions)
    BY <1>3, DirectoryFacts DEF Position
  <2>2. Versions[i \div 2] \in Version
    BY <2>1, DirectoryFacts DEF Version
  <2>3. QED
    BY <1>3, <2>2 DEF FileAt
<1>4. ASSUME f \in Read(d)
      PROVE  /\ Exists(f)
             /\ \/ f = PackFile(d, "pack.yaml")
                \/ \E v \in ScenarioVersions(d), p \in {"scenario.yaml", "template.yaml"} :
                      f = VersionFile(d, v, p)
  <2>1. PICK i \in Position : f = FileAt(d, i)
    BY <1>4 DEF Read
  <2>2. Exists(f) /\ (f.place = "pack.yaml" \/ HasScenario(d, f.version))
    BY <1>4 DEF Read
  <2>3. CASE i = 1
    BY <1>1, <2>1, <2>2, <2>3
  <2>4. CASE i # 1
    <3>1. PICK v \in Version, p \in {"scenario.yaml", "template.yaml"} : f = VersionFile(d, v, p)
      BY <1>3, <2>1, <2>4
    <3>2. f.version = v /\ f.place # "pack.yaml"
      BY <3>1 DEF VersionFile
    <3>3. QED
      BY <2>2, <3>1, <3>2 DEF ScenarioVersions
  <2>5. QED
    BY <2>3, <2>4
<1>5. ASSUME Exists(f), f = PackFile(d, "pack.yaml") PROVE f \in Read(d)
  BY <1>1, <1>5 DEF Read, PackFile
<1>6. ASSUME Exists(f), NEW v \in ScenarioVersions(d), NEW p \in {"scenario.yaml", "template.yaml"},
             f = VersionFile(d, v, p)
      PROVE  f \in Read(d)
  <2>1. v \in Version /\ HasScenario(d, v)
    BY DEF ScenarioVersions
  <2>2. f.version = v
    BY <1>6 DEF VersionFile
  <2>3. \E i \in Position : f = FileAt(d, i)
    BY <1>2, <1>6, <2>1
  <2>4. QED
    BY <1>6, <2>1, <2>2, <2>3 DEF Read
<1>7. QED
  BY <1>4, <1>5, <1>6

LEMMA PackDirReads ==
    ASSUME NEW d \in PackDirs
    PROVE  d \in Dir /\ Exists(PackFile(d, "pack.yaml")) /\ PackFile(d, "pack.yaml") \in Read(d)
BY ReadFacts DEF PackDirs

\* What lint finds no error in, the loader reads without one, unless it is foreign.
LEMMA LintedLoads ==
    ASSUME DiskInv, NEW d \in PackDirs, LintErrors(d) = {}, ~Foreign(d)
    PROVE  PackEffect(d) = "none"
<1> DEFINE pack == PackFile(d, "pack.yaml")
<1>1. Loads(pack) /\ disk[pack].form # "empty"
  BY DEF LintErrors
<1>2. \A v \in ScenarioVersions(d) : \A f \in VersionFiles(d, v) :
         /\ f.place # "data.yaml"
         /\ f.place = "template.yaml" => Loads(VersionFile(d, f.version, "scenario.yaml"))
         /\ Exists(f)
         => Loads(f)
  BY <1>1 DEF LintErrors
<1>3. ASSUME NEW v \in ScenarioVersions(d)
      PROVE  /\ Loads(VersionFile(d, v, "scenario.yaml"))
             /\ Exists(VersionFile(d, v, "template.yaml")) => Loads(VersionFile(d, v, "template.yaml"))
  <2> DEFINE scenario == VersionFile(d, v, "scenario.yaml")
             override == VersionFile(d, v, "template.yaml")
  <2>1. Exists(scenario)
    BY DEF ScenarioVersions, HasScenario
  <2>2. /\ scenario \in VersionFiles(d, v) /\ scenario.place = "scenario.yaml"
        /\ override \in VersionFiles(d, v) /\ override.place = "template.yaml" /\ override.version = v
    BY DEF VersionFiles, VersionFile
  <2>3. Loads(scenario)
    BY <1>2, <2>1, <2>2
  <2>4. QED
    BY <1>2, <2>2, <2>3
<1>4. ASSUME NEW f \in Read(d) PROVE Effect(f) = "none"
  <2>1. /\ Exists(f) /\ f \in Files
        /\ \/ f = pack
           \/ \E v \in ScenarioVersions(d), p \in {"scenario.yaml", "template.yaml"} :
                 f = VersionFile(d, v, p)
    BY ReadFacts DEF Exists
  <2>2. Loads(f)
    BY <1>1, <1>3, <2>1
  <2>3. f.place \in {"pack.yaml", "scenario.yaml", "template.yaml"}
    BY <2>1 DEF PackFile, VersionFile
  <2>4. disk[f].form \in Form \ {"broken"}
    BY <2>1, <2>2, LoadsFacts DEF DiskInv, Exists
  <2>5. CASE f.place = "template.yaml"
    BY <2>2, <2>5 DEF Effect
  <2>6. CASE f.place # "template.yaml"
    <3>1. disk[f].form \notin {"wrong", "empty"}
      BY <2>6 DEF Foreign
    <3>2. disk[f].form = "good"
      BY <2>4, <3>1 DEF Form
    <3>3. QED
      BY <2>2, <3>2 DEF Effect
  <2>7. QED
    BY <2>5, <2>6
<1>5. QED
  BY <1>4 DEF PackEffect

\* What loads, lint can load.
LEMMA LoadedIsLoadable ==
    ASSUME NEW d \in Loaded, NEW f \in LintErrors(d)
    PROVE  Loads(f) /\ ~disk[f].tidy
<1> DEFINE pack == PackFile(d, "pack.yaml")
<1>1. d \in PackDirs /\ \A g \in Read(d) : Effect(g) = "none"
  BY DEF Loaded, PackEffect
<1>2. pack \in Read(d)
  BY <1>1, PackDirReads
<1>3. Loads(pack) /\ disk[pack].form # "empty"
  <2>1. Effect(pack) = "none" /\ pack.place # "template.yaml"
    BY <1>1, <1>2 DEF PackFile
  <2>2. QED
    BY <2>1 DEF Effect
<1>4. /\ f \in {pack} \cup (UNION {VersionFiles(d, v) : v \in ScenarioVersions(d)})
      /\ f.place # "data.yaml"
      /\ Exists(f)
      /\ ~Loads(f) \/ (f.place # "template.yaml" /\ ~disk[f].tidy)
  BY <1>3 DEF LintErrors
<1>5. f \in Read(d)
  <2>1. CASE f = pack
    BY <1>2, <2>1
  <2>2. CASE f # pack
    <3>1. PICK v \in ScenarioVersions(d) : f \in VersionFiles(d, v)
      BY <1>4, <2>2
    <3>2. f = VersionFile(d, v, "scenario.yaml") \/ f = VersionFile(d, v, "template.yaml")
      BY <1>4, <3>1 DEF VersionFiles, VersionFile
    <3>3. QED
      BY <1>4, <3>2, ReadFacts
  <2>3. QED
    BY <2>1, <2>2
<1>6. Loads(f)
  BY <1>1, <1>5 DEF Effect
<1>7. QED
  BY <1>4, <1>6

LEMMA VerdictsAgree == DiskInv => LintAgreesWithLoad
<1>1. ASSUME DiskInv, LintPasses
      PROVE  \A d \in LintPackDirs : PackEffect(d) = "none" \/ Foreign(d)
  BY <1>1, LintedLoads DEF LintPasses, LintPackDirs
<1>2. ASSUME DiskInv, LintPasses, LoadFails
      PROVE  \E d \in PackDirs : Foreign(d) \/ d \in links
  BY <1>1, <1>2 DEF LoadFails, LintPackDirs
<1>3. ASSUME DiskInv, LintPasses, NEW d \in LintPackDirs
      PROVE  d \in Snapshot \/ Foreign(d) \/ Shadowed(Loaded, d)
  BY <1>1, <1>3 DEF LintPackDirs, Loaded, Snapshot
<1>4. Snapshot \subseteq Loaded
  BY DEF Snapshot
<1>5. QED
  BY <1>2, <1>3, <1>4, LoadedIsLoadable DEF LintAgreesWithLoad

\* For every layout of packs, symbolic links among them, and every content of files: what
\* lint passes is served, but for foreign files, packs behind a link and packs of one slug;
\* and lint can load what is served.
THEOREM LintAgrees == PacksSpec => []LintAgreesWithLoad
<1>1. PacksSpec => []DiskInv
  BY DiskInductive, PTL DEF PacksSpec
<1>2. QED
  BY <1>1, VerdictsAgree, PTL

-----------------------------------------------------------------------------
(***************************************************************************)
(* Scaffolding.                                                            *)
(***************************************************************************)
\* The lemmas on a state, for the state that a step leads to.
LEMMA LoadsIsOnDiskNext ==
    ASSUME NEW f
    PROVE  Loads(f)' <=> LoadsOn(disk', f)
BY DEF Loads, LoadsOn, IsParse, Present, Exists

LEMMA ReadFactsNext ==
    ASSUME NEW d, NEW f
    PROVE  f \in Read(d)' <=>
              /\ Exists(f)'
              /\ \/ f = PackFile(d, "pack.yaml")
                 \/ \E v \in ScenarioVersions(d)', p \in {"scenario.yaml", "template.yaml"} :
                       f = VersionFile(d, v, p)
<1> DEFINE F == \A e, g : g \in Read(e) <=>
              /\ Exists(g)
              /\ \/ g = PackFile(e, "pack.yaml")
                 \/ \E v \in ScenarioVersions(e), p \in {"scenario.yaml", "template.yaml"} :
                       g = VersionFile(e, v, p)
<1>1. F
  BY ReadFacts
<1>2. F'
  BY <1>1, PTL
<1>3. QED
  BY <1>2

\* What scenario:new writes, and that it writes over nothing.
LEMMA NewWrites ==
    ASSUME DiskInv, NEW d \in Dir, NEW v \in Version, NEW source \in Source, New(d, v, source)
    PROVE  /\ \A f \in Files : Exists(f) => disk'[f] = disk[f]
           /\ \A f \in Files : f.dir # d => disk'[f] = disk[f]
           /\ \A w \in Version, p \in VersionPlace : w # v =>
                 disk'[VersionFile(d, w, p)] = disk[VersionFile(d, w, p)]
           /\ \A p \in VersionPlace :
                 disk'[VersionFile(d, v, p)] = Scaffold(VersionFile(d, v, p), source)
           /\ ~Exists(PackFile(d, "pack.yaml")) => disk'[PackFile(d, "pack.yaml")] = StarterPack(d)
<1>1. /\ \A f \in VersionFiles(d, v) : ~Exists(f)
      /\ disk' = [f \in Files |->
                     IF f.dir = d /\ f.version = v THEN Scaffold(f, source)
                     ELSE IF f = PackFile(d, "pack.yaml") /\ ~Exists(f) THEN StarterPack(d)
                     ELSE disk[f]]
  BY DEF New
<1>2. ASSUME NEW f \in Files, f.dir = d, f.version = v PROVE ~Exists(f)
  <2>1. PICK e \in Dir, w \in Version, p \in VersionPlace : f = VersionFile(e, w, p)
    BY <1>2, FilesArePlaces, DirectoryFacts DEF PackFile, SharedFile
  <2>2. e = d /\ w = v
    BY <1>2, <2>1 DEF VersionFile
  <2>3. f \in VersionFiles(d, v)
    BY <2>1, <2>2 DEF VersionFiles, VersionPlace
  <2>4. QED
    BY <1>1, <2>3
<1>3. \A f \in Files : Exists(f) => disk'[f] = disk[f]
  BY <1>1, <1>2
<1>4. \A f \in Files : f.dir # d => disk'[f] = disk[f]
  BY <1>1 DEF PackFile
<1>5. ASSUME NEW w \in Version, NEW p \in VersionPlace, w # v
      PROVE  disk'[VersionFile(d, w, p)] = disk[VersionFile(d, w, p)]
  <2>1. VersionFile(d, w, p) \in Files /\ VersionFile(d, w, p) # PackFile(d, "pack.yaml")
    BY PlacesAreFiles, DirectoryFacts DEF VersionFile, PackFile
  <2>2. VersionFile(d, w, p).version # v
    BY <1>5 DEF VersionFile
  <2>3. QED
    BY <1>1, <2>1, <2>2
<1>6. ASSUME NEW p \in VersionPlace
      PROVE  disk'[VersionFile(d, v, p)] = Scaffold(VersionFile(d, v, p), source)
  <2>1. VersionFile(d, v, p) \in Files
    BY PlacesAreFiles
  <2>2. VersionFile(d, v, p).dir = d /\ VersionFile(d, v, p).version = v
    BY DEF VersionFile
  <2>3. QED
    BY <1>1, <2>1, <2>2
<1>7. ASSUME ~Exists(PackFile(d, "pack.yaml"))
      PROVE  disk'[PackFile(d, "pack.yaml")] = StarterPack(d)
  <2>1. PackFile(d, "pack.yaml") \in Files /\ PackFile(d, "pack.yaml").version # v
    BY PlacesAreFiles, DirectoryFacts DEF PackFile
  <2>2. QED
    BY <1>1, <1>7, <2>1
<1>8. QED
  BY <1>3, <1>4, <1>5, <1>6, <1>7

\* What loaded loads as before.
LEMMA NewKeepsLoads ==
    ASSUME DiskInv, NEW d \in Dir, NEW v \in Version, NEW source \in Source, New(d, v, source),
           NEW f \in Files
    PROVE  /\ Exists(f) => Exists(f)'
           /\ f.dir # d => (Exists(f)' <=> Exists(f))
           /\ Loads(f) => Loads(f)'
<1> DEFINE Same == {<<g, g>> : g \in Files}
<1>1. /\ \A g \in Files : Present(disk, g) => disk'[g] = disk[g]
      /\ \A g \in Files : g.dir # d => disk'[g] = disk[g]
  BY NewWrites DEF Present, Exists
<1>2. /\ Exists(f) <=> Present(disk, f)
      /\ Exists(f)' <=> Present(disk', f)
  BY DEF Exists, Present
<1>3. Simulates(Same, disk, disk')
  <2>1. SUFFICES ASSUME NEW x \in Files, Present(disk, x)
                 PROVE  /\ Present(disk', x)
                        /\ disk'[x] = disk[x]
                        /\ \A path \in disk[x].includes : Present(disk, ResolveInclude(x, path)) =>
                              /\ ResolveInclude(x, path) \in Files
                              /\ <<ResolveInclude(x, path), ResolveInclude(x, path)>> \in Same
    BY DEF Simulates
  <2>2. QED
    BY <1>1, <2>1 DEF Present
<1>4. Loads(f) => Loads(f)'
  <2>1. <<f, f>> \in Same
    OBVIOUS
  <2> HIDE DEF Same
  <2>2. QED
    BY <1>3, <2>1, SimulationLoads, LoadsIsOnDisk, LoadsIsOnDiskNext
<1>5. QED
  BY <1>1, <1>2, <1>4 DEF Present

\* A copied file loads in its new place: what it includes of its own version is copied
\* with it, what it includes from the packs root stays, and a file of its pack it may
\* include only if the copy is in the same pack.
LEMMA CopiesLoad ==
    ASSUME DiskInv, NEW d \in Dir, NEW v \in Version, NEW source \in Source, New(d, v, source),
           source # NoSource,
           \/ source.dir = d
           \/ \A f \in VersionFiles(source.dir, source.version) :
                 Exists(f) => \A path \in disk[f].includes : path.from \in {"version", "packs"},
           NEW p \in VersionPlace, Loads(VersionFile(source.dir, source.version, p))
    PROVE  Loads(VersionFile(d, v, p))'
<1> DEFINE From(q) == VersionFile(source.dir, source.version, q)
           To(q) == VersionFile(d, v, q)
           R == {<<g, g>> : g \in Files} \cup {<<From(q), To(q)>> : q \in VersionPlace}
<1>1. source.dir \in Dir /\ source.version \in Version
  BY DEF Source
<1>2. \A q \in VersionPlace : From(q) \in Files /\ To(q) \in Files
  BY <1>1, PlacesAreFiles
<1>3. \A g \in Files : Present(disk, g) => disk'[g] = disk[g]
  BY NewWrites DEF Present, Exists
<1>4. \A q \in VersionPlace : disk'[To(q)] = disk[From(q)]
  <2>1. \A q \in VersionPlace : disk'[To(q)] = Scaffold(To(q), source)
    BY NewWrites
  <2>2. QED
    BY <2>1 DEF Scaffold, VersionFile
<1>5. ASSUME NEW x \in Files, Present(disk, x)
      PROVE  /\ Present(disk', x)
             /\ disk'[x] = disk[x]
             /\ \A path \in disk[x].includes : Present(disk, ResolveInclude(x, path)) =>
                   /\ ResolveInclude(x, path) \in Files
                   /\ <<ResolveInclude(x, path), ResolveInclude(x, path)>> \in R
  BY <1>3, <1>5 DEF Present
<1>6. ASSUME NEW q \in VersionPlace, Present(disk, From(q)),
             NEW path \in disk[From(q)].includes, Present(disk, ResolveInclude(From(q), path))
      PROVE  /\ ResolveInclude(To(q), path) \in Files
             /\ <<ResolveInclude(From(q), path), ResolveInclude(To(q), path)>> \in R
  <2>1. ResolveInclude(From(q), path) \in Files
    BY <1>6 DEF Present
  <2>2. CASE path.from = "packs"
    <3>1. ResolveInclude(From(q), path) = ResolveInclude(To(q), path)
      BY <2>2, RootTargets
    <3>2. QED
      BY <2>1, <3>1
  <2>3. CASE path.from = "version"
    <3>1. /\ ResolveInclude(From(q), path) = From(path.place)
          /\ ResolveInclude(To(q), path) = To(path.place)
      BY <2>3, IncludeTargets
    <3>2. path.place \in VersionPlace
      BY <1>1, <2>1, <3>1, FilesArePlaces, DirectoryFacts DEF PackFile, VersionFile, SharedFile
    <3>3. QED
      BY <1>2, <3>1, <3>2
  <2>4. CASE path.from \notin {"version", "packs"}
    <3>1. From(q) \in VersionFiles(source.dir, source.version) /\ Exists(From(q))
      BY <1>6 DEF VersionFiles, VersionPlace, Present, Exists
    <3>2. source.dir = d
      BY <1>6, <2>4, <3>1
    <3>3. ResolveInclude(From(q), path) = ResolveInclude(To(q), path)
      BY <2>4, <3>2, IncludeTargets
    <3>4. QED
      BY <2>1, <3>3
  <2>5. QED
    BY <2>2, <2>3, <2>4
<1>7. ASSUME NEW q \in VersionPlace, Present(disk, From(q))
      PROVE  Present(disk', To(q)) /\ disk'[To(q)] = disk[From(q)]
  BY <1>2, <1>4, <1>7 DEF Present
<1>8. Simulates(R, disk, disk')
  <2>1. SUFFICES ASSUME NEW x \in Files, NEW y \in Files, <<x, y>> \in R, Present(disk, x)
                 PROVE  /\ Present(disk', y)
                        /\ disk'[y] = disk[x]
                        /\ \A path \in disk[x].includes : Present(disk, ResolveInclude(x, path)) =>
                              /\ ResolveInclude(y, path) \in Files
                              /\ <<ResolveInclude(x, path), ResolveInclude(y, path)>> \in R
    BY DEF Simulates
  <2>2. x = y \/ \E q \in VersionPlace : x = From(q) /\ y = To(q)
    BY <2>1
  <2> HIDE DEF R
  <2>3. CASE x = y
    BY <1>5, <2>1, <2>3
  <2>4. CASE \E q \in VersionPlace : x = From(q) /\ y = To(q)
    <3>1. PICK q \in VersionPlace : x = From(q) /\ y = To(q)
      BY <2>4
    <3>2. Present(disk, From(q))
      BY <2>1, <3>1
    <3> HIDE DEF From, To
    <3>3. QED
      BY <1>6, <1>7, <3>1, <3>2
  <2>5. QED
    BY <2>2, <2>3, <2>4
<1>9. LoadsOn(disk, From(p)) /\ <<From(p), To(p)>> \in R
  BY LoadsIsOnDisk
<1>10. LoadsOn(disk', To(p))
  <2> HIDE DEF R
  <2>1. QED
    BY <1>2, <1>8, <1>9, SimulationLoads
<1>11. QED
  BY <1>10, LoadsIsOnDiskNext

\* The starter's files and a new pack.yaml load if the shared files that they include do.
LEMMA StartersLoad ==
    ASSUME DiskInv, NEW d \in Dir, NEW v \in Version, NEW source \in Source, New(d, v, source),
           NEW f, Exists(f)', NEW shared \in SUBSET Shared,
           \A s \in shared : Loads(SharedFile(s)),
           disk'[f].form = "good", disk'[f].includes = {InShared(s) : s \in shared}
    PROVE  Loads(f)'
<1>1. ASSUME NEW s \in shared
      PROVE  /\ Present(disk', ResolveInclude(f, InShared(s)))
             /\ LoadsOn(disk', ResolveInclude(f, InShared(s)))
  <2>1. ResolveInclude(f, InShared(s)) = SharedFile(s) /\ SharedFile(s) \in Files
    BY SharedTargets, PlacesAreFiles
  <2>2. Loads(SharedFile(s))'
    BY <2>1, NewKeepsLoads
  <2>3. LoadsOn(disk', SharedFile(s))
    BY <2>2, LoadsIsOnDiskNext
  <2>4. QED
    BY <2>1, <2>3 DEF LoadsOn
<1>2. ParsesOver(disk', f, {h \in Files : LoadsOn(disk', h)})
  BY <1>1 DEF ParsesOver, Present
<1>3. Present(disk', f)
  BY DEF Present, Exists
<1>4. QED
  BY <1>2, <1>3, LoadsOver, LoadsIsOnDiskNext

\* No effect has a file that loads and is of its kind or a template.
LEMMA NoEffect ==
    ASSUME NEW f
    PROVE  /\ Effect(f) = "none" <=>
                Loads(f) /\ (f.place = "template.yaml" \/ disk[f].form = "good")
           /\ Effect(f)' = "none" <=>
                Loads(f)' /\ (f.place = "template.yaml" \/ disk'[f].form = "good")
BY DEF Effect

\* What there is of a pack, before and after.
LEMMA NewExists ==
    ASSUME DiskInv, NEW d \in Dir, NEW v \in Version, NEW source \in Source, New(d, v, source)
    PROVE  /\ PackDirs' = PackDirs \cup {d}
           /\ \A e \in Dir, w \in Version : HasScenario(e, w) => HasScenario(e, w)'
           /\ \A e \in Dir \ {d}, w \in Version : HasScenario(e, w)' <=> HasScenario(e, w)
           /\ \A w \in Version \ {v} : HasScenario(d, w)' <=> HasScenario(d, w)
           /\ \A e \in Dir, w \in Version :
                 e # d \/ w # v => (HasTemplate(e, w)' <=> HasTemplate(e, w))
           /\ \A e \in PackDirs : SlugOf(e)' = SlugOf(e)
           /\ d \notin PackDirs => SlugOf(d)' = d
<1>1. ASSUME NEW e \in Dir
      PROVE  /\ PackFile(e, "pack.yaml") \in Files
             /\ PackFile(e, "pack.yaml").dir = e
             /\ \A w \in Version, p \in VersionPlace :
                   VersionFile(e, w, p) \in Files /\ VersionFile(e, w, p).dir = e
  BY PlacesAreFiles DEF PackFile, VersionFile
<1>2. "scenario.yaml" \in VersionPlace /\ "template.yaml" \in VersionPlace
  BY DEF VersionPlace
<1>3. \A f \in Files : /\ Exists(f) => Exists(f)'
                       /\ f.dir # d => (Exists(f)' <=> Exists(f)) /\ disk'[f] = disk[f]
  BY NewKeepsLoads, NewWrites
<1>4. ASSUME NEW w \in Version \ {v}, NEW p \in VersionPlace
      PROVE  /\ disk'[VersionFile(d, w, p)] = disk[VersionFile(d, w, p)]
             /\ Exists(VersionFile(d, w, p))' <=> Exists(VersionFile(d, w, p))
  <2>1. disk'[VersionFile(d, w, p)] = disk[VersionFile(d, w, p)]
    BY NewWrites
  <2>2. QED
    BY <2>1 DEF Exists
<1>5. ASSUME ~Exists(PackFile(d, "pack.yaml"))
      PROVE  Exists(PackFile(d, "pack.yaml"))' /\ SlugOf(d)' = d
  <2>1. disk'[PackFile(d, "pack.yaml")] = StarterPack(d)
    BY <1>5, NewWrites
  <2>2. StarterPack(d) # Absent
    BY PackFilesAssumption
  <2>3. QED
    BY <1>1, <2>1, <2>2 DEF Exists, SlugOf, StarterPack
<1>6. PackDirs' = PackDirs \cup {d}
  <2>1. ASSUME NEW e \in Dir
        PROVE  e \in PackDirs' <=> e \in PackDirs \cup {d}
    BY <1>1, <1>3, <1>5 DEF PackDirs
  <2>2. PackDirs' \subseteq Dir /\ PackDirs \subseteq Dir
    BY DEF PackDirs
  <2>3. QED
    BY <2>1, <2>2
<1>7. \A e \in Dir, w \in Version : HasScenario(e, w) => HasScenario(e, w)'
  BY <1>1, <1>2, <1>3 DEF HasScenario
<1>8. \A e \in Dir \ {d}, w \in Version : HasScenario(e, w)' <=> HasScenario(e, w)
  BY <1>1, <1>2, <1>3 DEF HasScenario
<1>9. \A w \in Version \ {v} : HasScenario(d, w)' <=> HasScenario(d, w)
  BY <1>2, <1>4 DEF HasScenario
<1>10. ASSUME NEW e \in Dir, NEW w \in Version, e # d \/ w # v
       PROVE  HasTemplate(e, w)' <=> HasTemplate(e, w)
  <2> DEFINE f == VersionFile(e, w, "template.yaml")
  <2>1. disk'[f] = disk[f] /\ (Exists(f)' <=> Exists(f))
    BY <1>1, <1>2, <1>3, <1>4, <1>10
  <2>2. QED
    BY <2>1 DEF HasTemplate
<1>11. ASSUME NEW e \in PackDirs PROVE SlugOf(e)' = SlugOf(e)
  <2>1. disk'[PackFile(e, "pack.yaml")] = disk[PackFile(e, "pack.yaml")]
    BY <1>1, NewWrites DEF PackDirs
  <2>2. QED
    BY <2>1 DEF SlugOf
<1>12. d \notin PackDirs => SlugOf(d)' = d
  BY <1>5 DEF PackDirs
<1>13. QED
  BY <1>6, <1>7, <1>8, <1>9, <1>10, <1>11, <1>12

\* A file that was there has no effect where it had none, drops its pack where it did,
\* and throws, if it throws now, only where it did before.
LEMMA NewKeepsEffects ==
    ASSUME DiskInv, NEW d \in Dir, NEW v \in Version, NEW source \in Source, New(d, v, source),
           NEW f \in Files, Exists(f)
    PROVE  /\ Exists(f)' /\ disk'[f] = disk[f]
           /\ Effect(f) \in {"none", "drops"} => Effect(f)' = Effect(f)
           /\ Effect(f)' = "throws" => Effect(f) = "throws"
<1>1. Exists(f)' /\ disk'[f] = disk[f] /\ (Loads(f) => Loads(f)')
  BY NewWrites, NewKeepsLoads
<1>2. QED
  BY <1>1 DEF Effect

\* A pack that loads or is dropped fares as before if what is newly read in it has no effect
\* or, in a pack that is dropped, comes after what drops it.
LEMMA EffectOfReads ==
    ASSUME DiskInv, NEW d \in Dir, NEW v \in Version, NEW source \in Source, New(d, v, source),
           NEW e \in PackDirs, PackEffect(e) # "throws"
    PROVE  /\ Read(e) \subseteq Read(e)'
           /\ PackEffect(e) # "none" => PackEffect(e)' # "none"
           /\ PackEffect(e)' = "throws" =>
                 \E f \in Read(e)' \ Read(e) : Effect(f)' = "throws"
           /\ PackEffect(e)' # "none" /\ PackEffect(e) = "none" =>
                 \E f \in Read(e)' \ Read(e) :
                    Effect(f)' = IF PackEffect(e)' = "throws" THEN "throws" ELSE "drops"
<1>1. e \in Dir
  BY DEF PackDirs
<1>2. \A w \in Version : HasScenario(e, w) => HasScenario(e, w)'
  BY <1>1, NewExists
<1>3. ScenarioVersions(e) \subseteq ScenarioVersions(e)'
  BY <1>2 DEF ScenarioVersions
<1>4. \A f : Exists(f) => f \in Files /\ Exists(f)'
  BY NewKeepsLoads DEF Exists
<1>5. Read(e) \subseteq Read(e)'
  <2>1. ASSUME NEW f \in Read(e) PROVE f \in Read(e)'
    BY <1>3, <1>4, ReadFacts, ReadFactsNext
  <2>2. QED
    BY <2>1
<1>6. \A f \in Read(e) :
         /\ Effect(f) \in {"none", "drops"} => Effect(f)' = Effect(f)
         /\ Effect(f)' = "throws" => Effect(f) = "throws"
  BY <1>4, ReadFacts, NewKeepsEffects
<1>7. /\ \A f : Effect(f) \in {"none", "drops", "throws"}
      /\ \A f : Effect(f)' \in {"none", "drops", "throws"}
  BY DEF Effect
<1>8. CASE \E f \in Read(e) : Effect(f) # "none"
  <2>1. \A f \in Read(e) : Effect(f) = "throws" =>
           \E g \in Read(e) : Effect(g) = "drops" /\ ~Precedes(e, f, g)
    BY <1>8 DEF PackEffect
  <2>2. PICK g \in Read(e) : Effect(g) = "drops"
    BY <1>7, <1>8, <2>1
  <2>3. g \in Read(e)' /\ Effect(g)' = "drops" /\ PackEffect(e) = "drops"
    BY <1>5, <1>6, <1>8, <2>2 DEF PackEffect
  <2>4. PackEffect(e)' # "none"
    BY <2>3 DEF PackEffect
  <2>5. ASSUME PackEffect(e)' = "throws"
        PROVE  \E f \in Read(e)' \ Read(e) : Effect(f)' = "throws"
    <3>1. PICK f \in Read(e)' :
             Effect(f)' = "throws" /\ \A h \in Read(e)' : Effect(h)' = "drops" => Precedes(e, f, h)'
      BY <2>3, <2>5 DEF PackEffect
    <3>2. ASSUME NEW h PROVE Precedes(e, f, h)' <=> Precedes(e, f, h)
      BY DEF Precedes, FileAt, Position, PackFile, VersionFile
    <3>3. ASSUME f \in Read(e) PROVE FALSE
      <4>1. PICK h \in Read(e) : Effect(h) = "drops" /\ ~Precedes(e, f, h)
        BY <1>6, <2>1, <3>1, <3>3
      <4>2. h \in Read(e)' /\ Effect(h)' = "drops"
        BY <1>5, <1>6, <4>1
      <4>3. QED
        BY <3>1, <3>2, <4>1, <4>2
    <3>4. QED
      BY <3>1, <3>3
  <2>6. QED
    BY <1>5, <2>3, <2>4, <2>5
<1>9. CASE \A f \in Read(e) : Effect(f) = "none"
  <2>1. PackEffect(e) = "none" /\ \A f \in Read(e) : Effect(f)' = "none"
    BY <1>6, <1>9 DEF PackEffect
  <2>2. ASSUME PackEffect(e)' = "throws"
        PROVE  \E f \in Read(e)' \ Read(e) : Effect(f)' = "throws"
    BY <2>1, <2>2 DEF PackEffect
  <2>3. ASSUME PackEffect(e)' = "drops"
        PROVE  \E f \in Read(e)' \ Read(e) : Effect(f)' = "drops"
    <3>1. PICK f \in Read(e)' : Effect(f)' # "none"
      BY <2>3 DEF PackEffect
    <3>2. \E g \in Read(e)' : Effect(g)' = "drops"
      BY <1>7, <2>3, <3>1 DEF PackEffect
    <3>3. QED
      BY <2>1, <3>2
  <2>4. PackEffect(e)' \in {"none", "drops", "throws"}
    BY DEF PackEffect
  <2>5. QED
    BY <1>5, <2>1, <2>2, <2>3, <2>4
<1>10. QED
  BY <1>8, <1>9

\* Into a directory that is ready, a scaffold that fits: the pack loads with it, for what it
\* had loads as before, and what is new is a starter or a copy of files that loaded.
LEMMA NewPackLoads ==
    ASSUME DiskInv, NEW d \in Dir, NEW v \in Version, NEW source \in Source, New(d, v, source),
           Ready(d), Fits(d, source)
    PROVE  PackEffect(d)' = "none" /\ \A f \in Read(d)' : Effect(f)' = "none"
<1>1. d \in PackDirs => \A f \in Read(d) : Effect(f) = "none"
  BY DEF Ready, Snapshot, Loaded, PackEffect
<1>2. d \notin PackDirs => ScenarioVersions(d) = {} /\ ~Exists(PackFile(d, "pack.yaml"))
  BY DEF Ready, PackDirs
<1>3. ASSUME NEW f, Exists(f)', f = PackFile(d, "pack.yaml")
      PROVE  Effect(f)' = "none"
  <2>1. f \in Files /\ f.place # "template.yaml"
    BY <1>3, PlacesAreFiles DEF PackFile
  <2>2. CASE Exists(f)
    <3>1. Effect(f) = "none" /\ disk'[f] = disk[f]
      BY <1>1, <1>3, <2>1, <2>2, ReadFacts, NewWrites DEF PackDirs
    <3>2. Loads(f)'
      BY <2>1, <3>1, NoEffect, NewKeepsLoads
    <3>3. QED
      BY <2>1, <3>1, <3>2, NoEffect
  <2>3. CASE ~Exists(f)
    <3>1. disk'[f] = StarterPack(d)
      BY <1>3, <2>3, NewWrites
    <3>2. disk'[f].form = "good" /\ disk'[f].includes = {}
      BY <3>1 DEF StarterPack
    <3>3. Loads(f)'
      <4> DEFINE none == {}
      <4>1. disk'[f].includes = {InShared(s) : s \in none} /\ none \in SUBSET Shared
        BY <3>2
      <4>2. \A s \in none : Loads(SharedFile(s))
        OBVIOUS
      <4> HIDE DEF none
      <4>3. QED
        BY <1>3, <3>2, <4>1, <4>2, StartersLoad
    <3>4. QED
      BY <3>2, <3>3, NoEffect
  <2>4. QED
    BY <2>2, <2>3
<1>4. ASSUME NEW f, Exists(f)', NEW w \in ScenarioVersions(d)', w # v,
             NEW p \in {"scenario.yaml", "template.yaml"}, f = VersionFile(d, w, p)
      PROVE  Effect(f)' = "none"
  <2>1. w \in Version /\ p \in VersionPlace
    BY DEF ScenarioVersions, VersionPlace
  <2>2. w \in ScenarioVersions(d)
    BY <1>4, <2>1, NewExists DEF ScenarioVersions
  <2>3. f \in Files /\ disk'[f] = disk[f] /\ Exists(f)
    BY <1>4, <2>1, PlacesAreFiles, NewWrites DEF Exists
  <2>4. Effect(f) = "none"
    BY <1>1, <1>2, <1>4, <2>2, <2>3, ReadFacts
  <2>5. Loads(f)'
    BY <2>3, <2>4, NoEffect, NewKeepsLoads
  <2>6. QED
    BY <2>3, <2>4, <2>5, NoEffect
<1>5. ASSUME NEW f, Exists(f)', NEW p \in {"scenario.yaml", "template.yaml"},
             f = VersionFile(d, v, p)
      PROVE  Effect(f)' = "none"
  <2>1. p \in VersionPlace /\ f.place = p /\ f \in Files
    BY <1>5, PlacesAreFiles DEF VersionPlace, VersionFile
  <2>2. disk'[f] = Scaffold(f, source)
    BY <1>5, <2>1, NewWrites
  <2>3. CASE source = NoSource
    <3>1. /\ StarterIncludes \subseteq Shared
          /\ \A s \in StarterIncludes : Loads(SharedFile(s))
      BY <2>3, PackFilesAssumption DEF Fits
    <3>2. disk'[f] = IF p = "scenario.yaml" THEN Plain({InShared(s) : s \in StarterIncludes})
                     ELSE Plain({})
      BY <2>1, <2>2, <2>3 DEF Scaffold, StarterFile
    <3>3. PICK shared \in SUBSET Shared :
             /\ \A s \in shared : Loads(SharedFile(s))
             /\ disk'[f].form = "good" /\ disk'[f].includes = {InShared(s) : s \in shared}
      <4>1. CASE p = "scenario.yaml"
        BY <3>1, <3>2, <4>1 DEF Plain
      <4>2. CASE p # "scenario.yaml"
        <5> DEFINE none == {}
        <5>1. {InShared(s) : s \in none} = {}
          OBVIOUS
        <5>2. disk'[f].form = "good" /\ disk'[f].includes = {InShared(s) : s \in none}
          BY <3>2, <4>2, <5>1 DEF Plain
        <5>3. none \in SUBSET Shared /\ \A s \in none : Loads(SharedFile(s))
          OBVIOUS
        <5> HIDE DEF none
        <5>4. QED
          BY <5>2, <5>3
      <4>3. QED
        BY <4>1, <4>2
    <3>4. Loads(f)'
      BY <1>5, <3>3, StartersLoad
    <3>5. QED
      BY <3>3, <3>4, NoEffect
  <2>4. CASE source # NoSource
    <3> DEFINE g == VersionFile(source.dir, source.version, p)
    <3>1. /\ source.dir \in Loaded
          /\ \/ source.dir = d
             \/ \A h \in VersionFiles(source.dir, source.version) :
                   Exists(h) => \A path \in disk[h].includes : path.from \in {"version", "packs"}
          /\ HasScenario(source.dir, source.version)
          /\ source.dir \in Dir /\ source.version \in Version
      BY <2>4 DEF Fits, Source
    <3>2. g \in Files /\ disk'[f] = disk[g] /\ Exists(g)
      BY <1>5, <2>1, <2>2, <2>4, <3>1, PlacesAreFiles DEF Scaffold, Exists
    <3>3. g \in Read(source.dir)
      <4>1. source.version \in ScenarioVersions(source.dir)
        BY <3>1 DEF ScenarioVersions
      <4>2. QED
        BY <3>2, <4>1, ReadFacts
    <3>4. Effect(g) = "none"
      BY <3>1, <3>3 DEF Loaded, PackEffect
    <3>5. Loads(g) /\ (g.place = "template.yaml" \/ disk[g].form = "good") /\ g.place = p
      BY <3>4, NoEffect DEF VersionFile
    <3>6. Loads(f)'
      BY <1>5, <2>1, <2>4, <3>1, <3>5, CopiesLoad
    <3>7. QED
      BY <2>1, <3>2, <3>5, <3>6, NoEffect
  <2>5. QED
    BY <2>3, <2>4
<1>6. \A f \in Read(d)' : Effect(f)' = "none"
  <2>1. ASSUME NEW f \in Read(d)' PROVE Effect(f)' = "none"
    <3>1. /\ Exists(f)'
          /\ \/ f = PackFile(d, "pack.yaml")
             \/ \E w \in ScenarioVersions(d)', p \in {"scenario.yaml", "template.yaml"} :
                   f = VersionFile(d, w, p)
      BY ReadFactsNext
    <3>2. QED
      BY <1>3, <1>4, <1>5, <3>1
  <2>2. QED
    BY <2>1
<1>7. QED
  BY <1>6 DEF PackEffect

\* No other pack fares otherwise, and no pack that was dropped loads.
LEMMA NewFates ==
    ASSUME DiskInv, NEW d \in Dir, NEW v \in Version, NEW source \in Source, New(d, v, source),
           ~LoadFails
    PROVE  /\ \A e \in PackDirs \ {d} :
                 Read(e)' = Read(e) /\ PackEffect(e)' # "throws" /\ (e \in Loaded => e \in Loaded')
           /\ \A e \in PackDirs : e \in Loaded' => e \in Loaded
           /\ LoadFails' => PackEffect(d)' = "throws"
<1>1. PackDirs' = PackDirs \cup {d} /\ PackDirs \subseteq Dir
  BY NewExists DEF PackDirs
<1>2. \A e \in PackDirs : PackEffect(e) # "throws"
  BY DEF LoadFails
<1>3. \A e : PackEffect(e) \in {"none", "drops", "throws"} /\ PackEffect(e)' \in {"none", "drops", "throws"}
  BY DEF PackEffect
<1>4. ASSUME NEW e \in PackDirs \ {d} PROVE Read(e)' = Read(e)
  <2>1. \A w \in Version : HasScenario(e, w)' <=> HasScenario(e, w)
    BY <1>1, NewExists
  <2>2. ScenarioVersions(e)' = ScenarioVersions(e)
    BY <2>1 DEF ScenarioVersions
  <2>3. \A f \in Files : f.dir # d => (Exists(f)' <=> Exists(f))
    BY NewKeepsLoads
  <2>4. /\ PackFile(e, "pack.yaml") \in Files /\ PackFile(e, "pack.yaml").dir = e
        /\ \A w \in ScenarioVersions(e), p \in {"scenario.yaml", "template.yaml"} :
              VersionFile(e, w, p) \in Files /\ VersionFile(e, w, p).dir = e
    BY <1>1, PlacesAreFiles DEF PackFile, VersionFile, ScenarioVersions, VersionPlace
  <2>5. ASSUME NEW f PROVE f \in Read(e)' <=> f \in Read(e)
    BY <2>2, <2>3, <2>4, ReadFacts, ReadFactsNext
  <2>6. QED
    BY <2>5
<1>5. ASSUME NEW e \in PackDirs \ {d}
      PROVE  PackEffect(e)' # "throws" /\ (e \in Loaded => e \in Loaded')
  <2>1. PackEffect(e)' # "throws"
    BY <1>2, <1>4, <1>5, EffectOfReads
  <2>2. PackEffect(e) = "none" => PackEffect(e)' = "none"
    BY <1>2, <1>4, <1>5, EffectOfReads
  <2>3. QED
    BY <1>1, <2>1, <2>2 DEF Loaded
<1>6. ASSUME NEW e \in PackDirs, e \in Loaded' PROVE e \in Loaded
  <2>1. PackEffect(e)' = "none"
    BY <1>6 DEF Loaded
  <2>2. PackEffect(e) = "none"
    BY <1>2, <2>1, EffectOfReads
  <2>3. QED
    BY <2>2 DEF Loaded
<1>7. LoadFails' => PackEffect(d)' = "throws"
  BY <1>1, <1>5 DEF LoadFails
<1>8. QED
  BY <1>4, <1>5, <1>6, <1>7

\* A pack that is served is served afterwards if it still loads, unless d becomes a pack
\* and takes its slug.
LEMMA NewShadows ==
    ASSUME DiskInv, NEW d \in Dir, NEW v \in Version, NEW source \in Source, New(d, v, source),
           ~LoadFails, NEW e \in Snapshot, e \in Loaded',
           d \notin PackDirs => SlugOf(e) # d
    PROVE  e \in Snapshot'
<1>1. e \in PackDirs /\ ~Shadowed(Loaded, e)
  BY DEF Snapshot, Loaded
<1>2. ASSUME NEW g \in LoadedAfter(Loaded, e)', SlugOf(g)' = SlugOf(e)' PROVE FALSE
  <2>1. g \in Loaded' /\ \E i, j \in DOMAIN Dirs : i < j /\ Dirs[i] = e /\ Dirs[j] = g
    BY <1>2 DEF LoadedAfter
  <2>2. g \in PackDirs' /\ PackDirs' = PackDirs \cup {d}
    BY <2>1, NewExists DEF Loaded
  <2>3. SlugOf(e)' = SlugOf(e)
    BY <1>1, NewExists
  <2>4. CASE g \in PackDirs
    <3>1. g \in Loaded /\ SlugOf(g)' = SlugOf(g)
      BY <2>1, <2>4, NewFates, NewExists
    <3>2. g \in LoadedAfter(Loaded, e)
      BY <2>1, <3>1 DEF LoadedAfter
    <3>3. QED
      BY <1>1, <1>2, <2>3, <3>1, <3>2 DEF Shadowed
  <2>5. CASE g \notin PackDirs
    <3>1. g = d /\ SlugOf(g)' = d
      BY <2>2, <2>5, NewExists
    <3>2. QED
      BY <1>2, <2>3, <2>5, <3>1
  <2>6. QED
    BY <2>4, <2>5
<1>3. ~Shadowed(Loaded, e)'
  BY <1>2 DEF Shadowed
<1>4. QED
  BY <1>3 DEF Snapshot

\* What is served under a scenarioRef stays the same while it is served.
LEMMA NewKeepsEntry ==
    ASSUME DiskInv, NEW d \in Dir, NEW v \in Version, NEW source \in Source, New(d, v, source),
           NEW e \in PackDirs, NEW w \in Version, HasScenario(e, w)
    PROVE  HasScenario(e, w)' /\ RegistryEntry(e, w)' = RegistryEntry(e, w)
<1>1. e \in Dir
  BY DEF PackDirs
<1>2. HasScenario(e, w)'
  BY <1>1, NewExists
<1>3. e # d \/ w # v
  BY DEF New, HasScenario, VersionFiles
<1>4. HasTemplate(e, w)' <=> HasTemplate(e, w)
  BY <1>1, <1>3, NewExists
<1>5. HasTemplate(e, w) \in BOOLEAN /\ HasTemplate(e, w)' \in BOOLEAN
  BY DEF HasTemplate, Exists
<1>6. HasTemplate(e, w)' = HasTemplate(e, w)
  BY <1>4, <1>5
<1>7. SlugOf(e)' = SlugOf(e)
  BY NewExists
<1>8. QED
  BY <1>2, <1>6, <1>7 DEF RegistryEntry, VersionFile

\* What is lost is lost in one of the three ways.
LEMMA NewLoses ==
    ASSUME DiskInv, NEW d \in Dir, NEW v \in Version, NEW source \in Source, New(d, v, source),
           ~LoadFails
    PROVE  LosesOnly(d)
<1>1. SUFFICES ASSUME NEW r \in Registry, r \notin Registry'
               PROVE  \/ LoadFails' /\ \E f \in NewlyRead(d) : Effect(f)' = "throws"
                      \/ r.file.dir = d /\ \E f \in NewlyRead(d) : Effect(f)' = "drops"
                      \/ d \notin PackDirs /\ r.slug = d
  BY DEF LosesOnly
<1>2. PICK e \in Snapshot, w \in Version : HasScenario(e, w) /\ r = RegistryEntry(e, w)
  BY <1>1 DEF Registry
<1>3. e \in Loaded /\ e \in PackDirs /\ PackEffect(e) = "none"
  BY DEF Snapshot, Loaded
<1>4. r.slug = SlugOf(e) /\ r.file.dir = e
  BY <1>2 DEF RegistryEntry, VersionFile
<1>5. CASE LoadFails'
  <2>1. PackEffect(d)' = "throws"
    BY <1>5, NewFates
  <2>2. CASE d \in PackDirs
    <3>1. PackEffect(d) # "throws"
      BY <2>2 DEF LoadFails
    <3>2. PICK f \in Read(d)' \ Read(d) : Effect(f)' = "throws"
      BY <2>1, <2>2, <3>1, EffectOfReads
    <3>3. f \in NewlyRead(d)
      BY <3>2 DEF NewlyRead
    <3>4. QED
      BY <1>5, <3>2, <3>3
  <2>3. CASE d \notin PackDirs
    <3>1. PICK f \in Read(d)' : Effect(f)' = "throws"
      BY <2>1 DEF PackEffect
    <3>2. f \in NewlyRead(d)
      BY <2>3, <3>1 DEF NewlyRead
    <3>3. QED
      BY <1>5, <3>1, <3>2
  <2>4. QED
    BY <2>2, <2>3
<1>6. CASE ~LoadFails'
  <2>1. CASE e \in Loaded'
    <3>1. HasScenario(e, w)' /\ RegistryEntry(e, w)' = r
      BY <1>2, <1>3, NewKeepsEntry
    <3>2. e \notin Snapshot'
      <4>1. SUFFICES ASSUME e \in Snapshot' PROVE r \in Registry'
        BY <1>1
      <4>2. <<e, w>> \in {x \in Snapshot' \X Version : HasScenario(x[1], x[2])'}
        BY <3>1, <4>1
      <4>3. RegistryEntry(e, w)' \in Registry'
        BY <1>6, <4>2 DEF Registry
      <4>4. QED
        BY <3>1, <4>3
    <3>3. QED
      BY <1>4, <2>1, <3>2, NewShadows
  <2>2. CASE e \notin Loaded'
    <3>1. e = d
      BY <1>3, <2>2, NewFates
    <3>2. e \in PackDirs' /\ PackEffect(e)' # "none"
      BY <1>3, <2>2, NewExists DEF Loaded
    <3>3. PackEffect(e)' # "throws"
      BY <1>6, <3>2 DEF LoadFails
    <3>4. PICK f \in Read(d)' \ Read(d) : Effect(f)' = "drops"
      BY <1>3, <3>1, <3>2, <3>3, EffectOfReads
    <3>5. f \in NewlyRead(d)
      BY <3>4 DEF NewlyRead
    <3>6. QED
      BY <1>4, <3>1, <3>4, <3>5
  <2>3. QED
    BY <2>1, <2>2
<1>7. QED
  BY <1>5, <1>6

\* Into a directory that is ready, a scaffold that fits takes nothing, and it is served.
LEMMA NewServes ==
    ASSUME DiskInv, NEW d \in Dir, NEW v \in Version, NEW source \in Source, New(d, v, source),
           ~LoadFails, Ready(d), Fits(d, source)
    PROVE  Registry \cup {RegistryEntry(d, v)'} \subseteq Registry'
<1>1. PackEffect(d)' = "none" /\ \A f \in Read(d)' : Effect(f)' = "none"
  BY NewPackLoads
<1>2. ~LoadFails'
  BY <1>1, NewFates
<1>3. PackDirs' = PackDirs \cup {d}
  BY NewExists
<1>4. d \in Loaded'
  BY <1>1, <1>3 DEF Loaded
<1>5. Registry \subseteq Registry'
  <2>1. SUFFICES ASSUME NEW r \in Registry, r \notin Registry' PROVE FALSE
    OBVIOUS
  <2>2. \A f \in NewlyRead(d) : Effect(f)' = "none"
    BY <1>1 DEF NewlyRead
  <2>3. d \notin PackDirs /\ r.slug = d
    BY <1>2, <2>1, <2>2, NewLoses DEF LosesOnly
  <2>4. PICK e \in PackDirs : r.slug = SlugOf(e)
    <3>1. PICK e \in Snapshot, w \in Version : r = RegistryEntry(e, w)
      BY DEF Registry
    <3>2. e \in PackDirs /\ r.slug = SlugOf(e)
      BY <3>1 DEF Snapshot, Loaded, RegistryEntry
    <3>3. QED
      BY <3>2
  <2>5. QED
    BY <2>3, <2>4 DEF Ready
<1>6. HasScenario(d, v)'
  <2> DEFINE f == VersionFile(d, v, "scenario.yaml")
  <2>1. f \in Files /\ f.place = "scenario.yaml"
    BY PlacesAreFiles DEF VersionPlace, VersionFile
  <2>2. disk'[f] = Scaffold(f, source)
    BY NewWrites DEF VersionPlace
  <2>3. disk'[f] # Absent
    <3>1. CASE source = NoSource
      BY <2>1, <2>2, <3>1, PackFilesAssumption DEF Scaffold
    <3>2. CASE source # NoSource
      BY <2>1, <2>2, <3>2 DEF Scaffold, Fits, HasScenario, Exists
    <3>3. QED
      BY <3>1, <3>2
  <2>4. QED
    BY <2>1, <2>3 DEF HasScenario, Exists
<1>7. d \in Snapshot'
  <2>1. CASE d \in PackDirs
    BY <1>4, <2>1, NewShadows DEF Ready
  <2>2. CASE d \notin PackDirs
    <3>1. ASSUME NEW g \in LoadedAfter(Loaded, d)' PROVE SlugOf(g)' # SlugOf(d)'
      <4>1. PICK i, j \in DOMAIN Dirs : i < j /\ Dirs[i] = d /\ Dirs[j] = g
        BY <3>1 DEF LoadedAfter
      <4>2. g # d
        BY <4>1, DirectoryFacts, PackFilesAssumption
      <4>3. g \in PackDirs
        BY <1>3, <3>1, <4>2 DEF LoadedAfter, Loaded
      <4>4. SlugOf(g)' = SlugOf(g) /\ SlugOf(d)' = d
        BY <2>2, <4>3, NewExists
      <4>5. QED
        BY <2>2, <4>3, <4>4 DEF Ready
    <3>2. ~Shadowed(Loaded, d)'
      BY <3>1 DEF Shadowed
    <3>3. QED
      BY <1>4, <3>2 DEF Snapshot
  <2>3. QED
    BY <2>1, <2>2
<1>8. RegistryEntry(d, v)' \in Registry'
  <2>1. <<d, v>> \in {x \in Snapshot' \X Version : HasScenario(x[1], x[2])'}
    BY <1>6, <1>7
  <2>2. QED
    BY <1>2, <2>1 DEF Registry
<1>9. QED
  BY <1>5, <1>8

\* For every disk that the service can load, every version and every source: scenario:new
\* changes the service's scenarioRefs in no way but those that NewOnlyAdds names, and into a
\* directory that is ready, a scaffold that fits takes nothing and is served.
THEOREM NewAdds == PacksSpec => NewOnlyAdds
<1>1. PacksSpec => []DiskInv
  BY DiskInductive, PTL DEF PacksSpec
<1>2. DiskInv => AddsOnly
  <2>1. SUFFICES ASSUME DiskInv, ~LoadFails, NEW d \in Dir, NEW v \in Version,
                        NEW source \in Source, New(d, v, source)
                 PROVE  /\ LosesOnly(d)
                        /\ Ready(d) /\ Fits(d, source) =>
                              Registry \cup {RegistryEntry(d, v)'} \subseteq Registry'
    BY DEF AddsOnly
  <2>2. QED
    BY <2>1, NewLoses, NewServes
<1>3. QED
  BY <1>1, <1>2, PTL DEF NewOnlyAdds
===============================================================================
