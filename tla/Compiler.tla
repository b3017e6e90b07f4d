------------------------------- MODULE Compiler -------------------------------
(***************************************************************************)
(* What becomes of a scenario and a template that the registry has served: *)
(*   compile          src/src/compiler/compiler.service.ts,                *)
(*   getLaunchSchema  src/src/launch/launch.service.ts, the form a client  *)
(*                    fills in before it compiles,                         *)
(*   validate         src/scripts/scenario/validate.ts, which its author   *)
(*                    runs before either.                                  *)
(* The three merge and check the same files, each in code of its own.      *)
(*                                                                         *)
(* The steps are those of the people: an author edits the scenario, the    *)
(* template or a fixture, and a client chooses its inputs.                 *)
(***************************************************************************)
EXTENDS Trees, SequencesExt

CONSTANTS
    DeepMerge(_, _), PlaceholdersIn(_), Substitute(_, _), \* as in TemplateResolver
    Defaults,   \* of each input: the defaults its property may be given, or Undefined
    TypeOf,     \* of each input: the type its schema asks for, "leaf" or "object"
    LaunchTrees, \* of each key of spec.launch: what authors write under it, or Undefined
    Templates,  \* what a template may say: [defaults, launch, runtime]
    Inputs,     \* what a client sends and what a fixture holds
    MaxFixtures, \* bound on the files under fixtures/
    NoTemplate,
    KnownAgents \* the agentRefs of the example-agent catalog

\* Of the definitions that go down a tree nothing is assumed but that a placeholder is a
\* path of keys; what JSON sends has no undefined in it.
ASSUME CompilerAssumption ==
    /\ "participants" \in DOMAIN LaunchTrees
    /\ \A k \in DOMAIN LaunchTrees : \A tree \in LaunchTrees[k] \cup {Undefined} :
          PlaceholdersIn(tree) \subseteq Seq(STRING)
    /\ \A i \in Inputs : \A k \in DOMAIN i : i[k] # Undefined

VARIABLES
    schema,    \* spec.inputs.schema: [properties, required]
    launch,    \* spec.launch
    template,  \* the template asked for, or NoTemplate
    fixtures,  \* the files under fixtures/
    inputs     \* the client's inputs

vars == <<schema, launch, template, fixtures, inputs>>

Init ==
    /\ schema = [properties |-> [k \in DOMAIN Defaults |-> [type |-> TypeOf[k], default |-> Undefined]],
                 required |-> {}]
    /\ launch \in {Object([k \in {"participants"} |-> tree]) :
                     tree \in LaunchTrees["participants"]}
    /\ template = NoTemplate
    /\ fixtures = {}
    /\ inputs \in Inputs

AuthorDeclares(k, default) ==
    /\ schema' = [schema EXCEPT !.properties[k].default = default]
    /\ UNCHANGED <<launch, template, fixtures, inputs>>

AuthorRequires(keys) ==
    /\ schema' = [schema EXCEPT !.required = keys]
    /\ UNCHANGED <<launch, template, fixtures, inputs>>

AuthorWrites(k, tree) ==
    /\ launch' = Object([j \in (DOMAIN launch.at \cup {k}) \ (IF tree = Undefined THEN {k} ELSE {}) |->
                            IF j = k THEN tree ELSE launch.at[j]])
    /\ UNCHANGED <<schema, template, fixtures, inputs>>

AuthorOverrides(t) ==
    /\ template' = t
    /\ UNCHANGED <<schema, launch, fixtures, inputs>>

AuthorSavesFixture(f) ==
    /\ Cardinality(fixtures \cup {f}) <= MaxFixtures
    /\ fixtures' = fixtures \cup {f}
    /\ UNCHANGED <<schema, launch, template, inputs>>

ClientChooses(i) ==
    /\ inputs' = i
    /\ UNCHANGED <<schema, launch, template, fixtures>>

Next ==
    \/ \E k \in DOMAIN Defaults, default \in UNION {Defaults[j] : j \in DOMAIN Defaults} :
          default \in Defaults[k] /\ AuthorDeclares(k, default)
    \/ \E keys \in SUBSET DOMAIN Defaults : AuthorRequires(keys)
    \/ \E k \in DOMAIN LaunchTrees : \E tree \in LaunchTrees[k] : AuthorWrites(k, tree)
    \/ \E t \in Templates \cup {NoTemplate} : AuthorOverrides(t)
    \/ \E f \in Inputs : AuthorSavesFixture(f)
    \/ \E i \in Inputs : ClientChooses(i)

Spec == Init /\ [][Next]_vars

-----------------------------------------------------------------------------
\* substitute() throws at the first placeholder that is undefined.
Unresolved(tree, variables) ==
    {p \in PlaceholdersIn(tree) : resolvePath(variables, p) = Undefined}

NoInputs == [k \in {} |-> Undefined]
Runtime == [kind |-> "rust", version |-> "v1"]
Substituted == {"contextTemplate", "metadataTemplate", "kickoffTemplate"}

mergeDefaults(defaults, t) == IF t = NoTemplate THEN defaults ELSE spread(defaults, t.defaults)

mergeLaunch(base, t) ==
    IF t = NoTemplate \/ t.launch = Undefined THEN base ELSE DeepMerge(base, t.launch)

mergeRuntime(base, t) == IF t = NoTemplate THEN base ELSE spread(base, t.runtime)

\* The JSON Schema of the inputs: required keys, and a type for each property.
validates(data) ==
    /\ schema.required \subseteq DOMAIN data
    /\ \A k \in DOMAIN data \cap DOMAIN schema.properties :
          (data[k].is = "object") <=> (schema.properties[k].type = "object")

Variables(data) == Object([k \in {"inputs"} |-> Object(data)])

Error(code) == [error |-> code]

participantsOf(tree) ==
    [i \in DOMAIN Entry(tree, "participants").items |->
        [participantId |-> Entry(Entry(tree, "participants").items[i], "id"),
         agentRef |-> Entry(Entry(tree, "participants").items[i], "agentRef")]]

First(tree) == IF tree.is = "array" /\ tree.items # <<>> THEN tree.items[1] ELSE Undefined

\* launch.initiatorParticipantId ?? kickoffTemplate?.[0]?.from ?? participants[0]?.id
initiatorOf(tree, kickoff) ==
    LET candidates == <<Entry(tree, "initiatorParticipantId"),
                        Entry(First(kickoff), "from"),
                        Entry(First(Entry(tree, "participants")), "id"), Undefined>>
        given == {i \in DOMAIN candidates : candidates[i] # Undefined}
    IN candidates[IF given = {} THEN Len(candidates) ELSE Min(given)]

compile(t, data) ==
    LET merged == spread(mergeDefaults(extractSchemaDefaults(schema), t), data)
        tree == mergeLaunch(launch, t)
        filled == [k \in Substituted |-> Substitute(Entry(tree, k), Variables(merged))]
    IN IF ~validates(merged) THEN Error("VALIDATION_ERROR")
       ELSE IF \E k \in Substituted : Unresolved(Entry(tree, k), Variables(merged)) # {}
       THEN Error("COMPILATION_ERROR")
       ELSE [error |-> "none",
             context |-> filled["contextTemplate"],
             metadata |-> filled["metadataTemplate"],
             kickoff |-> First(filled["kickoffTemplate"]),
             policyVersion |-> Entry(tree, "policyVersion"),
             runtime |-> mergeRuntime(Runtime, t),
             participantBindings |-> participantsOf(tree),
             initiator |-> initiatorOf(tree, filled["kickoffTemplate"])]

\* Mutant of getLaunchSchema: the template's launch overrides do not show.
getLaunchSchemaOfScenario(t) ==
    IF \E p \in Range(participantsOf(launch)) : p.agentRef \notin KnownAgents
    THEN Error("AGENT_NOT_FOUND")
    ELSE [error |-> "none",
          defaults |-> mergeDefaults(extractSchemaDefaults(schema), t),
          participants |-> participantsOf(launch),
          policyVersion |-> Entry(launch, "policyVersion"),
          runtime |-> mergeRuntime(Runtime, t),
          initiator |-> Entry(launch, "initiatorParticipantId")]

\* The form sums up every participant's agent, and an unknown one refuses it.
getLaunchSchema(t) ==
    LET tree == mergeLaunch(launch, t) IN
    IF \E p \in Range(participantsOf(tree)) : p.agentRef \notin KnownAgents
    THEN Error("AGENT_NOT_FOUND")
    ELSE [error |-> "none",
          defaults |-> mergeDefaults(extractSchemaDefaults(schema), t),
          participants |-> participantsOf(tree),
          policyVersion |-> Entry(tree, "policyVersion"),
          runtime |-> mergeRuntime(Runtime, t),
          initiator |-> Entry(tree, "initiatorParticipantId")]

-----------------------------------------------------------------------------
\* scenario:validate.  A fixture counts on top of the schema's defaults.
MergedFixtures == {spread(extractSchemaDefaults(schema), f) : f \in fixtures}
ValidFixtures == {f \in MergedFixtures : validates(f)}

PlaceholderSources == {Variables(extractSchemaDefaults(schema))} \cup {Variables(f) : f \in ValidFixtures}

\* Mutant of collectPlaceholders: arrays, and with them the kickoff, are not walked.
collectPlaceholdersOfObjects ==
    UNION {PlaceholdersIn(Entry(launch, k)) : k \in {"contextTemplate", "metadataTemplate"}}

collectPlaceholders ==
    UNION {PlaceholdersIn(Entry(launch, k)) : k \in Substituted \cup {"commitments"}}

UnreachablePlaceholders ==
    {p \in collectPlaceholders : \A s \in PlaceholderSources : resolvePath(s, p) = Undefined}

UnknownAgents ==
    {p \in Range(participantsOf(launch)) : p.agentRef \notin KnownAgents}

\* The exit code: a template that does not fit is a warning, and so is a commitment
\* without a description.
runValidate ==
    IF ValidFixtures # MergedFixtures \/ UnreachablePlaceholders # {} \/ UnknownAgents # {}
    THEN 1 ELSE 0

-----------------------------------------------------------------------------
\* What the form of a scenario and a template shows is what a run of them is compiled
\* to, whatever the client sends: the same participants, policy and runtime, the same
\* initiator where the form names one, and sending the form's defaults along with the
\* inputs changes nothing.  A form also promises that every agent of the run resolves.
FormMatchesRun ==
    LET form == getLaunchSchema(template)
        run == compile(template, inputs)
    IN form.error = "none" =>
          /\ compile(template, spread(form.defaults, inputs)) = run
          /\ run.error = "none" =>
                /\ run.participantBindings = form.participants
                /\ run.policyVersion = form.policyVersion
                /\ run.runtime = form.runtime
                /\ form.initiator # Undefined => run.initiator = form.initiator
                /\ \A p \in Range(run.participantBindings) : p.agentRef \in KnownAgents

\* A fixture that puts an object in the place of a default hides what the default held.
HidesNoDefault(f) ==
    \A k \in DOMAIN f : schema.properties[k].default.is # "object"

\* A scenario that passes scenario:validate compiles, without a template, from its
\* fixture if it has one that hides no nested default, and if it has none fails to
\* compile at most for a missing input, never for a placeholder.  (Of several sources
\* each placeholder needs to be reachable from one only, therefore the restriction.)
ValidatedCompiles ==
    runValidate = 0 =>
        /\ \A f \in fixtures :
              fixtures = {f} /\ HidesNoDefault(f) => compile(NoTemplate, f).error = "none"
        /\ fixtures = {} => compile(NoTemplate, NoInputs).error # "COMPILATION_ERROR"
=============================================================================
