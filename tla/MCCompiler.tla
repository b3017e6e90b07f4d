----------------------------- MODULE MCCompiler -----------------------------
(* A small instance of Compiler for TLC. *)
EXTENDS Compiler

Resolver == INSTANCE TemplateResolver
ResolverMerge(base, override) == Resolver!deepMerge(base, override)
ResolverPlaceholders(tree) == Resolver!Placeholders(tree)
ResolverSubstitute(tree, variables) == Resolver!substitute(tree, variables)

X == Leaf("x")
Y == Leaf("y")
AtA == <<"inputs", "a">>
AtAN == <<"inputs", "a", "n">>
AtB == <<"inputs", "b">>
Nested == Object([n |-> X])

SmallDefaults == [a |-> {Undefined, Nested}, b |-> {Undefined, X}]
SmallTypes == [a |-> "object", b |-> "leaf"]

agent(id, ref) == Object([id |-> Leaf(id), agentRef |-> Leaf(ref)])
SmallAgents == {Leaf("risk-agent"), Leaf("fraud-agent")}
Two == Array(<<agent("risk", "risk-agent"), agent("fraud", "fraud-agent")>>)
One == Array(<<agent("fraud", "fraud-agent")>>)
Unknown == Array(<<agent("risk", "risk-agent"), agent("ghost", "ghost-agent")>>)

kickoff(from, payload) == Array(<<Object([from |-> from, payload |-> payload])>>)

SmallLaunch ==
    [participants |-> {Two, Unknown},
     contextTemplate |-> {Undefined, Object([c |-> Exact(AtAN), d |-> Mixed(AtB)])},
     metadataTemplate |-> {Undefined, Object([intent |-> Exact(AtA)])},
     kickoffTemplate |-> {Undefined, kickoff(Leaf("fraud"), Exact(AtB)), kickoff(Exact(AtB), X)},
     commitments |-> {Undefined, Array(<<Object([id |-> Mixed(AtB)])>>)},
     initiatorParticipantId |-> {Undefined, Leaf("risk")}]

Empty == [k \in {} |-> Undefined]
SmallTemplates ==
    {[defaults |-> [b |-> Y], launch |-> Undefined, runtime |-> Empty],
     [defaults |-> Empty, runtime |-> [version |-> "v2"],
      launch |-> Object([participants |-> One, policyVersion |-> Leaf("strict"),
                         contextTemplate |-> Object([c |-> X])])]}

SmallInputs == {Empty, [a |-> Object([m |-> X])], [b |-> Y], [a |-> Nested, b |-> Exact(AtA)], [b |-> Nested]}
=============================================================================
