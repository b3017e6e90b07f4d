----------------------------- MODULE MCPackFiles -----------------------------
(* A small instance of PackFiles for TLC. *)
EXTENDS PackFiles, TLC

TwoDirs == <<"fraud", "claims">>
TwoVersions == <<"1.0.0", "2.0.0">>
OneLink == {"claims"}
TwoShared == {"hints.yaml", "agents.yaml"}

good(includes) == Plain(includes)
bad(form) == [form |-> form, includes |-> {}, tidy |-> TRUE]
pack(form, slug) == [form |-> form, includes |-> {}, tidy |-> TRUE, slug |-> slug]

OwnData == InVersion("data.yaml")
PackData == InPack("-", "data/common.yaml")
FirstsData == InPack("1.0.0", "data.yaml")
Hints == InShared("hints.yaml")
Agents == InShared("agents.yaml")
OfFraud == InRoot("fraud", "1.0.0", "data.yaml")
Nowhere == InRoot("nowhere", "-", "refused")

SmallContents ==
    "pack.yaml" :> {Absent, pack("good", "fraud"), pack("good", "claims"), pack("empty", "claims")} @@
    "scenario.yaml" :> {Absent, good({}), good({OwnData, OfFraud}), good({PackData, Hints}),
                        bad("empty"), bad("wrong"), [good({}) EXCEPT !.tidy = FALSE]} @@
    "template.yaml" :> {Absent, bad("broken")} @@
    "data.yaml" :> {Absent, good({}), good({FirstsData, Nowhere})} @@
    "data/common.yaml" :> {Absent, good({})} @@
    "hints.yaml" :> {Absent, good({}), good({Agents})} @@
    "agents.yaml" :> {Absent, good({Hints})}

OneScenario ==
    [f \in Files |->
        CASE f = PackFile("fraud", "pack.yaml") -> pack("good", "fraud")
          [] f = VersionFile("fraud", "1.0.0", "scenario.yaml") -> good({OwnData, Hints})
          [] f = VersionFile("fraud", "1.0.0", "template.yaml") -> good({})
          [] f = VersionFile("fraud", "1.0.0", "data.yaml") -> good({})
          [] f.dir = "_shared" -> good({})
          [] OTHER -> Absent]
=============================================================================
