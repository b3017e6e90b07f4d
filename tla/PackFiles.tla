------------------------------ MODULE PackFiles ------------------------------
(***************************************************************************)
(* The scenario packs on disk and the programs that read and write them:   *)
(*   Loads, loadAll       src/src/registry/include-resolver.ts and         *)
(*                        file-registry.loader.ts, which the service runs, *)
(*   Registry             the lookups of registry-index.service.ts,        *)
(*   lint, New            src/scripts/scenario/lint.ts and new.ts, which   *)
(*                        authors run.                                     *)
(*                                                                         *)
(* Of a file counts whether it parses, whether apiVersion and kind are     *)
(* those of its place, what it includes and the slug of a pack.  Includes  *)
(* are relative paths, so they move with a file that is copied.            *)
(***************************************************************************)
EXTENDS Naturals, Sequences, FiniteSetsExt

CONSTANTS
    Dirs,      \* the directories under PACKS_DIR without a leading '_', as readdir lists them
    Versions,  \* the <scenario>/<version> directories of a pack, as readdir lists them
    Shared,    \* the files under _shared/
    StarterIncludes, \* the files of _shared/ that the starter scenario includes
    Linkable,  \* the directories that may be symbolic links to directories elsewhere
    Contents,  \* of each place: what an author may write there
    FirstDisk, \* the files to begin with
    MaxEdits,  \* bound on the edits of files
    Absent, NoSource

VARIABLES
    disk,
    links,  \* the directories that are symbolic links
    edits

packVars == <<disk, links, edits>>

Dir == {Dirs[i] : i \in DOMAIN Dirs}
Version == {Versions[i] : i \in DOMAIN Versions}

\* A file by its directory, its version directory where it has one, and its place.
PackFile(d, place) == [dir |-> d, version |-> "-", place |-> place]
VersionFile(d, v, place) == [dir |-> d, version |-> v, place |-> place]
SharedFile(s) == [dir |-> "_shared", version |-> "-", place |-> s]

VersionFiles(d, v) == {VersionFile(d, v, p) : p \in {"scenario.yaml", "template.yaml", "data.yaml"}}
Files ==
    {PackFile(d, p) : d \in Dir, p \in {"pack.yaml", "data/common.yaml"}}
        \cup (UNION {VersionFiles(d, v) : d \in Dir, v \in Version})
        \cup {SharedFile(s) : s \in Shared}

Exists(f) == f \in Files /\ disk[f] # Absent

\* An include is a path from the directory of the file's version, from that of its pack
\* or from the packs root; one that is empty, leaves PACKS_DIR or has another extension
\* leads to no file.
InVersion(place) == [from |-> "version", place |-> place]
InPack(v, place) == [from |-> "pack", version |-> v, place |-> place]
InRoot(d, v, place) == [from |-> "packs", dir |-> d, version |-> v, place |-> place]
InShared(s) == InRoot("_shared", "-", s)

ResolveInclude(f, path) ==
    [dir     |-> IF path.from = "packs" THEN path.dir ELSE f.dir,
     version |-> IF path.from = "version" THEN f.version ELSE path.version,
     place   |-> path.place]

\* loadYamlWithIncludes: the file and all it includes parse, and nothing includes what
\* is being included already, so that the includes are nested no deeper than there are
\* files.
Depth == Cardinality(Files)

Loads(f) ==
    LET parses[n \in 0 .. Depth] ==
            [g \in Files |->
                /\ disk[g].form # "broken"
                /\ \A path \in disk[g].includes :
                      LET h == ResolveInclude(g, path) IN
                      n > 0 /\ Exists(h) /\ parses[n - 1][h]]
    IN Exists(f) /\ parses[Depth][f]

-----------------------------------------------------------------------------
\* A directory is a pack if it has a pack.yaml, and a version if it has a scenario.yaml.
\* The loader's stat() follows a symbolic link.
PackDirs == {d \in Dir : Exists(PackFile(d, "pack.yaml"))}
HasScenario(d, v) == Exists(VersionFile(d, v, "scenario.yaml"))
ScenarioVersions(d) == {v \in Version : HasScenario(d, v)}

\* The i-th file that loadPackFile and discoverScenarios come to; they read it if it is
\* there.
Position == 1 .. 1 + 2 * Len(Versions)
FileAt(d, i) ==
    IF i = 1 THEN PackFile(d, "pack.yaml")
    ELSE VersionFile(d, Versions[i \div 2], IF i % 2 = 0 THEN "scenario.yaml" ELSE "template.yaml")

Precedes(d, f, g) == \E i, j \in Position : i < j /\ f = FileAt(d, i) /\ g = FileAt(d, j)

Read(d) ==
    {f \in {FileAt(d, i) : i \in Position} :
        Exists(f) /\ (f.place = "pack.yaml" \/ HasScenario(d, f.version))}

\* An AppException ends the whole load.  An empty pack.yaml or scenario.yaml makes a
\* TypeError, which loses the pack only.  A template of another kind is passed over.
Effect(f) ==
    IF ~Loads(f) THEN "throws"
    ELSE IF f.place = "template.yaml" \/ disk[f].form = "good" THEN "none"
    ELSE IF disk[f].form = "empty" THEN "drops"
    ELSE "throws"

PackEffect(d) ==
    IF \A f \in Read(d) : Effect(f) = "none" THEN "none"
    ELSE IF \E f \in Read(d) :
                /\ Effect(f) = "throws"
                /\ \A g \in Read(d) : Effect(g) = "drops" => Precedes(d, f, g)
    THEN "throws" ELSE "drops"

LoadFails == \E d \in PackDirs : PackEffect(d) = "throws"

SlugOf(d) == disk[PackFile(d, "pack.yaml")].slug

\* The packs that load without an error, and of these the ones that are served:
\* packs.set(slug, ...) replaces an earlier pack of the same slug.
Loaded == {d \in PackDirs : PackEffect(d) = "none"}
LoadedAfter(packs, d) ==
    {e \in packs : \E i, j \in DOMAIN Dirs : i < j /\ Dirs[i] = d /\ Dirs[j] = e}
Shadowed(packs, d) == \E e \in LoadedAfter(packs, d) : SlugOf(e) = SlugOf(d)
Snapshot == LET packs == Loaded IN {d \in packs : ~Shadowed(packs, d)}

\* getScenarioVersion and getTemplate: the scenarioRefs that are found, the scenario.yaml
\* each leads to, and whether there is a template.  A load that fails fails the lookups.
HasTemplate(d, v) ==
    LET f == VersionFile(d, v, "template.yaml") IN Exists(f) /\ disk[f].form = "good"
RegistryEntry(d, v) ==
    [slug |-> SlugOf(d), version |-> v,
     file |-> VersionFile(d, v, "scenario.yaml"), template |-> HasTemplate(d, v)]
Registry ==
    IF LoadFails THEN {}
    ELSE {RegistryEntry(dv[1], dv[2]) :
             dv \in {x \in Snapshot \X Version : HasScenario(x[1], x[2])}}

-----------------------------------------------------------------------------
\* listPackDirs asks the directory entry, which says of a symbolic link that it is one.
LintPackDirs == PackDirs \ links

\* Mutant of LintErrors: templates are not loaded.
LintErrorsOfScenarios(d) ==
    LET pack == PackFile(d, "pack.yaml") IN
    IF ~Loads(pack) \/ disk[pack].form = "empty" THEN {pack}
    ELSE {f \in {pack} \cup {VersionFile(d, v, "scenario.yaml") : v \in ScenarioVersions(d)} :
             ~Loads(f) \/ ~disk[f].tidy}

\* lintPack: the files with an error; the templates of a scenario that does not load are
\* passed over.  Untidy are a slug that is not kebab-case, a commitment
\* without description and an agentRef that is not in the catalog.  An empty pack.yaml
\* ends the whole program.
LintErrors(d) ==
    LET pack == PackFile(d, "pack.yaml") IN
    IF ~Loads(pack) \/ disk[pack].form = "empty" THEN {pack}
    ELSE {f \in {pack} \cup UNION {VersionFiles(d, v) : v \in ScenarioVersions(d)} :
             /\ f.place # "data.yaml"
             /\ f.place = "template.yaml" => Loads(VersionFile(d, f.version, "scenario.yaml"))
             /\ Exists(f)
             /\ ~Loads(f) \/ (f.place # "template.yaml" /\ ~disk[f].tidy)}

\* runLint on the packs root: a root without packs is an error, too.
LintPasses == LintPackDirs # {} /\ \A d \in LintPackDirs : LintErrors(d) = {}

-----------------------------------------------------------------------------
PacksInit == disk = FirstDisk /\ links \in SUBSET Linkable /\ edits = 0

Edit(f, content) ==
    /\ edits < MaxEdits
    /\ disk' = [disk EXCEPT ![f] = content]
    /\ edits' = edits + 1
    /\ UNCHANGED links

Plain(includes) == [form |-> "good", includes |-> includes, tidy |-> TRUE]
StarterPack(d) == [form |-> "good", includes |-> {}, tidy |-> TRUE, slug |-> d]
StarterFile(place) ==
    CASE place = "scenario.yaml" -> Plain({InShared(s) : s \in StarterIncludes})
      [] place = "template.yaml" -> Plain({})
      [] OTHER -> Absent

\* The scaffold: the starter, or a copy of the files of another version.
Scaffold(f, source) ==
    IF source = NoSource THEN StarterFile(f.place)
    ELSE disk[VersionFile(source.dir, source.version, f.place)]

\* Mutant of New: pack.yaml is written although there is one.
NewWithPack(d, v, source) ==
    /\ \A f \in VersionFiles(d, v) : ~Exists(f)
    /\ source # NoSource => \E f \in VersionFiles(source.dir, source.version) : Exists(f)
    /\ disk' = [f \in Files |->
                  IF f.dir = d /\ f.version = v THEN Scaffold(f, source)
                  ELSE IF f = PackFile(d, "pack.yaml") THEN StarterPack(d)
                  ELSE disk[f]]
    /\ UNCHANGED <<links, edits>>

\* scenario:new.  It refuses to overwrite a version and to copy from one that is not
\* there; pack.yaml is written only where there is none.
New(d, v, source) ==
    /\ \A f \in VersionFiles(d, v) : ~Exists(f)
    /\ source # NoSource => \E f \in VersionFiles(source.dir, source.version) : Exists(f)
    /\ disk' = [f \in Files |->
                  IF f.dir = d /\ f.version = v THEN Scaffold(f, source)
                  ELSE IF f = PackFile(d, "pack.yaml") /\ ~Exists(f) THEN StarterPack(d)
                  ELSE disk[f]]
    /\ UNCHANGED <<links, edits>>

Source == [dir : Dir, version : Version] \cup {NoSource}

\* readdir lists a name once, and no name stands for two places; an absent file has no
\* content, a disk has finitely many files, and each is of a form the loader tells apart.
Form == {"good", "empty", "wrong", "broken"}

ASSUME PackFilesAssumption ==
    /\ Len(Dirs) \in Nat /\ DOMAIN Dirs = 1 .. Len(Dirs)
    /\ \A i, j \in DOMAIN Dirs : Dirs[i] = Dirs[j] => i = j
    /\ Len(Versions) \in Nat /\ DOMAIN Versions = 1 .. Len(Versions)
    /\ "_shared" \notin Dir /\ "-" \notin Version
    /\ IsFiniteSet(Files) /\ StarterIncludes \subseteq Shared /\ Linkable \subseteq Dir
    /\ Absent \notin {StarterPack(d) : d \in Dir} \cup {StarterFile("scenario.yaml")}
    /\ FirstDisk = [f \in Files |-> FirstDisk[f]]
    /\ \A f \in Files : \A content \in Contents[f.place] \cup {FirstDisk[f]} :
          content = Absent \/ content.form \in Form

PacksNext ==
    \/ \E f \in Files : \E content \in Contents[f.place] : Edit(f, content)
    \/ \E d \in Dir, v \in Version, source \in Source : New(d, v, source)

PacksSpec == PacksInit /\ [][PacksNext]_packVars

-----------------------------------------------------------------------------
\* A pack or scenario file that is empty or of another apiVersion or kind: lint does not
\* look at these, except that an empty pack.yaml ends it.
Foreign(d) ==
    \E f \in Read(d) : f.place # "template.yaml" /\ disk[f].form \in {"wrong", "empty"}

\* The linter and the service's loader walk the packs each in its own way.  When lint
\* passes, all the packs it has looked at are served, with three exceptions, and no
\* others, of which lint says nothing: a file is foreign; a pack behind a symbolic link,
\* which lint has not looked at, fails the whole load; a later pack has the same slug.
\* What the service serves, on the other hand, lint can load file by file.
LintAgreesWithLoad ==
    /\ LintPasses =>
          /\ LoadFails => \E d \in PackDirs : Foreign(d) \/ d \in links
          /\ ~LoadFails => \A d \in LintPackDirs :
                d \in Snapshot \/ Foreign(d) \/ Shadowed(Loaded, d)
    /\ ~LoadFails => \A d \in Snapshot : \A f \in LintErrors(d) : Loads(f) /\ ~disk[f].tidy

\* What the loader comes to read in d when d gets a version, or becomes a pack by it.
NewlyRead(d) == {f \in Read(d)' : d \in PackDirs => f \notin Read(d)}

\* The scenarioRefs that a scenario:new in d takes from the service, of which there are
\* three kinds: all of them, for what the loader newly reads in d makes it throw; those of
\* d, for it makes the loader drop d; those of another pack that has the name of d for
\* its slug, when d becomes a pack.
LosesOnly(d) ==
    \A r \in Registry \ Registry' :
        \/ LoadFails' /\ \E f \in NewlyRead(d) : Effect(f)' = "throws"
        \/ r.file.dir = d /\ \E f \in NewlyRead(d) : Effect(f)' = "drops"
        \/ d \notin PackDirs /\ r.slug = d

\* Nothing that was in d before stands in the way of a version: d is a pack that is served,
\* or it is going to be one, holds no versions yet and has a name that is no pack's slug.
Ready(d) ==
    IF d \in PackDirs THEN d \in Snapshot
    ELSE ScenarioVersions(d) = {} /\ d \notin {SlugOf(e) : e \in PackDirs}

\* The scaffold can be loaded in d: the shared files of the starter can, or the source is a
\* version of a pack that loads whose includes mean in d what they mean in their own pack.
Fits(d, source) ==
    IF source = NoSource THEN \A s \in StarterIncludes : Loads(SharedFile(s))
    ELSE /\ source.dir \in Loaded
         /\ HasScenario(source.dir, source.version)
         /\ \/ source.dir = d
            \/ \A f \in VersionFiles(source.dir, source.version) :
                  Exists(f) => \A path \in disk[f].includes : path.from \in {"version", "packs"}

\* Of a step that is scenario:new's, on packs that the service can load.
AddsOnly ==
    edits' = edits /\ ~LoadFails =>
        \A d \in Dir, v \in Version, source \in Source : New(d, v, source) =>
           /\ LosesOnly(d)
           /\ Ready(d) /\ Fits(d, source) =>
                 Registry \cup {RegistryEntry(d, v)'} \subseteq Registry'

\* When scenario:new has run on packs that the service can load, the scenarioRefs served
\* lead to the same files, with their templates, as before, and those that are lost are
\* lost in one of the three ways of LosesOnly.  In particular a copy with an include that
\* leads nowhere from its new place, or versions that lay without an effect in a
\* directory without pack.yaml, can take every scenarioRef from the service.  Into a
\* directory that is ready, a scaffold that fits takes nothing, and it is served under
\* the slug of its pack.
NewOnlyAdds == [][AddsOnly]_packVars
=============================================================================
