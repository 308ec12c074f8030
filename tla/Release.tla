------------------------------- MODULE Release -------------------------------
(***************************************************************************)
(* The corpus checkout and the three scripts that work on it:              *)
(*   generate_fixtures  rewrites fixtures/ from the definitions            *)
(*   build_catalog      rewrites data/scenarios.parquet and SHA256SUMS     *)
(*   verify_release     the gate: reads everything, changes nothing        *)
(* A script can die between any two of its file operations, or in the      *)
(* middle of one; the developer edits definitions and files, and upgrades  *)
(* PyArrow, while no script runs.                                          *)
(***************************************************************************)
EXTENDS Naturals, FiniteSets

CONSTANTS
    NumScenarios,  \* scenarios, numbered in the order they are written, which
                   \* the model also takes for the order of their paths
    NumVersions,   \* versions of a scenario
    Data,          \* logical contents a scenario's tables may have
    Facts,         \* what a manifest may declare of them
    Writers,       \* PyArrow releases
    Truthful,      \* the <<data, facts>> whose facts the validator confirms
    Row,           \* manifest -> its catalog row, which leaves much of it out
    None,          \* no such definition, or no such fixture file
    Torn,          \* a fixture file whose write was cut short
    MaxMishaps     \* bound on crashes and on the developer's steps

ASSUME SizesAssumption ==
    /\ NumScenarios \in Nat
    /\ NumVersions \in Nat \ {0}
    /\ MaxMishaps \in Nat

ASSUME FilesAssumption ==
    /\ Truthful \subseteq Data \X Facts
    /\ None # Torn
    /\ \A d \in Data : \A x \in Facts \cup Writers : {<<d, x>>} \cap {None, Torn} = {}

Scenarios == 1..NumScenarios

(* A scenario directory holds v0.parquet, v1.parquet, ... and, written     *)
(* last, scenario.json.                                                    *)
Manifest == NumVersions
Versions == 0..(NumVersions - 1)
Slots == Scenarios \X (0..NumVersions)

IsManifest(f) == f[2] = Manifest

(* Contents of files.  The bytes of a Parquet file are determined by its   *)
(* table and its writer, which created_by records; a manifest repeats the  *)
(* fingerprint of the tables and states facts about them.                  *)
ParquetBytes == Data \X Writers
ManifestBytes == Data \X Facts
Logical(bytes) == bytes[1]
CreatedBy(bytes) == bytes[2]

(* data/scenarios.parquet and SHA256SUMS are missing, cut short, or whole. *)
Missing == [state |-> "missing"]
CutShort == [state |-> "torn"]
Catalog(rows, writer) == [state |-> "whole", rows |-> rows, writer |-> writer]
Sums(ofFixtures, ofCatalog) == [state |-> "whole", fixtures |-> ofFixtures, catalog |-> ofCatalog]

FixtureBytes(f) == (IF IsManifest(f) THEN ManifestBytes ELSE ParquetBytes) \cup {None, Torn}

VARIABLES
    definitions,  \* scenario -> <<data, facts>>, as the builders have them
    installed,    \* the installed PyArrow
    directory,    \* whether fixtures/ itself exists
    fixtures,     \* slot -> the bytes there, None or Torn
    catalog,      \* data/scenarios.parquet: its rows and its writer
    sums,         \* SHA256SUMS: what the hashed files held
    script,       \* the script running and how far it is
    verdict,      \* what the gate said of the checkout as it now is
    pipeline,     \* documented steps completed since the last disturbance
    mishaps       \* crashes and developer's steps so far

files == <<directory, fixtures, catalog, sums>>
vars == <<definitions, installed, directory, fixtures, catalog, sums, script, verdict, pipeline, mishaps>>

Defined == {s \in Scenarios : definitions[s] # None}

(* Faulty: a manifest's contents in every place. *)
GeneratedAlike(f) == definitions[f[1]]

(* What generate_all writes. *)
Generated(f) ==
    IF definitions[f[1]] = None THEN None
    ELSE IF IsManifest(f) THEN definitions[f[1]]
    ELSE <<Logical(definitions[f[1]]), installed>>

ManifestOf(s) == fixtures[<<s, Manifest>>]

(* scenario_dirs: the directories that have a manifest. *)
ScenarioDirs == {s \in Scenarios : ManifestOf(s) # None}

(* build_catalog fails without fixtures/ or on a manifest it cannot parse. *)
ManifestsReadable == directory /\ \A s \in Scenarios : ManifestOf(s) # Torn

(* build_catalog: one row per scenario directory, from its manifest. *)
CatalogRows == [s \in ScenarioDirs |-> Row[ManifestOf(s)]]

(* The rows of the definitions. *)
DefinedRows == [s \in Defined |-> Row[definitions[s]]]

(* render_sums: every generated file, by its bytes. *)
Hashes == Sums(fixtures, catalog)

(***************************************************************************)
(* Scripts                                                                 *)
(***************************************************************************)
Idle == [name |-> "idle", todo |-> {}]
Removing == [name |-> "removing", todo |-> {}]
Writing(todo) == [name |-> "writing", todo |-> todo]
Cataloguing == [name |-> "cataloguing", todo |-> {}]
Summing == [name |-> "summing", todo |-> {}]

NoVerdict == [exit |-> "none", exact |-> FALSE, problems |-> {}]

FixturesOK ==
    /\ directory \in BOOLEAN
    /\ fixtures \in [Slots -> ParquetBytes \cup ManifestBytes \cup {None, Torn}]
    /\ \A f \in Slots : fixtures[f] \in FixtureBytes(f)
    /\ ~directory => \A f \in Slots : fixtures[f] = None

CatalogOK ==
    \/ catalog \in {Missing, CutShort}
    \/ /\ catalog = Catalog(catalog.rows, catalog.writer)
       /\ DOMAIN catalog.rows \subseteq Scenarios
       /\ catalog.writer \in Writers

ScriptOK ==
    script \in [name : {"idle", "removing", "writing", "cataloguing", "summing"}, todo : SUBSET Slots]

TypeOK ==
    /\ definitions \in [Scenarios -> ManifestBytes \cup {None}]
    /\ installed \in Writers
    /\ FixturesOK
    /\ CatalogOK
    /\ sums.state \in {"missing", "torn", "whole"}
    /\ ScriptOK
    /\ verdict.exit \in {"none", "ok", "problems", "raised"}
    /\ verdict.exact \in BOOLEAN
    /\ pipeline \in 0..2
    /\ mishaps \in 0..MaxMishaps

(* A fresh clone of a release, written by any PyArrow; or definitions only. *)
Init ==
    /\ definitions \in [Scenarios -> Truthful]
    /\ installed \in Writers
    /\ \/ /\ directory = FALSE
          /\ fixtures = [f \in Slots |-> None]
          /\ catalog = Missing
          /\ sums = Missing
       \/ \E w \in Writers :
          /\ directory = TRUE
          /\ fixtures = [f \in Slots |-> IF IsManifest(f) THEN definitions[f[1]]
                                         ELSE <<Logical(definitions[f[1]]), w>>]
          /\ catalog = Catalog(DefinedRows, w)
          /\ sums = Sums(fixtures, catalog)
    /\ script = Idle
    /\ verdict = NoVerdict
    /\ pipeline = 0
    /\ mishaps = 0

(***************************************************************************)
(* validate_corpus on the fixtures.  A scenario directory with a manifest  *)
(* is checked; one without is a layout problem; a missing fixtures/, an    *)
(* unreadable manifest and an unreadable Parquet file raise.               *)
(***************************************************************************)
Orphaned(s) == ManifestOf(s) = None /\ \E v \in Versions : fixtures[<<s, v>>] # None

ScenarioRaises(s) ==
    \/ ManifestOf(s) = Torn
    \/ ManifestOf(s) # None /\ \E v \in Versions : fixtures[<<s, v>>] = Torn

ScenarioConsistent(s) ==
    /\ ManifestOf(s) \in Truthful
    /\ \A v \in Versions :
          /\ fixtures[<<s, v>>] # None
          /\ Logical(fixtures[<<s, v>>]) = Logical(ManifestOf(s))

ValidationRaises == ~directory \/ \E s \in ScenarioDirs : ScenarioRaises(s)

Validates ==
    /\ \A s \in Scenarios : ~Orphaned(s)
    /\ \A s \in ScenarioDirs : ScenarioConsistent(s)

(***************************************************************************)
(* generate_fixtures.py                                                    *)
(***************************************************************************)

(* Whatever the developer or a script changes, the last verdict no longer  *)
(* speaks of this checkout.                                                *)
Disturb == verdict' = NoVerdict

(* Faulty: what is in fixtures/ is written over, not removed. *)
StartGenerateInPlace ==
    /\ script = Idle
    /\ directory' = TRUE
    /\ script' = Writing(Defined \X (0..NumVersions))
    /\ pipeline' = 0
    /\ Disturb
    /\ UNCHANGED <<definitions, installed, fixtures, catalog, sums, mishaps>>

StartGenerate ==
    /\ script = Idle
    /\ script' = Removing
    /\ pipeline' = 0
    /\ Disturb
    /\ UNCHANGED <<definitions, installed, directory, fixtures, catalog, sums, mishaps>>

(* shutil.rmtree, in the order the file system lists the files; then mkdir. *)
RemoveOne ==
    /\ script = Removing
    /\ \E f \in Slots :
          /\ fixtures[f] # None
          /\ fixtures' = [fixtures EXCEPT ![f] = None]
    /\ UNCHANGED <<definitions, installed, directory, catalog, sums, script, verdict, pipeline, mishaps>>

RemoveDirectory ==
    /\ script = Removing
    /\ directory
    /\ \A f \in Slots : fixtures[f] = None
    /\ directory' = FALSE
    /\ UNCHANGED <<definitions, installed, fixtures, catalog, sums, script, verdict, pipeline, mishaps>>

MakeDirectory ==
    /\ script = Removing
    /\ ~directory
    /\ directory' = TRUE
    /\ script' = Writing(Defined \X (0..NumVersions))
    /\ UNCHANGED <<definitions, installed, fixtures, catalog, sums, verdict, pipeline, mishaps>>

(* generate_all takes the scenarios in order; generate_scenario writes the *)
(* versions in order and then the manifest.                                *)
Precedes(f, g) == f[1] < g[1] \/ (f[1] = g[1] /\ f[2] <= g[2])

(* Faulty: the manifest of a scenario is written first. *)
IsNextManifestFirst(f) ==
    f \in script.todo /\ \A g \in script.todo : f[1] < g[1] \/ (f[1] = g[1] /\ f[2] >= g[2])

IsNext(f) == f \in script.todo /\ \A g \in script.todo : Precedes(f, g)

WriteOne ==
    /\ script.name = "writing"
    /\ \E f \in Slots :
          /\ IsNext(f)
          /\ fixtures' = [fixtures EXCEPT ![f] = Generated(f)]
          /\ script' = Writing(script.todo \ {f})
    /\ UNCHANGED <<definitions, installed, directory, catalog, sums, verdict, pipeline, mishaps>>

(* main validates what it wrote; only an exit status of 0 completes the    *)
(* step of the documented sequence.                                        *)
EndGenerate ==
    /\ script = Writing({})
    /\ script' = Idle
    /\ pipeline' = IF ~ValidationRaises /\ Validates THEN 1 ELSE 0
    /\ UNCHANGED <<definitions, installed, directory, fixtures, catalog, sums, verdict, mishaps>>

(***************************************************************************)
(* build_catalog.py                                                        *)
(***************************************************************************)
StartCatalog ==
    /\ script = Idle
    /\ ManifestsReadable
    /\ script' = Cataloguing
    /\ Disturb
    /\ UNCHANGED <<definitions, installed, directory, fixtures, catalog, sums, pipeline, mishaps>>

WriteCatalog ==
    /\ script = Cataloguing
    /\ catalog' = Catalog(CatalogRows, installed)
    /\ script' = Summing
    /\ UNCHANGED <<definitions, installed, directory, fixtures, sums, verdict, pipeline, mishaps>>

WriteSums ==
    /\ script = Summing
    /\ sums' = Hashes
    /\ script' = Idle
    /\ pipeline' = IF pipeline = 1 THEN 2 ELSE pipeline
    /\ UNCHANGED <<definitions, installed, directory, fixtures, catalog, verdict, mishaps>>

(***************************************************************************)
(* A script dies, between two file operations or inside one.               *)
(***************************************************************************)
Die ==
    /\ script # Idle
    /\ mishaps < MaxMishaps
    /\ mishaps' = mishaps + 1
    /\ script' = Idle
    /\ pipeline' = 0
    /\ UNCHANGED <<definitions, installed, verdict>>

Crash == Die /\ UNCHANGED files

TearFixture ==
    /\ script.name = "writing"
    /\ \E f \in Slots : IsNext(f) /\ fixtures' = [fixtures EXCEPT ![f] = Torn]
    /\ Die
    /\ UNCHANGED <<directory, catalog, sums>>

TearCatalog ==
    /\ script = Cataloguing
    /\ catalog' = CutShort
    /\ Die
    /\ UNCHANGED <<directory, fixtures, sums>>

TearSums ==
    /\ script = Summing
    /\ sums' = CutShort
    /\ Die
    /\ UNCHANGED <<directory, fixtures, catalog>>

(***************************************************************************)
(* verify_release.py, main.  Each check is the problems it reports; the    *)
(* checks run in this order, and an exception in one ends the gate.        *)
(***************************************************************************)
Parquets == {f \in Slots : ~IsManifest(f) /\ fixtures[f] # None}

(* same_writer reads the footer of each committed Parquet file, fixtures   *)
(* first and the catalog last, whether or not it is there, and stops at    *)
(* the first of another writer.                                            *)
Foreign(f) == fixtures[f] # Torn /\ CreatedBy(fixtures[f]) # installed

SameWriterRaises ==
    \/ \E f \in Parquets :
          /\ fixtures[f] = Torn
          /\ \A g \in Parquets : Foreign(g) => Precedes(f, g)
    \/ /\ catalog.state # "whole"
       /\ ~\E f \in Parquets : Foreign(f)

SameWriter ==
    /\ \A f \in Parquets : ~Foreign(f)
    /\ catalog.writer = installed

(* compare_trees against a fresh generation.  Committed Parquet files that *)
(* were also generated are decoded.                                        *)
CompareRaises == \E f \in Slots : ~IsManifest(f) /\ fixtures[f] = Torn /\ Generated(f) # None

(* Faulty: manifests are only expected to be there. *)
TableDiffers(f, exact) ==
    LET committed == fixtures[f]
        fresh == Generated(f)
    IN  \/ (committed = None) # (fresh = None)
        \/ /\ committed # None
           /\ fresh # None
           /\ ~IsManifest(f)
           /\ \/ Logical(committed) # Logical(fresh)
              \/ exact /\ committed # fresh

SlotDiffers(f, exact) ==
    LET committed == fixtures[f]
        fresh == Generated(f)
    IN  \/ (committed = None) # (fresh = None)
        \/ /\ committed # None
           /\ fresh # None
           /\ \/ IsManifest(f) /\ committed # fresh
              \/ ~IsManifest(f) /\ Logical(committed) # Logical(fresh)
              \/ ~IsManifest(f) /\ exact /\ committed # fresh

CatalogProblems(exact) ==
    IF catalog.state = "missing" THEN {"catalog is missing"}
    ELSE IF catalog.rows # CatalogRows THEN {"catalog differs"}
    ELSE IF exact /\ catalog.writer # installed THEN {"catalog differs byte-for-byte"}
    ELSE {}

(* Faulty: checksums are only expected to be there. *)
SumsProblemsMissing(exact) == IF sums.state = "missing" THEN {"sums are missing"} ELSE {}

SumsProblems(exact) ==
    IF sums.state = "missing" THEN {"sums are missing"}
    ELSE IF exact /\ sums # Hashes THEN {"sums are stale"}
    ELSE {}

GateProblems(exact) ==
    (IF Validates THEN {} ELSE {"validate"})
        \cup (IF \E f \in Slots : SlotDiffers(f, exact) THEN {"regenerate"} ELSE {})
        \cup CatalogProblems(exact)
        \cup SumsProblems(exact)

GateRaises ==
    \/ ValidationRaises
    \/ SameWriterRaises
    \/ CompareRaises
    \/ catalog.state = "torn"

Gate ==
    IF GateRaises THEN [exit |-> "raised", exact |-> FALSE, problems |-> {}]
    ELSE [exit |-> IF GateProblems(SameWriter) = {} THEN "ok" ELSE "problems",
          exact |-> SameWriter,
          problems |-> GateProblems(SameWriter)]

Verify ==
    /\ script = Idle
    /\ verdict' = Gate
    /\ UNCHANGED <<definitions, installed, directory, fixtures, catalog, sums, script, pipeline, mishaps>>

(***************************************************************************)
(* The developer                                                           *)
(***************************************************************************)
DeveloperStep ==
    /\ script = Idle
    /\ mishaps < MaxMishaps
    /\ mishaps' = mishaps + 1
    /\ pipeline' = 0
    /\ Disturb
    /\ UNCHANGED script

(* Data and facts are written by hand, independently: they may disagree.   *)
EditDefinition ==
    /\ DeveloperStep
    /\ \E s \in Scenarios, bytes \in ManifestBytes \cup {None} :
          definitions' = [definitions EXCEPT ![s] = bytes]
    /\ UNCHANGED <<installed, directory, fixtures, catalog, sums>>

UpgradePyArrow ==
    /\ DeveloperStep
    /\ \E w \in Writers \ {installed} : installed' = w
    /\ UNCHANGED <<definitions, directory, fixtures, catalog, sums>>

(* Generated files are changed or deleted by hand, or by a merge. *)
EditFixture ==
    /\ DeveloperStep
    /\ directory
    /\ \E f \in Slots : \E bytes \in FixtureBytes(f) \ {Torn} :
          fixtures' = [fixtures EXCEPT ![f] = bytes]
    /\ UNCHANGED <<definitions, installed, directory, catalog, sums>>

DeleteCatalog ==
    /\ DeveloperStep
    /\ catalog' = Missing
    /\ UNCHANGED <<definitions, installed, directory, fixtures, sums>>

Next ==
    \/ StartGenerate \/ RemoveOne \/ RemoveDirectory \/ MakeDirectory \/ WriteOne \/ EndGenerate
    \/ StartCatalog \/ WriteCatalog \/ WriteSums
    \/ Crash \/ TearFixture \/ TearCatalog \/ TearSums
    \/ Verify
    \/ EditDefinition \/ UpgradePyArrow \/ EditFixture \/ DeleteCatalog

Spec == Init /\ [][Next]_vars

-----------------------------------------------------------------------------
(***************************************************************************)
(* Properties                                                              *)
(***************************************************************************)

(* The files that stand for the definitions: every table logically, every  *)
(* manifest exactly, each of them truthful, and a catalog of them all.     *)
Reproducible ==
    /\ \A s \in Defined : definitions[s] \in Truthful
    /\ \A f \in Slots : (fixtures[f] = None) <=> (Generated(f) = None)
    /\ \A s \in Defined :
          /\ ManifestOf(s) = definitions[s]
          /\ \A v \in Versions : /\ fixtures[<<s, v>>] # Torn
                                /\ Logical(fixtures[<<s, v>>]) = Logical(definitions[s])
    /\ catalog.state = "whole"
    /\ catalog.rows = DefinedRows

(* The same byte for byte, with current checksums. *)
ExactlyReproducible ==
    /\ \A f \in Slots : fixtures[f] = Generated(f)
    /\ catalog = Catalog(DefinedRows, installed)
    /\ sums = Hashes

(* "release OK" means that the checkout is what the definitions generate,  *)
(* and, when the installed PyArrow wrote it, byte for byte with current    *)
(* checksums: whatever crash, upgrade, merge or edit came before the gate. *)
PassMeansReproducible ==
    verdict.exit = "ok" =>
        /\ Reproducible
        /\ verdict.exact => ExactlyReproducible

(* The documented sequence is enough: once generate_fixtures has exited    *)
(* with 0 and build_catalog has run, nothing being touched in between, the *)
(* gate passes at its stricter level, from whatever the checkout held      *)
(* before, half-written files of a crashed run included.                   *)
PipelinePasses ==
    pipeline = 2 /\ script = Idle =>
        Gate = [exit |-> "ok", exact |-> TRUE, problems |-> {}]

(* The manifest is written last: while a generation runs, or if it dies    *)
(* there, a manifest on disk speaks of files that are all there.           *)
ManifestVouchesForItsFiles ==
    script.name = "writing" =>
        \A s \in ScenarioDirs :
            /\ ~ScenarioRaises(s)
            /\ \A v \in Versions : /\ fixtures[<<s, v>>] # None
                                  /\ Logical(fixtures[<<s, v>>]) = Logical(ManifestOf(s))

(***************************************************************************)
(* The checkout as a maintainer sees it                                    *)
(***************************************************************************)
Checkout ==
    IF ~(directory /\ Reproducible) THEN "other"
    ELSE IF ExactlyReproducible THEN "exact"
    ELSE "logical"

Answer ==
    CASE verdict.exit = "none" -> "none"
      [] verdict.exit = "ok" -> IF verdict.exact THEN "exact" ELSE "logical"
      [] OTHER -> "other"

Promise == INSTANCE ReleasePromise WITH checkout <- Checkout, steps <- pipeline, answer <- Answer

(* The scripts keep the promise: the documented steps make a checkout that *)
(* is exact, building the catalog again leaves it so, and the gate says of *)
(* every checkout what it is.  In particular it never refuses a checkout   *)
(* that is exactly what would be generated, however it came about.         *)
ScriptsKeepThePromise == Promise!Spec

(* verify_release.py: "4. SHA256SUMS matches the committed files".         *)
PassMeansSumsMatch == verdict.exit = "ok" => sums = Hashes

(* same_writer: "True when every committed Parquet file was written by the *)
(* installed PyArrow".  A catalog that is not there is then reported by    *)
(* the check that comes after it.                                          *)
MissingCatalogIsReported ==
    /\ verdict.exit # "none"
    /\ catalog.state = "missing"
    /\ directory
    /\ \A f \in Slots : fixtures[f] # Torn
    => "catalog is missing" \in verdict.problems

(* validate.py: "each function returns a list of problems"; check_layout   *)
(* reports a manifest that cannot be read.                                 *)
UnreadableManifestIsReported ==
    /\ verdict.exit # "none"
    /\ \E s \in Scenarios : ManifestOf(s) = Torn
    /\ \A f \in Parquets : fixtures[f] # Torn
    /\ catalog.state = "whole"
    => "validate" \in verdict.problems
=============================================================================
