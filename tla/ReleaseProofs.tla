---------------------------- MODULE ReleaseProofs ----------------------------
(***************************************************************************)
(* Proofs about Release, for every number of scenarios and versions, every *)
(* set of contents and writers, and every number of mishaps.               *)
(***************************************************************************)
EXTENDS Release, TLAPS

(***************************************************************************)
(* Facts about single states                                               *)
(***************************************************************************)

(* A content is not None and not Torn. *)
LEMMA ContentsAreFiles ==
    ASSUME NEW bytes \in ManifestBytes \cup ParquetBytes
    PROVE  bytes # None /\ bytes # Torn
<1>1. PICK d \in Data, x \in Facts \cup Writers : bytes = <<d, x>>
  BY DEF ManifestBytes, ParquetBytes
<1> QED
  BY <1>1, FilesAssumption

(* What generate_all writes has the form its place demands, and is never a *)
(* torn file.                                                              *)
LEMMA GeneratedType ==
    ASSUME TypeOK, NEW f \in Slots
    PROVE  /\ Generated(f) \in FixtureBytes(f)
           /\ Generated(f) # Torn
           /\ Generated(f) = None <=> definitions[f[1]] = None
<1>1. definitions[f[1]] \in ManifestBytes \cup {None}
  BY DEF TypeOK, Slots
<1>2. CASE definitions[f[1]] = None
  BY <1>2, FilesAssumption DEF Generated, FixtureBytes
<1>3. CASE definitions[f[1]] # None /\ IsManifest(f)
  BY <1>1, <1>3, ContentsAreFiles DEF Generated, FixtureBytes
<1>4. CASE definitions[f[1]] # None /\ ~IsManifest(f)
  <2>1. Generated(f) \in ParquetBytes
    BY <1>1, <1>4 DEF Generated, TypeOK, ManifestBytes, ParquetBytes, Logical
  <2> QED
    BY <1>4, <2>1, ContentsAreFiles DEF FixtureBytes
<1> QED
  BY <1>2, <1>3, <1>4

(***************************************************************************)
(* Type correctness                                                        *)
(***************************************************************************)
LEMMA TypeInit == Init => TypeOK
<1> SUFFICES ASSUME Init PROVE TypeOK
  OBVIOUS
<1>1. /\ definitions \in [Scenarios -> ManifestBytes \cup {None}]
      /\ installed \in Writers
      /\ mishaps \in 0..MaxMishaps
      /\ pipeline \in 0..2
      /\ verdict.exit \in {"none", "ok", "problems", "raised"}
      /\ verdict.exact \in BOOLEAN
  BY FilesAssumption, SizesAssumption DEF Init, ManifestBytes, NoVerdict
<1>2. ScriptOK
  BY DEF Init, Idle, ScriptOK
<1>3. FixturesOK
  <2>1. CASE directory = FALSE /\ fixtures = [f \in Slots |-> None]
    BY <2>1 DEF FixturesOK, FixtureBytes
  <2>2. ASSUME NEW w \in Writers, directory = TRUE,
               fixtures = [f \in Slots |-> IF IsManifest(f) THEN definitions[f[1]]
                                           ELSE <<Logical(definitions[f[1]]), w>>]
        PROVE  FixturesOK
    <3>1. \A f \in Slots : definitions[f[1]] \in ManifestBytes
      BY FilesAssumption DEF Init, Slots, ManifestBytes
    <3>2. \A f \in Slots : <<Logical(definitions[f[1]]), w>> \in ParquetBytes
      BY <3>1 DEF ManifestBytes, ParquetBytes, Logical
    <3> QED
      BY <2>2, <3>1, <3>2 DEF FixturesOK, FixtureBytes
  <2> QED
    BY <2>1, <2>2 DEF Init
<1>4. CatalogOK /\ sums.state \in {"missing", "torn", "whole"}
  <2>1. CASE catalog = Missing /\ sums = Missing
    BY <2>1 DEF CatalogOK, Missing
  <2>2. ASSUME NEW w \in Writers, catalog = Catalog(DefinedRows, w), sums = Sums(fixtures, catalog)
        PROVE  CatalogOK /\ sums.state \in {"missing", "torn", "whole"}
    <3>1. catalog.rows = DefinedRows /\ catalog.writer = w
      BY <2>2 DEF Catalog
    <3>2. DOMAIN DefinedRows \subseteq Scenarios
      BY DEF DefinedRows, Defined
    <3> QED
      BY <2>2, <3>1, <3>2 DEF CatalogOK, Sums
  <2> QED
    BY <2>1, <2>2 DEF Init
<1> QED
  BY <1>1, <1>2, <1>3, <1>4 DEF TypeOK

(* What a step leaves alone keeps its type. *)
LEMMA FixturesKept ==
    ASSUME FixturesOK, UNCHANGED <<directory, fixtures>>
    PROVE  FixturesOK'
BY DEF FixturesOK, FixtureBytes, IsManifest, ParquetBytes, ManifestBytes, Slots, Manifest

(* One file of an existing directory is changed to a file of its form. *)
LEMMA FixturePut ==
    ASSUME FixturesOK, directory, UNCHANGED directory,
           NEW f \in Slots, NEW bytes \in FixtureBytes(f),
           fixtures' = [fixtures EXCEPT ![f] = bytes]
    PROVE  FixturesOK'
<1>1. bytes \in ParquetBytes \cup ManifestBytes \cup {None, Torn}
  BY DEF FixtureBytes
<1> QED
  BY <1>1 DEF FixturesOK, FixtureBytes, IsManifest, ParquetBytes, ManifestBytes, Slots, Manifest

LEMMA CatalogRowsType == DOMAIN CatalogRows \subseteq Scenarios
BY DEF CatalogRows, ScenarioDirs

(* While a generation writes, fixtures/ exists. *)
WritesIntoADirectory == script.name = "writing" => directory

LEMMA TypeStep == TypeOK /\ WritesIntoADirectory /\ [Next]_vars => TypeOK' /\ WritesIntoADirectory'
<1> SUFFICES ASSUME TypeOK, WritesIntoADirectory, [Next]_vars
             PROVE  TypeOK' /\ WritesIntoADirectory'
  OBVIOUS
<1> USE DEF TypeOK, WritesIntoADirectory
<1>1. CASE StartGenerate
  BY <1>1, FixturesKept DEF StartGenerate, Disturb, NoVerdict, CatalogOK, ScriptOK, Removing
<1>2. CASE RemoveOne
  <2>1. PICK f \in Slots : fixtures[f] # None /\ fixtures' = [fixtures EXCEPT ![f] = None]
    BY <1>2 DEF RemoveOne
  <2>2. directory
    BY <2>1 DEF FixturesOK
  <2>3. FixturesOK'
    BY <1>2, <2>1, <2>2, FixturePut DEF RemoveOne, FixtureBytes
  <2> QED
    BY <1>2, <2>3 DEF RemoveOne, CatalogOK, ScriptOK, Removing
<1>3. CASE RemoveDirectory
  <2>1. FixturesOK'
    BY <1>3 DEF RemoveDirectory, FixturesOK, FixtureBytes, IsManifest, ParquetBytes, ManifestBytes, Slots, Manifest
  <2> QED
    BY <1>3, <2>1 DEF RemoveDirectory, CatalogOK, ScriptOK, Removing
<1>4. CASE MakeDirectory
  <2>1. FixturesOK'
    BY <1>4 DEF MakeDirectory, FixturesOK, FixtureBytes, IsManifest, ParquetBytes, ManifestBytes, Slots, Manifest
  <2>2. Defined \X (0..NumVersions) \subseteq Slots
    BY DEF Defined, Slots
  <2> QED
    BY <1>4, <2>1, <2>2 DEF MakeDirectory, CatalogOK, ScriptOK, Writing
<1>5. CASE WriteOne
  <2>1. PICK f \in Slots : IsNext(f) /\ fixtures' = [fixtures EXCEPT ![f] = Generated(f)]
                                     /\ script' = Writing(script.todo \ {f})
    BY <1>5 DEF WriteOne
  <2>2. FixturesOK'
    BY <1>5, <2>1, GeneratedType, FixturePut DEF WriteOne
  <2> QED
    BY <1>5, <2>1, <2>2 DEF WriteOne, CatalogOK, ScriptOK, Writing
<1>6. CASE EndGenerate
  BY <1>6, FixturesKept DEF EndGenerate, CatalogOK, ScriptOK, Idle
<1>7. CASE StartCatalog
  BY <1>7, FixturesKept DEF StartCatalog, Disturb, NoVerdict, CatalogOK, ScriptOK, Cataloguing
<1>8. CASE WriteCatalog
  BY <1>8, FixturesKept, CatalogRowsType DEF WriteCatalog, Catalog, CatalogOK, ScriptOK, Summing
<1>9. CASE WriteSums
  BY <1>9, FixturesKept DEF WriteSums, Hashes, Sums, CatalogOK, ScriptOK, Idle
<1>10. ASSUME Die, FixturesOK', CatalogOK', sums'.state \in {"missing", "torn", "whole"}
       PROVE  TypeOK' /\ WritesIntoADirectory'
  BY <1>10, SizesAssumption DEF Die, ScriptOK, Idle
<1>11. CASE Crash
  BY <1>10, <1>11, FixturesKept DEF Crash, files, CatalogOK
<1>12. CASE TearFixture
  <2>1. PICK f \in Slots : fixtures' = [fixtures EXCEPT ![f] = Torn]
    BY <1>12 DEF TearFixture
  <2>2. FixturesOK'
    BY <1>12, <2>1, FixturePut DEF TearFixture, FixtureBytes
  <2> QED
    BY <1>10, <1>12, <2>2 DEF TearFixture, CatalogOK
<1>13. CASE TearCatalog
  BY <1>10, <1>13, FixturesKept DEF TearCatalog, CatalogOK
<1>14. CASE TearSums
  BY <1>10, <1>14, FixturesKept DEF TearSums, CutShort, CatalogOK
<1>15. CASE Verify
  <2>1. Gate.exit \in {"none", "ok", "problems", "raised"} /\ Gate.exact \in BOOLEAN
    BY DEF Gate, SameWriter
  <2> QED
    BY <1>15, <2>1, FixturesKept DEF Verify, CatalogOK, ScriptOK
<1>16. ASSUME DeveloperStep
       PROVE  /\ ScriptOK' /\ script' = script /\ script.name # "writing"
              /\ verdict'.exit = "none" /\ verdict'.exact \in BOOLEAN
              /\ pipeline' \in 0..2
              /\ mishaps' \in 0..MaxMishaps
  BY <1>16, SizesAssumption DEF DeveloperStep, Disturb, NoVerdict, ScriptOK, Idle
<1>17. CASE EditDefinition
  BY <1>16, <1>17, FixturesKept DEF EditDefinition, CatalogOK
<1>18. CASE UpgradePyArrow
  BY <1>16, <1>18, FixturesKept DEF UpgradePyArrow, CatalogOK
<1>19. CASE EditFixture
  <2>1. FixturesOK'
    BY <1>19, FixturePut DEF EditFixture
  <2> QED
    BY <1>16, <1>19, <2>1 DEF EditFixture, CatalogOK
<1>20. CASE DeleteCatalog
  BY <1>16, <1>20, FixturesKept DEF DeleteCatalog, CatalogOK
<1>21. CASE UNCHANGED vars
  BY <1>21, FixturesKept DEF vars, CatalogOK, ScriptOK
<1> QED
  BY <1>1, <1>2, <1>3, <1>4, <1>5, <1>6, <1>7, <1>8, <1>9, <1>11, <1>12, <1>13, <1>14,
     <1>15, <1>17, <1>18, <1>19, <1>20, <1>21 DEF Next

(* Every state of the checkout has its type. *)
THEOREM TypeCorrect == Spec => []TypeOK
<1>1. Init => TypeOK /\ WritesIntoADirectory
  BY TypeInit DEF Init, Idle, WritesIntoADirectory
<1>2. TypeOK /\ WritesIntoADirectory /\ [Next]_vars => TypeOK' /\ WritesIntoADirectory'
  BY TypeStep
<1> QED
  BY <1>1, <1>2, PTL DEF Spec

(***************************************************************************)
(* A pass of the gate is a fact about the checkout                         *)
(***************************************************************************)
LEMMA SlotsOfAScenario ==
    ASSUME NEW s \in Scenarios
    PROVE  /\ <<s, Manifest>> \in Slots /\ IsManifest(<<s, Manifest>>)
           /\ \A v \in Versions : <<s, v>> \in Slots /\ ~IsManifest(<<s, v>>)
BY SizesAssumption DEF Slots, Manifest, IsManifest, Versions

(* Each check of the gate that reports nothing establishes its part; that  *)
(* the catalog describes the definitions, and that these are truthful,     *)
(* takes two of them together.                                             *)
LEMMA GateSound ==
    ASSUME TypeOK, Gate.exit = "ok"
    PROVE  Reproducible /\ (Gate.exact => ExactlyReproducible)
<1>1. ~GateRaises /\ GateProblems(SameWriter) = {} /\ Gate.exact = SameWriter
  BY DEF Gate
<1>2. /\ Validates
      /\ \A f \in Slots : ~SlotDiffers(f, SameWriter)
      /\ CatalogProblems(SameWriter) = {}
      /\ SumsProblems(SameWriter) = {}
  BY <1>1 DEF GateProblems
<1>3. \A f \in Slots : (fixtures[f] = None) <=> (Generated(f) = None)
  BY <1>2 DEF SlotDiffers
<1>4. ASSUME NEW s \in Defined
      PROVE  ManifestOf(s) = definitions[s] /\ definitions[s] \in Truthful
  <2>1. s \in Scenarios /\ definitions[s] # None
    BY DEF Defined
  <2>2. Generated(<<s, Manifest>>) = definitions[s]
    BY <2>1, SlotsOfAScenario DEF Generated
  <2>3. ManifestOf(s) = definitions[s]
    BY <1>2, <1>3, <2>1, <2>2, SlotsOfAScenario DEF SlotDiffers, ManifestOf
  <2>4. ManifestOf(s) \in Truthful
    BY <1>2, <2>1, <2>3 DEF Validates, ScenarioDirs, ScenarioConsistent
  <2> QED
    BY <2>3, <2>4
<1>5. ASSUME NEW s \in Defined, NEW v \in Versions
      PROVE  fixtures[<<s, v>>] # Torn /\ Logical(fixtures[<<s, v>>]) = Logical(definitions[s])
  <2>1. s \in Scenarios /\ definitions[s] # None
    BY DEF Defined
  <2>2. Generated(<<s, v>>) = <<Logical(definitions[s]), installed>>
    BY <2>1, SlotsOfAScenario DEF Generated
  <2>3. Generated(<<s, v>>) # None
    BY <2>1, SlotsOfAScenario, GeneratedType
  <2>4. Logical(fixtures[<<s, v>>]) = Logical(Generated(<<s, v>>))
    BY <1>2, <1>3, <2>1, <2>3, SlotsOfAScenario DEF SlotDiffers
  <2>5. fixtures[<<s, v>>] # Torn
    BY <1>1, <2>1, <2>3, SlotsOfAScenario DEF GateRaises, CompareRaises
  <2> QED
    BY <2>2, <2>4, <2>5 DEF Logical
<1>6. catalog.state = "whole" /\ catalog.rows = CatalogRows
  <2>1. catalog.state # "torn" /\ catalog.state # "missing"
    BY <1>1, <1>2 DEF GateRaises, CatalogProblems
  <2>2. catalog.state = "whole"
    BY <2>1 DEF TypeOK, CatalogOK, Missing, CutShort, Catalog
  <2> QED
    BY <1>2, <2>1, <2>2 DEF CatalogProblems
<1>7. CatalogRows = DefinedRows
  <2>1. ASSUME NEW s \in Scenarios
        PROVE  ManifestOf(s) = definitions[s]
    <3>1. CASE s \in Defined
      BY <1>4, <3>1
    <3>2. CASE s \notin Defined
      BY <1>3, <3>2, SlotsOfAScenario DEF Defined, Generated, ManifestOf
    <3> QED
      BY <3>1, <3>2
  <2>2. ScenarioDirs = Defined
    BY <2>1 DEF ScenarioDirs, Defined
  <2>3. \A s \in Defined : ManifestOf(s) = definitions[s]
    BY <1>4
  <2> QED
    BY <2>2, <2>3 DEF CatalogRows, DefinedRows
<1>8. ASSUME SameWriter
      PROVE  ExactlyReproducible
  <2>1. \A f \in Slots : fixtures[f] = Generated(f)
    BY <1>2, <1>3, <1>8 DEF SlotDiffers
  <2>2. catalog.writer = installed
    BY <1>8 DEF SameWriter
  <2>3. catalog = Catalog(DefinedRows, installed)
    BY <1>6, <1>7, <2>2 DEF TypeOK, CatalogOK, Missing, CutShort, Catalog
  <2>4. sums = Hashes
    BY <1>2, <1>8 DEF SumsProblems
  <2> QED
    BY <2>1, <2>3, <2>4 DEF ExactlyReproducible
<1> QED
  BY <1>1, <1>3, <1>4, <1>5, <1>6, <1>7, <1>8 DEF Reproducible

(* No verdict stands while a script works, and a standing one is sound.    *)
VerdictSound ==
    /\ script # Idle => verdict = NoVerdict
    /\ PassMeansReproducible

(* What was said of a checkout holds as long as nothing of it changes.     *)
LEMMA SoundKept ==
    ASSUME PassMeansReproducible,
           UNCHANGED <<definitions, installed, directory, fixtures, catalog, sums, verdict>>
    PROVE  PassMeansReproducible'
BY DEF PassMeansReproducible, Reproducible, ExactlyReproducible, Defined, DefinedRows, Generated, ManifestOf, Hashes,
       Logical, Slots, Versions, Manifest, IsManifest

LEMMA NoVerdictSound ==
    ASSUME verdict' = NoVerdict
    PROVE  PassMeansReproducible'
BY DEF PassMeansReproducible, NoVerdict

LEMMA VerdictStep == TypeOK /\ VerdictSound /\ [Next]_vars => VerdictSound'
<1> SUFFICES ASSUME TypeOK, VerdictSound, [Next]_vars
             PROVE  VerdictSound'
  OBVIOUS
<1> USE DEF VerdictSound
<1>1. CASE Verify
  <2>1. Gate.exit = "ok" => Reproducible /\ (Gate.exact => ExactlyReproducible)
    BY GateSound
  <2>2. UNCHANGED <<definitions, installed, directory, fixtures, catalog, sums>>
    BY <1>1 DEF Verify
  <2>3. /\ Reproducible' <=> Reproducible
        /\ ExactlyReproducible' <=> ExactlyReproducible
    BY <2>2 DEF Reproducible, ExactlyReproducible, Defined, DefinedRows, Generated, ManifestOf, Hashes, Logical,
                Slots, Versions, Manifest, IsManifest
  <2>4. PassMeansReproducible'
    BY <1>1, <2>1, <2>3 DEF Verify, PassMeansReproducible, ExactlyReproducible
  <2> QED
    BY <1>1, <2>4 DEF Verify
<1>2. CASE script # Idle /\ verdict' = verdict
  BY <1>2, NoVerdictSound
<1>3. CASE RemoveOne \/ RemoveDirectory \/ MakeDirectory \/ WriteOne \/ EndGenerate \/ WriteCatalog \/ WriteSums
  BY <1>2, <1>3 DEF RemoveOne, RemoveDirectory, MakeDirectory, WriteOne, EndGenerate, WriteCatalog,
                    WriteSums, Removing, Cataloguing, Summing, Writing, Idle
<1>4. CASE Crash \/ TearFixture \/ TearCatalog \/ TearSums
  BY <1>2, <1>4 DEF Crash, TearFixture, TearCatalog, TearSums, Die
<1>5. CASE StartGenerate \/ StartCatalog
  BY <1>5, NoVerdictSound DEF StartGenerate, StartCatalog, Disturb
<1>6. CASE EditDefinition \/ UpgradePyArrow \/ EditFixture \/ DeleteCatalog
  BY <1>6, NoVerdictSound DEF EditDefinition, UpgradePyArrow, EditFixture, DeleteCatalog, DeveloperStep, Disturb
<1>7. CASE UNCHANGED vars
  BY <1>7, SoundKept DEF vars
<1> QED
  BY <1>1, <1>3, <1>4, <1>5, <1>6, <1>7 DEF Next

(* Whatever happened to the checkout before, "release OK" is true of it.   *)
THEOREM GateIsSound == Spec => []PassMeansReproducible
<1>1. Init => VerdictSound
  BY NoVerdictSound DEF Init, VerdictSound, PassMeansReproducible, NoVerdict
<1>2. TypeOK /\ VerdictSound /\ [Next]_vars => VerdictSound'
  BY VerdictStep
<1>3. VerdictSound => PassMeansReproducible
  BY DEF VerdictSound
<1> QED
  BY <1>1, <1>2, <1>3, TypeCorrect, PTL DEF Spec

(***************************************************************************)
(* The documented sequence passes the gate                                 *)
(***************************************************************************)
FreshFixtures ==
    /\ directory
    /\ \A f \in Slots : fixtures[f] = Generated(f)
    /\ \A s \in Defined : definitions[s] \in Truthful

(* What each script has achieved so far.  A generation has put in place    *)
(* every file it no longer has to write, empty places included.            *)
PipelineInv ==
    /\ script.name = "writing" =>
          /\ directory
          /\ \A f \in Slots : f \notin script.todo => fixtures[f] = Generated(f)
    /\ pipeline # 0 => script \in {Idle, Cataloguing, Summing} /\ FreshFixtures
    /\ pipeline # 0 /\ script = Summing => catalog = Catalog(CatalogRows, installed)
    /\ pipeline = 2 /\ script = Idle => catalog = Catalog(CatalogRows, installed) /\ sums = Hashes

LEMMA FreshConsistent ==
    ASSUME TypeOK, FreshFixtures, NEW s \in Scenarios
    PROVE  /\ ManifestOf(s) = definitions[s]
           /\ definitions[s] = None => \A v \in Versions : fixtures[<<s, v>>] = None
           /\ definitions[s] # None => \A v \in Versions :
                /\ fixtures[<<s, v>>] = <<Logical(definitions[s]), installed>>
                /\ fixtures[<<s, v>>] # None
                /\ fixtures[<<s, v>>] # Torn
<1>1. ManifestOf(s) = Generated(<<s, Manifest>>) /\ Generated(<<s, Manifest>>) = definitions[s]
  BY SlotsOfAScenario DEF FreshFixtures, ManifestOf, Generated
<1>2. ASSUME NEW v \in Versions
      PROVE  /\ definitions[s] = None => fixtures[<<s, v>>] = None
             /\ definitions[s] # None => /\ fixtures[<<s, v>>] = <<Logical(definitions[s]), installed>>
                                         /\ fixtures[<<s, v>>] # None
                                         /\ fixtures[<<s, v>>] # Torn
  <2>1. fixtures[<<s, v>>] = Generated(<<s, v>>)
    BY SlotsOfAScenario DEF FreshFixtures
  <2>2. definitions[s] # None => Generated(<<s, v>>) = <<Logical(definitions[s]), installed>>
    BY SlotsOfAScenario DEF Generated
  <2>3. Generated(<<s, v>>) # Torn /\ (Generated(<<s, v>>) = None <=> definitions[s] = None)
    BY SlotsOfAScenario, GeneratedType
  <2> QED
    BY <2>1, <2>2, <2>3
<1> QED
  BY <1>1, <1>2

LEMMA FreshValidates ==
    ASSUME TypeOK, FreshFixtures
    PROVE  Validates /\ ~ValidationRaises
<1>1. ASSUME NEW s \in Scenarios
      PROVE  ~Orphaned(s)
  BY FreshConsistent DEF Orphaned
<1>2. ASSUME NEW s \in ScenarioDirs
      PROVE  ScenarioConsistent(s) /\ ~ScenarioRaises(s)
  <2>1. s \in Scenarios /\ definitions[s] # None /\ ManifestOf(s) = definitions[s]
    BY FreshConsistent DEF ScenarioDirs
  <2>2. definitions[s] \in Truthful /\ definitions[s] # Torn
    BY <2>1, ContentsAreFiles DEF FreshFixtures, Defined, TypeOK
  <2>3. ScenarioConsistent(s)
    BY <2>1, <2>2, FreshConsistent DEF ScenarioConsistent, Logical
  <2>4. ~ScenarioRaises(s)
    BY <2>1, <2>2, FreshConsistent DEF ScenarioRaises
  <2> QED
    BY <2>3, <2>4
<1> QED
  BY <1>1, <1>2 DEF Validates, ValidationRaises, FreshFixtures

LEMMA FreshPasses ==
    ASSUME TypeOK, FreshFixtures, catalog = Catalog(CatalogRows, installed), sums = Hashes
    PROVE  Gate = [exit |-> "ok", exact |-> TRUE, problems |-> {}]
<1>1. ASSUME NEW f \in Parquets
      PROVE  fixtures[f] # Torn /\ CreatedBy(fixtures[f]) = installed
  <2>1. f \in Slots /\ ~IsManifest(f) /\ fixtures[f] # None /\ fixtures[f] = Generated(f)
    BY DEF Parquets, FreshFixtures
  <2> QED
    BY <2>1, GeneratedType DEF Generated, CreatedBy
<1>2. catalog.state = "whole" /\ catalog.rows = CatalogRows /\ catalog.writer = installed
  BY DEF Catalog
<1>3. SameWriter /\ ~SameWriterRaises
  BY <1>1, <1>2 DEF SameWriter, SameWriterRaises, Foreign
<1>4. \A f \in Slots : ~SlotDiffers(f, SameWriter) /\ fixtures[f] # Torn
  BY GeneratedType DEF SlotDiffers, FreshFixtures
<1>5. ~GateRaises
  BY <1>2, <1>3, <1>4, FreshValidates DEF GateRaises, CompareRaises
<1>6. CatalogProblems(SameWriter) = {} /\ SumsProblems(SameWriter) = {}
  BY <1>2 DEF CatalogProblems, SumsProblems, Hashes, Sums
<1>7. GateProblems(SameWriter) = {}
  BY <1>4, <1>6, FreshValidates DEF GateProblems
<1> QED
  BY <1>3, <1>5, <1>7 DEF Gate

LEMMA FreshKept ==
    ASSUME FreshFixtures, UNCHANGED <<definitions, installed, directory, fixtures>>
    PROVE  FreshFixtures'
BY DEF FreshFixtures, Defined, Generated, Slots, IsManifest, Manifest, Logical, Scenarios

LEMMA CatalogRowsKept ==
    ASSUME UNCHANGED fixtures
    PROVE  CatalogRows' = CatalogRows
BY DEF CatalogRows, ScenarioDirs, ManifestOf, Scenarios, Manifest

(* Whatever pipeline said before, it starts again from 0.                  *)
LEMMA Restarted ==
    ASSUME pipeline' = 0, script'.name # "writing"
    PROVE  PipelineInv'
BY DEF PipelineInv

(* Scripts other than the generation change nothing a generation left.     *)
LEMMA FreshStaysFresh ==
    ASSUME PipelineInv, pipeline # 0, UNCHANGED <<definitions, installed, directory, fixtures>>
    PROVE  FreshFixtures'
BY FreshKept DEF PipelineInv

(* An empty fixtures/ holds what is generated where nothing is to write.   *)
LEMMA EmptyDirectoryIsStarted ==
    ASSUME TypeOK, ~directory, NEW f \in Slots, f \notin Defined \X (0..NumVersions)
    PROVE  fixtures[f] = Generated(f)
<1>1. fixtures[f] = None
  BY DEF TypeOK, FixturesOK
<1>2. definitions[f[1]] = None
  BY DEF Slots, Defined
<1> QED
  BY <1>1, <1>2 DEF Generated

LEMMA PipelineStep == TypeOK /\ PipelineInv /\ [Next]_vars => PipelineInv'
<1> SUFFICES ASSUME TypeOK, PipelineInv, [Next]_vars
             PROVE  PipelineInv'
  OBVIOUS
<1>1. CASE StartGenerate
  BY <1>1, Restarted DEF StartGenerate, Removing
<1>2. CASE RemoveOne \/ RemoveDirectory
  <2>1. script = Removing /\ script' = Removing /\ pipeline' = pipeline
    BY <1>2 DEF RemoveOne, RemoveDirectory
  <2>2. pipeline = 0
    BY <2>1 DEF PipelineInv, Removing, Idle, Cataloguing, Summing
  <2> QED
    BY <2>1, <2>2, Restarted DEF Removing
<1>3. CASE MakeDirectory
  <2>1. pipeline' = 0
    BY <1>3 DEF MakeDirectory, PipelineInv, Removing, Idle, Cataloguing, Summing
  <2>2. \A f \in Slots : f \notin Defined \X (0..NumVersions) => fixtures[f] = Generated(f)
    BY <1>3, EmptyDirectoryIsStarted DEF MakeDirectory
  <2>3. \A f \in Slots : f \notin script'.todo => fixtures'[f] = Generated(f)'
    BY <1>3, <2>2 DEF MakeDirectory, Writing, Generated, IsManifest, Manifest, Logical
  <2> QED
    BY <1>3, <2>1, <2>3 DEF MakeDirectory, PipelineInv, Slots, Manifest
<1>4. CASE WriteOne
  <2>1. PICK f \in Slots : /\ fixtures' = [fixtures EXCEPT ![f] = Generated(f)]
                           /\ script' = Writing(script.todo \ {f})
    BY <1>4 DEF WriteOne
  <2>2. directory /\ \A g \in Slots : g \notin script.todo => fixtures[g] = Generated(g)
    BY <1>4 DEF WriteOne, PipelineInv
  <2>3. pipeline' = 0
    BY <1>4 DEF WriteOne, PipelineInv, Idle, Cataloguing, Summing
  <2>4. \A g \in Slots : Generated(g)' = Generated(g)
    BY <1>4 DEF WriteOne, Generated, IsManifest, Manifest, Logical
  <2>5. \A g \in Slots : g \notin script'.todo => fixtures'[g] = Generated(g)
    BY <2>1, <2>2 DEF Writing, TypeOK, FixturesOK
  <2> QED
    BY <1>4, <2>2, <2>3, <2>4, <2>5 DEF WriteOne, PipelineInv, Slots, Manifest
<1>5. CASE EndGenerate
  <2>1. \A f \in Slots : fixtures[f] = Generated(f)
    BY <1>5 DEF EndGenerate, PipelineInv, Writing
  <2>2. directory
    BY <1>5 DEF EndGenerate, PipelineInv, Writing
  <2>3. ASSUME Validates, NEW s \in Defined
        PROVE  definitions[s] \in Truthful
    <3>1. s \in Scenarios /\ definitions[s] # None
      BY DEF Defined
    <3>2. ManifestOf(s) = definitions[s]
      BY <2>1, <3>1, SlotsOfAScenario DEF Generated, ManifestOf
    <3> QED
      BY <2>3, <3>1, <3>2 DEF Validates, ScenarioDirs, ScenarioConsistent
  <2>4. pipeline' # 0 => FreshFixtures
    BY <1>5, <2>1, <2>2, <2>3 DEF EndGenerate, FreshFixtures
  <2>5. pipeline' # 0 => FreshFixtures'
    BY <1>5, <2>4, FreshKept DEF EndGenerate
  <2> QED
    BY <1>5, <2>5 DEF EndGenerate, PipelineInv, Idle, Summing
<1>6. CASE StartCatalog
  <2>1. pipeline # 0 => FreshFixtures'
    BY <1>6, FreshStaysFresh DEF StartCatalog
  <2> QED
    BY <1>6, <2>1 DEF StartCatalog, PipelineInv, Cataloguing, Summing, Idle
<1>7. CASE WriteCatalog
  <2>1. pipeline # 0 => FreshFixtures'
    BY <1>7, FreshStaysFresh DEF WriteCatalog
  <2>2. catalog' = Catalog(CatalogRows', installed')
    BY <1>7, CatalogRowsKept DEF WriteCatalog
  <2> QED
    BY <1>7, <2>1, <2>2 DEF WriteCatalog, PipelineInv, Cataloguing, Summing, Idle
<1>8. CASE WriteSums
  <2>1. pipeline' # 0 => pipeline # 0
    BY <1>8 DEF WriteSums
  <2>2. pipeline # 0 => FreshFixtures'
    BY <1>8, FreshStaysFresh DEF WriteSums
  <2>3. pipeline # 0 => catalog' = Catalog(CatalogRows', installed')
    BY <1>8, CatalogRowsKept DEF WriteSums, PipelineInv
  <2>4. sums' = Hashes'
    BY <1>8 DEF WriteSums, Hashes
  <2> QED
    BY <1>8, <2>1, <2>2, <2>3, <2>4 DEF WriteSums, PipelineInv, Summing, Idle
<1>9. CASE Crash \/ TearFixture \/ TearCatalog \/ TearSums
  BY <1>9, Restarted DEF Crash, TearFixture, TearCatalog, TearSums, Die, Idle
<1>10. CASE EditDefinition \/ UpgradePyArrow \/ EditFixture \/ DeleteCatalog
  BY <1>10, Restarted DEF EditDefinition, UpgradePyArrow, EditFixture, DeleteCatalog, DeveloperStep, Idle
<1>11. CASE Verify \/ UNCHANGED vars
  <2>1. UNCHANGED <<definitions, installed, directory, fixtures, catalog, sums, script, pipeline>>
    BY <1>11 DEF Verify, vars
  <2>2. /\ CatalogRows' = CatalogRows /\ Hashes' = Hashes
        /\ FreshFixtures => FreshFixtures'
        /\ \A f \in Slots : Generated(f)' = Generated(f)
    BY <2>1, FreshKept, CatalogRowsKept DEF Hashes, Generated, IsManifest, Manifest, Logical
  <2> QED
    BY <2>1, <2>2 DEF PipelineInv, Slots, Manifest
<1> QED
  BY <1>1, <1>2, <1>3, <1>4, <1>5, <1>6, <1>7, <1>8, <1>9, <1>10, <1>11 DEF Next

(* generate_fixtures with exit status 0, then build_catalog: the gate      *)
(* passes, byte for byte, from whatever the checkout held before.          *)
THEOREM PipelineIsSound == Spec => []PipelinePasses
<1>1. Init => PipelineInv
  BY DEF Init, PipelineInv, Idle
<1>2. TypeOK /\ PipelineInv /\ [Next]_vars => PipelineInv'
  BY PipelineStep
<1>3. TypeOK /\ PipelineInv => PipelinePasses
  BY FreshPasses DEF PipelineInv, PipelinePasses
<1> QED
  BY <1>1, <1>2, <1>3, TypeCorrect, PTL DEF Spec

(***************************************************************************)
(* The manifest is written last                                            *)
(***************************************************************************)

(* Places still to be written are empty, and a scenario with a version to  *)
(* write still has its manifest to write.                                  *)
ManifestLastInv ==
    script.name = "writing" =>
        /\ script.todo \subseteq Slots
        /\ \A f \in script.todo : fixtures[f] = None
        /\ \A s \in Scenarios, v \in Versions :
              <<s, v>> \in script.todo => <<s, Manifest>> \in script.todo

LEMMA ManifestLastStep == TypeOK /\ ManifestLastInv /\ [Next]_vars => ManifestLastInv'
<1> SUFFICES ASSUME TypeOK, ManifestLastInv, [Next]_vars, script'.name = "writing"
             PROVE  ManifestLastInv'
  BY DEF ManifestLastInv
<1>1. CASE MakeDirectory
  <2>1. script'.todo = Defined \X (0..NumVersions) /\ fixtures' = fixtures
    BY <1>1 DEF MakeDirectory, Writing
  <2>2. \A f \in Slots : fixtures[f] = None
    BY <1>1 DEF MakeDirectory, TypeOK, FixturesOK
  <2>3. script'.todo \subseteq Slots
    BY <2>1 DEF Slots, Defined
  <2>4. \A s \in Scenarios, v \in Versions :
           <<s, v>> \in script'.todo => <<s, Manifest>> \in script'.todo
    BY <2>1, SizesAssumption DEF Manifest
  <2> QED
    BY <2>1, <2>2, <2>3, <2>4 DEF ManifestLastInv, Slots, Versions, Manifest
<1>2. CASE WriteOne
  <2>1. PICK f \in Slots : /\ IsNext(f)
                           /\ fixtures' = [fixtures EXCEPT ![f] = Generated(f)]
                           /\ script' = Writing(script.todo \ {f})
    BY <1>2 DEF WriteOne
  <2>2. script.name = "writing" /\ script'.todo = script.todo \ {f}
    BY <1>2, <2>1 DEF WriteOne, Writing
  <2>3. \A g \in script'.todo : fixtures'[g] = None
    BY <2>1, <2>2 DEF ManifestLastInv, TypeOK, FixturesOK
  <2>4. ASSUME NEW s \in Scenarios, NEW v \in Versions, <<s, v>> \in script'.todo
        PROVE  <<s, Manifest>> \in script'.todo
    <3>1. <<s, Manifest>> \in script.todo /\ <<s, v>> \in script.todo
      BY <2>2, <2>4 DEF ManifestLastInv
    <3>2. ~Precedes(<<s, Manifest>>, <<s, v>>)
      BY SizesAssumption DEF Precedes, Manifest, Versions, Scenarios
    <3> QED
      BY <2>1, <2>2, <3>1, <3>2 DEF IsNext
  <2> QED
    BY <2>2, <2>3, <2>4 DEF ManifestLastInv, Slots, Versions, Manifest
<1>3. CASE Verify \/ UNCHANGED vars
  BY <1>3 DEF Verify, vars, ManifestLastInv, Slots, Versions, Manifest
<1>4. CASE StartGenerate \/ RemoveOne \/ RemoveDirectory \/ EndGenerate \/ StartCatalog \/ WriteCatalog \/ WriteSums
  BY <1>4 DEF StartGenerate, RemoveOne, RemoveDirectory, EndGenerate, StartCatalog, WriteCatalog, WriteSums,
              Removing, Cataloguing, Summing, Idle
<1>5. CASE Crash \/ TearFixture \/ TearCatalog \/ TearSums
  BY <1>5 DEF Crash, TearFixture, TearCatalog, TearSums, Die, Idle
<1>6. CASE EditDefinition \/ UpgradePyArrow \/ EditFixture \/ DeleteCatalog
  BY <1>6 DEF EditDefinition, UpgradePyArrow, EditFixture, DeleteCatalog, DeveloperStep, Idle
<1> QED
  BY <1>1, <1>2, <1>3, <1>4, <1>5, <1>6 DEF Next

LEMMA ManifestLastVouches ==
    ASSUME TypeOK, PipelineInv, ManifestLastInv
    PROVE  ManifestVouchesForItsFiles
<1> SUFFICES ASSUME script.name = "writing", NEW s \in ScenarioDirs
             PROVE  /\ ~ScenarioRaises(s)
                    /\ \A v \in Versions : /\ fixtures[<<s, v>>] # None
                                          /\ Logical(fixtures[<<s, v>>]) = Logical(ManifestOf(s))
  BY DEF ManifestVouchesForItsFiles
<1>1. s \in Scenarios /\ ManifestOf(s) # None
  BY DEF ScenarioDirs
<1>2. <<s, Manifest>> \notin script.todo
  BY <1>1 DEF ManifestLastInv, ManifestOf
<1>3. ManifestOf(s) = definitions[s] /\ ManifestOf(s) # Torn
  BY <1>1, <1>2, SlotsOfAScenario, GeneratedType DEF PipelineInv, ManifestOf, Generated
<1>4. ASSUME NEW v \in Versions
      PROVE  /\ fixtures[<<s, v>>] = <<Logical(definitions[s]), installed>>
             /\ fixtures[<<s, v>>] # Torn /\ fixtures[<<s, v>>] # None
  <2>1. fixtures[<<s, v>>] = Generated(<<s, v>>)
    BY <1>1, <1>2, SlotsOfAScenario DEF ManifestLastInv, PipelineInv
  <2>2. Generated(<<s, v>>) # Torn /\ Generated(<<s, v>>) # None
    BY <1>1, <1>3, SlotsOfAScenario, GeneratedType
  <2> QED
    BY <1>1, <1>3, <2>1, <2>2, SlotsOfAScenario DEF Generated
<1>5. ~ScenarioRaises(s)
  BY <1>3, <1>4 DEF ScenarioRaises
<1>6. ASSUME NEW v \in Versions
      PROVE  fixtures[<<s, v>>] # None /\ Logical(fixtures[<<s, v>>]) = Logical(ManifestOf(s))
  <2>1. Logical(fixtures[<<s, v>>]) = Logical(definitions[s])
    BY <1>4 DEF Logical
  <2> QED
    BY <1>3, <1>4, <2>1
<1> QED
  BY <1>5, <1>6

(* A manifest is never ahead of the files it describes, wherever a         *)
(* generation is, and so wherever it may die.                              *)
THEOREM ManifestIsLast == Spec => []ManifestVouchesForItsFiles
<1>1. Init => PipelineInv /\ ManifestLastInv
  BY DEF Init, PipelineInv, ManifestLastInv, Idle
<1>2. TypeOK /\ PipelineInv /\ ManifestLastInv /\ [Next]_vars => PipelineInv' /\ ManifestLastInv'
  BY PipelineStep, ManifestLastStep
<1>3. TypeOK /\ PipelineInv /\ ManifestLastInv => ManifestVouchesForItsFiles
  BY ManifestLastVouches
<1> QED
  BY <1>1, <1>2, <1>3, TypeCorrect, PTL DEF Spec

(***************************************************************************)
(* The scripts keep the promise                                            *)
(***************************************************************************)
(* What generation and catalog build leave behind. *)
FreshCheckout == FreshFixtures /\ catalog = Catalog(CatalogRows, installed) /\ sums = Hashes

(* When both documented steps are done, it is there, and stays there while *)
(* the catalog is built again: a longer memory than PipelineInv has.       *)
PublishedInv == pipeline = 2 => FreshCheckout

(* The manifests of fresh fixtures are those of the definitions. *)
LEMMA FreshRows ==
    ASSUME TypeOK, FreshFixtures
    PROVE  CatalogRows = DefinedRows
<1>1. \A s \in Scenarios : ManifestOf(s) = definitions[s]
  BY FreshConsistent
<1>2. ScenarioDirs = Defined
  BY <1>1 DEF ScenarioDirs, Defined
<1>3. \A s \in Defined : ManifestOf(s) = definitions[s]
  BY <1>1 DEF Defined
<1> QED
  BY <1>2, <1>3 DEF CatalogRows, DefinedRows

(* A checkout is exact when it is fresh, however it came about. *)
LEMMA ExactMeansFresh == TypeOK => (Checkout = "exact" <=> FreshCheckout)
<1> SUFFICES ASSUME TypeOK PROVE Checkout = "exact" <=> FreshCheckout
  OBVIOUS
<1>1. ASSUME FreshCheckout PROVE directory /\ Reproducible /\ ExactlyReproducible
  <2>1. CatalogRows = DefinedRows /\ directory
    BY <1>1, FreshRows DEF FreshCheckout, FreshFixtures
  <2>2. ExactlyReproducible
    BY <1>1, <2>1 DEF ExactlyReproducible, FreshCheckout, FreshFixtures
  <2>3. ASSUME NEW s \in Defined
        PROVE  /\ ManifestOf(s) = definitions[s]
               /\ \A v \in Versions : /\ fixtures[<<s, v>>] # Torn
                                     /\ Logical(fixtures[<<s, v>>]) = Logical(definitions[s])
    <3>1. s \in Scenarios /\ definitions[s] # None
      BY DEF Defined
    <3> QED
      BY <1>1, <3>1, FreshConsistent DEF FreshCheckout, Logical
  <2>4. catalog.state = "whole" /\ catalog.rows = DefinedRows
    BY <2>2 DEF ExactlyReproducible, Catalog
  <2> QED
    BY <1>1, <2>1, <2>2, <2>3, <2>4 DEF Reproducible, FreshCheckout, FreshFixtures
<1>2. ASSUME directory, Reproducible, ExactlyReproducible PROVE FreshCheckout
  <2>1. FreshFixtures /\ sums = Hashes /\ catalog = Catalog(DefinedRows, installed)
    BY <1>2 DEF FreshFixtures, Reproducible, ExactlyReproducible
  <2>2. CatalogRows = DefinedRows
    BY <2>1, FreshRows
  <2> QED
    BY <2>1, <2>2 DEF FreshCheckout
<1> QED
  BY <1>1, <1>2 DEF Checkout

(* What the gate says of a checkout is what it is. *)
LEMMA GateTells ==
    ASSUME TypeOK, Verify
    PROVE  Answer' \in Promise!Answers(Checkout)
<1>1. verdict' = Gate
  BY DEF Verify
<1>2. Gate.exit \in {"ok", "problems", "raised"} /\ (Gate.exit = "ok" => Gate.exact = SameWriter /\ ~GateRaises)
  BY DEF Gate
<1>3. CASE Checkout = "exact"
  <2>1. Gate = [exit |-> "ok", exact |-> TRUE, problems |-> {}]
    BY <1>3, ExactMeansFresh, FreshPasses DEF FreshCheckout
  <2> QED
    BY <1>1, <1>3, <2>1 DEF Answer, Promise!Answers
<1>4. CASE Checkout # "exact" /\ Gate.exit = "ok"
  <2>1. Reproducible /\ (Gate.exact => ExactlyReproducible)
    BY <1>4, GateSound
  <2>2. directory
    BY <1>2, <1>4 DEF GateRaises, ValidationRaises
  <2>3. Checkout = "logical" /\ ~Gate.exact
    BY <1>4, <2>1, <2>2 DEF Checkout
  <2> QED
    BY <1>1, <1>4, <2>3 DEF Answer, Promise!Answers
<1>5. CASE Checkout # "exact" /\ Gate.exit # "ok"
  <2>1. Answer' = "other"
    BY <1>1, <1>2, <1>5 DEF Answer
  <2> QED
    BY <1>5, <2>1 DEF Promise!Answers, Checkout
<1> QED
  BY <1>3, <1>4, <1>5

(* What a checkout is depends on nothing but the definitions, the          *)
(* installed PyArrow and the files.                                        *)
LEMMA CheckoutKept ==
    ASSUME UNCHANGED <<definitions, installed, directory, fixtures, catalog, sums>>
    PROVE  Checkout' = Checkout /\ (FreshCheckout => FreshCheckout')
<1>1. /\ Reproducible' <=> Reproducible
      /\ ExactlyReproducible' <=> ExactlyReproducible
  BY DEF Reproducible, ExactlyReproducible, Defined, DefinedRows, Generated, ManifestOf, Hashes, Logical,
         Slots, Versions, Manifest, IsManifest
<1>2. FreshCheckout => FreshCheckout'
  BY FreshKept, CatalogRowsKept DEF FreshCheckout, Hashes
<1> QED
  BY <1>1, <1>2 DEF Checkout

(* A clone, or definitions alone. *)
LEMMA PromiseInit == Init => Promise!Init
<1> SUFFICES ASSUME Init PROVE Promise!Init
  OBVIOUS
<1>1. Checkout \in Promise!Kinds
  BY DEF Checkout, Promise!Kinds
<1> QED
  BY <1>1 DEF Init, NoVerdict, Answer, Promise!Init

(* Each step is one the promise speaks of: the scripts before their ends   *)
(* are Disturb, as are crashes and the developer; building the catalog is  *)
(* Build or BuildAgain, and Ask is the gate.                               *)
LEMMA PromiseStep ==
    TypeOK /\ VerdictSound /\ PipelineInv /\ PublishedInv /\ TypeOK' /\ PipelineInv' /\ [Next]_vars
        => [Promise!Next]_(Promise!vars) /\ PublishedInv'
<1> SUFFICES ASSUME TypeOK, VerdictSound, PipelineInv, PublishedInv, TypeOK', PipelineInv', [Next]_vars
             PROVE  (Promise!Next \/ UNCHANGED Promise!vars) /\ PublishedInv'
  BY DEF Promise!vars
<1>kinds. Checkout \in Promise!Kinds /\ Checkout' \in Promise!Kinds
  BY DEF Checkout, Promise!Kinds
<1>silent. script # Idle => Answer = "none"
  BY DEF VerdictSound, Answer, NoVerdict
<1>disturb. ASSUME pipeline' = 0, Answer' = "none" PROVE Promise!Next /\ PublishedInv'
  BY <1>kinds, <1>disturb DEF Promise!Next, Promise!Disturb, PublishedInv
<1>same. ASSUME UNCHANGED <<definitions, installed, directory, fixtures, catalog, sums, verdict, pipeline>>
         PROVE  UNCHANGED Promise!vars /\ PublishedInv'
  BY <1>same, CheckoutKept DEF Promise!vars, Answer, PublishedInv
<1>1. CASE StartGenerate \/ EditDefinition \/ UpgradePyArrow \/ EditFixture \/ DeleteCatalog
  <2>1. pipeline' = 0 /\ verdict' = NoVerdict
    BY <1>1 DEF StartGenerate, EditDefinition, UpgradePyArrow, EditFixture, DeleteCatalog, DeveloperStep, Disturb
  <2> QED
    BY <2>1, <1>disturb DEF Answer, NoVerdict
<1>2. CASE RemoveOne \/ RemoveDirectory \/ MakeDirectory \/ WriteOne
  <2>1. script # Idle /\ script.name \in {"removing", "writing"} /\ pipeline' = pipeline /\ verdict' = verdict
    BY <1>2 DEF RemoveOne, RemoveDirectory, MakeDirectory, WriteOne, Removing, Idle
  <2>2. pipeline = 0
    BY <2>1 DEF PipelineInv, Idle, Cataloguing, Summing
  <2> QED
    BY <2>1, <2>2, <1>silent, <1>disturb DEF Answer
<1>3. CASE Crash \/ TearFixture \/ TearCatalog \/ TearSums
  <2>1. script # Idle /\ pipeline' = 0 /\ verdict' = verdict
    BY <1>3 DEF Crash, TearFixture, TearCatalog, TearSums, Die
  <2> QED
    BY <2>1, <1>silent, <1>disturb DEF Answer
<1>4. CASE EndGenerate
  <2>1. /\ script # Idle /\ script.name = "writing" /\ pipeline' \in {0, 1} /\ verdict' = verdict
        /\ UNCHANGED <<definitions, installed, directory, fixtures, catalog, sums>>
    BY <1>4 DEF EndGenerate, Writing, Idle
  <2>2. pipeline = 0
    BY <2>1 DEF PipelineInv, Idle, Cataloguing, Summing
  <2>3. Checkout' = Checkout /\ Answer = "none" /\ Answer' = "none"
    BY <2>1, <1>silent, CheckoutKept DEF Answer
  <2>4. CASE pipeline' = 0
    BY <2>3, <2>4, <1>disturb
  <2>5. CASE pipeline' = 1
    BY <2>2, <2>3, <2>5 DEF Promise!Next, Promise!Generate, PublishedInv
  <2> QED
    BY <2>1, <2>4, <2>5
<1>5. CASE StartCatalog \/ WriteCatalog \/ WriteSums
  <2>1. /\ Answer' = "none" /\ pipeline \in 0..2 /\ pipeline' \in 0..2
        /\ pipeline' # pipeline => WriteSums /\ pipeline = 1 /\ pipeline' = 2
        /\ UNCHANGED <<definitions, installed, directory, fixtures>>
    <3>1. verdict' = NoVerdict \/ (script # Idle /\ verdict' = verdict)
      <4>1. CASE StartCatalog
        BY <4>1 DEF StartCatalog, Disturb
      <4>2. CASE WriteCatalog \/ WriteSums
        <5>1. script.name # "idle" /\ verdict' = verdict
          BY <4>2 DEF WriteCatalog, WriteSums, Cataloguing, Summing
        <5> QED
          BY <5>1 DEF Idle
      <4> QED
        BY <1>5, <4>1, <4>2
    <3>2. Answer' = "none"
      BY <3>1, <1>silent DEF Answer, NoVerdict
    <3>3. pipeline \in 0..2 /\ pipeline' \in 0..2
      BY DEF TypeOK
    <3> QED
      BY <1>5, <3>2, <3>3 DEF StartCatalog, WriteCatalog, WriteSums
  <2>2. CASE pipeline = 0
    BY <2>1, <2>2, <1>disturb
  <2>3. CASE pipeline = 1 /\ pipeline' = 1
    BY <2>1, <2>3, <1>kinds DEF Promise!Next, Promise!Build, PublishedInv
  <2>4. CASE pipeline = 1 /\ pipeline' = 2
    <3>1. WriteSums
      BY <2>1, <2>4
    <3>2. script = Summing /\ script' = Idle /\ catalog' = catalog /\ sums' = Hashes /\ fixtures' = fixtures
      BY <3>1 DEF WriteSums
    <3>3. FreshFixtures' /\ catalog' = Catalog(CatalogRows', installed') /\ sums' = Hashes'
      BY <2>4, <3>2 DEF PipelineInv
    <3>4. FreshCheckout'
      BY <3>3 DEF FreshCheckout
    <3>5. (TypeOK => (Checkout = "exact" <=> FreshCheckout))'
      BY ExactMeansFresh, PTL
    <3> QED
      BY <1>kinds, <2>1, <2>4, <3>4, <3>5 DEF Promise!Next, Promise!Build, PublishedInv
  <2>5. CASE pipeline = 2
    <3>1. FreshCheckout
      BY <2>5 DEF PublishedInv
    <3>2. catalog' = catalog /\ sums' = sums
      BY <1>5, <3>1 DEF StartCatalog, WriteCatalog, WriteSums, FreshCheckout
    <3>3. Checkout' = Checkout /\ FreshCheckout'
      BY <2>1, <3>1, <3>2, CheckoutKept
    <3> QED
      BY <2>1, <2>5, <3>3 DEF Promise!Next, Promise!BuildAgain, PublishedInv
  <2> QED
    BY <2>1, <2>2, <2>3, <2>4, <2>5
<1>6. CASE Verify
  <2>1. UNCHANGED <<definitions, installed, directory, fixtures, catalog, sums, pipeline>>
    BY <1>6 DEF Verify
  <2>2. Checkout' = Checkout /\ PublishedInv'
    BY <2>1, CheckoutKept DEF PublishedInv
  <2> QED
    BY <1>6, <2>1, <2>2, GateTells DEF Promise!Next, Promise!Ask
<1>7. CASE UNCHANGED vars
  BY <1>7, <1>same DEF vars
<1> QED
  BY <1>1, <1>2, <1>3, <1>4, <1>5, <1>6, <1>7 DEF Next

(* For every corpus and any history of crashes, edits and upgrades: the    *)
(* three scripts keep the promise, the gate's answers included.            *)
THEOREM PromiseIsKept == Spec => ScriptsKeepThePromise
<1>1. Init => VerdictSound /\ PipelineInv /\ PublishedInv
  BY NoVerdictSound DEF Init, VerdictSound, PassMeansReproducible, NoVerdict, PipelineInv, PublishedInv, Idle
<1>2. TypeOK /\ TypeOK' /\ VerdictSound /\ PipelineInv /\ PublishedInv /\ [Next]_vars
          => VerdictSound' /\ PipelineInv' /\ PublishedInv' /\ [Promise!Next]_(Promise!vars)
  BY VerdictStep, PipelineStep, PromiseStep
<1> QED
  BY <1>1, <1>2, PromiseInit, TypeCorrect, PTL DEF Spec, ScriptsKeepThePromise, Promise!Spec
=============================================================================
