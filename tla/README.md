# tabular-evolution-corpus in TLA+

The corpus is a set of Parquet fixtures. Each of its 44 scenarios is a sequence
of two or three *versions* of a table; between two versions there is a
*transition* with hand-written *mutations* (what changed in the schema) and
*invariants* (facts about the rows). A manifest records all of it, a validator
recomputes it from the files alone, a gate decides whether a checkout may be
released, a runner drives query engines over every transition of a release, and a
report classifies what they answered.

This directory models the parts of that which are hard to test: the schema diff
and what is derived from it, the validator on tables with rows, the reading and
flattening of nested values, the pipeline that generates and gates a release in
the presence of crashes and edits, the runner on a git checkout that somebody
else is working on, the engine adapters inside one call, and the report on
whatever results files it finds. TLC checks the models on small instances; TLAPS
proves the release pipeline, the runner, the adapters, the report, the diff of
nested schemas with the pairing derived from it, and the validator on flat tables
correct for instances of every size, and that the release pipeline and the runner
each implement an abstract specification of what they promise.

## Inventory

| Component | Source | State | Operations | What makes it correct |
|---|---|---|---|---|
| Scenario definitions | `scenarios/*.py`, `models.py` | none (code) | `all_scenarios`, builders | declared mutations and facts are those of the files |
| Schema diff | `diff.py`, `types.py` | none (pure) | `diff_schemas` | complete, symmetric, one edit is one mutation |
| Path pairing, facts | `validate.py` `observe_transition` | none (pure) | common paths, value changes | pairs the fields the diff matched, and no others |
| Value model | `values.py` | none (pure) | `same`, `encode`, `_values`, `walk`, `flatten`, `fingerprint` | every layout is read as written, paths lose no change |
| Generation | `generate.py`, `generate_fixtures.py` | `fixtures/` | remove, write, validate | a manifest vouches for its files |
| Catalog, checksums | `catalog.py`, `release.py`, `build_catalog.py` | `data/scenarios.parquet`, `SHA256SUMS` | rebuild both | agree with `fixtures/` |
| Inspection | `inspect.py` | none (reads) | `field_id`, `describe_schema`, `created_by` | as used by the others; the rest prints |
| Validator | `validate.py` | none (reads) | layout, manifest, versions, transitions | accepts the true manifests and no others, and always answers |
| Release gate | `verify_release.py`, `release.py` | none (reads) | compare with a fresh generation | OK only for a reproducible checkout |
| Adapter runner | `adapters/runner.py`, `base.py` | `results/<version>/*.jsonl` | pin, observe, write | complete records about the named bytes |
| Engine adapters | `adapters/*_adapter.py` | connections, pipelines, directories | `read`, `describe` | nothing outlives its call; directories are removed closed |
| Report | `adapters/report.py` | `docs/OBSERVATIONS.md` | render, write, check | classes do not depend on spelling; files cut well short are refused |
| Command line | `cli.py` | none | `validate`, `inspect`, `diff` | thin; not modelled |

The components share files, not memory. Generation writes `fixtures/`; the
catalog build reads the manifests there and writes the catalog and then the
checksums; the gate reads all three and a second, temporary generation. The
runner reads git and `fixtures/` and writes `results/`, which makes the checkout
dirty for its own next run; it drives the adapters one call at a time. The report
reads `results/` and `fixtures/` and writes a section of a document. The validator
is called by the end of a generation,
by the gate and from the command line. The diff is called by the validator only.

What is hard here:
* *crash windows*: generation removes everything before it writes, every file is
  written in place, catalog and checksums are two writes;
* *stale copies*: catalog and checksums repeat what the fixtures say, manifests
  repeat what the definitions and the tables say;
* *partial provenance*: one committed file of another PyArrow release changes
  what the gate compares;
* *check then use*: the runner checks the checkout once and reads it for minutes;
* *partial failure*: an adapter raises after hundreds of calls, a manifest cannot
  be parsed, the catalog is missing;
* *missing answers*: a results file can lack its last records, or be missing, and
  the report looks up records of one engine next to those of others;
* *two notions of equality*: rows are aligned by an encoding that tells 1 from 1.0,
  values are compared by one that does not;
* *layouts*: offsets, slices, junk under nulls and dictionaries store one value in
  many ways;
* *derived pairing*: the validator finds the fields to compare from the mutation
  list, with two prefixes, longest-match renames and reused names.

`PROJECT.json` lists each of these at its line, with the properties that cover it.

## Modules

```
Schemas <- Diff <- Evolution, Corpus <- MCEvolution   schema diff, validator's pairing
                <- DiffProofs                         theorems about Diff
        Evolution, DiffProofs <- EvolutionProofs      theorems about Evolution
                <- Validator <- MCValidator           validator on tables with rows
                             <- ValidatorProofs       theorems about Validator
Values  <- Validator
        <- Flatten <- MCFlatten                       nested values, flatten
Release <- MCRelease                                  generation, catalog, gate
        <- ReleaseProofs                              theorems about Release
Calls   <- Runner <- MCRunner                         adapter runner and git checkout
                  <- RunnerProofs                     theorems about Runner
        <- Report <- MCReport                         observation report
                  <- ReportProofs                     theorems about Report
ReleasePromise                                        what Release implements (INSTANCE)
Recorder                                              what Runner implements (INSTANCE)
Engines <- MCEngines                                  the adapters inside one call
        <- EnginesProofs                              theorems about Engines
Lemmas  <- DiffProofs, ReportProofs, ValidatorProofs  numbers and sequences
```

`A <- B` says that B extends A.

**Schemas** is the data: a schema is a function from *levels* (paths in front of
siblings) to sequences of fields, a path is a sequence of segments. `TypeOf` is
what `type_string` distinguishes. `WellFormed` is the shape of the schemas the
corpus builds.

**Diff** is `diff.py` operator by operator: `Match` (`_match`), `diff_pair`
(`_diff_pair`), `diff_level` (`_diff_level`), `diff_schemas`; recursion over the
schema is `MatchedLevels`, the pairs of levels the code descends into. `Target`,
`GoneWith`, `Common` and `PathsRetained` are the part of `observe_transition`
that derives the pairing of paths from the mutation list, written the way the
code does it (from mutations only), not from `Match`. The diff returns a list;
the model a set: the validator compares lists as multisets, and no two mutations
of one diff are equal.

**Corpus** is every transition of the 44 builders: two schemas, the declared
mutations, `paths_retained`, and the paths at which values change.

**Evolution** is an author who edits the new version of a transition. Its state
is the two schemas, the mutations the edits amount to, their number, and the
author: the transitions to start from and what the edits may use. Each
edit is a kind of builder the corpus has (add, remove, rename, drop and re-add,
move, retype, widen a list, change nullability), applied at any level. A rename
counts as one only where field ids prove it, and is otherwise a removal and an
addition, as in `rename_case_only` and `rename_column_with_field_id`.

**Release** is the checkout: `definitions` (the builders), `installed` (PyArrow),
`fixtures/`, the catalog, the checksums; `script` is the script that runs and how
far it is. `generate_fixtures` is `StartGenerate`, `RemoveOne`*,
`RemoveDirectory`, `MakeDirectory`, `WriteOne`* in order, `EndGenerate` (the
validation that decides the exit status); `build_catalog` is `StartCatalog`,
`WriteCatalog`, `WriteSums`; `verify_release` changes nothing and is the one
step `Verify`, whose operators are its checks in order, with what each reports
and what each raises. `Crash` ends a script between two file operations,
`TearFixture`, `TearCatalog` and `TearSums` inside one. The developer edits
definitions and fixtures, deletes the catalog and upgrades PyArrow while no script
runs. `verdict` is what the gate last said of the checkout as it now is;
`pipeline` counts the documented steps that completed undisturbed.

**ReleasePromise** is the abstract specification of the release pipeline: a checkout is
`"exact"` (byte for byte what its definitions generate, with current checksums),
`"logical"` (the same but for the writer or the checksums) or `"other"`. The two
documented steps make it exact, building the catalog again leaves it exact, the gate
answers what it is (of a logical one it may ask for checksums), and an answer is
void as soon as anything happens to the checkout. `Release` maps the files to a kind
(`Checkout`), `pipeline` to `steps` and the verdict to `answer`, and implements
`ReleasePromise!Spec`: removing, writing, dying and editing are `Disturb`.

**Runner** is `adapters/runner.py` on a git checkout: commits are the trees of
`fixtures/`, `tagged` the commit the version's tag names, `results` the files of
the working tree. A run is `Start`, the git commands of `corpus_identity` one by
one (`CheckStatus`, `CheckTag`, `CheckTrees`, `ReadHead`), then per adapter
`Load`, `OpenScenario` and `Observe` for every call in order, `EndObserve`,
`WriteResults`. `AdapterBug` is an exception of `describe` or an invalid record,
`Interrupt` a kill, `TearResults` a write cut short. The developer edits,
commits, restores and tags between any two of these steps.

**Calls** is what runner and report share: which calls an adapter declares for a
transition, and their order.

**Recorder** is the abstract specification of the runner: a run takes the adapters it
was asked for one by one, replaces the whole file of one at a time, or gives up
and leaves at most the file it was writing cut short; a file is doubtful only
when somebody touched the checkout. `Runner` maps a results file to what it is worth
(`FileKind`: `whole` only if complete and pinned) and the names left to the queue,
and implements `Recorder!Spec`, its fairness included.

**Report** is `adapters/report.py`. `_relative`, `OutcomeOf` and `_order_dependent`
classify a read; `TogetherTable`, `OrderTable`, `EachTable` and `Shown` are the
tables of `render`; `Raises` is every lookup of a record or manifest that is not
there. `main` is `NoResults`, `RenderRaises`, `WriteReport` and `CheckReport`. Around it,
runs of some adapters leave whole files or files cut after any record, fixtures
are edited and released.

**Values** is the scalar part of `values.py` (`same`, `encode`) and the relations of
`_check_relation`. Numbers are counted in halves, so that truncation and the sign of
zero can be seen; `Exact` stands for 2^53.

**Validator** is `validate.py` on one transition of flat tables with rows. `row_keys`,
`Aligned`, `Changes` and `Facts` are `observe_transition`; `ManifestProblems`,
`check_versions` and `check_transitions` are the checks with the problems they report,
`Raises` is the lookup that is not guarded, whose exception (`KeyMissing`) takes the
place of all that `check_scenario` had found. An author edits rows, values and columns, casts
a column, removes the file, and at any point declares a manifest of the files as
they are, truthful or wrong in one fact or relation; edits after that make it
stale. `FactsByDefinition` and `RelationsAreTrue` are what the document says the
facts mean, written by value equality and without keys or paths.

**Flatten** is the nested part of `values.py`: `Stored` lays a column out as an Arrow
array in a tight and in a wasteful way, `_values` reads it back, `walk` and `flatten` make
the per-path values of it. It uses recursive operators, as the code does.

**Engines** is the adapters inside one call of the runner. `PyArrowRead` to
`DataprofRead` and `Describe` are the steps of each adapter and mode, with what each
step takes and gives back and what it may leave open if it raises; `DuckDBHandlers`,
`DeltaLakeHandlers`, `DltHandlers` and `DataprofHandlers` are what the `except`, `finally`
and `with` of an adapter give back. Any step of `read` may raise, those that give something
back included (having done so), and a step of dlt's pipeline as a `PipelineStepFailed` or
as something else: only for the first does the adapter clear the frames in which dlt's
writer lives. Otherwise the writer goes when the runner drops the exception
(`RecordError`). Each handler gives back what is its own even if the one before raised.

The operators marked `Faulty:` are not part of the models: each is a plausible
bug in one definition, kept so that every property can be seen to fail.

## Runs

| Run | Question | Instance |
|---|---|---|
| `Evolution` | Are the 44 scenarios declared as the diff and the pairing see them, and is the diff complete, symmetric and in step with the validator's pairing in one-edit variations of them, inside structs, lists and maps, and where names and ids change hands? | all transitions with one more edit (two new names); four nested schemas with two edits; two identified columns with three edits |
| `EvolutionFieldIds` | *violation*: pairing below a retyped list ignores field ids | a list of identified structs, two edits |
| `Release` | Does OK mean reproducible, is the documented pipeline enough, do manifests vouch for their files, and do the scripts implement ReleasePromise? | 2 scenarios of 2 versions, 2 writers, 2 contents, 2 mishaps |
| `ReleaseSums` | *violation*: OK with stale checksums | 1 scenario, 2 mishaps |
| `ReleaseNoCatalog` | *violation*: a missing catalog ends the gate with an exception | 1 scenario, 2 mishaps |
| `ReleaseTornManifest` | *violation*: an unreadable manifest ends the gate with an exception | 1 scenario, 2 mishaps |
| `Runner` | Are the records of an undisturbed run about the tagged bytes, complete and in order, does every run end, and is the runner a Recorder? | 2 adapters, 2 scenarios, requests of 2 names, 2 mishaps and a tag |
| `RunnerPinned` | *violation*: pinning without "undisturbed" | requests of 1 name, 1 mishap |
| `Report` | Can a results file that was cut well short pass for an observation? Do classes depend on spelling, is the order table what its rule says? | 3 adapters, 2 transitions, 2 releases, 3 runs, 1 edit; 3 schemas and 2 row counts |
| `Validator` | Does the validator accept exactly the true manifests where equal keys are encoded alike, and what do its facts mean together? | 5 tables of 2 rows, 2 edits before or after the manifest, 1 wrong fact or relation |
| `Flatten` | Is every layout read as written, and does comparing path by path lose or invent a change? | 8 nested column types, every pair of values of at most 2 elements |
| `Engines` | Does anything outlive its call, and is a directory removed while something in it is open? | 6 adapters with all modes, 2 calls, any step may raise |

### What the properties say

*Diff.* `MutationsRebuildTheNewSchema`: a reader who has only the old schema and
the mutations can say every field of the new one. `EmptyDiffMeansSameSchema`: the
diff is empty only for equal schemas (order included, field ids aside).
`DiffReadsBackwards`: the diff of `[to, from]` is the mirror of that of
`[from, to]`; the runner uses both orders against one set of mutations.
`CommonPathsFollowTheDiff`: the pairs derived from the mutation list are the
pairs the diff matched, except inside a container whose own type changed.
`RetainedPathsAreTheSameFields`: the fact `paths_retained` means that each old
field is still there as the same field. `OneEditIsItsDeclaration` and
`DeclaredFactsHold`: what an author declares is what is computed.

*Release.* `PassMeansReproducible`: after any history, "release OK" implies that
the tables (logically), manifests (exactly) and catalog (its rows) are those of
truthful definitions, and byte for byte with current checksums if the gate
compared bytes. `PipelinePasses`: after an undisturbed `generate_fixtures` and
`build_catalog`, the gate passes at its stricter level, from whatever state the
checkout was in. `ManifestVouchesForItsFiles`: while a generation runs, a
manifest on disk speaks of files that are there, whole and of that content.
`ScriptsKeepThePromise`: the refinement. It adds the converse of
`PassMeansReproducible`: an exact checkout is never refused, however it came about
(by a merge, by an edit undone, by a downgrade), a logical one only for its
checksums, and no answer outlives the checkout it was given of.

*Runner.* `CalmRunsArePinned`: each record's engine answer is about the bytes of
the revision it names and of the tag, in every state from then on.
`CalmResultsAreComplete`: a results file holds every declared call of the
adapter on every transition of the release, in order, once, for one revision.
`ExitZeroMeansRecorded`: a run during which nobody edited, committed, tagged or restored,
and that exits with 0, has such a file for every adapter it was asked for, written by
this run. `RunsEnd`: liveness.
`RunnerIsARecorder`: the refinement. In particular no dead run ever replaces a file
by part of an observation, no adapter is skipped, and what is `whole` stays so
through commits, restores and later runs.

*Report.* `LongCutsAreRefused`: a results file that lost more than its last record
makes the report fail rather than show less, once every mode of that adapter has
an answer and another adapter has them all; this rests on the order in which the
runner makes its calls. One lost record is not noticed by it, nor are the cuts that lose
a whole mode. `SpellingDoesNotMatter`: a one-to-one renaming of an engine's
schemas changes no class of a combined read and no order dependence; the table of single
versions, which compares spellings, is not spoken of. `OrderTableIsByPosition`: a read is
in the order table exactly if the orders differ in status, rows or schema and no
rule of position (first file, second file) explains the schema. That is the code's rule;
the section's text has the first file only.

*Validator.* `AcceptedManifestsAreTrue` and `TrueManifestsAreAccepted`: alignment by keys and
pairing by mutation paths compute what the facts and relations mean by
definition, in both directions, as long as equal keys are encoded alike.
`PositiveFactsLoseNothing`: rows retained, paths retained and values preserved together
mean that each old row is in the new file with all its values, and once if equal keys
are encoded alike: 0.0 and -0.0 are two keys of one value, so that without this a new
row could repeat an old one unseen.
`RelationsExclude`: no two relations fit one changed column. `OneCastIsItsRelation`: a cast
changes a column exactly when it loses something, and then satisfies its own
relation. `AcceptedFilesAreTheDeclaredOnes`: no edit after the declaration goes
unnoticed. `DeclaredFilesNeverRaise`: the validator answers of every manifest and the files
it was made of; only a file edited afterwards makes it raise, and what it had found of
such a file is then lost.

*Flatten.* `TypeOK` includes that `flatten` has one path for each field of a type, so that
no two share one. `ReadsWhatWasWritten`: whatever the layout. `FlattenLosesNothing`: two values of a
type are the same exactly when they are at every path. `NewMembersChangeNothing`: a
member added anywhere leaves every older path as it was.

*Engines.* `NothingOutlivesItsCall`: connections, pipelines and directories are given
back on every path. `RemovedDirectoriesAreClosed`: no connection and no pipeline in a directory is
open when it is removed, nor dlt's writer if a step of the pipeline failed; the writer may be
after an exception that dlt does not wrap.

### Bounds, and why they are enough

* Two edits nest any two of the diff's rules (a rename above a rename, a removal
  next to an addition of the same name, a retyped parent of a renamed child);
  three are needed only for names that change hands in a circle and are checked
  on a flat schema, since matching is per level. The nesting depth of three is
  one more than any schema of the corpus. The theorems say that more edits
  and deeper schemas make no difference; only `DeclaredFactsHold`, which is about the
  corpus, is not about more than what the run has.
* Release files interact through equality of content and writer and through
  missing and torn states: two contents, two sets of facts and two writers give
  every combination. Two scenarios are needed for the order between directories
  and for catalogs of a part of the corpus; two versions for scenarios that
  disagree with themselves. Two mishaps are a crash and an edit, or an edit and
  an upgrade, around any number of complete scripts, which are not bounded.
* In `Runner` the tag comes on top of two mishaps: a tag, an edit and a commit or
  restore, or the death of a run between them. Two adapters with different modes and two
  scenarios exercise the queue and the order of calls; requests of two names
  include repeated and unregistered ones.
* `Report` needs three adapters for the three ways a lookup fails (combined reads,
  writes, profiles and checks), a second transition for files cut between
  transitions, and a second release for results of an older one. Three schemas
  are the two read alone and another; each read is classified on its own, and the
  theorems show that more schemas or row counts make no difference.
* `Validator`: two rows are needed for order, repeated keys and lost rows; two
  edits, for an edit that hides another, or one before and one after the
  declaration. The start tables hold negative fractions, nulls, an integer above
  `Exact` (4), texts, timestamps and a log without identity; written values add
  NaN and both zeros.
* `Flatten`: a path can lose a change only at one level, so two levels of nesting,
  two elements and two leaves show every null, empty and one-element case. Rows
  are read one by one, except that the wasteful layout needs a row in front.
* `Engines`: two calls, so that what the first leaves is there for the second.

`CHECK_DEADLOCK FALSE` stands where the system really stops: an author (`Evolution`,
`Validator`, `Flatten`) when the bound on edits is reached, `Engines` after its last
call or an adapter bug. `Report` has it for the same reason: before its last run
nothing may be left to do but to look again.

`WriterSymmetry` is sound: writers are compared for equality only, and no
liveness property is checked under it (`ScriptsKeepThePromise` is a safety refinement,
and what it maps the files to does not depend on which writer is which).

### Fairness

Only `Runner` has any: weak fairness of `RunnerStep`, the steps a live process
takes. The fairness of `Recorder` (a run records or gives up) is not assumed but
follows, as part of the refinement. `subprocess.run` and the file operations return; an engine is assumed to
return or raise, as the runner has no timeout. Nothing is assumed of the
developer, of crashes, or of new runs being started.

## Proofs

`ReleaseProofs` proves, for every value of the constants allowed by
`SizesAssumption` and `FilesAssumption` (the second says that the markers for a
missing and a cut-short file are not contents):

* `TypeCorrect`: `Spec => []TypeOK`. The inductive invariant adds that files are
  written only into a directory that exists (`WritesIntoADirectory`).
* `GateIsSound`: `Spec => []PassMeansReproducible`. Every step except `Verify`
  either leaves the checkout or clears the verdict, so the inductive invariant is
  that a verdict, if there is one, is the gate's verdict on the present checkout;
  `VerdictSound` then rests on a lemma about the gate alone, which takes the
  checks apart: validated, nothing differs, the catalog is right, the sums are.
* `PipelineIsSound`: `Spec => []PipelinePasses`. The inductive invariant
  (`PipelineInv`) says what each phase has established: while writing, every slot
  not in `todo` is as generated (empty where nothing is); after `EndGenerate` with exit status 0
  all fixtures are as generated and truthful; after `WriteCatalog` the catalog is
  theirs.
* `ManifestIsLast`: `Spec => []ManifestVouchesForItsFiles`. Inductive
  (`ManifestLastInv`): a place still to be written is empty, and a scenario with a
  version to write has its manifest to write. With `PipelineInv` the files of a
  scenario whose manifest is there are then as generated.
* `PromiseIsKept`: `Spec => ScriptsKeepThePromise`, one case per action: it maps to an
  action of ReleasePromise or a stutter. The mapped checkout is exact exactly when
  fixtures, catalog and checksums are as generated (`ExactMeansFresh`), and the gate's
  answer is allowed for the mapped checkout, in both directions (`GateTells`). Beside
  the invariants above it needs `PublishedInv`: after both steps the checkout still is
  as generated, while the catalog is being built again too.

`RunnerProofs` proves, for every registry, number of scenarios, versions and modes,
requests of any length and any number of mishaps:

* `TypeCorrect`, `RecordsArePinned`, `ResultsAreComplete`, `ExitStatusIsHonest`: the four
  invariants of the run. None is inductive. `RunnerInv` adds what an undisturbed run
  has learnt of the checkout, git command by git command (`PinnedSoFar`), that
  nothing is taken from the queue before that (`QueueInv`), that the records of the
  adapter at work and the calls it has left are all its calls, the records in order and before the
  rest (`ObservedSoFar`), the two properties for every file in the working tree and at
  HEAD (`FilesInv`, since files come back by restoring), and that adapters no longer in
  the queue have a file of this run (`RecordedSoFar`). `ObservedSoFar` rests on `Before`
  being a total order of the calls.
* `RunnerRecords`: `Spec => Contract!Safety`, the safety part of the refinement, one
  lemma per action: an action maps to `Begin`, `Record`, `GiveUp`, `Disturb` or a stutter.
  Its fairness part stays with the run.

`SizesAssumption` and `NoneAssumption` bound the mishaps and keep the marker of a missing scenario
apart from contents; `MarksAssumption` says that a missing and a torn file are no
sequences of records.

`EnginesProofs` proves the three invariants of `Engines` for any number of calls
(`MaxCallsAssumption`). The inductive invariant (`EnginesInv`) says that what is held is
what the steps left will give back: those of `read` and then `describe`, those of
`describe`, or the handlers (`HeldInv`). That the programs of the six adapters start
in such a state is a lemma for each of them (`GoodRead`): at every step, what was taken
and not yet given back is given back by the handlers of the adapter, the directory last,
however the step raised. While handlers run, what is held is theirs to give back, except
the writer that something other than a failed step left behind.

`ReportProofs` proves, for every set of schemas and row counts (`AnswersAssumption`: the
marker for no schema is not one), that `SpellingDoesNotMatter` and
`OrderTableIsByPosition` hold of every behaviour. Both are facts about the
classification alone (`SpellingIsIgnored`, `OrderMeansPosition`). The argument has three
layers: a one-to-one renaming keeps which schemas are equal (`SameSchema`), hence the
versions a read is like (`RespeltAlike`) and its relation; two outcomes are the same when
position, rows and, where neither version is like, schemas are (`SameOutcome`);
positions are the same when the relations are, or are exchanged with the files
(`PositionType`). It proves `TypeCorrect` and `LongCutsRaise` by the invariant `ReportInv`:
every results file is a set of records that a run of its release began
with, in the order of calls (`IsCut`). A file that lost two records or more lacks, on the
last transition, a record `render` looks up: this needs `ModesAssumption`, that the
last operation an adapter declares a mode for is a combined read, a write or a
profile. It holds of the six adapters; of one whose last records were
contract checks, which `render` looks up by `.get`, the property is false.

`ValidatorProofs` proves the eight invariants of `Validator` for tables of any number of
rows and columns. Two invariants are inductive: `ValidatorInv` (the files are tables of
canonical values, the manifest was made of such files, which its field `of`
keeps) and `History` (what the new file is after a first edit, for `OneCastHolds`).
The rest is about one state, in four layers:

* values: `encode` is injective on canonical values, `same` is an equivalence that
  differs from equality in numbers and zeros only, and of two relations at most one
  holds of two values that are not the same;
* the diff of two flat schemas: the levels matched are the top levels, a column is
  paired by name or by id, with one column at most, and the common paths are the columns that are there under
  the same name and matched, or renamed (`FlatCommon`);
* rows: `Aligned` pairs the rows with equal encoded keys, or by position without an
  identity, and identities are keys (`IdentityProblems`);
* what is computed is what is meant: each fact of `Facts` is its definition, each
  relation holds of the changed values as `RelationsAreTrue` says, hence, where equal keys
  are encoded alike, `AcceptedAreTrue` and `TrueAreAccepted`.

`DeclaredFilesAnswer` needs `ValidatorInv` alone: the names a manifest declares are those of
the files it was made of, and `check_manifest` looks the identity up in them.

`StartsAssumption` says that the original tables are tables (columns with different names and
either all or none with ids, a canonical value in every cell), `OriginalsAssumption` that
they identify their rows and hold values of the types of their columns,
`ScalarsAssumption` that they are flat, `EditsAssumption` that an author writes canonical values. All of it is what
the builders of the corpus produce and what Parquet can hold; TLC evaluates it on the five tables
of the run. Without `OriginalsAssumption` only `OneCastIsItsRelation` would be
lost: a duplicate key or a text in a numeric column has no cast.

`DiffProofs` and `EvolutionProofs` prove seven of the eight invariants of `Evolution`, for
schemas of any width and depth, names of any kind, and any number of edits:

* `TypeCorrect`: `Spec => []TypeOK`, where `TypeOK` contains `WellFormed` of both
  versions. It is inductive, but `WellFormed` compares sets of levels, which an
  edit changes in many places at once. `Sound` is the same said locally: a
  level lies inside a field that is a container, a container has its levels, the
  fields of a level are told apart. Every edit is one of two operations on a sound
  schema: `Regraft`, where one subtree gives way to another (adding, removing,
  renaming, retyping), or `Reseat`, where the fields of a level change places or are
  revised where they are (moving, widening, new ids, nullability). One lemma per edit
  shows which.
* `EveryDiffIsReversible`, `EveryEmptyDiffIsSilence`, `EveryCommonPathIsAPair`,
  `EveryRetainedPathStays`, `EveryDiffIsComplete`: each property holds of any two
  well-formed schemas, hence by `TypeCorrect` in every state. `DiffProofs` has the
  argument about two schemas:
  - *levels*: `MatchedLevels` descends as the code does, a bounded number of times;
    the bound suffices, and the levels reached are the least set that contains
    the top and is closed under descending (`Levels`, `EveryLevelIsReached`);
  - *pairs*: matching pairs a field with one field at most, in both directions, and
    the fields around the two are a pair as well (`PairUnique`, `PairsAround`);
  - *mutations*: those of each kind are the pairs, or the fields without one, of which
    the kind speaks (`RemovedMeans` to `ReorderedMeans`); both directions of the
    diff have the same pairs, so that these lemmas read backwards
    (`LevelsBack`, `PairBack`);
  - *whereabouts*: a field of the old version is in a pair, or has a removed field at or
    above it, or lies inside a container that was retyped (`Whereabouts`);
  - *pairing*: following the longest renamed prefix from a path of a pair gives the other
    path (`TargetOfPair`), which with the trichotomy makes `Common` the pairs and
    what is inside retyped containers.
  - *silence*: an empty diff leaves no level where the two schemas could differ, by
    descending from the top (`SameLevel`);
  - *replay*, in `EvolutionProofs`: each field of the new version comes out of the
    replay once, from a pair or from an addition (`EverythingIsReplayed`,
    `NothingElseIsReplayed`).

* `EveryEditIsItsDeclaration`: `Spec => []OneEditIsItsDeclaration`. The inductive
  invariant (`DeclaredSoFar`) says that before any edit the versions are the same and
  nothing is declared, and that after at most one the diff is what is declared. That
  one edit keeps it is the work: the diff of a schema with its edited form is computed
  for each of the two operations an edit can be. After either the levels outside
  the edit are paired with themselves and silent, so that the diff is that of the one
  level where the edit happened: a field that gave way to another (`GraftDiff`), that took
  another name and its members along (`CarryDiff`), or that was revised or moved where it
  was (`ReseatDiff`). Per kind of edit one lemma then reads
  off the mutations and one shows that they are those declared. The theorem has a
  hypothesis, `GivenDeclarationsHold`: the transitions an author is *given* are declared
  as the diff finds them. That is a fact about the corpus and no consequence of the code;
  the run checks it, being what the property says of its initial states.

`AuthorsAssumption` says that the transitions an author starts from are of well-formed
schemas with a finite list of mutations, that the types an edit may give are types of a
column (`IsType`) and that ids are numbers: what the builders of the corpus write.
Nothing is assumed there of the mutations being right; only
`EveryEditIsItsDeclaration` has that as a hypothesis of its own.

`Lemmas` holds what several of these need: a least element of a set of
numbers, with which induction is written as the absence of a least counterexample, maxima,
sequences and their updates.

Only model-checked: liveness (`RunsEnd`, the fairness of `RunnerIsARecorder`), which needs
ENABLED; `DeclaredFactsHold`, a fact about the data of the 44 scenarios and not about
schemas in general; the four invariants of Flatten, which say what recursive operators
compute on nested values of every depth: induction over data, for which the prover has no
rule; and the violations.

## Abstractions

* A Parquet file is its logical content and its writer; PyArrow is deterministic
  and distinct contents have distinct fingerprints and hashes.
* A manifest is the content whose fingerprint it records and the facts it states;
  `Truthful` are the pairs of content and facts that the validator confirms.
* A catalog row is a function of the manifest that leaves much of it out, what a
  version between the first and the last holds for instance: the constant `Row`,
  of which the proofs assume nothing. In the TLC instances it forgets the facts.
* A manifest or Parquet file cut short cannot be read. Scenario order is path
  order. An empty scenario directory and a scenario's `mkdir` are not
  distinguished from an absent one: both differ from what is generated.
* Check 5 of the gate (dataset card, placeholders) is taken to pass.
* The gate and a git command are one step each for the scripts and the developer
  respectively; in `Release` only one process runs at a time.
* Sibling names and sibling field ids are unique and names contain no `.` or
  `[`, as everywhere in the corpus; the element of a list has no field id, since
  the code never looks at it.
* `Runner` has one corpus version, whose tag is never moved (the documentation's
  rule); a file read by an engine has one content throughout one call; engines
  are deterministic. `read` raising and a missing file are both recorded as an
  error outcome, as in `_outcome`. A torn results file is recognised as such by the
  model (`Torn`), not by the code; `Report` has it as what it is, a file with fewer records.
* A JSON line cut in the middle makes `read_results` raise, as a file that is cut
  between lines may not: `Report` has the second kind only.
* What an engine answers is its own: a schema out of a small set and a row count
  in `Report`, nothing in `Engines`. Schemas are compared as the code compares them.
* `Validator` has one transition, flat columns, no dictionaries and no Parquet-level
  schema; JSON Schema conformance is one predicate, taken to hold. Only the facts
  and relations of a manifest are ever wrong, the rest is as computed when it
  was declared. The hash of a fingerprint is injective.
* Where the code asserts or guards against what its own caller never does
  (`Engines`), the branch is left out.

## Running

    tlc -config Release.cfg MCRelease     # each run: its cfg and its MC module
    tlapm ReleaseProofs.tla               # and RunnerProofs, EnginesProofs, ReportProofs,
                                          # ValidatorProofs, DiffProofs,
                                          # EvolutionProofs, Lemmas

No run takes more than a few minutes on two workers, and no proof module does.

## Where code and documentation disagree

Five runs end in a violation; `PROJECT.json` quotes the lines.

1. `same_writer` raises when the catalog is missing, before the gate's own check
   for that (`ReleaseNoCatalog`).
2. The gate passes with stale checksums when a committed file is of another
   PyArrow release (`ReleaseSums`).
3. `check_layout` handles an unreadable manifest, `validate_corpus` then raises
   on it (`ReleaseTornManifest`).
4. Below a list whose offset width changes, values are paired by name, field ids
   notwithstanding (`EvolutionFieldIds`).
5. The runner checks the checkout only at its start (`RunnerPinned`).

Others were met while modelling and are part of the models as the code has them;
the properties are stated around them, and no run is devoted to them:

* The text of the order table, and the docstring of `_order_dependent`, exempt a mode that
  takes "the file that comes first" (`report.py:282`, 103); the code exempts one that
  takes the second as well. `OrderTableIsByPosition` has both rules.
* Keys compare by encoding, values by value: an identity column cast from int64 to
  double has no key in common with its old version (`validate.py:170`), although
  DESIGN.md:157 and 166-169 define retained rows by the one equality of `values.py`.
  A true manifest is then refused. `KeysAreWrittenAlike` is this exception in the properties.
* `row_keys` indexes an identity column that a file may have lost (`validate.py:168`,
  called at 224): the exception discards what `check_versions` had found and ends
  `validate_corpus`. `DeclaredFilesNeverRaise` says when that cannot happen.
* `nearest_float64` accepts booleans as integers (`validate.py:197`), which
  `truncated_toward_zero` does not; DESIGN.md:185 says "an integer".
* `latest_results` takes the newest version directory although a run that died may
  have left it empty (`report.py:55`): the report then shows no transition and ends
  with 0, not with the refusal of `report.py:467`.
* One record that is missing from one adapter's file takes the transition out of
  the order table for every adapter (`report.py:225`). `LongCutsAreRefused` says how
  many it takes to be noticed.
* The report takes row counts and touched columns from the `fixtures/` of the working
  tree (`report.py:176`), not from the release the records are about.
* The Delta Lake and dlt adapters read the files with pyarrow inside `read`, and the
  dataprof adapter parses the tool's output there: what those raise is recorded as
  an error of the engine (`runner.py:91`).
* The dlt adapter releases dlt's writer before the directory goes for a `PipelineStepFailed`
  alone (`dlt_adapter.py:76`), although the runner expects panics, which are no
  such exception (`runner.py:89-90`). `RemovedDirectoriesAreClosed` is stated around it.

## Not modelled

* The command line (`cli.py`): arguments and printing around functions that are modelled.
* The JSON schemas: static documents evaluated by a library.
* The tables that spell engine types in the corpus vocabulary, the text of report
  cells and the rendering of `inspect.py`: lookups and formatting without state.
* Check 5 of the gate, the dataset card, the documentation: prose.
* Tests and continuous integration: read for intent.

## Plan

Written: the core (Schemas, Diff, Corpus, Evolution), the release pipeline, the
runner with the Recorder it implements, the report, the value model, the validator
and the adapters; the proofs about the release and the runner and what each of them
implements, the report, the adapters, the validator, the diff of nested schemas and the
edits of an author and their declarations.

Next, in this order:
1. More than one corpus version in `Runner`, and several transitions and identity
   columns in `Validator`.
2. **Flatten** for one level of nesting, written with functions in place of recursive
   operators: its losslessness there needs no induction over types and could be proved.
