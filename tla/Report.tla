------------------------------- MODULE Report -------------------------------
(***************************************************************************)
(* The observation report (adapters/report.py): it reads the results files *)
(* of the newest corpus version, classifies every combined read against    *)
(* the same engine's reads of each version alone, and writes the tables of *)
(* docs/OBSERVATIONS.md, or checks that they are current.                  *)
(*                                                                         *)
(* The files are what the runner leaves: whole, cut short at the end of a  *)
(* line, or not there, for all adapters or for some.                       *)
(***************************************************************************)
EXTENDS Calls, FiniteSetsExt

CONSTANTS
    Schemas,      \* schemas an engine may answer with, compared by name and type
    RowCounts,    \* row counts it may answer with
    Answers,      \* operation -> order -> answers an engine may give
    Tables,       \* what the manifest of a scenario may say of its tables
    MaxReleases,  \* bound on corpus versions
    MaxRuns,      \* bound on runs of an adapter and on writes cut short
    MaxEdits,     \* bound on edits of fixtures/
    None          \* a schema, a results file or a scenario that is not there

(* The record of a call.  An error has neither schema nor row count. *)
Failure == [status |-> "error", schema |-> None, rows |-> 0]
Success == [status : {"success"}, schema : Schemas, rows : RowCounts]
Records == Success \cup {Failure}

ASSUME AnswersAssumption ==
    /\ None \notin Schemas
    /\ \A o \in 1..5, i \in _inputs : Answers[o][i] \subseteq Records
    /\ \A a \in Registry : Len(Modes[a]) >= 5 => Modes[a][profile_each_version] <= 1

(* Every adapter declares a mode, and the last operation it declares one   *)
(* for is one whose every record the report insists on.                    *)
Insisted == {read_versions_together, append_to_table, profile_each_version}

ASSUME ModesAssumption ==
    \A a \in Registry :
        /\ Len(Modes[a]) <= 5
        /\ \E o \in DOMAIN Modes[a] \cap Insisted :
              Modes[a][o] > 0 /\ \A p \in DOMAIN Modes[a] : p > o => Modes[a][p] = 0

ASSUME BoundsAssumption == MaxReleases \in Nat \ {0} /\ MaxRuns \in Nat /\ MaxEdits \in Nat

VARIABLES
    manifests,    \* fixtures/: scenario -> what its manifest says, or None
    released,     \* fixtures/ of every release; the last is the current one
    results,      \* release -> adapter -> records by call, or None
    directories,  \* releases with a directory under results/
    section,      \* the section of docs/OBSERVATIONS.md
    exit,         \* what the last report ended with
    runs,         \* runs and cut writes so far
    edits         \* edits of fixtures/ so far

vars == <<manifests, released, results, directories, section, exit, runs, edits>>

Release == Len(released)
ScenariosAt(r) == {s \in Scenarios : released[r][s] # None}

-----------------------------------------------------------------------------
(***************************************************************************)
(* Classification of one read                                              *)
(***************************************************************************)

(* alone: version -> the record of reading it alone; 1 is from, 2 is to.   *)
Alike(record, alone) ==
    {v \in {1, 2} : alone[v].status = "success" /\ alone[v].schema = record.schema}

_relative(record, alone) ==
    CASE record.status = "error" -> "error"
      [] record.status # "error" /\ Alike(record, alone) = {} -> "neither"
      [] record.status # "error" /\ Alike(record, alone) = {1} -> "from"
      [] record.status # "error" /\ Alike(record, alone) = {2} -> "to"
      [] record.status # "error" /\ Alike(record, alone) = {1, 2} -> "both"

(* The version at a position of the inputs: [from, to] is order 1. *)
AtPosition(relation, order) ==
    IF relation \notin {"from", "to"} THEN relation
    ELSE IF (relation = "from") = (order = 1) THEN "first" ELSE "second"

(* Faulty: schemas are compared across engines directly. *)
ClassBySpelling(record, alone) == <<record.schema, record.rows>>

(* The class of a combined read, and its rows. *)
Class(record, alone) == <<_relative(record, alone), record.rows>>

OutcomeOf(record, order, alone, byPosition) ==
    LET relation == _relative(record, alone)
    IN  <<IF byPosition THEN AtPosition(relation, order) ELSE relation,
          record.rows,
          IF relation = "neither" THEN record.schema ELSE None>>

(* Faulty: only the outcome by version is compared. *)
_order_dependentByVersion(forward, reversed, alone) ==
    OutcomeOf(forward, 1, alone, FALSE) # OutcomeOf(reversed, 2, alone, FALSE)

_order_dependent(forward, reversed, alone) ==
    \A byPosition \in BOOLEAN :
        OutcomeOf(forward, 1, alone, byPosition) # OutcomeOf(reversed, 2, alone, byPosition)

-----------------------------------------------------------------------------
(***************************************************************************)
(* render                                                                  *)
(*                                                                         *)
(* files: adapter -> function from calls to records, or None.  What it     *)
(* shows depends on what is there: transitions, adapters and modes are     *)
(* those of the records.                                                   *)
(***************************************************************************)
Reported(files) == {a \in Registry : files[a] # None}

Keys(files) == UNION {{Transition(c) : c \in DOMAIN files[a]} : a \in Reported(files)}

(* <<adapter, mode>> of an operation. *)
ModesOf(files, o) ==
    UNION {{<<a, Mode(c)>> : c \in {d \in DOMAIN files[a] : Operation(d) = o}} : a \in Reported(files)}

Call(key, o, m, order) == <<key[1], key[2], o, m, order>>

Has(files, am, key, o, order) == Call(key, o, am[2], order) \in DOMAIN files[am[1]]
RecordOf(files, am, key, o, order) == files[am[1]][Call(key, o, am[2], order)]

(* The last mode's reads win; adapters declare one. *)
AloneModes(files, a) == {m \in {am[2] : am \in ModesOf(files, read_each_version)} : <<a, m>> \in ModesOf(files, read_each_version)}

Alone(files, a, key) ==
    LET am == <<a, Max(AloneModes(files, a))>>
    IN  [v \in {w \in {1, 2} : Has(files, am, key, read_each_version, w)} |->
            RecordOf(files, am, key, read_each_version, v)]

(***************************************************************************)
(* What ends render with an exception: a record a cell needs is not there. *)
(***************************************************************************)
LacksForward(files, key) ==
    \E am \in ModesOf(files, read_versions_together) : ~Has(files, am, key, read_versions_together, 1)

(* Every mode has a record of the other order. *)
OrderIsCompared(files, key) ==
    \A am \in ModesOf(files, read_versions_together) : Has(files, am, key, read_versions_together, 2)

LacksAlone(files, key) ==
    \E am \in ModesOf(files, read_versions_together) :
        \/ AloneModes(files, am[1]) = {}
        \/ \E order \in IF OrderIsCompared(files, key) THEN {1, 2} ELSE {1} :
              /\ Has(files, am, key, read_versions_together, order)
              /\ RecordOf(files, am, key, read_versions_together, order).status = "success"
              /\ DOMAIN Alone(files, am[1], key) # {1, 2}

(* Table writes in the other order are wanted once an adapter has one. *)
Swapped(files, a) ==
    \E c \in DOMAIN files[a] : Operation(c) = append_to_table /\ Order(c) = 2

LacksWrite(files, key) ==
    \E am \in ModesOf(files, append_to_table) :
        \E order \in IF Swapped(files, am[1]) THEN {1, 2} ELSE {1} :
            ~Has(files, am, key, append_to_table, order)

LacksProfile(files, key) ==
    \E am \in ModesOf(files, profile_each_version), v \in {1, 2} : ~Has(files, am, key, profile_each_version, v)

LacksManifest(key) == manifests[key[1]] = None

Raises(files) ==
    \E key \in Keys(files) :
        \/ LacksManifest(key)
        \/ LacksForward(files, key) \/ LacksAlone(files, key)
        \/ LacksWrite(files, key) \/ LacksProfile(files, key)

(***************************************************************************)
(* The tables                                                              *)
(***************************************************************************)
Forward(files, am, key) == RecordOf(files, am, key, read_versions_together, 1)
Reversed(files, am, key) == RecordOf(files, am, key, read_versions_together, 2)

TogetherTable(files) ==
    {key \in Keys(files) :
        Cardinality({Class(Forward(files, am, key), Alone(files, am[1], key)) : am \in ModesOf(files, read_versions_together)}) > 1}

OrderTable(files) ==
    {row \in Keys(files) \X ModesOf(files, read_versions_together) :
        LET key == row[1]
            am == row[2]
        IN  /\ OrderIsCompared(files, key)
            /\ _order_dependent(Forward(files, am, key), Reversed(files, am, key), Alone(files, am[1], key))}

EachTable(files) ==
    {key \in Keys(files) : Cardinality({Alone(files, am[1], key) : am \in ModesOf(files, read_each_version)}) > 1}

(* Writes, profiles and checks are shown as recorded; a check that is not  *)
(* there is shown as such.                                                 *)
ShownOperations == {append_to_table, check_against_contract, profile_each_version}

Shown(files) ==
    [a \in Reported(files) |-> [c \in {d \in DOMAIN files[a] : Operation(d) \in ShownOperations} |-> files[a][c]]]

render(release) ==
    LET files == results[release]
    IN  [release |-> release,
         transitions |-> Keys(files),
         said |-> [s \in {key[1] : key \in Keys(files)} |-> manifests[s]],
         together |-> TogetherTable(files),
         order |-> OrderTable(files),
         each |-> EachTable(files),
         shown |-> Shown(files)]

(* The section before the first report. *)
Blank == [release |-> 0, transitions |-> {}, said |-> <<>>, together |-> {}, order |-> {}, each |-> {}, shown |-> <<>>]

-----------------------------------------------------------------------------
Init ==
    /\ manifests \in [Scenarios -> Tables]
    /\ released = <<manifests>>
    /\ results = [r \in 1..MaxReleases |-> [a \in Registry |-> None]]
    /\ directories = {}
    /\ section = Blank
    /\ exit = "none"
    /\ runs = 0
    /\ edits = 0

(***************************************************************************)
(* What happens to results/ and to fixtures/                               *)
(***************************************************************************)
Observations(a) ==
    LET calls == Calls(a, ScenariosAt(Release))
        given(c) == Answers[Operation(c)][Order(c)]
    IN  {f \in [calls -> UNION {given(c) : c \in calls}] : \A c \in calls : f[c] \in given(c)}

(* The runner refuses unless fixtures/ is that of the release. *)
Pinned == manifests = released[Release]

RunOf(a) ==
    /\ Pinned
    /\ runs < MaxRuns
    /\ runs' = runs + 1
    /\ directories' = directories \cup {Release}
    /\ UNCHANGED <<manifests, released, section, exit, edits>>

RunAdapter(a) ==
    /\ RunOf(a)
    /\ \E f \in Observations(a) : results' = [results EXCEPT ![Release][a] = f]

(* The first records of a run, in the order they are written. *)
Prefix(f, last) == [c \in {d \in DOMAIN f : ~Before(last, d)} |-> f[c]]

Cuts(f) == {Prefix(f, c) : c \in DOMAIN f} \cup {<<>>}

(* Dying after the directory was made, or while the file was written. *)
CutResults(a) ==
    /\ RunOf(a)
    /\ \/ UNCHANGED results
       \/ \E f \in Observations(a) : \E g \in Cuts(f) \ {f} : results' = [results EXCEPT ![Release][a] = g]

EditScenario(s) ==
    /\ edits < MaxEdits
    /\ edits' = edits + 1
    /\ \E said \in (Tables \cup {None}) \ {manifests[s]} : manifests' = [manifests EXCEPT ![s] = said]
    /\ UNCHANGED <<released, results, directories, section, exit, runs>>

NewRelease ==
    /\ Release < MaxReleases
    /\ ~Pinned
    /\ released' = Append(released, manifests)
    /\ UNCHANGED <<manifests, results, directories, section, exit, runs, edits>>

(***************************************************************************)
(* main                                                                    *)
(***************************************************************************)
(* Faulty: the version of the checkout, whether it was observed or not. *)
latest_resultsOfCheckout == Release

latest_results == Max(directories)

Ends(how) ==
    /\ exit' = how
    /\ UNCHANGED <<manifests, released, results, directories, runs, edits>>

NoResults ==
    /\ directories = {}
    /\ Ends("absent")
    /\ UNCHANGED section

RenderRaises ==
    /\ directories # {}
    /\ Raises(results[latest_results])
    /\ Ends("raised")
    /\ UNCHANGED section

WriteReport ==
    /\ directories # {}
    /\ ~Raises(results[latest_results])
    /\ section' = render(latest_results)
    /\ Ends("written")

CheckReport ==
    /\ directories # {}
    /\ ~Raises(results[latest_results])
    /\ Ends(IF section = render(latest_results) THEN "current" ELSE "stale")
    /\ UNCHANGED section

Next ==
    \/ \E a \in Registry : RunAdapter(a) \/ CutResults(a)
    \/ \E s \in Scenarios : EditScenario(s)
    \/ NewRelease
    \/ NoResults \/ RenderRaises \/ WriteReport \/ CheckReport

Spec == Init /\ [][Next]_vars

-----------------------------------------------------------------------------
(***************************************************************************)
(* Properties                                                              *)
(***************************************************************************)
IsFile(f, a, r) ==
    \/ f = None
    \/ /\ DOMAIN f \subseteq Calls(a, ScenariosAt(r))
       /\ \A c \in DOMAIN f : f[c] \in Records

TypeOK ==
    /\ manifests \in [Scenarios -> Tables \cup {None}]
    /\ Release \in 1..MaxReleases /\ \A r \in 1..Release : released[r] \in [Scenarios -> Tables \cup {None}]
    /\ \A r \in 1..Release, a \in Registry : IsFile(results[r][a], a, r)
    /\ directories \subseteq 1..Release
    /\ section = Blank \/ section.release \in directories
    /\ exit \in {"none", "absent", "raised", "written", "current", "stale"}
    /\ runs \in 0..MaxRuns
    /\ edits \in 0..MaxEdits

(* Giving the schemas of one engine other names, consistently, changes     *)
(* neither the class its combined read is compared by nor whether the read *)
(* depends on the order.                                                   *)
Spellings == {p \in [Schemas -> Schemas] : \A s, t \in Schemas : p[s] = p[t] => s = t}

Respelt(record, spelling) == IF record = Failure THEN record ELSE [record EXCEPT !.schema = spelling[@]]

SpellingIsIgnored ==
    \A forward, reversed, first, second \in Records, spelling \in Spellings :
        LET alone == <<first, second>>
            other(record) == Respelt(record, spelling)
            others == <<other(first), other(second)>>
        IN  /\ Class(other(forward), others) = Class(forward, alone)
            /\ _order_dependent(other(forward), other(reversed), others)
                  = _order_dependent(forward, reversed, alone)

(* "Engines spell the same file differently, so a combined read is not     *)
(* compared across engines directly" (report.py): when a section is        *)
(* rendered, what the combined reads are compared by, their classes and    *)
(* their dependence on the order, is the same however an engine spells its *)
(* types.  The table of single versions does compare spellings.            *)
SpellingDoesNotMatter == section # Blank => SpellingIsIgnored

(* A rule of position: to take the file that comes first, or the one that  *)
(* comes second.                                                           *)
Takes(record, alone, v) == alone[v].status = "success" /\ record.schema = alone[v].schema

ByRule(forward, reversed, alone) ==
    \/ Takes(forward, alone, 1) /\ Takes(reversed, alone, 2)
    \/ Takes(forward, alone, 2) /\ Takes(reversed, alone, 1)

OrderMeansPosition ==
    \A forward, reversed, first, second \in Records :
        LET alone == <<first, second>>
        IN  _order_dependent(forward, reversed, alone) <=>
                \/ forward.status # reversed.status
                \/ /\ forward.status = "success"
                   /\ \/ forward.rows # reversed.rows
                      \/ forward.schema # reversed.schema /\ ~ByRule(forward, reversed, alone)

(* What the order table of a section shows: a mode is there because it     *)
(* fails in one order only, the row count changes, or the schema changes   *)
(* by no rule of position.  Both rules exempt it, "same outcome by         *)
(* position" (_order_dependent): to take the first file, and to take the   *)
(* second.                                                                 *)
OrderTableIsByPosition == section # Blank => OrderMeansPosition

(* A results file that lost more than its last record to a cut write is    *)
(* noticed, once every mode of the adapter has answered and another        *)
(* adapter has the whole corpus: the order of the calls makes up for the   *)
(* records that are looked up without being required.                      *)
Lost(r, a) == Calls(a, ScenariosAt(r)) \ DOMAIN results[r][a]

EveryModeAnswered(r, a) ==
    \A o \in DOMAIN Modes[a] : \A m \in 1..Modes[a][o] : <<a, m>> \in ModesOf(results[r], o)

LongCutsAreRefused ==
    \A r \in directories, a \in Registry :
        /\ results[r][a] # None
        /\ EveryModeAnswered(r, a)
        /\ \E b \in Reported(results[r]) : Lost(r, b) = {}
        /\ Cardinality(Lost(r, a)) > 1
        => Raises(results[r])
=============================================================================
