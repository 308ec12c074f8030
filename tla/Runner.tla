------------------------------- MODULE Runner -------------------------------
(***************************************************************************)
(* The adapter runner (adapters/runner.py) on a git checkout of the corpus.*)
(*                                                                         *)
(* A run pins itself to a release with a few git commands, then drives the *)
(* adapters it was asked for over every transition, and writes one results *)
(* file per adapter.  It locks nothing: the developer edits, commits, tags *)
(* and restores the checkout between any two of its steps, an adapter can  *)
(* raise, and the run can be killed anywhere.                              *)
(*                                                                         *)
(* One corpus version; transitions go from each version to the next.       *)
(***************************************************************************)
EXTENDS Calls, SequencesExt

CONSTANTS
    Names,         \* names a run may be asked for, registered or not
    MaxRequest,    \* bound on the names of one run
    Contents,      \* what the files of a scenario may hold
    Refuses,       \* the <<adapter, content>> at which the engine raises
    None,          \* a scenario directory, or a results file, that is not there
    Torn,          \* a results file whose write was cut short
    MaxMishaps     \* bound on the developer's other steps and on runs that die

ASSUME SizesAssumption == MaxRequest \in Nat /\ MaxMishaps \in Nat

ASSUME NoneAssumption == None \notin Contents /\ None # Torn

VARIABLES
    fixtures,   \* the working tree: scenario -> content, or None
    trees,      \* fixtures/ of every commit; HEAD is the last
    tagged,     \* the commit v<version> names; 0 before the release
    results,    \* adapter -> its results file in the working tree
    committed,  \* the same at HEAD
    run,        \* the run: where it is and what it holds
    calm,       \* the developer has done nothing since the run began
    mishaps     \* developer's steps but the tag, and dead runs, so far

vars == <<fixtures, trees, tagged, results, committed, run, calm, mishaps>>
checkout == <<fixtures, trees, tagged, committed>>

Newest == Len(trees)

(* A results file; calm says that its run was left alone. *)
File(content, ofCalm) == [content |-> content, calm |-> ofCalm]
NoFile == File(None, TRUE)
Whole(file) == file.content \notin {None, Torn}

(* git status --porcelain prints nothing. *)
Clean ==
    /\ fixtures = trees[Newest]
    /\ \A a \in Registry : results[a].content = committed[a].content

(***************************************************************************)
(* The run: at most one.  pc is the next thing it does; queue, the names   *)
(* left; revision, what corpus_identity returned; todo, the calls left of  *)
(* the adapter at the head of the queue; open, the scenario whose manifest *)
(* is loaded.                                                              *)
(***************************************************************************)
Idle == [pc |-> "idle", asked |-> <<>>, queue |-> <<>>, revision |-> 0, todo |-> {}, open |-> 0, records |-> <<>>]

Adapter == Head(run.queue)

Trees == [Scenarios -> Contents \cup {None}]
Record == [call : Seq(Nat), status : {"success", "error"}, revision : Nat, read : Contents \cup {None}]

(* The marks for no file and for a file cut short are not contents.       *)
ASSUME MarksAssumption == None \notin Seq(Record) /\ Torn \notin Seq(Record)

FileOK(file) == file.calm \in BOOLEAN /\ (Whole(file) => file.content \in Seq(Record))

Runs ==
    [pc : {"idle", "status", "tag", "trees", "head", "load", "observe", "write"},
     asked : Seq(Names), queue : Seq(Names), revision : 0..Newest,
     todo : SUBSET Seq(Nat), open : 0..NumScenarios, records : Seq(Record)]

TypeOK ==
    /\ fixtures \in Trees
    /\ trees \in Seq(Trees) /\ trees # <<>>
    /\ tagged \in 0..Newest
    /\ DOMAIN results = Registry /\ \A a \in Registry : FileOK(results[a])
    /\ DOMAIN committed = Registry /\ \A a \in Registry : FileOK(committed[a])
    /\ run \in Runs
    /\ run.pc \in {"observe", "write"} => run.queue # <<>> /\ Adapter \in Registry
    /\ run.pc = "observe" => run.todo \subseteq Calls(Adapter, Scenarios)
    /\ calm \in BOOLEAN
    /\ mishaps \in 0..MaxMishaps

(* A committed corpus, released or not yet, without results. *)
Init ==
    /\ fixtures \in [Scenarios -> Contents]
    /\ trees = <<fixtures>>
    /\ tagged \in {0, 1}
    /\ results = [a \in Registry |-> NoFile]
    /\ committed = results
    /\ run = Idle
    /\ calm = TRUE
    /\ mishaps = 0

(***************************************************************************)
(* main and corpus_identity                                                *)
(***************************************************************************)
Start(names) ==
    /\ run.pc = "idle"
    /\ run' = [Idle EXCEPT !.pc = "status", !.asked = names, !.queue = names]
    /\ calm' = TRUE
    /\ UNCHANGED <<checkout, results, mishaps>>

(* One git command each: the run goes on or refuses (exit status 2).  Both *)
(* trees of the comparison are of commits, which never change.             *)
Check(pc, holds, next) ==
    /\ run.pc = pc
    /\ run' = IF holds THEN [run EXCEPT !.pc = next] ELSE Idle
    /\ UNCHANGED <<checkout, results, calm, mishaps>>

CheckStatus == Check("status", Clean, "tag")
CheckTag == Check("tag", tagged # 0, "trees")
(* Faulty: the tag exists, its tree is not looked at. *)
CheckTreesNot == Check("trees", TRUE, "head")

CheckTrees == Check("trees", trees[tagged] = trees[Newest], "head")

ReadHead ==
    /\ run.pc = "head"
    /\ run' = [run EXCEPT !.pc = "load", !.revision = Newest]
    /\ UNCHANGED <<checkout, results, calm, mishaps>>

Present == {s \in Scenarios : fixtures[s] # None}

(* Faulty: a name that is not registered is passed over. *)
LoadKnown ==
    /\ run.pc = "load"
    /\ run.queue # <<>>
    /\ run' = IF Adapter \notin Registry THEN [run EXCEPT !.queue = Tail(@)]
              ELSE [run EXCEPT !.pc = "observe", !.todo = Calls(Adapter, Present), !.open = 0, !.records = <<>>]
    /\ UNCHANGED <<checkout, results, calm, mishaps>>

(* load_adapter, and the start of observe: the scenario directories are    *)
(* listed once.  A name that is not registered raises only when its turn   *)
(* comes.                                                                  *)
Load ==
    /\ run.pc = "load"
    /\ run.queue # <<>>
    /\ run' = IF Adapter \notin Registry THEN Idle
              ELSE [run EXCEPT !.pc = "observe", !.todo = Calls(Adapter, Present), !.open = 0, !.records = <<>>]
    /\ UNCHANGED <<checkout, results, calm, mishaps>>

(* Every adapter is done: exit status 0. *)
Finish ==
    /\ run.pc = "load"
    /\ run.queue = <<>>
    /\ run' = Idle
    /\ UNCHANGED <<checkout, results, calm, mishaps>>

(***************************************************************************)
(* observe                                                                 *)
(***************************************************************************)
IsNext(call) == call \in run.todo /\ \A d \in run.todo \ {call} : Before(call, d)

(* Faulty: a missing manifest is waited for. *)
OpenScenarioWaiting ==
    /\ run.pc = "observe"
    /\ \E c \in run.todo :
          /\ IsNext(c)
          /\ ScenarioOf(c) # run.open
          /\ fixtures[ScenarioOf(c)] # None
          /\ run' = [run EXCEPT !.open = ScenarioOf(c)]
    /\ UNCHANGED <<checkout, results, calm, mishaps>>

(* The manifest of the next scenario; a missing one raises. *)
OpenScenario ==
    /\ run.pc = "observe"
    /\ \E c \in run.todo :
          /\ IsNext(c)
          /\ ScenarioOf(c) # run.open
          /\ run' = IF fixtures[ScenarioOf(c)] = None THEN Idle ELSE [run EXCEPT !.open = ScenarioOf(c)]
    /\ UNCHANGED <<checkout, results, calm, mishaps>>

(* Faulty: a status the record format does not have. *)
StatusOfFile(a, content) ==
    IF content = None THEN "missing" ELSE IF <<a, content>> \in Refuses THEN "error" ELSE "success"

(* _outcome: whatever read raises is recorded as the engine's answer, a    *)
(* file that is not there included.                                        *)
Status(a, content) == IF content = None \/ <<a, content>> \in Refuses THEN "error" ELSE "success"

Outcome(call) ==
    LET content == fixtures[ScenarioOf(call)]
    IN  [call |-> call, status |-> Status(Adapter, content), revision |-> run.revision, read |-> content]

Observe ==
    /\ run.pc = "observe"
    /\ \E c \in run.todo :
          /\ IsNext(c)
          /\ ScenarioOf(c) = run.open
          /\ run' = [run EXCEPT !.todo = @ \ {c}, !.records = Append(@, Outcome(c))]
    /\ UNCHANGED <<checkout, results, calm, mishaps>>

EndObserve ==
    /\ run.pc = "observe"
    /\ run.todo = {}
    /\ run' = [run EXCEPT !.pc = "write"]
    /\ UNCHANGED <<checkout, results, calm, mishaps>>

(* One file per adapter, written as soon as its observation is complete. *)
WriteResults ==
    /\ run.pc = "write"
    /\ results' = [results EXCEPT ![Adapter] = File(run.records, calm)]
    /\ run' = [run EXCEPT !.pc = "load", !.queue = Tail(@)]
    /\ UNCHANGED <<checkout, calm, mishaps>>

(***************************************************************************)
(* A run dies: describe raises or its record is invalid (an adapter bug),  *)
(* or somebody interrupts it.                                              *)
(***************************************************************************)
Die ==
    /\ mishaps < MaxMishaps
    /\ mishaps' = mishaps + 1
    /\ run' = Idle
    /\ UNCHANGED <<checkout, calm>>

Describes(c) == IsNext(c) /\ ScenarioOf(c) = run.open /\ Outcome(c).status = "success"

(* Faulty: the call is left out and the run goes on. *)
AdapterBugSkipped ==
    /\ run.pc = "observe"
    /\ mishaps < MaxMishaps
    /\ mishaps' = mishaps + 1
    /\ \E c \in run.todo : Describes(c) /\ run' = [run EXCEPT !.todo = @ \ {c}]
    /\ UNCHANGED <<checkout, results, calm>>

(* Faulty: what was observed so far is saved on the way out. *)
AdapterBugSaved ==
    /\ run.pc = "observe"
    /\ \E c \in run.todo : Describes(c)
    /\ Die
    /\ results' = [results EXCEPT ![Adapter] = File(run.records, calm)]

(* An exception of describe is not caught: nothing of this adapter's run   *)
(* is recorded, and the adapters after it are not run.                     *)
AdapterBug ==
    /\ run.pc = "observe"
    /\ \E c \in run.todo : Describes(c)
    /\ Die
    /\ UNCHANGED results

Interrupt ==
    /\ run.pc # "idle"
    /\ Die
    /\ UNCHANGED results

TearResults ==
    /\ run.pc = "write"
    /\ Die
    /\ results' = [results EXCEPT ![Adapter] = File(Torn, FALSE)]

(***************************************************************************)
(* The developer, at any time                                              *)
(***************************************************************************)
Disturbs == calm' = FALSE /\ UNCHANGED run

DeveloperStep ==
    /\ mishaps < MaxMishaps
    /\ mishaps' = mishaps + 1
    /\ Disturbs

(* By hand, by a merge, or by generate_fixtures. *)
EditFixtures ==
    /\ DeveloperStep
    /\ \E s \in Scenarios, content \in Contents \cup {None} : fixtures' = [fixtures EXCEPT ![s] = content]
    /\ UNCHANGED <<trees, tagged, results, committed>>

Commit ==
    /\ DeveloperStep
    /\ ~Clean
    /\ trees' = Append(trees, fixtures)
    /\ committed' = results
    /\ UNCHANGED <<fixtures, tagged, results>>

(* git restore and git clean. *)
Restore ==
    /\ DeveloperStep
    /\ ~Clean
    /\ fixtures' = trees[Newest]
    /\ results' = committed
    /\ UNCHANGED <<trees, tagged, committed>>

(* A published tag is never moved: one tag, whatever the other mishaps. *)
TagRelease ==
    /\ Disturbs
    /\ tagged = 0
    /\ tagged' = Newest
    /\ UNCHANGED <<fixtures, trees, results, committed, mishaps>>

RunnerStep ==
    \/ CheckStatus \/ CheckTag \/ CheckTrees \/ ReadHead
    \/ Load \/ Finish
    \/ OpenScenario \/ Observe \/ EndObserve \/ WriteResults

Requests == UNION {[1..n -> Names] : n \in 1..MaxRequest}

Next ==
    \/ \E names \in Requests : Start(names)
    \/ RunnerStep
    \/ AdapterBug \/ Interrupt \/ TearResults
    \/ EditFixtures \/ Commit \/ Restore \/ TagRelease

(* An engine returns or raises: the runner has no timeout. *)
Spec == Init /\ [][Next]_vars /\ WF_vars(RunnerStep)

-----------------------------------------------------------------------------
(***************************************************************************)
(* Properties                                                              *)
(***************************************************************************)

(* The bytes a record says it is about: fixtures/ at corpus_revision, which *)
(* are those of the tagged release.                                        *)
Pinned(a, r) ==
    LET s == ScenarioOf(r.call)
    IN  /\ r.read = trees[r.revision][s]
        /\ r.read = trees[tagged][s]
        /\ r.status = "error" <=> <<a, r.read>> \in Refuses

(* "The run is pinned to exact corpus bytes" (runner.py): every record on  *)
(* disk is about the bytes of the commit it names and of the release,      *)
(* however the checkout came to be what it was, and whatever was done to   *)
(* it afterwards.  Shown for runs during which the checkout was left alone.*)
CalmRunsArePinned ==
    \A a \in Registry : Whole(results[a]) /\ results[a].calm =>
        \A r \in Range(results[a].content) : Pinned(a, r)

(* The same for every run.                                                 *)
RunsArePinned ==
    \A a \in Registry : Whole(results[a]) =>
        \A r \in Range(results[a].content) : Pinned(a, r)

(* A results file is the whole story: every declared call of the adapter   *)
(* on every transition of the release, once, in corpus order, about one    *)
(* revision; never what an adapter bug or an interrupt left of a run.      *)
Released == {s \in Scenarios : trees[tagged][s] # None}

Complete(a, records) ==
    /\ {r.call : r \in Range(records)} = Calls(a, Released)
    /\ \A i, j \in DOMAIN records : i < j => Before(records[i].call, records[j].call)
    /\ \A r, q \in Range(records) : r.revision = q.revision

CalmResultsAreComplete ==
    \A a \in Registry : Whole(results[a]) /\ results[a].calm => Complete(a, results[a].content)

(* When a run during which nobody edited, committed, tagged or restored    *)
(* ends with exit status 0, every adapter it was asked for has a complete  *)
(* file of this very run, adapters named twice included.                   *)
ExitZeroMeansRecorded ==
    run.pc = "load" /\ run.queue = <<>> /\ calm =>
        \A a \in Range(run.asked) :
            /\ a \in Registry
            /\ Whole(results[a])
            /\ Complete(a, results[a].content)
            /\ \A r \in Range(results[a].content) : r.revision = run.revision

(* Every run ends, if its engines answer.                                  *)
RunsEnd == run.pc # "idle" ~> run.pc = "idle"

(***************************************************************************)
(* The runner is a Recorder                                                *)
(***************************************************************************)
FileKind(a, file) ==
    CASE file.content = None -> "none"
      [] file.content = Torn -> "cut"
      [] Whole(file) /\ ~file.calm -> "doubtful"
      [] Whole(file) /\ file.calm ->
            IF Complete(a, file.content) /\ \A r \in Range(file.content) : Pinned(a, r) THEN "whole" ELSE "wrong"

Contract == INSTANCE Recorder WITH
    files <- [a \in Registry |-> FileKind(a, results[a])],
    kept <- [a \in Registry |-> FileKind(a, committed[a])],
    queue <- run.queue

(* The many steps of a run, and whatever else happens to the checkout, are *)
(* seen from results/ as a Recorder: one file at a time, each replaced by  *)
(* a whole set of answers in a single step or cut short by a run that gave *)
(* up there, adapters in the order they were asked for, none skipped; and  *)
(* every run gets to its end or gives up.                                  *)
RunnerIsARecorder == Contract!Spec
=============================================================================
