----------------------------- MODULE RunnerProofs -----------------------------
(***************************************************************************)
(* The runner (adapters/runner.py), for every corpus, registry, request    *)
(* and number of mishaps: what an undisturbed run checks stays true until  *)
(* it ends, so its files hold the released corpus, whole, and so does an   *)
(* exit status of zero. With that the runner implements the Recorder, but  *)
(* for its fairness.                                                       *)
(***************************************************************************)
EXTENDS Runner, TLAPS

(***************************************************************************)
(* Sequences and calls                                                     *)
(***************************************************************************)

(* A sequence with one more element at its end.                            *)
LEMMA AppendFacts ==
    ASSUME NEW S, NEW s \in Seq(S), NEW e \in S
    PROVE  /\ Append(s, e) \in Seq(S)
           /\ DOMAIN Append(s, e) = 1..(Len(s) + 1)
           /\ Append(s, e)[Len(s) + 1] = e
           /\ \A i \in 1..Len(s) : Append(s, e)[i] = s[i]
           /\ Range(Append(s, e)) = Range(s) \cup {e}
<1>1. /\ Append(s, e) \in Seq(S)
      /\ Len(Append(s, e)) = Len(s) + 1
      /\ DOMAIN s = 1..Len(s)
      /\ Append(s, e)[Len(s) + 1] = e
      /\ \A i \in 1..Len(s) : Append(s, e)[i] = s[i]
  OBVIOUS
<1>2. DOMAIN Append(s, e) = 1..(Len(s) + 1)
  BY <1>1
<1>3. Range(Append(s, e)) = Range(s) \cup {e}
  BY <1>1, <1>2 DEF Range
<1> QED
  BY <1>1, <1>2, <1>3

(* A sequence without its first element.                                   *)
LEMMA TailFacts ==
    ASSUME NEW S, NEW s \in Seq(S), s # <<>>
    PROVE  /\ Head(s) \in S
           /\ Tail(s) \in Seq(S)
           /\ Range(s) = {Head(s)} \cup Range(Tail(s))
<1>1. /\ Head(s) = s[1] /\ Tail(s) \in Seq(S) /\ Head(s) \in S
      /\ Len(s) \in Nat \ {0} /\ Len(Tail(s)) = Len(s) - 1
      /\ DOMAIN s = 1..Len(s)
      /\ DOMAIN Tail(s) = 1..(Len(s) - 1)
      /\ \A i \in 1..(Len(s) - 1) : Tail(s)[i] = s[i + 1]
  OBVIOUS
<1>2. \A i \in 2..Len(s) : s[i] = Tail(s)[i - 1] /\ i - 1 \in 1..(Len(s) - 1)
  BY <1>1
<1>3. ASSUME NEW x \in Range(s) PROVE x \in {Head(s)} \cup Range(Tail(s))
  <2>1. PICK i \in 1..Len(s) : x = s[i]
    BY <1>1, <1>3 DEF Range
  <2>2. CASE i = 1
    BY <1>1, <2>1, <2>2
  <2>3. CASE i # 1
    <3>1. x = Tail(s)[i - 1] /\ i - 1 \in DOMAIN Tail(s)
      BY <1>1, <1>2, <2>1, <2>3
    <3> QED
      BY <3>1 DEF Range
  <2> QED
    BY <2>2, <2>3
<1>4. ASSUME NEW x \in Range(Tail(s)) PROVE x \in Range(s)
  BY <1>1, <1>4 DEF Range
<1>5. Head(s) \in Range(s)
  BY <1>1 DEF Range
<1> QED
  BY <1>1, <1>3, <1>4, <1>5

(* A call is five numbers, the first of them its scenario.                 *)
LEMMA CallFacts ==
    ASSUME NEW a \in Registry, NEW scenarios, scenarios \subseteq Nat, NEW c \in Calls(a, scenarios)
    PROVE  c \in Seq(Nat) /\ ScenarioOf(c) \in scenarios
<1>1. PICK o \in DOMAIN Modes[a] :
        c \in scenarios \X (1..(NumVersions - 1)) \X {o} \X (1..Modes[a][o]) \X _inputs
  BY DEF Calls
<1>2. o \in Nat
  BY CallsAssumption
<1>3. PICK s \in scenarios, v \in 1..(NumVersions - 1), m \in 1..Modes[a][o], i \in _inputs : c = <<s, v, o, m, i>>
  BY <1>1
<1>4. s \in Nat /\ v \in Nat /\ m \in Nat /\ i \in Nat
  BY <1>3 DEF _inputs
<1> QED
  BY <1>2, <1>3, <1>4 DEF ScenarioOf

(***************************************************************************)
(* Type correctness                                                        *)
(***************************************************************************)

(* Init is of the right type.                                              *)
LEMMA TypeInit == Init => TypeOK
<1> SUFFICES ASSUME Init PROVE TypeOK
  OBVIOUS
<1>1. /\ fixtures \in Trees /\ trees = <<fixtures>> /\ Len(trees) = 1
      /\ trees \in Seq(Trees) /\ trees # <<>> /\ tagged \in 0..Newest
  BY DEF Init, Trees, Newest
<1>2. FileOK(NoFile)
  BY DEF FileOK, NoFile, File, Whole
<1>3. /\ run \in Runs
      /\ run.pc = "idle"
  BY <1>1, CallsAssumption DEF Init, Idle, Newest, Runs
<1> QED
  BY <1>1, <1>2, <1>3, SizesAssumption DEF Init, TypeOK

(* Requests are sequences of names.                                        *)
LEMMA RequestFacts ==
    ASSUME NEW names \in Requests
    PROVE  names \in Seq(Names) /\ names # <<>>
<1>1. PICK n \in 1..MaxRequest : names \in [1..n -> Names]
  BY DEF Requests
<1>2. n \in Nat /\ names \in Seq(Names) /\ Len(names) = n
  BY <1>1, SizesAssumption
<1> QED
  BY <1>1, <1>2

(* What observe records of a call it has left (adapters/runner.py) is a    *)
(* record.                                                                 *)
LEMMA OutcomeType ==
    ASSUME TypeOK, run.pc = "observe", NEW c \in run.todo
    PROVE  /\ c \in Seq(Nat) /\ ScenarioOf(c) \in Scenarios
           /\ Outcome(c) \in Record
<1>1. c \in Calls(Adapter, Scenarios) /\ Adapter \in Registry
  BY DEF TypeOK
<1>2. c \in Seq(Nat) /\ ScenarioOf(c) \in Scenarios
  BY <1>1, CallFacts, CallsAssumption DEF Scenarios
<1>3. fixtures[ScenarioOf(c)] \in Contents \cup {None} /\ run.revision \in Nat
  BY <1>2 DEF TypeOK, Trees, Newest, Runs
<1> QED
  BY <1>2, <1>3 DEF Outcome, Status, Record

(* A step that puts the run into another state of the right type, and      *)
(* leaves everything else as it is.                                        *)
LEMMA TypeOfRunStep ==
    ASSUME TypeOK, UNCHANGED <<checkout, results, calm>>, mishaps' \in 0..MaxMishaps,
           run' \in Runs,
           run'.pc \in {"observe", "write"} => run'.queue # <<>> /\ Head(run'.queue) \in Registry,
           run'.pc = "observe" => run'.todo \subseteq Calls(Head(run'.queue), Scenarios)
    PROVE  TypeOK'
BY DEF TypeOK, Runs, checkout, Newest, Adapter, Trees, Record, FileOK, Whole
(* A developer's step to a checkout of the right type.                     *)
LEMMA TypeOfDisturbance ==
    ASSUME TypeOK, Disturbs, mishaps' \in 0..MaxMishaps,
           fixtures' \in Trees, trees' \in Seq(Trees), trees' # <<>>,
           Len(trees) <= Len(trees'), tagged' \in 0..Len(trees'),
           DOMAIN results' = Registry, \A a \in Registry : FileOK(results'[a]),
           DOMAIN committed' = Registry, \A a \in Registry : FileOK(committed'[a])
    PROVE  TypeOK'
<1>1. Runs' = Runs \/ 0..Newest \subseteq 0..Newest'
  BY DEF TypeOK, Newest
<1>2. run' \in Runs'
  BY <1>1 DEF TypeOK, Disturbs, Runs, Newest
<1> QED
  BY <1>2 DEF TypeOK, Disturbs, Newest, Adapter

(* A runner that does nothing is a state of a run.                         *)
LEMMA IdleType == TypeOK => Idle \in Runs
BY CallsAssumption DEF TypeOK, Idle, Runs, Newest

(* Every step keeps the types, one case per action of Next.                *)
LEMMA TypeStep == TypeOK /\ [Next]_vars => TypeOK'
<1> SUFFICES ASSUME TypeOK, [Next]_vars PROVE TypeOK'
  OBVIOUS
<1>types. /\ run \in Runs /\ Idle \in Runs /\ Idle.pc = "idle"
          /\ mishaps \in 0..MaxMishaps
          /\ run.pc \in {"observe", "write"} => run.queue # <<>> /\ Head(run.queue) \in Registry
          /\ run.pc = "observe" => run.todo \subseteq Calls(Adapter, Scenarios)
  BY IdleType DEF TypeOK, Idle, Adapter
<1>1. ASSUME NEW names \in Requests, Start(names) PROVE TypeOK'
  <2>1. names \in Seq(Names) /\ run' = [Idle EXCEPT !.pc = "status", !.asked = names, !.queue = names]
    BY <1>1, RequestFacts DEF Start
  <2>2. run' \in Runs /\ run'.pc = "status"
    BY <2>1, <1>types DEF Runs, Idle
  <2> QED
    BY <1>1, <1>types, <2>2 DEF Start, TypeOK, Runs, checkout, Newest, Adapter, Trees, Record, FileOK, Whole
<1>2. ASSUME NEW holds, NEW pc, NEW next \in {"tag", "trees", "head", "load"}, Check(pc, holds, next) PROVE TypeOK'
  BY <1>2, <1>types, TypeOfRunStep DEF Check, Runs
<1>3. CASE CheckStatus \/ CheckTag \/ CheckTrees
  BY <1>2, <1>3 DEF CheckStatus, CheckTag, CheckTrees
<1>4. CASE ReadHead
  <2>1. Newest \in 0..Newest
    BY DEF TypeOK, Newest
  <2> QED
    BY <1>4, <1>types, <2>1, TypeOfRunStep DEF ReadHead, Runs
<1>5. CASE Load
  <2>1. CASE Adapter \notin Registry
    BY <1>5, <1>types, <2>1, TypeOfRunStep DEF Load
  <2>2. CASE Adapter \in Registry
    <3>1. Calls(Adapter, Present) \subseteq Calls(Adapter, Scenarios) /\ Calls(Adapter, Present) \subseteq Seq(Nat)
      <4>1. Present \subseteq Scenarios /\ Present \subseteq Nat
        BY DEF Present, Scenarios
      <4>2. Calls(Adapter, Present) \subseteq Seq(Nat)
        BY <2>2, <4>1, CallFacts
      <4> QED
        BY <4>1, <4>2 DEF Calls
    <3>2. run' = [run EXCEPT !.pc = "observe", !.todo = Calls(Adapter, Present), !.open = 0, !.records = <<>>]
      BY <1>5, <2>2 DEF Load
    <3>3. 0 \in 0..NumScenarios /\ <<>> \in Seq(Record)
      BY CallsAssumption
    <3>4. /\ run' \in Runs /\ run'.pc = "observe"
          /\ run'.queue = run.queue /\ run'.todo = Calls(Adapter, Present)
      BY <1>types, <3>1, <3>2, <3>3 DEF Runs
    <3> QED
      BY <1>5, <1>types, <2>2, <3>1, <3>4, TypeOfRunStep DEF Load, Adapter
  <2> QED
    BY <2>1, <2>2
<1>6. CASE Finish
  BY <1>6, <1>types, TypeOfRunStep DEF Finish
<1>7. CASE OpenScenario
  <2>1. PICK c \in run.todo :
          run' = IF fixtures[ScenarioOf(c)] = None THEN Idle ELSE [run EXCEPT !.open = ScenarioOf(c)]
    BY <1>7 DEF OpenScenario
  <2>2. ScenarioOf(c) \in 0..NumScenarios
    BY <1>7, <2>1, OutcomeType, CallsAssumption DEF OpenScenario, Scenarios
  <2> QED
    BY <1>7, <1>types, <2>1, <2>2, TypeOfRunStep DEF OpenScenario, Runs, Adapter
<1>8. CASE Observe
  <2>1. PICK c \in run.todo : run' = [run EXCEPT !.todo = @ \ {c}, !.records = Append(@, Outcome(c))]
    BY <1>8 DEF Observe
  <2>2. Append(run.records, Outcome(c)) \in Seq(Record)
    BY <1>8, <1>types, <2>1, OutcomeType, AppendFacts DEF Observe, Runs
  <2> QED
    BY <1>8, <1>types, <2>1, <2>2, TypeOfRunStep DEF Observe, Runs, Adapter
<1>9. CASE EndObserve
  BY <1>9, <1>types, TypeOfRunStep DEF EndObserve, Runs
<1>10. CASE WriteResults
  <2>1. FileOK(File(run.records, calm))
    BY <1>types DEF FileOK, File, Runs, TypeOK
  <2>2. Tail(run.queue) \in Seq(Names)
    BY <1>10, <1>types, TailFacts DEF WriteResults, Runs
  <2> QED
    BY <1>10, <1>types, <2>1, <2>2 DEF WriteResults, TypeOK, Runs, checkout, Newest, Adapter, Trees, Record, FileOK, Whole
<1>11. CASE Die /\ UNCHANGED results
  BY <1>11, <1>types, SizesAssumption, TypeOfRunStep DEF Die
<1>12. CASE TearResults
  <2>1. FileOK(File(Torn, FALSE))
    BY DEF FileOK, File, Whole
  <2>2. DOMAIN results' = Registry /\ \A a \in Registry : FileOK(results'[a])
    BY <1>12, <2>1 DEF TearResults, TypeOK
  <2>3. mishaps' \in 0..MaxMishaps /\ run' = Idle /\ UNCHANGED <<fixtures, trees, tagged, committed, calm>>
    BY <1>12, <1>types, SizesAssumption DEF TearResults, Die, checkout
  <2> QED
    BY <1>types, <2>2, <2>3 DEF TypeOK, Runs, Newest, Adapter, Idle
<1>13. CASE EditFixtures
  <2>1. fixtures' \in Trees
    BY <1>13 DEF EditFixtures, TypeOK, Trees
  <2>2. mishaps' \in 0..MaxMishaps
    BY <1>13, <1>types, SizesAssumption DEF EditFixtures, DeveloperStep
  <2> QED
    BY <1>13, <2>1, <2>2, TypeOfDisturbance DEF EditFixtures, DeveloperStep, TypeOK, Newest
<1>14. CASE Commit
  <2>1. trees' \in Seq(Trees) /\ trees' # <<>> /\ Len(trees') = Len(trees) + 1 /\ Len(trees) \in Nat
    BY <1>14 DEF Commit, TypeOK
  <2>2. mishaps' \in 0..MaxMishaps
    BY <1>14, <1>types, SizesAssumption DEF Commit, DeveloperStep
  <2>3. tagged' \in 0..Len(trees')
    BY <1>14, <2>1 DEF Commit, TypeOK, Newest
  <2> QED
    BY <1>14, <2>1, <2>2, <2>3, TypeOfDisturbance DEF Commit, DeveloperStep, TypeOK
<1>15. CASE Restore
  <2>1. trees[Newest] \in Trees
    BY DEF TypeOK, Newest
  <2>2. mishaps' \in 0..MaxMishaps
    BY <1>15, <1>types, SizesAssumption DEF Restore, DeveloperStep
  <2> QED
    BY <1>15, <2>1, <2>2, TypeOfDisturbance DEF Restore, DeveloperStep, TypeOK, Newest
<1>16. CASE TagRelease
  <2>1. tagged' \in 0..Len(trees')
    BY <1>16 DEF TagRelease, TypeOK, Newest
  <2> QED
    BY <1>16, <1>types, <2>1, TypeOfDisturbance DEF TagRelease, TypeOK
<1>17. CASE UNCHANGED vars
  BY <1>17 DEF vars, checkout, TypeOK, Runs, Newest, Adapter, Trees, Record, FileOK, Whole
<1> QED
  BY <1>1, <1>3, <1>4, <1>5, <1>6, <1>7, <1>8, <1>9, <1>10, <1>11, <1>12, <1>13, <1>14, <1>15, <1>16, <1>17
  DEF Next, RunnerStep, AdapterBug, Interrupt

(***************************************************************************)
(* The inductive invariant                                                 *)
(***************************************************************************)

(* What an undisturbed run knows of the checkout, command by command.      *)
PinnedSoFar ==
    calm =>
        /\ run.pc \notin {"idle", "status"} => fixtures = trees[Newest]
        /\ run.pc \notin {"idle", "status", "tag"} => tagged # 0
        /\ run.pc \notin {"idle", "status", "tag", "trees"} => trees[tagged] = trees[Newest]
        /\ run.pc \in {"load", "observe", "write"} => run.revision = Newest

(* What was asked for is still to be done until the run is pinned.         *)
QueueInv ==
    /\ run.pc = "idle" => run = Idle
    /\ run.pc \in {"status", "tag", "trees", "head"} => run.queue = run.asked /\ run.queue # <<>>

(* The records of the adapter at work and the calls it has left are its    *)
(* calls, the records in order and before what is left.                    *)
ObservedSoFar ==
    calm /\ run.pc \in {"observe", "write"} =>
        /\ \A r \in Range(run.records) : Pinned(Adapter, r) /\ r.revision = run.revision
        /\ {r.call : r \in Range(run.records)} \cup run.todo = Calls(Adapter, Present)
        /\ \A r \in Range(run.records), d \in run.todo : Before(r.call, d)
        /\ \A i, j \in DOMAIN run.records : i < j => Before(run.records[i].call, run.records[j].call)
        /\ run.pc = "write" => run.todo = {}

(* A file of an undisturbed run is what it should be, and stays so.        *)
FileInv(a, file) ==
    Whole(file) /\ file.calm =>
        /\ tagged # 0
        /\ \A r \in Range(file.content) : Pinned(a, r) /\ r.revision \in 1..Newest
        /\ Complete(a, file.content)

FilesInv == \A a \in Registry : FileInv(a, results[a]) /\ FileInv(a, committed[a])

(* The adapters an undisturbed run is done with have a file of this run.   *)
RecordedSoFar ==
    calm /\ run.pc \in {"load", "observe", "write"} =>
        \A a \in Range(run.asked) \ Range(run.queue) :
            /\ a \in Registry /\ Whole(results[a]) /\ results[a].calm
            /\ \A r \in Range(results[a].content) : r.revision = run.revision

(* A run keeps what corpus_identity showed it: only a developer's step     *)
(* could take it away, and then the run is not undisturbed any more.       *)
LEMMA PinnedStep == TypeOK /\ PinnedSoFar /\ [Next]_vars => PinnedSoFar'
<1> SUFFICES ASSUME TypeOK, PinnedSoFar, [Next]_vars PROVE PinnedSoFar'
  OBVIOUS
<1> USE DEF PinnedSoFar, Newest
<1>types. run \in Runs /\ Idle.pc = "idle"
  BY DEF TypeOK, Idle
<1>1. ASSUME NEW names \in Requests, Start(names) PROVE PinnedSoFar'
  BY <1>1 DEF Start, Idle
<1>2. CASE CheckStatus
  BY <1>2, <1>types DEF CheckStatus, Check, Clean, checkout, Runs
<1>3. CASE CheckTag
  BY <1>3, <1>types DEF CheckTag, Check, checkout, Runs
<1>4. CASE CheckTrees
  BY <1>4, <1>types DEF CheckTrees, Check, checkout, Runs
<1>5. CASE ReadHead
  BY <1>5, <1>types DEF ReadHead, checkout, Runs
<1>6. CASE Load
  BY <1>6, <1>types DEF Load, checkout, Runs
<1>7. CASE Finish
  BY <1>7, <1>types DEF Finish, checkout, Runs
<1>8. CASE OpenScenario
  BY <1>8, <1>types DEF OpenScenario, checkout, Runs
<1>9. CASE Observe
  BY <1>9, <1>types DEF Observe, checkout, Runs
<1>10. CASE EndObserve
  BY <1>10, <1>types DEF EndObserve, checkout, Runs
<1>11. CASE WriteResults
  BY <1>11, <1>types DEF WriteResults, checkout, Runs
<1>12. CASE Die
  BY <1>12, <1>types DEF Die, checkout
<1>13. CASE Disturbs
  BY <1>13 DEF Disturbs
<1>14. CASE UNCHANGED vars
  BY <1>14 DEF vars
<1> QED
  BY <1>1, <1>2, <1>3, <1>4, <1>5, <1>6, <1>7, <1>8, <1>9, <1>10, <1>11, <1>12, <1>13, <1>14
  DEF Next, RunnerStep, AdapterBug, Interrupt, TearResults, EditFixtures, Commit, Restore, TagRelease, DeveloperStep

(* The checks come before the first adapter is taken from the request.     *)
LEMMA QueueStep == TypeOK /\ QueueInv /\ [Next]_vars => QueueInv'
<1> SUFFICES ASSUME TypeOK, QueueInv, [Next]_vars PROVE QueueInv'
  OBVIOUS
<1> USE DEF QueueInv
<1>types. run \in Runs /\ Idle.pc = "idle"
  BY DEF TypeOK, Idle
<1>1. ASSUME NEW names \in Requests, Start(names) PROVE QueueInv'
  BY <1>1, RequestFacts DEF Start, Idle
<1>2. CASE CheckStatus \/ CheckTag \/ CheckTrees
  BY <1>2, <1>types DEF CheckStatus, CheckTag, CheckTrees, Check, Runs
<1>3. CASE ReadHead
  BY <1>3, <1>types DEF ReadHead, Runs
<1>4. CASE Load
  BY <1>4, <1>types DEF Load, Runs
<1>5. CASE Finish
  BY <1>5, <1>types DEF Finish
<1>6. CASE OpenScenario \/ Observe \/ EndObserve
  BY <1>6, <1>types DEF OpenScenario, Observe, EndObserve, Runs
<1>7. CASE WriteResults
  BY <1>7, <1>types DEF WriteResults, Runs
<1>8. CASE Die
  BY <1>8, <1>types DEF Die
<1>9. CASE UNCHANGED run
  BY <1>9
<1> QED
  BY <1>1, <1>2, <1>3, <1>4, <1>5, <1>6, <1>7, <1>8, <1>9
  DEF Next, RunnerStep, AdapterBug, Interrupt, TearResults, EditFixtures, Commit, Restore, TagRelease, DeveloperStep,
      Disturbs, vars
(* What an undisturbed run observes is the release.                        *)

(* What an undisturbed run observes is the release.                        *)
LEMMA OutcomePinned ==
    ASSUME TypeOK, PinnedSoFar, ObservedSoFar, calm, run.pc = "observe", NEW c \in run.todo
    PROVE  /\ Outcome(c).call = c /\ Outcome(c).revision = run.revision
           /\ Pinned(Adapter, Outcome(c))
<1>1. ScenarioOf(c) \in Present
  <2>1. c \in Calls(Adapter, Present) /\ Adapter \in Registry /\ Present \subseteq Nat
    BY DEF TypeOK, ObservedSoFar, Present, Scenarios
  <2> QED
    BY <2>1, CallFacts
<1>2. fixtures[ScenarioOf(c)] # None
  BY <1>1 DEF Present
<1>3. fixtures = trees[run.revision] /\ fixtures = trees[tagged]
  BY DEF PinnedSoFar
<1> QED
  BY <1>2, <1>3 DEF Pinned, Outcome, Status

(* A call is recorded after those before it and taken from what is left,   *)
(* so the records and what is left stay a cut of the adapter's calls.      *)
LEMMA ObserveOne ==
    ASSUME TypeOK, PinnedSoFar, ObservedSoFar, Observe PROVE ObservedSoFar'
<1> SUFFICES ASSUME calm PROVE ObservedSoFar'
  BY DEF Observe, ObservedSoFar
<1> DEFINE records == run.records
<1>1. PICK c \in run.todo :
        /\ IsNext(c)
        /\ run' = [run EXCEPT !.todo = @ \ {c}, !.records = Append(@, Outcome(c))]
  BY DEF Observe
<1>2. /\ run \in Runs /\ run.pc = "observe" /\ UNCHANGED <<fixtures, trees, tagged, calm>>
      /\ records \in Seq(Record) /\ Outcome(c) \in Record
  BY OutcomeType DEF TypeOK, Observe, Runs, checkout
<1>3. /\ run'.pc = "observe" /\ run'.queue = run.queue /\ run'.revision = run.revision
      /\ run'.todo = run.todo \ {c} /\ run'.records = Append(records, Outcome(c))
  BY <1>1, <1>2 DEF Runs
<1>4. /\ Outcome(c).call = c /\ Outcome(c).revision = run.revision
      /\ Pinned(Adapter, Outcome(c))
  BY <1>2, OutcomePinned
<1>5. /\ DOMAIN run'.records = 1..(Len(records) + 1) /\ Len(records) \in Nat /\ DOMAIN records = 1..Len(records)
      /\ run'.records[Len(records) + 1] = Outcome(c)
      /\ \A i \in 1..Len(records) : run'.records[i] = records[i]
      /\ Range(run'.records) = Range(records) \cup {Outcome(c)}
  BY <1>2, <1>3, AppendFacts
<1>6. Adapter' = Adapter /\ Present' = Present
  BY <1>2, <1>3 DEF Adapter, Present
<1>7. \A r \in Range(run'.records) : Pinned(Adapter, r)' /\ r.revision = run'.revision
  BY <1>2, <1>3, <1>4, <1>5, <1>6 DEF ObservedSoFar, Pinned
<1>8. {r.call : r \in Range(run'.records)} \cup run'.todo = Calls(Adapter, Present)
  BY <1>2, <1>3, <1>4, <1>5 DEF ObservedSoFar
<1>9. \A r \in Range(run'.records), d \in run'.todo : Before(r.call, d)
  BY <1>1, <1>2, <1>3, <1>4, <1>5 DEF ObservedSoFar, IsNext
<1>10. \A i, j \in DOMAIN run'.records : i < j => Before(run'.records[i].call, run'.records[j].call)
  <2> SUFFICES ASSUME NEW i \in DOMAIN run'.records, NEW j \in DOMAIN run'.records, i < j
               PROVE  Before(run'.records[i].call, run'.records[j].call)
    OBVIOUS
  <2>1. CASE j \in 1..Len(records)
    BY <1>2, <1>5, <2>1 DEF ObservedSoFar
  <2>2. CASE j = Len(records) + 1
    <3>1. i \in 1..Len(records) /\ records[i] \in Range(records)
      BY <1>5, <2>2 DEF Range
    <3> QED
      BY <1>1, <1>2, <1>4, <1>5, <2>2, <3>1 DEF ObservedSoFar
  <2> QED
    BY <1>5, <2>1, <2>2
<1> QED
  BY <1>3, <1>6, <1>7, <1>8, <1>9, <1>10 DEF ObservedSoFar

(* Every step keeps the records and the calls that are left together.      *)
LEMMA ObservedStep == TypeOK /\ PinnedSoFar /\ ObservedSoFar /\ [Next]_vars => ObservedSoFar'
<1> SUFFICES ASSUME TypeOK, PinnedSoFar, ObservedSoFar, [Next]_vars PROVE ObservedSoFar'
  OBVIOUS
<1>types. run \in Runs /\ Idle.pc = "idle"
  BY DEF TypeOK, Idle
(* Elsewhere than between Load and WriteResults there is nothing to show.  *)
<1>elsewhere. ASSUME run'.pc \notin {"observe", "write"} PROVE ObservedSoFar'
  BY <1>elsewhere DEF ObservedSoFar
(* The run is as it was, or has opened a scenario or come to its last call.*)
<1>same. ASSUME UNCHANGED <<fixtures, trees, tagged, calm>>, run' \in Runs,
             run'.queue = run.queue, run'.records = run.records, run'.todo = run.todo,
             run'.revision = run.revision, run.pc \in {"observe", "write"}, run'.pc = "write" => run.todo = {}
      PROVE  ObservedSoFar'
  BY <1>same DEF ObservedSoFar, Adapter, Present, Pinned
<1>1. ASSUME NEW names \in Requests, Start(names) PROVE ObservedSoFar'
  BY <1>elsewhere, <1>1 DEF Start, Idle
<1>2. CASE CheckStatus \/ CheckTag \/ CheckTrees \/ ReadHead
  BY <1>elsewhere, <1>2, <1>types DEF CheckStatus, CheckTag, CheckTrees, Check, ReadHead, Runs
<1>3. CASE Load
  <2>1. CASE run' = Idle
    BY <1>elsewhere, <1>types, <2>1
  <2>2. CASE run' # Idle
    <3>1. /\ run'.pc = "observe" /\ run'.queue = run.queue /\ run'.records = <<>>
          /\ run'.todo = Calls(Adapter, Present) /\ UNCHANGED fixtures
      BY <1>3, <1>types, <2>2 DEF Load, Runs, checkout
    <3>2. Range(run'.records) = {} /\ DOMAIN run'.records = {}
      BY <3>1 DEF Range
    <3>3. Adapter' = Adapter /\ Present' = Present
      BY <3>1 DEF Adapter, Present
    <3> QED
      BY <3>1, <3>2, <3>3 DEF ObservedSoFar
  <2> QED
    BY <2>1, <2>2
<1>4. CASE Finish
  BY <1>elsewhere, <1>4, <1>types DEF Finish
<1>5. CASE OpenScenario
  BY <1>elsewhere, <1>5, <1>types, <1>same, TypeStep DEF OpenScenario, TypeOK, Runs, checkout
<1>6. CASE Observe
  BY <1>6, ObserveOne
<1>7. CASE EndObserve
  BY <1>7, <1>types, <1>same, TypeStep DEF EndObserve, TypeOK, Runs, checkout
<1>8. CASE WriteResults
  BY <1>elsewhere, <1>8, <1>types DEF WriteResults, Runs
<1>9. CASE Die
  BY <1>elsewhere, <1>9, <1>types DEF Die
<1>10. CASE Disturbs
  BY <1>10 DEF Disturbs, ObservedSoFar
<1>11. CASE UNCHANGED vars
  BY <1>elsewhere, <1>11, <1>types, <1>same DEF vars, ObservedSoFar
<1> QED
  BY <1>1, <1>2, <1>3, <1>4, <1>5, <1>6, <1>7, <1>8, <1>9, <1>10, <1>11
  DEF Next, RunnerStep, AdapterBug, Interrupt, TearResults, EditFixtures, Commit, Restore, TagRelease, DeveloperStep
(* Commits are only added and a tag is never moved: what is true of a file *)
(* stays true.                                                             *)
LEMMA FilesStay ==
    ASSUME TypeOK, FilesInv,
           Newest <= Newest', \A i \in 1..Newest : trees'[i] = trees[i],
           tagged = 0 \/ tagged' = tagged,
           \A a \in Registry : results'[a] \in {results[a], committed[a]},
           \A a \in Registry : committed'[a] \in {results[a], committed[a]}
    PROVE  FilesInv'
<1>1. ASSUME NEW a \in Registry, NEW file \in {results[a], committed[a]}, Whole(file) /\ file.calm
      PROVE  /\ tagged' # 0
             /\ \A r \in Range(file.content) : Pinned(a, r)' /\ r.revision \in 1..Newest'
             /\ Complete(a, file.content)'
  <2>1. FileInv(a, file) /\ tagged # 0 /\ tagged' = tagged
    BY <1>1 DEF FilesInv, FileInv
  <2>2. trees'[tagged'] = trees[tagged] /\ Newest \in Nat /\ Newest' \in Nat
    BY <2>1, TypeStep DEF TypeOK, Newest
  <2>3. \A r \in Range(file.content) : Pinned(a, r)' /\ r.revision \in 1..Newest'
    BY <1>1, <2>1, <2>2 DEF FileInv, Pinned
  <2>4. Complete(a, file.content)'
    BY <1>1, <2>1, <2>2 DEF FileInv, Complete, Released
  <2> QED
    BY <2>1, <2>3, <2>4
<1>2. \A a \in Registry : FileInv(a, results[a])'
  BY <1>1 DEF FileInv
<1>3. \A a \in Registry : FileInv(a, committed[a])'
  BY <1>1 DEF FileInv
<1> QED
  BY <1>2, <1>3 DEF FilesInv

(* The file an undisturbed run writes.                                     *)

(* The file an undisturbed run writes holds the calls of the release,      *)
(* observed from it.                                                       *)
LEMMA WrittenFile ==
    ASSUME TypeOK, PinnedSoFar, ObservedSoFar, calm, run.pc = "write"
    PROVE  /\ tagged # 0 /\ Whole(File(run.records, calm))
           /\ \A r \in Range(run.records) :
                 Pinned(Adapter, r) /\ r.revision \in 1..Newest /\ r.revision = run.revision
           /\ Complete(Adapter, run.records)
<1>1. tagged # 0 /\ run.revision = Newest /\ fixtures = trees[tagged]
  BY DEF PinnedSoFar
<1>2. Newest \in 1..Newest
  BY DEF TypeOK, Newest
<1>3. Whole(File(run.records, calm))
  BY MarksAssumption DEF TypeOK, Runs, Whole, File
<1>4. {r.call : r \in Range(run.records)} = Calls(Adapter, Released)
  BY <1>1 DEF ObservedSoFar, Present, Released
<1> QED
  BY <1>1, <1>2, <1>3, <1>4 DEF ObservedSoFar, Complete

(* Every step keeps the files: a run writes one, a torn write or a         *)
(* developer's step takes its place, or nothing that they are about        *)
(* changes.                                                                *)
LEMMA FilesStep ==
    TypeOK /\ PinnedSoFar /\ ObservedSoFar /\ FilesInv /\ [Next]_vars => FilesInv'
<1> SUFFICES ASSUME TypeOK, PinnedSoFar, ObservedSoFar, FilesInv, [Next]_vars PROVE FilesInv'
  OBVIOUS
<1>types. run \in Runs /\ Newest \in Nat
  BY DEF TypeOK, Newest
<1>1. ASSUME UNCHANGED <<checkout, results>> PROVE FilesInv'
  BY <1>1, <1>types, FilesStay DEF checkout, Newest
<1>2. ASSUME NEW names \in Requests, Start(names) PROVE FilesInv'
  BY <1>1, <1>2 DEF Start
<1>3. CASE RunnerStep /\ ~WriteResults
  BY <1>1, <1>3 DEF RunnerStep, CheckStatus, CheckTag, CheckTrees, Check, ReadHead, Load, Finish, OpenScenario,
                    Observe, EndObserve
<1>4. CASE WriteResults
  <2>1. /\ run.pc = "write" /\ Adapter \in Registry /\ UNCHANGED <<trees, tagged, committed, calm>>
        /\ results' = [results EXCEPT ![Adapter] = File(run.records, calm)]
    BY <1>4 DEF WriteResults, TypeOK, checkout
  <2>2. \A a \in Registry : FileInv(a, committed[a])'
    BY <2>1 DEF FilesInv, FileInv, Pinned, Complete, Released, Newest
  <2>3. ASSUME NEW a \in Registry, a # Adapter PROVE FileInv(a, results[a])'
    BY <2>1, <2>3 DEF FilesInv, FileInv, Pinned, Complete, Released, Newest, TypeOK
  <2>4. ASSUME NEW a \in Registry, a = Adapter PROVE FileInv(a, results[a])'
    <3>1. results'[a] = File(run.records, calm)
      BY <2>1, <2>4 DEF TypeOK
    <3>2. results'[a].content = run.records /\ results'[a].calm = calm
      BY <3>1 DEF File
    <3> QED
      BY <2>1, <2>4, <3>2, WrittenFile DEF FileInv, Pinned, Complete, Released, Newest
  <2> QED
    BY <2>2, <2>3, <2>4 DEF FilesInv
<1>5. CASE AdapterBug \/ Interrupt
  BY <1>1, <1>5 DEF AdapterBug, Interrupt, Die
<1>6. CASE TearResults
  <2>1. /\ UNCHANGED <<trees, tagged, committed>>
        /\ results' = [results EXCEPT ![Adapter] = File(Torn, FALSE)]
    BY <1>6 DEF TearResults, Die, checkout
  <2>2. \A a \in Registry : FileInv(a, committed[a])'
    BY <2>1 DEF FilesInv, FileInv, Pinned, Complete, Released, Newest
  <2>3. ASSUME NEW a \in Registry PROVE FileInv(a, results[a])'
    <3>1. results'[a] = results[a] \/ results'[a] = File(Torn, FALSE)
      BY <2>1 DEF TypeOK
    <3> QED
      BY <2>1, <3>1 DEF FilesInv, FileInv, Pinned, Complete, Released, Newest, File
  <2> QED
    BY <2>2, <2>3 DEF FilesInv
<1>7. CASE EditFixtures
  BY <1>7, <1>types, FilesStay DEF EditFixtures, Newest
<1>8. CASE Commit
  <2>1. trees \in Seq(Trees) /\ fixtures \in Trees
    BY DEF TypeOK
  <2>2. Newest' = Newest + 1 /\ \A i \in 1..Newest : trees'[i] = trees[i]
    BY <1>8, <2>1 DEF Commit, Newest
  <2>3. Newest <= Newest' /\ tagged' = tagged /\ results' = results /\ committed' = results
    BY <1>8, <1>types, <2>2 DEF Commit
  <2> QED
    BY <2>2, <2>3, FilesStay
<1>9. CASE Restore
  BY <1>9, <1>types, FilesStay DEF Restore, Newest
<1>10. CASE TagRelease
  BY <1>10, <1>types, FilesStay DEF TagRelease, Newest
<1>11. CASE UNCHANGED vars
  BY <1>1, <1>11 DEF vars, checkout
<1> QED
  BY <1>2, <1>3, <1>4, <1>5, <1>6, <1>7, <1>8, <1>9, <1>10, <1>11 DEF Next

(* An adapter leaves the queue as its file is written (main).              *)
LEMMA RecordedStep ==
    TypeOK /\ PinnedSoFar /\ QueueInv /\ ObservedSoFar /\ RecordedSoFar /\ [Next]_vars => RecordedSoFar'
<1> SUFFICES ASSUME TypeOK, PinnedSoFar, QueueInv, ObservedSoFar, RecordedSoFar, [Next]_vars
             PROVE  RecordedSoFar'
  OBVIOUS
<1>types. run \in Runs /\ Idle.pc = "idle"
  BY DEF TypeOK, Idle
<1>elsewhere. ASSUME run'.pc \notin {"load", "observe", "write"} PROVE RecordedSoFar'
  BY <1>elsewhere DEF RecordedSoFar
<1>same. ASSUME UNCHANGED <<results, calm>>, run'.asked = run.asked, run'.queue = run.queue,
             run'.revision = run.revision, run.pc \in {"load", "observe", "write"}
      PROVE  RecordedSoFar'
  BY <1>same DEF RecordedSoFar
<1>1. ASSUME NEW names \in Requests, Start(names) PROVE RecordedSoFar'
  BY <1>elsewhere, <1>1 DEF Start, Idle
<1>2. CASE CheckStatus \/ CheckTag \/ CheckTrees
  BY <1>elsewhere, <1>2, <1>types DEF CheckStatus, CheckTag, CheckTrees, Check, Runs
<1>3. CASE ReadHead
  <2>1. run'.queue = run'.asked
    BY <1>3, <1>types DEF ReadHead, QueueInv, Runs
  <2> QED
    BY <2>1 DEF RecordedSoFar
<1>4. CASE Load \/ Finish \/ OpenScenario \/ Observe \/ EndObserve
  BY <1>elsewhere, <1>4, <1>types, <1>same DEF Load, Finish, OpenScenario, Observe, EndObserve, Runs
<1>5. CASE WriteResults
  <2> SUFFICES ASSUME calm PROVE RecordedSoFar'
    BY <1>5 DEF WriteResults, RecordedSoFar
  <2>1. /\ run.pc = "write" /\ Adapter \in Registry
        /\ results' = [results EXCEPT ![Adapter] = File(run.records, calm)]
        /\ run'.queue = Tail(run.queue) /\ run'.asked = run.asked /\ run'.revision = run.revision
    BY <1>5, <1>types DEF WriteResults, TypeOK, Runs
  <2>2. Range(run.queue) = {Adapter} \cup Range(run'.queue)
    BY <1>types, <2>1, TailFacts DEF TypeOK, Runs, Adapter
  <2>3. results'[Adapter] = File(run.records, calm)
    BY <2>1 DEF TypeOK
  <2>4. results'[Adapter].content = run.records /\ results'[Adapter].calm /\ Whole(results'[Adapter])
    BY <2>1, <2>3, WrittenFile DEF File
  <2>5. \A r \in Range(results'[Adapter].content) : r.revision = run'.revision
    BY <2>1, <2>4, WrittenFile
  <2> QED
    BY <2>1, <2>2, <2>4, <2>5 DEF RecordedSoFar, TypeOK
<1>6. CASE Die
  BY <1>elsewhere, <1>6, <1>types DEF Die
<1>7. CASE Disturbs
  BY <1>7 DEF Disturbs, RecordedSoFar
<1>8. CASE UNCHANGED vars
  BY <1>elsewhere, <1>8, <1>same DEF vars
<1> QED
  BY <1>1, <1>2, <1>3, <1>4, <1>5, <1>6, <1>7, <1>8
  DEF Next, RunnerStep, AdapterBug, Interrupt, TearResults, EditFixtures, Commit, Restore, TagRelease, DeveloperStep

(* The inductive invariant: its parts hold each other up in this order.    *)
RunnerInv == TypeOK /\ PinnedSoFar /\ QueueInv /\ ObservedSoFar /\ FilesInv /\ RecordedSoFar

(* The invariant holds of a checkout without results.                      *)
LEMMA RunnerInvInit == Init => RunnerInv
<1> SUFFICES ASSUME Init PROVE RunnerInv
  OBVIOUS
<1>1. run.pc = "idle" /\ run = Idle /\ TypeOK
  BY TypeInit DEF Init, Idle
<1>2. \A a \in Registry : ~Whole(results[a]) /\ ~Whole(committed[a])
  BY DEF Init, NoFile, File, Whole
<1> QED
  BY <1>1, <1>2 DEF RunnerInv, PinnedSoFar, QueueInv, ObservedSoFar, FilesInv, FileInv, RecordedSoFar

(* Every step keeps the invariant.                                         *)
LEMMA RunnerInvStep == RunnerInv /\ [Next]_vars => RunnerInv'
BY TypeStep, PinnedStep, QueueStep, ObservedStep, FilesStep, RecordedStep DEF RunnerInv

(* The invariant holds in every reachable state.                           *)
LEMMA RunnerInvHolds == Spec => []RunnerInv
BY RunnerInvInit, RunnerInvStep, PTL DEF Spec

(* The state of the runner, the checkout and the results is always of its  *)
(* type.                                                                   *)
THEOREM TypeCorrect == Spec => []TypeOK
<1>1. RunnerInv => TypeOK
  BY DEF RunnerInv
<1> QED
  BY <1>1, RunnerInvHolds, PTL

(* Every record of a file an undisturbed run wrote was read from the       *)
(* tagged corpus, and names a revision with that corpus (runner.py,        *)
(* corpus_identity and observe).                                           *)
THEOREM RecordsArePinned == Spec => []CalmRunsArePinned
<1>1. RunnerInv => CalmRunsArePinned
  BY DEF RunnerInv, FilesInv, FileInv, CalmRunsArePinned
<1> QED
  BY <1>1, RunnerInvHolds, PTL

(* A file an undisturbed run wrote holds every call of its adapter on the  *)
(* release, once and in order (runner.py, observe).                        *)
THEOREM ResultsAreComplete == Spec => []CalmResultsAreComplete
<1>1. RunnerInv => CalmResultsAreComplete
  BY DEF RunnerInv, FilesInv, FileInv, CalmResultsAreComplete
<1> QED
  BY <1>1, RunnerInvHolds, PTL

(* When main returns zero after a run that nothing disturbed, every        *)
(* adapter that was asked for has a complete file of this run (runner.py,  *)
(* main).                                                                  *)
THEOREM ExitStatusIsHonest == Spec => []ExitZeroMeansRecorded
<1>1. RunnerInv => ExitZeroMeansRecorded
  <2> SUFFICES ASSUME RunnerInv, run.pc = "load", run.queue = <<>>, calm, NEW a \in Range(run.asked)
               PROVE  /\ a \in Registry /\ Whole(results[a]) /\ Complete(a, results[a].content)
                      /\ \A r \in Range(results[a].content) : r.revision = run.revision
    BY DEF ExitZeroMeansRecorded
  <2>1. Range(run.queue) = {}
    BY DEF Range
  <2>2. /\ a \in Registry /\ Whole(results[a]) /\ results[a].calm
        /\ \A r \in Range(results[a].content) : r.revision = run.revision
    BY <2>1 DEF RunnerInv, RecordedSoFar
  <2> QED
    BY <2>2 DEF RunnerInv, FilesInv, FileInv
<1> QED
  BY <1>1, RunnerInvHolds, PTL

(***************************************************************************)
(* The runner implements the Recorder                                      *)
(***************************************************************************)

(* What a file is worth, without a look at the checkout.                   *)
Worth(file) ==
    IF file.content = None THEN "none"
    ELSE IF file.content = Torn THEN "cut"
    ELSE IF file.calm THEN "whole" ELSE "doubtful"

(* The invariant settles what FileKind looks up: a file of an undisturbed  *)
(* run is always as it should be.                                          *)
LEMMA KindIsWorth ==
    ASSUME RunnerInv, NEW a \in Registry, NEW file \in {results[a], committed[a]}
    PROVE  FileKind(a, file) = Worth(file)
<1>1. FileInv(a, file)
  BY DEF RunnerInv, FilesInv
<1> QED
  BY <1>1, NoneAssumption DEF FileInv, FileKind, Worth, Whole

(* What the Recorder sees of the files in the checkout, and of those       *)
(* committed.                                                              *)
FilesBar == [a \in Registry |-> FileKind(a, results[a])]
KeptBar == [a \in Registry |-> FileKind(a, committed[a])]

(* So the files the Recorder sees are what each is worth.                  *)
LEMMA BarFacts ==
    RunnerInv => /\ FilesBar = [a \in Registry |-> Worth(results[a])]
                 /\ KeptBar = [a \in Registry |-> Worth(committed[a])]
BY KindIsWorth DEF FilesBar, KeptBar

(* The same in the next state.                                             *)
LEMMA BarFactsNext ==
    (RunnerInv => /\ FilesBar = [a \in Registry |-> Worth(results[a])]
                  /\ KeptBar = [a \in Registry |-> Worth(committed[a])])'
BY BarFacts, PTL

(* A checkout without results is where the Recorder starts.                *)
LEMMA ImplementsInit == Init => Contract!Init
<1> SUFFICES ASSUME Init PROVE Contract!Init
  OBVIOUS
<1>1. \A a \in Registry : results[a] = NoFile /\ committed[a] = NoFile
  BY DEF Init
<1>2. \A a \in Registry : FileKind(a, NoFile) = "none"
  BY NoneAssumption DEF FileKind, NoFile, File, Whole
<1> QED
  BY <1>1, <1>2 DEF Contract!Init, Init, Idle, FilesBar, KeptBar

(* A step of the runner is a step of the Recorder or changes nothing it    *)
(* shows: reading, checking and observing are hidden, writing a file is    *)
(* Record, everything that ends a run early is GiveUp.                     *)
LEMMA ImplementsNext ==
    RunnerInv /\ RunnerInv' /\ [Next]_vars => [Contract!Next]_(Contract!vars)
<1> SUFFICES ASSUME RunnerInv, RunnerInv', [Next]_vars
             PROVE  Contract!Next \/ UNCHANGED Contract!vars
  OBVIOUS
<1>types. TypeOK /\ run \in Runs /\ Idle.queue = <<>>
  BY DEF RunnerInv, TypeOK, Idle
<1>bar. /\ FilesBar = [a \in Registry |-> Worth(results[a])]
        /\ KeptBar = [a \in Registry |-> Worth(committed[a])]
        /\ FilesBar' = [a \in Registry |-> Worth(results'[a])]
        /\ KeptBar' = [a \in Registry |-> Worth(committed'[a])]
  BY BarFacts, BarFactsNext DEF Worth
<1>vars. Contract!vars = <<FilesBar, KeptBar, run.queue, calm>>
  BY DEF Contract!vars, FilesBar, KeptBar
(* Nothing that a Recorder shows has changed.                              *)
<1>same. ASSUME UNCHANGED <<results, committed, calm>>, run'.queue = run.queue
         PROVE  UNCHANGED Contract!vars
  BY <1>bar, <1>same DEF Contract!vars, FilesBar, KeptBar
(* The run ends without a file.                                            *)
<1>stop. ASSUME UNCHANGED <<results, committed, calm>>, run' = Idle
         PROVE  Contract!GiveUp \/ UNCHANGED Contract!vars
  <2>1. UNCHANGED <<FilesBar, KeptBar>> /\ run'.queue = <<>>
    BY <1>bar, <1>types, <1>stop
  <2>2. CASE run.queue = <<>>
    BY <1>same, <1>stop, <2>1, <2>2
  <2>3. CASE run.queue # <<>>
    BY <1>stop, <2>1, <2>3 DEF Contract!GiveUp, FilesBar, KeptBar
  <2> QED
    BY <2>2, <2>3
(* The developer acts.                                                     *)
<1>disturb. ASSUME Disturbs,
                   UNCHANGED <<results, committed>> \/ (committed' = results /\ UNCHANGED results)
                      \/ (results' = committed /\ UNCHANGED committed)
            PROVE  Contract!Disturb
  <2>1. \/ UNCHANGED <<FilesBar, KeptBar>>
        \/ KeptBar' = FilesBar /\ UNCHANGED FilesBar
        \/ FilesBar' = KeptBar /\ UNCHANGED KeptBar
    BY <1>bar, <1>disturb
  <2> QED
    BY <1>disturb, <2>1 DEF Contract!Disturb, Disturbs, FilesBar, KeptBar
<1>1. ASSUME NEW names \in Requests, Start(names) PROVE Contract!Begin(names) /\ names \in Contract!Requests
  <2>1. run.queue = <<>> /\ run'.queue = names /\ calm' = TRUE /\ UNCHANGED <<results, committed>>
    BY <1>1, <1>types DEF Start, RunnerInv, QueueInv, Idle, checkout
  <2>2. UNCHANGED <<FilesBar, KeptBar>>
    BY <1>bar, <2>1
  <2> QED
    BY <2>1, <2>2 DEF Contract!Begin, Contract!Requests, Requests, FilesBar, KeptBar
<1>2. CASE CheckStatus \/ CheckTag \/ CheckTrees
  BY <1>2, <1>types, <1>same, <1>stop DEF CheckStatus, CheckTag, CheckTrees, Check, checkout, Runs, Contract!Next
<1>3. CASE ReadHead \/ Load \/ Finish \/ OpenScenario \/ Observe \/ EndObserve
  BY <1>3, <1>types, <1>same, <1>stop
  DEF ReadHead, Load, Finish, OpenScenario, Observe, EndObserve, checkout, Runs, Contract!Next
<1>4. CASE WriteResults
  <2>1. /\ run.queue # <<>> /\ Adapter \in Registry /\ run'.queue = Tail(run.queue)
        /\ results' = [results EXCEPT ![Adapter] = File(run.records, calm)]
        /\ UNCHANGED <<committed, calm>>
    BY <1>4, <1>types DEF WriteResults, TypeOK, Runs, checkout
  <2>2. Worth(File(run.records, calm)) = IF calm THEN "whole" ELSE "doubtful"
    BY <1>types, MarksAssumption DEF Worth, File, Runs
  <2>3. FilesBar' = [FilesBar EXCEPT ![Adapter] = IF calm THEN "whole" ELSE "doubtful"]
    BY <1>bar, <1>types, <2>1, <2>2 DEF TypeOK
  <2>4. UNCHANGED KeptBar
    BY <1>bar, <2>1
  <2> QED
    BY <2>1, <2>3, <2>4 DEF Contract!Next, Contract!Record, FilesBar, KeptBar, Adapter
<1>5. CASE AdapterBug \/ Interrupt
  BY <1>5, <1>stop DEF AdapterBug, Interrupt, Die, checkout, Contract!Next
<1>6. CASE TearResults
  <2>1. /\ run.queue # <<>> /\ Adapter \in Registry /\ run'.queue = <<>>
        /\ results' = [results EXCEPT ![Adapter] = File(Torn, FALSE)]
        /\ UNCHANGED <<committed, calm>>
    BY <1>6, <1>types DEF TearResults, Die, TypeOK, Runs, checkout
  <2>2. Worth(File(Torn, FALSE)) = "cut"
    BY NoneAssumption DEF Worth, File
  <2>3. FilesBar' = [FilesBar EXCEPT ![Adapter] = "cut"]
    BY <1>bar, <1>types, <2>1, <2>2 DEF TypeOK
  <2>4. UNCHANGED KeptBar
    BY <1>bar, <2>1
  <2> QED
    BY <2>1, <2>3, <2>4 DEF Contract!Next, Contract!GiveUp, FilesBar, KeptBar, Adapter
<1>7. CASE EditFixtures \/ Commit \/ Restore \/ TagRelease
  BY <1>7, <1>disturb DEF EditFixtures, Commit, Restore, TagRelease, DeveloperStep, Contract!Next
<1>8. CASE UNCHANGED vars
  BY <1>8, <1>same DEF vars
<1> QED
  BY <1>1, <1>2, <1>3, <1>4, <1>5, <1>6, <1>7, <1>8 DEF Next, RunnerStep, Contract!Next

(* The runner implements the safety part of the Recorder: whatever runs,   *)
(* mishaps and developers do, results change only as a Recorder changes    *)
(* them (runner.py, main).                                                 *)
THEOREM RunnerRecords == Spec => Contract!Safety
<1>1. RunnerInv /\ RunnerInv' /\ [Next]_vars => [Contract!Next]_(Contract!vars)
  BY ImplementsNext
<1> QED
  BY <1>1, ImplementsInit, RunnerInvHolds, PTL DEF Spec, Contract!Safety
=============================================================================
