----------------------------- MODULE EnginesProofs ----------------------------
(***************************************************************************)
(* Proofs about Engines: for every set of adapters that a run drives and   *)
(* any number of calls, nothing a call took outlives it, and directories   *)
(* are removed when nothing in them is open, save dlt's writer after a     *)
(* failure that dlt does not call a failed step.                           *)
(*                                                                         *)
(* The argument does not go through the steps one by one.  What a good     *)
(* table of steps looks like is said once; each adapter's table is shown   *)
(* to be good, and the steps of a good table keep the invariant.           *)
(***************************************************************************)
EXTENDS Engines, TLAPS

Steps == [takes : SUBSET Things, gives : SUBSET Things, leaves : SUBSET {"writer"}]

(***************************************************************************)
(* Good tables                                                             *)
(***************************************************************************)

(* What the steps give back.                                               *)
Given(steps) == {r \in Things : \E i \in DOMAIN steps : r \in steps[i].gives}

(* What a step takes is given back by a step after it, or later.           *)
Balanced(steps, later) ==
    \A i \in DOMAIN steps : \A r \in steps[i].takes :
        r \in later \/ \E j \in DOMAIN steps : i < j /\ r \in steps[j].gives

(* From the step that removes the directory on, nothing that lives in it   *)
(* is given back.                                                          *)
DirectoryLast(steps) ==
    \A i \in DOMAIN steps : "temp" \in steps[i].gives =>
        \A j \in DOMAIN steps : i <= j => steps[j].gives \cap {"con", "pipeline"} = {}

Listed(things) == {r \in Things : \E i \in DOMAIN things : things[i] = r}

TempLast(things) == \A i \in DOMAIN things : things[i] = "temp" => i = Len(things)

(* The steps of read, with what describe gives back later and what the     *)
(* handlers of the call give back, however it raised.                      *)
GoodRead(steps, later, c) ==
    /\ steps \in Seq(Steps)
    /\ Balanced(steps, later)
    /\ DirectoryLast(steps)
    /\ "writer" \notin Given(steps) \cup later
    /\ \A how \in Hows : Given(steps) \cup later \subseteq Listed(Handlers(c, how))
    /\ (\E i \in DOMAIN steps : steps[i].leaves # {}) => "writer" \in Listed(Handlers(c, "PipelineStepFailed"))
    /\ "temp" \in Given(steps) => later = {}

GoodDescribe(steps) ==
    /\ steps \in Seq(Steps)
    /\ Balanced(steps, {})
    /\ "temp" \notin Given(steps)

GoodHandlers(things) == things \in Seq(Things) /\ TempLast(things)

Good(c) ==
    /\ GoodRead(Read(c), Given(Describe(c)), c)
    /\ GoodDescribe(Describe(c))
    /\ \A how \in Hows : GoodHandlers(Handlers(c, how))

(***************************************************************************)
(* The adapters' tables are good                                           *)
(***************************************************************************)

(* What the tables are made of are steps.                                  *)
LEMMA StepTypes ==
    /\ {Work, PipelineRun} \subseteq Steps
    /\ \A r \in Things : {Enter(r), Leave(r)} \subseteq Steps
BY DEF Work, PipelineRun, Enter, Leave, Step, Steps

(* What each kind of step takes, gives and leaves.                         *)
LEMMA StepFields ==
    /\ \A s \in {Work, PipelineRun} : s.takes = {} /\ s.gives = {}
    /\ Work.leaves = {}
    /\ \A r \in Things : /\ Enter(r).takes = {r} /\ Enter(r).gives = {} /\ Enter(r).leaves = {}
                         /\ Leave(r).takes = {} /\ Leave(r).gives = {r} /\ Leave(r).leaves = {}
BY DEF Work, PipelineRun, Enter, Leave, Step

(* Steps that take and give nothing are good in every place.               *)
LEMMA PlainSteps ==
    ASSUME NEW steps \in Seq({Work})
    PROVE  /\ steps \in Seq(Steps) /\ Given(steps) = {}
           /\ \A c : GoodRead(steps, {}, c)
           /\ GoodDescribe(steps)
<1>1. steps \in Seq(Steps) /\ \A i \in DOMAIN steps : steps[i].takes = {} /\ steps[i].gives = {} /\ steps[i].leaves = {}
  BY StepTypes, StepFields
<1>2. Given(steps) = {}
  BY <1>1 DEF Given
<1> QED
  BY <1>1, <1>2 DEF GoodRead, GoodDescribe, Balanced, DirectoryLast

(* A describe that only works.                                             *)
LEMMA PlainDescribe == <<Work>> \in Seq({Work}) /\ Given(<<Work>>) = {} /\ GoodDescribe(<<Work>>)
<1>1. <<Work>> \in Seq({Work})
  OBVIOUS
<1> QED
  BY <1>1, PlainSteps

(* A read that holds nothing needs no handlers.                            *)
LEMMA NoHandlers == GoodHandlers(<<>>)
BY DEF GoodHandlers, TempLast

(* A read inside TemporaryDirectory leaves it last.                        *)
LEMMA DirectoryHandler == GoodHandlers(<<"temp">>) /\ Listed(<<"temp">>) = {"temp"}
BY DEF GoodHandlers, TempLast, Listed, Things

(* pyarrow_adapter.py and polars_adapter.py hold nothing between steps.    *)
LEMMA PyArrowAndPolarsGood ==
    ASSUME NEW c \in Calls, c[1] \in {"pyarrow_dataset", "polars"} PROVE Good(c)
<1>1. \/ Read(c) = <<Work>>
      \/ Read(c) = <<Work, Work, Work>>
      \/ Read(c) = <<Work, Work, Work, Work>>
  <2>1. CASE c[1] = "pyarrow_dataset"
    BY <2>1 DEF Read, PyArrowRead
  <2>2. CASE c[1] = "polars"
    BY <2>2 DEF Read, PolarsRead
  <2> QED
    BY <2>1, <2>2
<1>2. Describe(c) = <<Work>> /\ \A how : Handlers(c, how) = <<>>
  <2>1. CASE c[1] = "pyarrow_dataset"
    BY <2>1 DEF Describe, Handlers
  <2>2. CASE c[1] = "polars"
    BY <2>2 DEF Describe, Handlers
  <2> QED
    BY <2>1, <2>2
<1>3. Read(c) \in Seq({Work})
  <2>1. /\ <<Work>> \in Seq({Work}) /\ <<Work, Work, Work>> \in Seq({Work})
        /\ <<Work, Work, Work, Work>> \in Seq({Work})
    OBVIOUS
  <2> QED
    BY <1>1, <2>1
<1> QED
  BY <1>2, <1>3, PlainSteps, PlainDescribe, NoHandlers DEF Good

(* duckdb_adapter.py opens a connection that describe closes, or the       *)
(* handler of a failed read.                                               *)
LEMMA DuckDBGood == ASSUME NEW c \in Calls, c[1] = "duckdb" PROVE Good(c)
<1> DEFINE R == DuckDBRead
           D == <<Work, Work, Work, Leave("con")>>
<1>1. Read(c) = R /\ Describe(c) = D /\ \A how : Handlers(c, how) = <<"con">>
  BY DEF Read, Describe, Handlers, DuckDBHandlers
<1>2. R \in Seq(Steps) /\ DOMAIN R = 1..2 /\ R[1] = Enter("con") /\ R[2] = Work
  BY StepTypes DEF DuckDBRead, Things
<1>3. D \in Seq(Steps) /\ DOMAIN D = 1..4 /\ D[1] = Work /\ D[2] = Work /\ D[3] = Work /\ D[4] = Leave("con")
  BY StepTypes DEF Things
<1>4. GoodDescribe(D) /\ Given(D) = {"con"}
  BY <1>3, StepFields DEF GoodDescribe, Given, Balanced, Things
<1>5. GoodHandlers(<<"con">>) /\ Listed(<<"con">>) = {"con"}
  BY DEF GoodHandlers, TempLast, Listed, Things
<1>6. Given(R) = {} /\ Balanced(R, {"con"}) /\ DirectoryLast(R) /\ \A i \in DOMAIN R : R[i].leaves = {}
  BY <1>2, StepFields DEF Given, Balanced, DirectoryLast, Things
<1>7. GoodRead(R, {"con"}, c)
  BY <1>1, <1>2, <1>5, <1>6 DEF GoodRead
<1> QED
  BY <1>1, <1>4, <1>5, <1>7 DEF Good

(* deltalake_adapter.py makes its table in a directory of its own.         *)
LEMMA DeltaLakeGood == ASSUME NEW c \in Calls, c[1] = "deltalake" PROVE Good(c)
<1> DEFINE R == DeltaLakeRead
<1>1. Read(c) = R /\ Describe(c) = <<Work>> /\ \A how : Handlers(c, how) = <<"temp">>
  BY DEF Read, Describe, Handlers, DeltaLakeHandlers
<1>2. /\ R \in Seq(Steps) /\ DOMAIN R = 1..7
      /\ R[1] = Work /\ R[2] = Work /\ R[3] = Enter("temp")
      /\ R[4] = Work /\ R[5] = Work /\ R[6] = Work /\ R[7] = Leave("temp")
  BY StepTypes DEF DeltaLakeRead, Things
<1>3. Given(R) = {"temp"} /\ Balanced(R, {}) /\ DirectoryLast(R) /\ \A i \in DOMAIN R : R[i].leaves = {}
  BY <1>2, StepFields DEF Given, Balanced, DirectoryLast, Things
<1>4. GoodRead(R, {}, c)
  BY <1>1, <1>2, <1>3, DirectoryHandler DEF GoodRead
<1> QED
  BY <1>1, <1>4, PlainDescribe, DirectoryHandler DEF Good

(* dlt_adapter.py leaves the pipeline's connection before its directory,   *)
(* and lets go of the writer where a step of the pipeline failed.          *)
LEMMA DltGood == ASSUME NEW c \in Calls, c[1] = "dlt" PROVE Good(c)
<1> DEFINE R == DltRead
           H == <<"con", "pipeline", "temp">>
           W == <<"writer", "con", "pipeline", "temp">>
<1>1. Read(c) = R /\ Describe(c) = <<Work>>
  BY DEF Read, Describe
<1>2. Handlers(c, "PipelineStepFailed") = W /\ Handlers(c, "other") = H
  BY DEF Handlers, DltHandlers
<1>3. /\ R \in Seq(Steps) /\ DOMAIN R = 1..11
      /\ R[1] = Enter("temp") /\ R[2] = Enter("pipeline")
      /\ R[3] = Work /\ R[4] = PipelineRun /\ R[5] = Work /\ R[6] = PipelineRun /\ R[7] = Leave("pipeline")
      /\ R[8] = Enter("con") /\ R[9] = Work /\ R[10] = Leave("con") /\ R[11] = Leave("temp")
  BY StepTypes DEF DltRead, Things
<1>4. Given(R) = {"pipeline", "con", "temp"} /\ Balanced(R, {}) /\ DirectoryLast(R)
  BY <1>3, StepFields DEF Given, Balanced, DirectoryLast, Things
<1>5. GoodHandlers(H) /\ Listed(H) = {"con", "pipeline", "temp"}
  BY DEF GoodHandlers, TempLast, Listed, Things
<1>6. GoodHandlers(W) /\ Listed(W) = {"writer", "con", "pipeline", "temp"}
  BY DEF GoodHandlers, TempLast, Listed, Things
<1>7. GoodRead(R, {}, c)
  BY <1>2, <1>3, <1>4, <1>5, <1>6 DEF GoodRead, Hows
<1> QED
  BY <1>1, <1>2, <1>5, <1>6, <1>7, PlainDescribe DEF Good, Hows

(* dataprof_adapter.py copies the inputs only where it has to.             *)
LEMMA DataprofGood == ASSUME NEW c \in Calls, c[1] = "dataprof" PROVE Good(c)
<1>1. Describe(c) = <<Work>>
  BY DEF Describe
<1>2. CASE c[2] = "profile"
  <2>1. Read(c) = <<Work, Work>> /\ \A how : Handlers(c, how) = <<>>
    BY <1>2 DEF Read, DataprofRead, Handlers, DataprofHandlers
  <2>2. <<Work, Work>> \in Seq({Work})
    OBVIOUS
  <2>3. GoodRead(<<Work, Work>>, {}, c)
    BY <2>2, PlainSteps
  <2> QED
    BY <1>1, <2>1, <2>3, PlainDescribe, NoHandlers DEF Good
<1>3. CASE c[2] # "profile"
  <2> DEFINE R == <<Enter("temp"), Work, Work, Leave("temp"), Work, Work>>
  <2>1. Read(c) = R /\ \A how : Handlers(c, how) = <<"temp">>
    BY <1>3 DEF Read, DataprofRead, Handlers, DataprofHandlers
  <2>2. /\ R \in Seq(Steps) /\ DOMAIN R = 1..6
        /\ R[1] = Enter("temp") /\ R[2] = Work /\ R[3] = Work /\ R[4] = Leave("temp")
        /\ R[5] = Work /\ R[6] = Work
    BY StepTypes DEF Things
  <2>3. Given(R) = {"temp"} /\ Balanced(R, {}) /\ DirectoryLast(R) /\ \A i \in DOMAIN R : R[i].leaves = {}
    BY <2>2, StepFields DEF Given, Balanced, DirectoryLast, Things
  <2>4. GoodRead(R, {}, c)
    BY <2>1, <2>2, <2>3, DirectoryHandler DEF GoodRead
  <2> QED
    BY <1>1, <2>1, <2>4, PlainDescribe, DirectoryHandler DEF Good
<1> QED
  BY <1>2, <1>3

(* The tables of all six adapters are good, for every call.                *)
LEMMA TablesAreGood == \A c \in Calls : Good(c)
BY PyArrowAndPolarsGood, DuckDBGood, DeltaLakeGood, DltGood, DataprofGood DEF Calls

(***************************************************************************)
(* The steps of a good table                                               *)
(***************************************************************************)

(* A sequence of steps without its first one.                              *)
LEMMA TailFacts ==
    ASSUME NEW S, NEW s \in Seq(S), s # <<>>
    PROVE  /\ Len(s) \in Nat \ {0} /\ DOMAIN s = 1..Len(s)
           /\ Head(s) \in S /\ Head(s) = s[1]
           /\ Tail(s) \in Seq(S) /\ Len(Tail(s)) = Len(s) - 1 /\ DOMAIN Tail(s) = 1..(Len(s) - 1)
           /\ \A i \in 1..(Len(s) - 1) : Tail(s)[i] = s[i + 1]
           /\ \A i \in 2..Len(s) : i - 1 \in 1..(Len(s) - 1) /\ s[i] = Tail(s)[i - 1]
OBVIOUS

(* One step on: what is held is still given back by the rest or later.     *)
LEMMA AdvanceKeeps ==
    ASSUME NEW steps \in Seq(Steps), steps # <<>>, NEW later, NEW things, things \subseteq Given(steps) \cup later,
           Balanced(steps, later)
    PROVE  /\ (things \cup Head(steps).takes) \ Head(steps).gives \subseteq Given(Tail(steps)) \cup later
           /\ Balanced(Tail(steps), later)
           /\ Given(Tail(steps)) \subseteq Given(steps)
           /\ Head(steps).gives \subseteq Given(steps)
<1> DEFINE rest == Tail(steps)
<1>1. /\ Len(steps) \in Nat \ {0} /\ DOMAIN steps = 1..Len(steps) /\ Head(steps) \in Steps /\ Head(steps) = steps[1]
      /\ rest \in Seq(Steps) /\ DOMAIN rest = 1..(Len(steps) - 1)
      /\ \A i \in 1..(Len(steps) - 1) : rest[i] = steps[i + 1] /\ i + 1 \in DOMAIN steps
      /\ \A i \in 2..Len(steps) : i - 1 \in DOMAIN rest /\ steps[i] = rest[i - 1]
  BY TailFacts
<1>2. Given(rest) \subseteq Given(steps)
  BY <1>1 DEF Given
<1>3. ASSUME NEW r \in Given(steps), r \notin Head(steps).gives PROVE r \in Given(rest)
  <2>1. PICK i \in DOMAIN steps : r \in steps[i].gives
    BY DEF Given
  <2>2. i \in 2..Len(steps)
    BY <1>1, <1>3, <2>1
  <2> QED
    BY <1>1, <2>1, <2>2 DEF Given
<1>4. ASSUME NEW i \in DOMAIN steps, NEW r \in steps[i].takes, r \notin later
      PROVE  \E j \in DOMAIN rest : i <= j /\ r \in rest[j].gives
  <2>1. PICK j \in DOMAIN steps : i < j /\ r \in steps[j].gives
    BY <1>4 DEF Balanced
  <2>2. j \in 2..Len(steps) /\ i <= j - 1
    BY <1>1, <2>1
  <2> QED
    BY <1>1, <2>1, <2>2
<1>5. Head(steps).takes \subseteq Given(rest) \cup later
  BY <1>1, <1>4 DEF Given, Steps
<1>6. Balanced(rest, later)
  <2> SUFFICES ASSUME NEW i \in DOMAIN rest, NEW r \in rest[i].takes, r \notin later
               PROVE  \E j \in DOMAIN rest : i < j /\ r \in rest[j].gives
    BY DEF Balanced
  <2>1. i + 1 \in DOMAIN steps /\ r \in steps[i + 1].takes
    BY <1>1
  <2>2. PICK j \in DOMAIN rest : i + 1 <= j /\ r \in rest[j].gives
    BY <1>4, <2>1
  <2> QED
    BY <1>1, <2>2
<1>7. Head(steps).gives \subseteq Given(steps)
  BY <1>1 DEF Given, Steps
<1> QED
  BY <1>2, <1>3, <1>5, <1>6, <1>7

(* What is left of a read still removes its directory last.                *)
LEMMA DirectoryLastKeeps ==
    ASSUME NEW steps \in Seq(Steps), steps # <<>>, DirectoryLast(steps)
    PROVE  /\ DirectoryLast(Tail(steps))
           /\ "temp" \in Head(steps).gives => Given(steps) \cap {"con", "pipeline"} = {}
<1>1. /\ Len(steps) \in Nat \ {0} /\ DOMAIN steps = 1..Len(steps) /\ Head(steps) = steps[1]
      /\ DOMAIN Tail(steps) = 1..(Len(steps) - 1)
      /\ \A i \in 1..(Len(steps) - 1) : Tail(steps)[i] = steps[i + 1] /\ i + 1 \in DOMAIN steps
  BY TailFacts
<1>2. DirectoryLast(Tail(steps))
  BY <1>1 DEF DirectoryLast
<1>3. ASSUME "temp" \in Head(steps).gives PROVE Given(steps) \cap {"con", "pipeline"} = {}
  <2>1. \A j \in DOMAIN steps : steps[j].gives \cap {"con", "pipeline"} = {}
    BY <1>1, <1>3 DEF DirectoryLast
  <2> QED
    BY <2>1 DEF Given
<1> QED
  BY <1>2, <1>3

(* With the innermost given back, the other handlers are still good, and a *)
(* directory that goes was the last that was held.                         *)
LEMMA HandlersKeep ==
    ASSUME NEW things \in Seq(Things), things # <<>>, TempLast(things)
    PROVE  /\ Head(things) \in Things
           /\ Tail(things) \in Seq(Things) /\ TempLast(Tail(things))
           /\ Listed(things) \subseteq Listed(Tail(things)) \cup {Head(things)}
           /\ Head(things) = "temp" => Listed(things) \subseteq {"temp"}
<1> DEFINE rest == Tail(things)
<1>1. /\ Len(things) \in Nat \ {0} /\ DOMAIN things = 1..Len(things) /\ Head(things) \in Things /\ Head(things) = things[1]
      /\ rest \in Seq(Things) /\ Len(rest) = Len(things) - 1 /\ DOMAIN rest = 1..(Len(things) - 1)
      /\ \A i \in 1..(Len(things) - 1) : rest[i] = things[i + 1] /\ i + 1 \in DOMAIN things
      /\ \A i \in 2..Len(things) : i - 1 \in DOMAIN rest /\ things[i] = rest[i - 1]
  BY TailFacts
<1>2. TempLast(rest)
  BY <1>1 DEF TempLast
<1>3. Listed(things) \subseteq Listed(rest) \cup {Head(things)}
  <2> SUFFICES ASSUME NEW r \in Listed(things), r # Head(things) PROVE r \in Listed(rest)
    OBVIOUS
  <2>1. PICK i \in DOMAIN things : things[i] = r
    BY DEF Listed
  <2>2. i \in 2..Len(things)
    BY <1>1, <2>1
  <2> QED
    BY <1>1, <2>1, <2>2 DEF Listed
<1>4. Head(things) = "temp" => Listed(things) \subseteq {"temp"}
  BY <1>1 DEF TempLast, Listed
<1> QED
  BY <1>1, <1>2, <1>3, <1>4

(***************************************************************************)
(* The inductive invariant                                                 *)
(***************************************************************************)

(* While read runs, what is held is given back by its own steps or by      *)
(* describe; while handlers run, by the handlers left, but for the writer  *)
(* that something other than a failed step left behind.                    *)
HeldInv ==
    /\ phase = "idle" => held = {}
    /\ phase = "read" =>
          /\ GoodRead(todo, Given(Describe(call)), call)
          /\ held \subseteq Given(todo) \cup Given(Describe(call))
    /\ phase = "describe" => GoodDescribe(todo) /\ held \subseteq Given(todo)
    /\ phase = "unwind" =>
          /\ GoodHandlers(todo)
          /\ held \subseteq Listed(todo) \cup {"writer"}
          /\ raised # "other" => held \subseteq Listed(todo)

RemovedIn == removed \in [open : SUBSET Things, raised : Hows \cup {"nothing"}]

(* The inductive invariant: what is held is what the steps that are left   *)
(* give back.                                                              *)
EnginesInv == TypeOK /\ HeldInv /\ RemovedDirectoriesAreClosed

(* Nothing is held before the first call.                                  *)
LEMMA EnginesInit == Init => EnginesInv
BY MaxCallsAssumption DEF Init, EnginesInv, TypeOK, HeldInv, RemovedDirectoriesAreClosed

(* A step of _read that succeeds keeps the invariant.                      *)
LEMMA ReadAdvances ==
    ASSUME EnginesInv, phase = "read", Advance
    PROVE  HeldInv' /\ RemovedDirectoriesAreClosed' /\ held' \subseteq Things /\ RemovedIn'
<1> DEFINE later == Given(Describe(call))
<1>1. /\ GoodRead(todo, later, call) /\ held \subseteq Given(todo) \cup later /\ todo # <<>>
      /\ held' = (held \cup Head(todo).takes) \ Head(todo).gives /\ todo' = Tail(todo)
      /\ UNCHANGED <<call, phase>> /\ held \subseteq Things /\ RemovedIn
      /\ removed' = IF "temp" \in Head(todo).gives THEN [open |-> held \ Head(todo).gives, raised |-> raised] ELSE removed
  BY DEF EnginesInv, HeldInv, Advance, Removed, RemovedIn, TypeOK, Things
<1>2. /\ held' \subseteq Given(Tail(todo)) \cup later /\ Balanced(Tail(todo), later)
      /\ Given(Tail(todo)) \subseteq Given(todo) /\ Head(todo).gives \subseteq Given(todo)
  BY <1>1, AdvanceKeeps DEF GoodRead
<1>3. /\ DirectoryLast(Tail(todo))
      /\ "temp" \in Head(todo).gives => Given(todo) \cap {"con", "pipeline"} = {}
  BY <1>1, DirectoryLastKeeps DEF GoodRead
<1>4. GoodRead(Tail(todo), later, call)
  BY <1>1, <1>2, <1>3, TailFacts DEF GoodRead
<1>5. HeldInv'
  BY <1>1, <1>2, <1>4 DEF HeldInv
<1>6. RemovedDirectoriesAreClosed'
  BY <1>1, <1>2, <1>3 DEF GoodRead, RemovedDirectoriesAreClosed, EnginesInv
<1>7. held' \subseteq Things /\ RemovedIn'
  BY <1>1, <1>2 DEF Given, RemovedIn, EnginesInv, TypeOK
<1> QED
  BY <1>5, <1>6, <1>7

(* A step of describe that succeeds keeps the invariant.                   *)
LEMMA DescribeAdvances ==
    ASSUME EnginesInv, phase = "describe", Advance
    PROVE  HeldInv' /\ RemovedDirectoriesAreClosed' /\ held' \subseteq Things /\ RemovedIn'
<1>1. /\ GoodDescribe(todo) /\ held \subseteq Given(todo) /\ todo # <<>>
      /\ held' = (held \cup Head(todo).takes) \ Head(todo).gives /\ todo' = Tail(todo)
      /\ UNCHANGED <<call, phase>> /\ held \subseteq Things /\ RemovedIn
      /\ removed' = IF "temp" \in Head(todo).gives THEN [open |-> held \ Head(todo).gives, raised |-> raised] ELSE removed
  BY DEF EnginesInv, HeldInv, Advance, Removed, RemovedIn, TypeOK, Things
<1>2. /\ held' \subseteq Given(Tail(todo)) /\ Balanced(Tail(todo), {})
      /\ Given(Tail(todo)) \subseteq Given(todo) /\ Head(todo).gives \subseteq Given(todo)
  <2>1. todo \in Seq(Steps) /\ todo # <<>> /\ Balanced(todo, {}) /\ held \subseteq Given(todo) \cup {}
    BY <1>1 DEF GoodDescribe
  <2>2. /\ (held \cup Head(todo).takes) \ Head(todo).gives \subseteq Given(Tail(todo)) \cup {}
        /\ Balanced(Tail(todo), {})
        /\ Given(Tail(todo)) \subseteq Given(todo)
        /\ Head(todo).gives \subseteq Given(todo)
    BY <2>1, AdvanceKeeps
  <2> QED
    BY <1>1, <2>2
<1>3. GoodDescribe(Tail(todo)) /\ removed' = removed
  BY <1>1, <1>2, TailFacts DEF GoodDescribe
<1> QED
  BY <1>1, <1>2, <1>3 DEF HeldInv, RemovedDirectoriesAreClosed, RemovedIn, EnginesInv, Given

(* A handler that gives back what it holds keeps the invariant.            *)
LEMMA HandlersUnwind ==
    ASSUME EnginesInv, Unwind
    PROVE  HeldInv' /\ RemovedDirectoriesAreClosed' /\ held' \subseteq Things /\ RemovedIn'
<1>1. /\ todo \in Seq(Things) /\ TempLast(todo) /\ todo # <<>> /\ phase = "unwind"
      /\ held \subseteq Listed(todo) \cup {"writer"} /\ (raised # "other" => held \subseteq Listed(todo))
  BY DEF EnginesInv, HeldInv, Unwind, GoodHandlers
<1>2. /\ held' = held \ {Head(todo)} /\ todo' = Tail(todo) /\ UNCHANGED <<call, phase, raised>>
      /\ removed' = IF "temp" \in held \cap {Head(todo)} THEN [open |-> held', raised |-> raised] ELSE removed
  <2>1. held \ (held \cap {Head(todo)}) = held \ {Head(todo)}
    OBVIOUS
  <2> QED
    BY <2>1 DEF Unwind, Removed
<1>3. /\ Tail(todo) \in Seq(Things) /\ TempLast(Tail(todo))
      /\ Listed(todo) \subseteq Listed(Tail(todo)) \cup {Head(todo)}
      /\ Head(todo) = "temp" => Listed(todo) \subseteq {"temp"}
  BY <1>1, HandlersKeep
<1>4. HeldInv'
  BY <1>1, <1>2, <1>3 DEF HeldInv, GoodHandlers
<1>5. held' \subseteq Things /\ RemovedIn'
  BY <1>2 DEF EnginesInv, TypeOK, RemovedIn
<1>6. Head(todo) = "temp" => held' \subseteq {"writer"} /\ (raised # "other" => held' = {})
  BY <1>1, <1>2, <1>3
<1>7. RemovedDirectoriesAreClosed'
  BY <1>2, <1>6 DEF RemovedDirectoriesAreClosed, EnginesInv
<1> QED
  BY <1>4, <1>5, <1>7

(* A step of _read that raises leaves what is held to the handlers.        *)
LEMMA ReadRaises ==
    ASSUME EnginesInv, Raise
    PROVE  HeldInv' /\ RemovedDirectoriesAreClosed' /\ held' \subseteq Things /\ RemovedIn' /\ raised' \in Hows
<1> DEFINE step == Head(todo)
           later == Given(Describe(call))
<1>1. /\ phase = "read" /\ call \in Calls /\ held \subseteq Things /\ RemovedIn /\ todo # <<>>
      /\ GoodRead(todo, later, call) /\ held \subseteq Given(todo) \cup later /\ phase' = "unwind"
      /\ removed' = IF "temp" \in step.gives THEN [open |-> held \ step.gives, raised |-> raised] ELSE removed
  BY DEF EnginesInv, HeldInv, TypeOK, Raise, Removed, RemovedIn, Things
<1>2. Good(call)
  BY <1>1, TablesAreGood
<1>3. step \in Steps /\ 1 \in DOMAIN todo /\ step = todo[1]
  BY <1>1, TailFacts DEF GoodRead
<1>4. PICK left \in SUBSET step.leaves : held' = (held \ step.gives) \cup left
  BY DEF Raise
<1>5. PICK how \in Ways(step) : raised' = how /\ todo' = Handlers(call, how)
  BY DEF Raise
<1>6. how \in Hows /\ (how # "other" => step.leaves # {})
  BY DEF Ways, Hows
<1>7. left \subseteq {"writer"} /\ held \subseteq Listed(Handlers(call, how))
  BY <1>1, <1>3, <1>6 DEF GoodRead, Steps
<1>8. how # "other" => "writer" \in Listed(Handlers(call, how))
  BY <1>1, <1>3, <1>6 DEF GoodRead, Hows
<1>9. HeldInv'
  BY <1>1, <1>2, <1>4, <1>5, <1>6, <1>7, <1>8 DEF HeldInv, Good
<1>10. "temp" \in step.gives => Given(todo) \cap {"con", "pipeline"} = {} /\ later = {}
  <2>1. "temp" \in step.gives => "temp" \in Given(todo)
    BY <1>3 DEF Given, Things
  <2> QED
    BY <1>1, <2>1, DirectoryLastKeeps DEF GoodRead
<1>11. RemovedDirectoriesAreClosed'
  BY <1>1, <1>10 DEF RemovedDirectoriesAreClosed, EnginesInv, GoodRead
<1>12. held' \subseteq Things /\ RemovedIn'
  BY <1>1, <1>4, <1>7 DEF RemovedIn, Things, EnginesInv, TypeOK
<1> QED
  BY <1>5, <1>6, <1>9, <1>11, <1>12

(* Every step keeps the invariant, one case per action of Next.            *)
LEMMA EnginesStep == EnginesInv /\ [Next]_vars => EnginesInv'
<1> SUFFICES ASSUME EnginesInv, [Next]_vars PROVE EnginesInv'
  OBVIOUS
<1> USE DEF EnginesInv, Things
<1>1. CASE Call
  <2>1. PICK c \in Calls : call' = c /\ todo' = Read(c)
    BY <1>1 DEF Call
  <2>2. Good(c) /\ held = {} /\ c # None /\ phase' = "read" /\ calls' \in 0..MaxCalls
        /\ UNCHANGED <<held, raised, record, removed>>
    BY <1>1, <2>1, TablesAreGood, NoneAssumption, MaxCallsAssumption DEF Call, HeldInv, TypeOK
  <2>3. HeldInv'
    BY <2>1, <2>2 DEF HeldInv, Good
  <2> QED
    BY <1>1, <2>1, <2>2, <2>3 DEF Call, TypeOK, RemovedDirectoriesAreClosed
<1>2. CASE Advance
  <2>1. HeldInv' /\ RemovedDirectoriesAreClosed' /\ held' \subseteq Things /\ RemovedIn'
    BY <1>2, ReadAdvances, DescribeAdvances DEF Advance
  <2> QED
    BY <1>2, <2>1 DEF Advance, TypeOK, RemovedIn
<1>3. CASE Answered
  <2>1. Good(call) /\ Given(todo) = {} /\ held \subseteq Given(Describe(call))
    BY <1>3, TablesAreGood DEF Answered, TypeOK, HeldInv, Given
  <2> QED
    BY <1>3, <2>1 DEF Answered, TypeOK, HeldInv, Good, RemovedDirectoriesAreClosed
<1>4. CASE Described
  <2>1. held = {}
    BY <1>4 DEF Described, HeldInv, Given
  <2> QED
    BY <1>4, <2>1 DEF Described, TypeOK, HeldInv, RemovedDirectoriesAreClosed
<1>5. CASE Raise
  <2>1. HeldInv' /\ RemovedDirectoriesAreClosed' /\ held' \subseteq Things /\ RemovedIn' /\ raised' \in Hows
    BY <1>5, ReadRaises
  <2> QED
    BY <1>5, <2>1 DEF Raise, TypeOK, RemovedIn, Hows
<1>6. CASE Unwind
  <2>1. HeldInv' /\ RemovedDirectoriesAreClosed' /\ held' \subseteq Things /\ RemovedIn'
    BY <1>6, HandlersUnwind
  <2> QED
    BY <1>6, <2>1 DEF Unwind, TypeOK, RemovedIn
<1>7. CASE RecordError
  <2>1. held \ {"writer"} = {}
    BY <1>7 DEF RecordError, HeldInv, Listed
  <2> QED
    BY <1>7, <2>1 DEF RecordError, TypeOK, HeldInv, RemovedDirectoriesAreClosed
<1>8. CASE AdapterBug
  BY <1>8 DEF AdapterBug, TypeOK, HeldInv, RemovedDirectoriesAreClosed
<1>9. CASE UNCHANGED vars
  BY <1>9 DEF vars, TypeOK, HeldInv, RemovedDirectoriesAreClosed
<1> QED
  BY <1>1, <1>2, <1>3, <1>4, <1>5, <1>6, <1>7, <1>8, <1>9 DEF Next

(* The invariant holds in every reachable state.                           *)
LEMMA EnginesInvHolds == Spec => []EnginesInv
BY EnginesInit, EnginesStep, PTL DEF Spec

(* The state of a call is always of its type.                              *)
THEOREM TypeCorrect == Spec => []TypeOK
<1>1. EnginesInv => TypeOK
  BY DEF EnginesInv
<1> QED
  BY <1>1, EnginesInvHolds, PTL

(* Between calls nothing is held: whatever step failed, connections are    *)
(* closed and directories removed (adapters/*_adapter.py).                 *)
THEOREM CallsClean == Spec => []NothingOutlivesItsCall
<1>1. EnginesInv => NothingOutlivesItsCall
  BY DEF EnginesInv, HeldInv, NothingOutlivesItsCall
<1> QED
  BY <1>1, EnginesInvHolds, PTL

(* A directory is not removed while a connection or a pipeline is open in  *)
(* it, nor dlt's writer after a step that failed (dlt_adapter.py, 76-89).  *)
THEOREM DirectoriesClosed == Spec => []RemovedDirectoriesAreClosed
<1>1. EnginesInv => RemovedDirectoriesAreClosed
  BY DEF EnginesInv
<1> QED
  BY <1>1, EnginesInvHolds, PTL

=============================================================================
