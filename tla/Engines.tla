------------------------------- MODULE Engines -------------------------------
(***************************************************************************)
(* The engine adapters (adapters/*_adapter.py) inside one call of the      *)
(* runner: the steps of read and describe, what each takes and gives back  *)
(* (a temporary directory, a connection, a pipeline), and what becomes of  *)
(* it when a step raises.  What an engine answers is not modelled, only    *)
(* that it may answer or raise.                                            *)
(***************************************************************************)
EXTENDS Sequences, Naturals

CONSTANTS
    Engines,   \* the adapters to drive
    MaxCalls,  \* bound on the calls of one run
    None       \* no call, or no record

ASSUME MaxCallsAssumption == MaxCalls \in Nat

(* One step: what it takes, what it gives back, and what it may leave open *)
(* if it raises.                                                           *)
Step(takes, gives, leaves) == [takes |-> takes, gives |-> gives, leaves |-> leaves]

Work == Step({}, {}, {})
Enter(r) == Step({r}, {}, {})
Leave(r) == Step({}, {r}, {})

(* pipeline.run: "dlt's Arrow writer can remain referenced by failed       *)
(* frames" (dlt_adapter.py).                                               *)
PipelineRun == Step({}, {}, {"writer"})

(***************************************************************************)
(* The adapters: their modes, as far as read tells them apart, and the     *)
(* steps of read.  Assertions that the runner's calls never fail are left  *)
(* out.                                                                    *)
(***************************************************************************)
PyArrowModes == {"read_each_version", "default", "unified_permissive"}
PolarsModes == {"read_each_version", "default", "diagonal_relaxed"}
DuckDBModes == {"default", "positional", "union_by_name"}
DeltaLakeModes == {"default", "merge", "overwrite"}
DltModes == {"default", "freeze_columns", "freeze_data_type"}
DataprofModes == {"profile", "closed_schema", "closed_schema_null_increase"}

Calls ==
    ({"pyarrow_dataset"} \X PyArrowModes) \cup ({"polars"} \X PolarsModes)
    \cup ({"duckdb"} \X DuckDBModes) \cup ({"deltalake"} \X DeltaLakeModes)
    \cup ({"dlt"} \X DltModes) \cup ({"dataprof"} \X DataprofModes)

ASSUME NoneAssumption == None \notin Calls

PyArrowRead(mode) == IF mode = "unified_permissive" THEN <<Work, Work, Work, Work>> ELSE <<Work>>

PolarsRead(mode) == IF mode = "diagonal_relaxed" THEN <<Work, Work, Work>> ELSE <<Work>>

DuckDBRead == <<Enter("con"), Work>>

DeltaLakeRead == <<Work, Work, Enter("temp"), Work, Work, Work, Leave("temp")>>

DltRead ==
    <<Enter("temp"), Enter("pipeline"), Work, PipelineRun, Work, PipelineRun, Leave("pipeline"),
      Enter("con"), Work, Leave("con"), Leave("temp")>>

DataprofRead(mode) ==
    IF mode = "profile" THEN <<Work, Work>>
    ELSE <<Enter("temp"), Work, Work, Leave("temp"), Work, Work>>

Read(call) ==
    CASE call[1] = "pyarrow_dataset" -> PyArrowRead(call[2])
      [] call[1] = "polars" -> PolarsRead(call[2])
      [] call[1] = "duckdb" -> DuckDBRead
      [] call[1] = "deltalake" -> DeltaLakeRead
      [] call[1] = "dlt" -> DltRead
      [] call[1] = "dataprof" -> DataprofRead(call[2])

(* Adapter.describe: duckdb asks its connection and closes it. *)
Describe(call) ==
    CASE call[1] = "duckdb" -> <<Work, Work, Work, Leave("con")>>
      [] OTHER -> <<Work>>

(***************************************************************************)
(* What except, finally and with give back, in order, when read raises.    *)
(* Each handler is inside the next and does its work whether or not the    *)
(* one before raised in its turn.                                          *)
(***************************************************************************)
(* Faulty: a connection is closed by describe alone. *)
DuckDBHandlersNone == <<>>

DuckDBHandlers == <<"con">>

DeltaLakeHandlers == <<"temp">>

DataprofHandlers(mode) == IF mode = "profile" THEN <<>> ELSE <<"temp">>

(* Faulty: the frames of a failed step are kept. *)
DltHandlersKeepFrames(how) == <<"con", "pipeline", "temp">>

(* The writer is let go of only where dlt says that a step failed, and not *)
(* for what it lets through, a panic of a Rust engine for instance.        *)
DltHandlers(how) ==
    IF how = "PipelineStepFailed" THEN <<"writer", "con", "pipeline", "temp">> ELSE <<"con", "pipeline", "temp">>

Handlers(call, how) ==
    CASE call[1] = "dlt" -> DltHandlers(how)
      [] call[1] = "duckdb" -> DuckDBHandlers
      [] call[1] = "deltalake" -> DeltaLakeHandlers
      [] call[1] = "dataprof" -> DataprofHandlers(call[2])
      [] OTHER -> <<>>

VARIABLES
    call,      \* the call being made, or None
    phase,     \* "idle", "read", "describe", "unwind", or "stopped"
    todo,      \* steps left, or what is left to give back
    held,      \* what the process holds
    raised,    \* how read raised: "nothing", "PipelineStepFailed" or "other"
    record,    \* status of the last record, or None
    removed,   \* what was held when a directory was last removed, and how read had raised
    calls      \* calls so far

vars == <<call, phase, todo, held, raised, record, removed, calls>>

Init ==
    /\ call = None /\ phase = "idle" /\ todo = <<>> /\ held = {} /\ raised = "nothing"
    /\ record = None /\ removed = [open |-> {}, raised |-> "nothing"] /\ calls = 0

(* _outcome *)
Call ==
    /\ phase = "idle"
    /\ calls < MaxCalls
    /\ \E c \in Calls :
          /\ c[1] \in Engines
          /\ call' = c
          /\ todo' = Read(c)
    /\ phase' = "read"
    /\ calls' = calls + 1
    /\ UNCHANGED <<held, raised, record, removed>>

Removed(gone) ==
    removed' = IF "temp" \in gone THEN [open |-> held \ gone, raised |-> raised] ELSE removed

Advance ==
    /\ phase \in {"read", "describe"}
    /\ todo # <<>>
    /\ held' = (held \cup Head(todo).takes) \ Head(todo).gives
    /\ Removed(Head(todo).gives)
    /\ todo' = Tail(todo)
    /\ UNCHANGED <<call, phase, raised, record, calls>>

Answered ==
    /\ phase = "read"
    /\ todo = <<>>
    /\ phase' = "describe"
    /\ todo' = Describe(call)
    /\ UNCHANGED <<call, held, raised, record, removed, calls>>

Described ==
    /\ phase = "describe"
    /\ todo = <<>>
    /\ record' = "success"
    /\ call' = None
    /\ phase' = "idle"
    /\ UNCHANGED <<todo, held, raised, removed, calls>>

Ways(step) == IF step.leaves = {} THEN {"other"} ELSE {"PipelineStepFailed", "other"}

(* read raises: its handlers first.  A step that gives something back has  *)
(* done so when it raises.                                                 *)
Raise ==
    /\ phase = "read"
    /\ todo # <<>>
    /\ \E left \in SUBSET Head(todo).leaves : held' = (held \ Head(todo).gives) \cup left
    /\ Removed(Head(todo).gives)
    /\ \E how \in Ways(Head(todo)) :
          /\ raised' = how
          /\ todo' = Handlers(call, how)
    /\ phase' = "unwind"
    /\ UNCHANGED <<call, record, calls>>

Unwind ==
    /\ phase = "unwind"
    /\ todo # <<>>
    /\ held' = held \ {Head(todo)}
    /\ Removed(held \cap {Head(todo)})
    /\ todo' = Tail(todo)
    /\ UNCHANGED <<call, phase, raised, record, calls>>

(* Faulty: the call that failed is still the call being made. *)
RecordErrorOnly ==
    /\ phase = "unwind"
    /\ todo = <<>>
    /\ record' = "error"
    /\ raised' = "nothing"
    /\ held' = held \ {"writer"}
    /\ phase' = "idle"
    /\ UNCHANGED <<call, todo, removed, calls>>

(* Whatever read raised is the engine's answer.  With the exception go its *)
(* frames, and the writer that was still in them.                          *)
RecordError ==
    /\ phase = "unwind"
    /\ todo = <<>>
    /\ record' = "error"
    /\ raised' = "nothing"
    /\ held' = held \ {"writer"}
    /\ call' = None
    /\ phase' = "idle"
    /\ UNCHANGED <<todo, removed, calls>>

(* describe raises, and the run stops. *)
AdapterBug ==
    /\ phase = "describe"
    /\ todo # <<>>
    /\ phase' = "stopped"
    /\ UNCHANGED <<call, todo, held, raised, record, removed, calls>>

Next == Call \/ Advance \/ Answered \/ Described \/ Raise \/ Unwind \/ RecordError \/ AdapterBug

Spec == Init /\ [][Next]_vars

-----------------------------------------------------------------------------
Things == {"temp", "con", "pipeline", "writer"}
Hows == {"PipelineStepFailed", "other"}

(* The variables, and that a call is under way just when it is not idle. *)
TypeOK ==
    /\ call \in Calls \cup {None} /\ (call = None <=> phase = "idle")
    /\ phase \in {"idle", "read", "describe", "unwind", "stopped"}
    /\ held \subseteq Things /\ raised \in Hows \cup {"nothing"}
    /\ removed \in [open : SUBSET Things, raised : Hows \cup {"nothing"}]
    /\ record \in {None, "success", "error"}
    /\ calls \in 0..MaxCalls

(* No call leaves a connection, a pipeline or a directory behind for the   *)
(* next, whichever step raised: "a fresh in-memory database per call"      *)
(* (duckdb_adapter.py), "every call gets its own temporary table"          *)
(* (deltalake_adapter.py).                                                 *)
NothingOutlivesItsCall == phase = "idle" => held \cap {"con", "pipeline", "temp"} = {}

(* When a temporary directory is removed, which Windows does not allow of  *)
(* a file that is open, no connection and no pipeline lives in it any      *)
(* more, and dlt's writer at most after something that was not a           *)
(* PipelineStepFailed (dlt_adapter.py clears no frames then).              *)
RemovedDirectoriesAreClosed ==
    /\ removed.open \cap {"con", "pipeline"} = {}
    /\ "writer" \in removed.open => removed.raised = "other"
=============================================================================
