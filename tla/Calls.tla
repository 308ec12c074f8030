------------------------------- MODULE Calls --------------------------------
(***************************************************************************)
(* The calls of engines that make up an observation, shared by the runner  *)
(* that makes them and the report that looks their records up.             *)
(*                                                                         *)
(* A call is <<scenario, from, operation, mode, order>>: a transition goes *)
(* from a version to the next one, operation is its place in OPERATIONS    *)
(* (adapters/base.py), and order picks one of the two lists _inputs gives. *)
(***************************************************************************)
EXTENDS Naturals, Sequences

CONSTANTS
    Registry,      \* the adapters
    Modes,         \* adapter -> modes it declares, per operation of OPERATIONS
    NumScenarios,  \* scenarios, in corpus order
    NumVersions    \* versions of a scenario

ASSUME CallsAssumption ==
    /\ NumScenarios \in Nat
    /\ NumVersions \in Nat \ {0}
    /\ Modes \in [Registry -> Seq(Nat)]

Scenarios == 1..NumScenarios

read_each_version == 1
read_versions_together == 2
append_to_table == 3
check_against_contract == 4
profile_each_version == 5

ScenarioOf(call) == call[1]
Transition(call) == <<call[1], call[2]>>
Operation(call) == call[3]
Mode(call) == call[4]
Order(call) == call[5]

(* Single-version operations see from, then to; the others see both, in    *)
(* this order and in the other.                                            *)
_inputs == 1..2

Calls(a, scenarios) ==
    UNION {scenarios \X (1..(NumVersions - 1)) \X {o} \X (1..Modes[a][o]) \X _inputs :
              o \in DOMAIN Modes[a]}

(* Faulty: the files are swapped once everything was seen in their order. *)
BeforeBySwap(c, d) ==
    LET key(e) == <<e[1], e[2], e[5], e[3], e[4]>>
    IN  \E k \in 1..5 : key(c)[k] < key(d)[k] /\ \A j \in 1..(k - 1) : key(c)[j] = key(d)[j]

(* observe makes the calls of an adapter in lexicographic order. *)
Before(c, d) == \E k \in 1..5 : c[k] < d[k] /\ \A j \in 1..(k - 1) : c[j] = d[j]
=============================================================================
