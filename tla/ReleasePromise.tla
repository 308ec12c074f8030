--------------------------- MODULE ReleasePromise ----------------------------
(***************************************************************************)
(* What a maintainer may rely on, whatever the three scripts do inside.    *)
(*                                                                         *)
(* A checkout is what its definitions generate byte for byte, or logically *)
(* (another PyArrow wrote it, or its checksums are old), or it is not.     *)
(* The two documented steps make it the first, from whatever it was.  The  *)
(* gate tells which it is: it never says more, it never refuses the first, *)
(* and what it said is void as soon as anything happens to the checkout.   *)
(***************************************************************************)
EXTENDS Naturals

VARIABLES
    checkout,  \* what the checkout is
    steps,     \* documented steps taken since anything else happened to it
    answer     \* what the gate said of it as it now is

vars == <<checkout, steps, answer>>

Kinds == {"exact", "logical", "other"}

TypeOK ==
    /\ checkout \in Kinds
    /\ steps \in 0..2
    /\ answer \in Kinds \cup {"none"}

(* What the gate may say, "other" being any way not to pass.  Of a logical *)
(* reproduction it may ask for current checksums.                          *)
Answers(kind) == IF kind = "logical" THEN {"logical", "other"} ELSE {kind}

Init ==
    /\ checkout \in Kinds
    /\ steps = 0
    /\ answer = "none"

(* A script works, or dies, or somebody edits a file. *)
Disturb ==
    /\ checkout' \in Kinds
    /\ steps' = 0
    /\ answer' = "none"

(* generate_fixtures exits with 0. *)
Generate ==
    /\ steps = 0
    /\ answer = "none"
    /\ steps' = 1
    /\ UNCHANGED <<checkout, answer>>

(* build_catalog works, and is done. *)
Build ==
    /\ steps = 1
    /\ answer' = "none"
    /\ \/ checkout' \in Kinds /\ UNCHANGED steps
       \/ checkout' = "exact" /\ steps' = 2

(* To build the catalog again changes nothing. *)
BuildAgain ==
    /\ steps = 2
    /\ answer' = "none"
    /\ UNCHANGED <<checkout, steps>>

Ask ==
    /\ answer' \in Answers(checkout)
    /\ UNCHANGED <<checkout, steps>>

Next == Disturb \/ Generate \/ Build \/ BuildAgain \/ Ask

Spec == Init /\ [][Next]_vars
=============================================================================
