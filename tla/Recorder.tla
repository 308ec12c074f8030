------------------------------ MODULE Recorder ------------------------------
(***************************************************************************)
(* What a user of results/ may rely on, whatever the runner does inside.   *)
(*                                                                         *)
(* A run is asked for adapters and takes them one by one.  It replaces the *)
(* file of one adapter at a time, by the whole set of that adapter's       *)
(* answers on the release; or it gives up, and all it can leave behind is  *)
(* the file it was writing, cut short.  Only when the checkout was changed *)
(* under the run is a file doubtful.                                       *)
(***************************************************************************)
EXTENDS Naturals, Sequences

CONSTANTS
    Registry,    \* the adapters
    Names,       \* names a run may be asked for, registered or not
    MaxRequest   \* bound on the names of one run

VARIABLES
    files,   \* adapter -> what its results file is
    kept,    \* the same at HEAD
    queue,   \* the names the run has left; empty when there is no run
    calm     \* nobody touched the checkout since the run began

vars == <<files, kept, queue, calm>>

Kinds == {"none", "cut", "whole", "doubtful"}

TypeOK ==
    /\ files \in [Registry -> Kinds]
    /\ kept \in [Registry -> Kinds]
    /\ queue \in Seq(Names)
    /\ calm \in BOOLEAN

Init ==
    /\ files = [a \in Registry |-> "none"]
    /\ kept = files
    /\ queue = <<>>
    /\ calm = TRUE

Requests == UNION {[1..n -> Names] : n \in 1..MaxRequest}

Begin(names) ==
    /\ queue = <<>>
    /\ queue' = names
    /\ calm' = TRUE
    /\ UNCHANGED <<files, kept>>

Record ==
    /\ queue # <<>>
    /\ Head(queue) \in Registry
    /\ files' = [files EXCEPT ![Head(queue)] = IF calm THEN "whole" ELSE "doubtful"]
    /\ queue' = Tail(queue)
    /\ UNCHANGED <<kept, calm>>

GiveUp ==
    /\ queue # <<>>
    /\ queue' = <<>>
    /\ \/ UNCHANGED files
       \/ Head(queue) \in Registry /\ files' = [files EXCEPT ![Head(queue)] = "cut"]
    /\ UNCHANGED <<kept, calm>>

(* The checkout changes: fixtures or tags, a commit, or everything put     *)
(* back to the last commit.                                                *)
Disturb ==
    /\ calm' = FALSE
    /\ \/ UNCHANGED <<files, kept>>
       \/ kept' = files /\ UNCHANGED files
       \/ files' = kept /\ UNCHANGED kept
    /\ UNCHANGED queue

Next == (\E names \in Requests : Begin(names)) \/ Record \/ GiveUp \/ Disturb

Safety == Init /\ [][Next]_vars

(* A run does not stop in the middle. *)
Spec == Safety /\ WF_vars(Record \/ GiveUp)
=============================================================================
