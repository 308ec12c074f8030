------------------------------ MODULE MCReport -------------------------------
(* Three engines on a corpus of two transitions, with one answer each. *)
EXTENDS Report

CONSTANTS duckdb, deltalake, dataprof, x, y, z

Read(schema, rows) == [status |-> "success", schema |-> schema, rows |-> rows]

(* An engine with two modes, one that writes tables, one that checks and   *)
(* profiles; combined reads fail when the files are swapped.               *)
FilesRegistry == {duckdb, deltalake, dataprof}
FilesModes ==
    [a \in FilesRegistry |->
        CASE a = duckdb -> <<1, 2>>
          [] a = deltalake -> <<0, 0, 1>>
          [] a = dataprof -> <<0, 0, 0, 1, 1>>]
FilesAnswers ==
    [o \in 1..5 |-> [i \in 1..2 |-> {IF o = read_versions_together /\ i = 2 THEN Failure ELSE Read(x, 1)}]]
=============================================================================
