------------------------------ MODULE MCRunner -------------------------------
(* Two adapters on a corpus of two scenarios with one transition each. *)
EXTENDS Runner

CONSTANTS duckdb, dataprof, typo, kept, changed

MCRegistry == {duckdb, dataprof}
MCNames == {duckdb, dataprof, typo}
MCContents == {kept, changed}

(* duckdb reads versions together, dataprof profiles each version. *)
MCModes == [a \in MCRegistry |-> IF a = duckdb THEN <<0, 1>> ELSE <<1>>]
MCRefuses == {<<duckdb, changed>>}
=============================================================================
