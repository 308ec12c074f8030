----------------------------- MODULE MCRelease -------------------------------
(* A corpus of two scenarios of one version, or one of two, for TLC. *)
EXTENDS Release, TLC

CONSTANTS d1, d2, m1, m2

MCData == {d1, d2}
MCFacts == {m1, m2}

(* A catalog row has the fingerprints, and does not tell m1 from m2. *)
MCRow == [manifest \in MCData \X MCFacts |-> manifest[1]]

(* m2 is false of d2. *)
MCTruthful == {<<d1, m1>>, <<d2, m1>>, <<d1, m2>>}

(* Writers are only compared with one another. *)
WriterSymmetry == Permutations(Writers)
=============================================================================
