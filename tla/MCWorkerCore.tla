---------------------------- MODULE MCWorkerCore ----------------------------
(* Small instances of WorkerCore. *)
EXTENDS WorkerCore, TLC

CONSTANTS t1, t2

AnyOrder == {}
FirstT1 == {<<t1, t2>>}

RunSymmetry == Permutations(Run)
Symmetry == Permutations(Worker) \cup Permutations(Run)

=============================================================================
