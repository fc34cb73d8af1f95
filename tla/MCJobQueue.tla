------------------------------ MODULE MCJobQueue ------------------------------
(* Small instances of JobQueue for TLC. *)
EXTENDS JobQueue, TLC

\* The workers are interchangeable: only safety is checked with this.
WorkerSymmetry == Permutations(Workers)
=============================================================================
