----------------------------- MODULE MCThreadPool -----------------------------
(* The instances of ThreadPool that TLC checks. *)
EXTENDS ThreadPool, TLC

\* Tasks are interchangeable in the runs without a temporal property.
Symmetry == Permutations(Tasks)
=============================================================================
