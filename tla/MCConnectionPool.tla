--------------------------- MODULE MCConnectionPool ---------------------------
(* The instances of ConnectionPool that TLC checks. *)
EXTENDS ConnectionPool, TLC

\* The threads are interchangeable in the runs without a temporal property.
Symmetry == Permutations(Threads)
=============================================================================
