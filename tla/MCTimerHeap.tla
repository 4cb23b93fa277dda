------------------------------ MODULE MCTimerHeap -----------------------------
(* The instance of TimerHeap that TLC checks. *)
EXTENDS TimerHeap, TLC

Symmetry == Permutations(Timers)
=============================================================================
