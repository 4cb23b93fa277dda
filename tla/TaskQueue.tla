------------------------------- MODULE TaskQueue -------------------------------
(***************************************************************************)
(* What a pool of workers promises: a task that was accepted is run exactly*)
(* once, tasks begin in the order they were accepted, and when the pool is *)
(* gone nothing accepted is left.                                          *)
(***************************************************************************)
EXTENDS Naturals, Sequences

CONSTANT Tasks

VARIABLES
  accepted,  (* the tasks accepted, in order                               *)
  begun,     (* the tasks that began to run, in order                      *)
  ended,     (* the tasks that ran to the end                              *)
  gone       (* the pool was destroyed                                     *)

queueVars == <<accepted, begun, ended, gone>>

QueueInit == accepted = <<>> /\ begun = <<>> /\ ended = {} /\ gone = FALSE

In(s) == {s[i] : i \in DOMAIN s}

Accept == /\ ~gone
          /\ \E k \in Tasks \ In(accepted) : accepted' = Append(accepted, k)
          /\ UNCHANGED <<begun, ended, gone>>

Begin == /\ Len(begun) < Len(accepted)
         /\ begun' = Append(begun, accepted[Len(begun) + 1])
         /\ UNCHANGED <<accepted, ended, gone>>

End == /\ \E k \in In(begun) \ ended : ended' = ended \cup {k}
       /\ UNCHANGED <<accepted, begun, gone>>

Destroy == /\ ended = In(accepted) /\ gone' = TRUE
           /\ UNCHANGED <<accepted, begun, ended>>

QueueSpec == QueueInit /\ [][Accept \/ Begin \/ End \/ Destroy]_queueVars
=============================================================================
