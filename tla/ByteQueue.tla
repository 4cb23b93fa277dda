------------------------------ MODULE ByteQueue ------------------------------
(***************************************************************************)
(* What a network buffer promises: the bytes that arrive on a socket leave *)
(* on a socket, each once, in the order they came, a piece at a time.      *)
(***************************************************************************)
EXTENDS Naturals, Sequences

CONSTANT MaxArrivals   (* bound: bytes that arrive in all *)

VARIABLES
  inbox,   (* arrived and not read yet                                    *)
  queue,   (* read and not written yet                                    *)
  out,     (* written, in the order they were                             *)
  arrived  (* number of bytes that arrived                                *)

vars == <<inbox, queue, out, arrived>>

Init == inbox = <<>> /\ queue = <<>> /\ out = <<>> /\ arrived = 0

Arrive == /\ arrived < MaxArrivals /\ arrived' = arrived + 1
          /\ inbox' = Append(inbox, arrived')
          /\ UNCHANGED <<queue, out>>

\* The first n elements of the sequence from become the last ones of to.
Move(from, to, n) == /\ to' = to \o SubSeq(from, 1, n)
                     /\ from' = SubSeq(from, n + 1, Len(from))

Read  == /\ \E n \in 1 .. Len(inbox) : Move(inbox, queue, n)
         /\ UNCHANGED <<out, arrived>>

Write == /\ \E n \in 1 .. Len(queue) : Move(queue, out, n)
         /\ UNCHANGED <<inbox, arrived>>

Next == Arrive \/ Read \/ Write

Spec == Init /\ [][Next]_vars
=============================================================================
