----------------------------- MODULE MCEchoLoop -----------------------------
(* The instance of EchoLoop that TLC checks. *)
EXTENDS EchoLoop
=============================================================================
