------------------------------ MODULE MCReactor ------------------------------
(* The instances of Reactor that TLC checks. *)
EXTENDS ReactorInv

\* Clients that ask for anything.
AnyKind == [c \in Conns |-> Kinds]

\* The second client asks for anything, the others call the API.
SecondAny == [c \in Conns |-> IF c = 2 THEN Kinds ELSE {"api"}]
=============================================================================
