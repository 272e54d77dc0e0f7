--------------------------- MODULE MCSocketServer ---------------------------
(***************************************************************************)
(* Instances of SocketServer for TLC.                                      *)
(***************************************************************************)
EXTENDS SocketServer

CONSTANT c1

AllSchemes  == {Sequential, Unbounded, Bounded, Threaded}
OnlyBounded == {Bounded}

\* One client with two rounds, on whose connection messages can be joined.
Rounds   == [c \in Clients |-> IF c = c1 THEN 2 ELSE 1]
OneRound == [c \in Clients |-> 1]
=============================================================================
