--------------------------- MODULE MCSocketDispatch ---------------------------
(* SocketDispatch for TLC: one ride, two drivers who accept it and its rider. *)
EXTENDS SocketDispatch, TLC

Interchangeable == Permutations(Drivers) \cup Permutations(Handlers)
=============================================================================
