----------------------------- MODULE MCSocketHook -----------------------------
(* A driver's request list, which stays mounted under the ride it opens, and the ride. *)
EXTENDS SocketHook

CONSTANTS requests, ride

MCHooks == {requests, ride}
MCByOn == {requests}
=============================================================================
