---------------------------- MODULE MCRideScreens ----------------------------
(* One ride; its bounds are in the configurations. *)
EXTENDS RideScreens
=============================================================================
