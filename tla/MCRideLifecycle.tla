--------------------------- MODULE MCRideLifecycle ---------------------------
(***************************************************************************)
(* RideLifecycle for TLC.  Riders, drivers, rides and workers are model    *)
(* values no definition distinguishes, so safety runs may identify states  *)
(* that differ by a permutation of them.                                   *)
(***************************************************************************)
EXTENDS RideLifecycle, TLC

Interchangeable == Permutations(Riders) \cup Permutations(Drivers)
                     \cup Permutations(Rides) \cup Permutations(Workers)
=============================================================================
