----------------------------- MODULE MCRideEscrow -----------------------------
(***************************************************************************)
(* RideEscrow for TLC: all rides belong to one driver, because the hazards *)
(* of escrow lie in rides that share a pending balance.                    *)
(***************************************************************************)
EXTENDS RideEscrow, TLC

CONSTANTS d1, r1, r2

OneDriver   == [r \in Rides |-> d1]
EqualPayout == [r \in Rides |-> 1]
MixedPayout == [r \in Rides |-> IF r = r1 THEN 2 ELSE 1]

Interchangeable    == Permutations(Payments) \cup Permutations(Workers)
InterchangeableAll == Interchangeable \cup Permutations(Rides)
=============================================================================
