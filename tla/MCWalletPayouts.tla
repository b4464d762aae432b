--------------------------- MODULE MCWalletPayouts ---------------------------
(* An instance of WalletPayouts for TLC: payouts and handlers are interchangeable. *)
EXTENDS WalletPayouts, TLC

MCAmounts == {1, 2}

MCSymmetry == Permutations(Payouts) \cup Permutations(Handlers)
=============================================================================
