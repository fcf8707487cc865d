-------------------------- MODULE MCOfferingEscrow --------------------------
(***************************************************************************)
(* The escrow contract on a small instance.  The prices make the fee of a  *)
(* settlement 0 or 1 (3% of 34 USDC is the first to round to one), the     *)
(* counts over- and undershoot the float of 2, and each argument set holds *)
(* a value the contract must refuse.                                       *)
(***************************************************************************)
EXTENDS OfferingEscrow, TLC

MCPrices         == {-1, 16, 17}
MCCounts         == {-1, 1, 2}
MCAllocations    == {-1, 0, 1, 2}
MCClearingPrices == {0, 16, 17}

Symmetry == Permutations(Bidders) \cup Permutations(Keys)
=============================================================================
