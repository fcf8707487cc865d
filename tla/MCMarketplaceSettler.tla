------------------------ MODULE MCMarketplaceSettler ------------------------
(***************************************************************************)
(* Token, gates and settler on a small instance: the artist (1), the       *)
(* treasury (2), a collector (3) and the artist's payout address (4).  The *)
(* two tuples are one quote of the artist signed under two prices, 67 the  *)
(* first to have cuts of 1 and 66 the last to have none.  One distribution *)
(* leaves the artist short of its retention.                               *)
(***************************************************************************)
EXTENDS MarketplaceSettler

Trade(key, buyer, seller, gross) ==
  [key |-> key, artwork |-> "art", buyer |-> buyer, seller |-> seller, count |-> 1,
   gross |-> gross]

MCTerms == <<Trade("quote", 3, 1, 66), Trade("quote", 3, 1, 67)>>
MCDistributions == {<<2, 1, 0, 0>>, <<1, 0, 1, 0>>}
MCInitialUsdc   == <<0, 0, 140, 0>>
MCAmounts       == {-1, 1}
=============================================================================
