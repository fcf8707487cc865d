------------------------ MODULE MCOfferingSettlement ------------------------
(***************************************************************************)
(* The settlement on books of unit bids at distinct prices: bid 1 is the   *)
(* highest, so a book that lost or gained a bid can clear at another price *)
(* and to other winners.  There the clearing is simply the Float highest   *)
(* bids at the price of the last of them, and the assumption below checks  *)
(* that this is what the algorithm computes and the belt accepts.          *)
(***************************************************************************)
EXTENDS OfferingSettlement

CONSTANTS Float,        \* the offering's public float
          MaxBids       \* maxBidsPerOffering

Price(b) == 40 - 10 * b
Top(S)   == {b \in S : Cardinality({c \in S : c < b}) < Float}

MCClearable(S) == Cardinality(S) \in Float..MaxBids
MCClear(S) ==
  [price |-> Price(CHOOSE b \in Top(S) : \A c \in Top(S) : c <= b),
   alloc |-> [b \in Top(S) |-> 1]]

Algorithm == INSTANCE Clearing WITH MaxStroops <- 100, MaxI128 <- 100000

ASSUME ClearIsTheAlgorithm ==
  \A S \in SUBSET Bids :
    LET bids == [b \in S |-> [price |-> Price(b), count |-> 1, created |-> b]]
        r    == Algorithm!computeClearing(bids, Float)
    IN  /\ MCClearable(S) <=>
             /\ r.subscribed
             /\ Algorithm!assertClearingInvariants(r, 1, 100, Float, Cardinality(S), MaxBids)
        /\ MCClearable(S) =>
             /\ MCClear(S).price = r.price
             /\ MCClear(S).alloc = Algorithm!toAllocationMap(r)
=============================================================================
