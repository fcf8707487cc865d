---------------------------- MODULE ClearingBook ----------------------------
(***************************************************************************)
(* A book of escrowed bids growing and shrinking one bid at a time, and    *)
(* what the clearing of every such book must satisfy: a reference          *)
(* definition of the price and of the shares that shares nothing with the  *)
(* walk, agreement with the belt, and acceptance by the escrow contract.   *)
(***************************************************************************)
EXTENDS Clearing

CONSTANTS
  Prices, Counts,        \* what a bid may say
  LowPrice, HighPrice,   \* the offering's band
  Times,                 \* createdAt values; equal values are ties
  Float,                 \* publicFloat
  MaxBids,               \* MAX_BIDS_PER_OFFERING
  MaxIds                 \* bound: bids the contract ever numbers

\* assertBandValid on the band, resolveOfferableFloat on the float.
ASSUME OfferingAssumption ==
  /\ LowPrice \in Nat \ {0} /\ HighPrice \in Nat /\ HighPrice <= MaxStroops
  /\ Float \in Nat \ {0}

ASSUME BidAssumption == Prices \subseteq Int /\ Counts \subseteq Int /\ Times \subseteq Int

\* Every escrow is at most MAX_STROOPS = 2^96-1, and MAX_I128 = 2^127-1: room for 2^31 bids.
ASSUME RangeAssumption ==
  /\ MaxStroops \in Nat /\ MaxI128 \in Nat /\ MaxBids \in Nat /\ MaxIds \in Nat
  /\ MaxBids * MaxStroops <= MaxI128

VARIABLES
  book,             \* the escrowed bids
  bidSeq,           \* how many bids the contract has numbered
  clearing          \* what computeClearing returns for the book

clearVars == <<book, bidSeq, clearing>>

ClearInit == book = <<>> /\ bidSeq = 0 /\ clearing = computeClearing(book, Float)

\* assertBiddable and computeEscrowStroops.
biddable(price, count) ==
  /\ LowPrice <= price /\ price <= HighPrice
  /\ count > 0 /\ count <= Float
  /\ Cardinality(DOMAIN book) < MaxBids
  /\ price * count <= MaxStroops

\* A bid becomes escrowed: the contract numbers it, its row was created some time before.
escrowed(price, count, created) ==
  /\ biddable(price, count)
  /\ bidSeq < MaxIds
  /\ bidSeq' = bidSeq + 1
  /\ book' = [i \in DOMAIN book \cup {bidSeq + 1} |->
                IF i \in DOMAIN book THEN book[i]
                ELSE [price |-> price, count |-> count, created |-> created]]
  /\ clearing' = computeClearing(book', Float)

\* A bid is refunded at its bidder's request: its id is not used again.
canceled(i) ==
  /\ book' = Restrict(book, DOMAIN book \ {i})
  /\ clearing' = computeClearing(book', Float)
  /\ UNCHANGED bidSeq

ClearNext ==
  \/ \E p \in Prices, c \in Counts, t \in Times : escrowed(p, c, t)
  \/ \E i \in DOMAIN book : canceled(i)

ClearSpec == ClearInit /\ [][ClearNext]_clearVars

-----------------------------------------------------------------------------
Allocated(i) == LET m == toAllocationMap(clearing) IN IF i \in DOMAIN m THEN m[i] ELSE 0
DemandAt(p)  == Demand(book, {i \in DOMAIN book : book[i].price >= p})
Tier         == {i \in DOMAIN book : book[i].price = clearing.price}

\* Reference definition of computeClearing's price: the highest price at which the demand at
\* or above it covers the float; there is none exactly when the book is undersubscribed.
PriceIsMarginal ==
  LET clears == {p \in {book[i].price : i \in DOMAIN book} : DemandAt(p) >= Float}
  IN  IF clears = {} THEN ~clearing.subscribed /\ clearing.winners = <<>>
      ELSE /\ clearing.subscribed
           /\ clearing.price \in clears
           /\ \A p \in clears : p <= clearing.price

\* The float is sold exactly; bids above the price are filled, bids below it get nothing,
\* and nobody gets more than it asked for.
FloatExactlySold ==
  clearing.subscribed =>
    /\ SumFunction([i \in DOMAIN book |-> Allocated(i)]) = Float
    /\ \A i \in DOMAIN book : /\ book[i].price > clearing.price => Allocated(i) = book[i].count
                              /\ book[i].price < clearing.price => Allocated(i) = 0
                              /\ Allocated(i) <= book[i].count

\* The price and the amounts computeClearing returns are those of the reference definition.
ClearedAsDefined == PriceIsMarginal /\ FloatExactlySold

\* Within the marginal tier every bid gets its pro-rata share rounded down, or one more; the
\* bids that get one more are the earliest ones, and not all bids do.  (The one more may
\* exceed a share that is whole: the dust goes first come, first served.)
ProRataFair ==
  LET total     == Demand(book, Tier)
      remaining == Float - DemandAt(clearing.price) + total
      over(i)   == Allocated(i) * total - book[i].count * remaining
      earlier(i, j) == \/ book[i].created < book[j].created
                       \/ book[i].created = book[j].created /\ i < j
  IN  clearing.subscribed =>
        \A i \in Tier :
          /\ - total < over(i) /\ over(i) <= total
          /\ over(i) > 0 => /\ \A j \in Tier : earlier(j, i) => over(j) > 0
                            /\ \E j \in Tier : over(j) <= 0

\* assertClearingInvariants re-derives the winners independently; it never refuses what
\* computeClearing returns for a subscribed book, so a sound book is never stamped failed.
BeltAccepts ==
  clearing.subscribed =>
    assertClearingInvariants(clearing, LowPrice, HighPrice, Float, Cardinality(DOMAIN book),
                             MaxBids)

\* The escrow contract that holds these bids, closed, with nothing retained.  Of a cancelled
\* bid only its presence matters.
Chain == INSTANCE OfferingEscrow WITH
  Bidders <- {"collector"}, Keys <- {}, Allocations <- 0..Float, ClearingPrices <- Prices,
  TotalSupply <- Float, ArtistRetention <- 0, TreasuryRetention <- 0, LeftoverToArtist <- 0,
  InitialUsdc <- 0, MaxDonation <- 0, MaxBids <- MaxIds,
  status <- "Closed", tokenBound <- TRUE,
  escrowTotal <- SumFunction([i \in DOMAIN book |-> EscrowOf(book[i])]),
  bids <- [i \in 1..MaxIds |->
             IF i \in DOMAIN book
             THEN [bidder |-> "collector", price |-> book[i].price, count |-> book[i].count,
                   escrow |-> EscrowOf(book[i]), active |-> TRUE]
             ELSE [bidder |-> IF i <= bidSeq THEN "collector" ELSE "nobody", price |-> 0,
                   count |-> 0, escrow |-> 0, active |-> FALSE]],
  idem <- <<>>, usdc <- <<>>, fractions <- <<>>, donated <- 0, settlement <- <<>>

\* Every clearing of a subscribed book passes close_and_settle's validation and its
\* conservation belt, and the proceeds, fee and refunds recorded for the receipts are the
\* amounts the contract pays.
ContractAccepts ==
  LET alloc == [i \in 1..MaxIds |-> Allocated(i)]
  IN  clearing.subscribed =>
        /\ Chain!SettleValid(clearing.price, alloc)
        /\ Chain!Belt(clearing.price, alloc)
        /\ clearing.proceeds = Chain!Proceeds(clearing.price, alloc)
        /\ clearing.fee = Chain!PlatformFee(clearing.proceeds)
        /\ clearing.net = Chain!ArtistNet(clearing.proceeds)
        /\ \A i \in DOMAIN clearing.winners :
             clearing.winners[i].refund = Chain!Refund(clearing.price, alloc, i)
=============================================================================
