------------------------------ MODULE Clearing ------------------------------
(***************************************************************************)
(* The uniform-price clearing of an offering's bid book                    *)
(* (apps/api/src/modules/offerings/clearing.ts): the price, the pro-rata   *)
(* allocation of the marginal tier with its first-come dust, the money,    *)
(* and the belt that re-derives them before any transaction is sent.       *)
(*                                                                         *)
(* A book is a function from chainBidId to records [price, count,          *)
(* created]; created is the row's createdAt, which need not follow the     *)
(* order in which the bids reached the chain.  computeClearing sorts its   *)
(* argument, so the order the repository returned is lost; the sorted book *)
(* is the order Before and what a walk through it has met is UpTo.         *)
(***************************************************************************)
EXTENDS Integers, FiniteSets, Functions

CONSTANTS MaxStroops,   \* MAX_STROOPS, the largest price
          MaxI128       \* MAX_I128, the largest amount the contract computes with

PLATFORM_FEE_BPS == 300

\* What every bid pays into escrow when it is submitted: price times count.
EscrowOf(b) == b.price * b.count

\* The sort order (price DESC, createdAt ASC, chainBidId ASC).
\* Fault: ties at one price are broken by chainBidId alone.
Fault_Before(book, i, j) ==
  \/ book[i].price > book[j].price
  \/ book[i].price = book[j].price /\ i < j

Before(book, i, j) ==
  \/ book[i].price > book[j].price
  \/ /\ book[i].price = book[j].price
     /\ \/ book[i].created < book[j].created
        \/ book[i].created = book[j].created /\ i < j

\* The bids of S that the walk has met when it has visited i.
UpTo(book, S, i) == {j \in S : j = i \/ Before(book, j, i)}

Demand(book, S)   == SumFunction([i \in S |-> book[i].count])
TotalDemand(book) == Demand(book, DOMAIN book)

\* Pass 1a: the walk from the top goes on as long as the cumulative demand has not reached the
\* float; the price of the last bid it visits is P.
\* Fault: the walk goes on one bid too far when the demand meets the float exactly.
Fault_Crossing(book, float) ==
  CHOOSE i \in DOMAIN book :
    LET met == UpTo(book, DOMAIN book, i)
    IN  /\ Demand(book, met \ {i}) <= float
        /\ Demand(book, met) > float \/ met = DOMAIN book

Crossing(book, float) ==
  CHOOSE i \in DOMAIN book :
    LET met == UpTo(book, DOMAIN book, i)
    IN  /\ Demand(book, met \ {i}) < float
        /\ Demand(book, met) >= float

\* Pass 1b: the bids above P, filled in full, and the bids at P.
Above(book, P) == {i \in DOMAIN book : book[i].price > P}
AtP(book, P)   == {i \in DOMAIN book : book[i].price = P}

Base(book, tier, remaining) ==
  [i \in tier |-> (book[i].count * remaining) \div Demand(book, tier)]

\* Pass 1c: the floor of every share, and one more for the earliest bids while dust lasts.
TierAllocation(book, tier, remaining) ==
  LET base == Base(book, tier, remaining)
      dust == remaining - SumFunction(base)
  IN  [i \in tier |->
         base[i] + IF Cardinality(UpTo(book, tier, i)) <= dust THEN 1 ELSE 0]

Undersubscribed(book) ==
  [subscribed |-> FALSE, price |-> 0, demand |-> TotalDemand(book), winners |-> <<>>,
   proceeds |-> 0, fee |-> 0, net |-> 0, snapshot |-> book]

\* A winner's refund is its escrow less what it pays at P.
\* Fault: the winner is refunded as if it had bid for what it was allocated.
Fault_Refund(b, P, allocated) == (b.price - P) * allocated

Refund(b, P, allocated) == EscrowOf(b) - P * allocated

Winner(b, P, allocated) ==
  [price |-> b.price, count |-> b.count, allocated |-> allocated,
   refund |-> Refund(b, P, allocated)]

\* Pass 2: the bids above P and the bids of the tier that got something.
Winners(book, P, float) ==
  LET above == Above(book, P)
      share == TierAllocation(book, AtP(book, P), float - Demand(book, above))
  IN  [i \in above \cup {j \in AtP(book, P) : share[j] > 0} |->
         Winner(book[i], P, IF i \in above THEN book[i].count ELSE share[i])]

Proceeds(W, P) == SumFunction([i \in DOMAIN W |-> P * W[i].allocated])
Fee(proceeds)  == (proceeds * PLATFORM_FEE_BPS) \div 10000

Cleared(book, P, float) ==
  LET W    == Winners(book, P, float)
      paid == Proceeds(W, P)
  IN  [subscribed |-> TRUE, price |-> P, demand |-> TotalDemand(book), winners |-> W,
       proceeds |-> paid, fee |-> Fee(paid), net |-> paid - Fee(paid), snapshot |-> book]

\* computeClearing throws RangeError on these arguments.
Malformed(book, float) ==
  float <= 0 \/ \E i \in DOMAIN book : book[i].count <= 0 \/ book[i].price < 0

Rejected == [subscribed |-> FALSE, rejected |-> TRUE]

computeClearing(book, float) ==
  IF Malformed(book, float) THEN Rejected
  ELSE IF TotalDemand(book) < float THEN Undersubscribed(book)
  ELSE Cleared(book, book[Crossing(book, float)].price, float)

\* toAllocationMap: the argument of close_and_settle.
toAllocationMap(r) == [i \in DOMAIN r.winners |-> r.winners[i].allocated]

-----------------------------------------------------------------------------
(***************************************************************************)
(* assertClearingInvariants: TRUE iff it returns normally.                 *)
(***************************************************************************)
\* Fault: the price may not be the low end of the band.
Fault_MoneyBelt(r, float, low, high) == low < r.price /\ r.price <= high

MoneyBelt(r, float, low, high) ==
  LET W    == r.winners
      paid == SumFunction([i \in DOMAIN W |-> r.price * W[i].allocated])
      fee  == (paid * PLATFORM_FEE_BPS) \div 10000
  IN  /\ r.price > 0 /\ r.price <= MaxStroops
      /\ low <= r.price /\ r.price <= high
      /\ paid <= MaxI128
      /\ \A i \in DOMAIN W : W[i].allocated > 0 /\ W[i].refund >= 0
      /\ SumFunction([i \in DOMAIN W |-> W[i].allocated]) = float
      /\ r.fee = fee
      /\ r.net = paid - fee

\* P is the marginal winning price and no loser bid above it.
OptimalityBelt(r) ==
  /\ \E i \in DOMAIN r.winners : r.winners[i].price = r.price
  /\ \A i \in DOMAIN r.winners : r.winners[i].price >= r.price
  /\ \A i \in DOMAIN r.snapshot \ DOMAIN r.winners : r.snapshot[i].price <= r.price

\* The winners are re-derived from the snapshot with the belt's own sort of the tier.
ProRataBelt(r, float) ==
  LET bid       == r.snapshot
      alloc(i)  == IF i \in DOMAIN r.winners THEN r.winners[i].allocated ELSE 0
      above     == {i \in DOMAIN bid : bid[i].price > r.price}
      tier      == {i \in DOMAIN bid : bid[i].price = r.price}
      remaining == float - SumFunction([i \in above |-> bid[i].count])
      total     == SumFunction([i \in tier |-> bid[i].count])
      base      == [i \in tier |-> (bid[i].count * remaining) \div total]
      dust      == remaining - SumFunction(base)
      earlier(i, j) == \/ bid[i].created < bid[j].created
                       \/ bid[i].created = bid[j].created /\ i < j
      place(i)  == Cardinality({j \in tier : earlier(j, i)})
  IN  /\ \A i \in above : alloc(i) = bid[i].count
      /\ total > 0
      /\ 0 < remaining /\ remaining <= total
      /\ 0 <= dust /\ dust < Cardinality(tier)
      /\ \A i \in tier : alloc(i) = base[i] + IF place(i) < dust THEN 1 ELSE 0

assertClearingInvariants(r, low, high, float, bidCount, maxBids) ==
  /\ bidCount <= maxBids
  /\ r.subscribed
  /\ MoneyBelt(r, float, low, high)
  /\ OptimalityBelt(r)
  /\ ProRataBelt(r, float)
=============================================================================
