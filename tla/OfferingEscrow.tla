--------------------------- MODULE OfferingEscrow ---------------------------
(***************************************************************************)
(* The per-offering escrow contract (contracts/tove-offering-escrow).      *)
(* Each entry point is one atomic transaction: it either applies all its   *)
(* effects or reverts, so an action is the successful run of an entry      *)
(* point and a refused call is a stuttering step.  Addresses authorise     *)
(* themselves: an action taken by a bidder stands for a call carrying that *)
(* bidder's auth, the admin actions for calls carrying the admin's.        *)
(***************************************************************************)
EXTENDS Integers, FiniteSets, Functions, Sums

CONSTANTS
  Bidders,            \* addresses that bid
  Keys,               \* 32-byte idempotency keys
  Prices, Counts,     \* the price and count arguments callers try
  Allocations,        \* the allocation amounts and ...
  ClearingPrices,     \* ... clearing prices the admin tries
  TotalSupply, ArtistRetention, TreasuryRetention, LeftoverToArtist,
  InitialUsdc,        \* USDC each bidder starts with
  MaxBids,            \* bound: bids ever submitted
  MaxDonation         \* bound: USDC sent to the contract outside submit_bid

Escrow   == "escrow"
Treasury == "treasury"
Artist   == "artist"           \* receives the artist's fractions
Payout   == "artist_payout"    \* receives the artist's USDC
NoBidder == "nobody"

ASSUME BoundsAssumption == MaxBids \in Nat /\ MaxDonation \in Nat /\ InitialUsdc \in Nat

ASSUME InputsAssumption ==
  /\ Prices \subseteq Int /\ Counts \subseteq Int
  /\ Allocations \subseteq Int /\ ClearingPrices \subseteq Int

ASSUME AddressAssumption ==
  /\ IsFiniteSet(Bidders)
  /\ Bidders \cap {Escrow, Treasury, Artist, Payout, NoBidder} = {}

\* The constructor's parameter check: other offerings never exist on chain.
ASSUME ParamsAssumption ==
  /\ TotalSupply \in Nat \ {0}
  /\ ArtistRetention \in Nat /\ TreasuryRetention \in Nat /\ LeftoverToArtist \in Nat
  /\ ArtistRetention + TreasuryRetention + LeftoverToArtist <= TotalSupply

VARIABLES
  status,       \* DataKey::Status
  tokenBound,   \* Params.fraction_token.is_some()
  bidSeq,       \* DataKey::BidSeq
  escrowTotal,  \* DataKey::EscrowTotal
  bids,         \* DataKey::Bid(id), NoBid where the entry is absent
  idem,         \* DataKey::Idem(key), 0 where the entry is absent
  usdc,         \* balances in the USDC token
  fractions,    \* balances in the FractionToken bound to the offering
  donated,      \* history: USDC third parties sent to the contract's address
  settlement    \* history: the arguments close_and_settle succeeded with

vars == <<status, tokenBound, bidSeq, escrowTotal, bids, idem, usdc, fractions,
          donated, settlement>>

BidIds   == 1..MaxBids
Accounts == Bidders \cup {Escrow, Treasury, Payout}
Holders  == Bidders \cup {Artist, Treasury}

Bid   == [bidder: Bidders, price: Int, count: Int, escrow: Int, active: BOOLEAN]
NoBid == [bidder |-> NoBidder, price |-> 0, count |-> 0, escrow |-> 0, active |-> FALSE]

Statuses     == {"Open", "Closed", "Settled", "Cancelled"}
NoSettlement == [price |-> 0, alloc |-> [id \in BidIds |-> 0]]

-----------------------------------------------------------------------------
\* __constructor
Init ==
  /\ status = "Open"
  /\ tokenBound = FALSE
  /\ bidSeq = 0
  /\ escrowTotal = 0
  /\ bids = [id \in BidIds |-> NoBid]
  /\ idem = [k \in Keys |-> 0]
  /\ usdc = [a \in Accounts |-> IF a \in Bidders THEN InitialUsdc ELSE 0]
  /\ fractions = [h \in Holders |-> 0]
  /\ donated = 0
  /\ settlement = NoSettlement

\* The USDC asset contract moving amount from one account to another.
Transfer(bal, from, to, amount) ==
  [bal EXCEPT ![from] = @ - amount, ![to] = @ + amount]

bind_token ==
  /\ ~tokenBound
  /\ tokenBound' = TRUE
  /\ UNCHANGED <<status, bidSeq, escrowTotal, bids, idem, usdc, fractions, donated, settlement>>

next_bid_id == bidSeq + 1

\* Fault: the key is looked up but never stored.
Fault_submit_bid(bidder, price, count, key) ==
  /\ status = "Open" /\ price > 0 /\ count > 0 /\ idem[key] = 0
  /\ usdc[bidder] >= price * count /\ bidSeq < MaxBids
  /\ bidSeq' = bidSeq + 1
  /\ bids' = [bids EXCEPT ![bidSeq + 1] = [bidder |-> bidder, price |-> price, count |-> count,
                                           escrow |-> price * count, active |-> TRUE]]
  /\ escrowTotal' = escrowTotal + price * count
  /\ usdc' = Transfer(usdc, bidder, Escrow, price * count)
  /\ UNCHANGED <<status, tokenBound, idem, fractions, donated, settlement>>

submit_bid(bidder, price, count, key) ==
  LET escrow == price * count
      id     == next_bid_id
  IN  /\ status = "Open"
      /\ price > 0 /\ count > 0
      /\ idem[key] = 0
      /\ usdc[bidder] >= escrow
      /\ bidSeq < MaxBids
      /\ bidSeq' = id
      /\ bids' = [bids EXCEPT ![id] = [bidder |-> bidder, price |-> price, count |-> count,
                                       escrow |-> escrow, active |-> TRUE]]
      /\ idem' = [idem EXCEPT ![key] = id]
      /\ escrowTotal' = escrowTotal + escrow
      /\ usdc' = Transfer(usdc, bidder, Escrow, escrow)
      /\ UNCHANGED <<status, tokenBound, fractions, donated, settlement>>

\* Fault: the refund is paid without checking that the bid is still active.
Fault_cancel_bid(caller, id) ==
  /\ status = "Open" /\ bids[id] # NoBid /\ bids[id].bidder = caller
  /\ bids' = [bids EXCEPT ![id].active = FALSE]
  /\ escrowTotal' = escrowTotal - bids[id].escrow
  /\ usdc' = Transfer(usdc, Escrow, caller, bids[id].escrow)
  /\ UNCHANGED <<status, tokenBound, bidSeq, idem, fractions, donated, settlement>>

cancel_bid(caller, id) ==
  /\ status = "Open"
  /\ bids[id] # NoBid
  /\ bids[id].bidder = caller
  /\ bids[id].active
  /\ bids' = [bids EXCEPT ![id].active = FALSE]
  /\ escrowTotal' = escrowTotal - bids[id].escrow
  /\ usdc' = Transfer(usdc, Escrow, caller, bids[id].escrow)
  /\ UNCHANGED <<status, tokenBound, bidSeq, idem, fractions, donated, settlement>>

close_offering ==
  /\ status = "Open"
  /\ status' = "Closed"
  /\ UNCHANGED <<tokenBound, bidSeq, escrowTotal, bids, idem, usdc, fractions, donated, settlement>>

cancel_offering ==
  /\ status # "Settled"
  /\ escrowTotal <= 0
  /\ status' = "Cancelled"
  /\ UNCHANGED <<tokenBound, bidSeq, escrowTotal, bids, idem, usdc, fractions, donated, settlement>>

-----------------------------------------------------------------------------
(***************************************************************************)
(* close_and_settle.  The allocations argument is a vector of (bid, amount)*)
(* pairs that may name no bid twice; a bid it leaves out and a bid it      *)
(* allocates 0 fare alike, so it is a function with 0 for the bids left    *)
(* out.                                                                    *)
(***************************************************************************)
ActiveEscrow(id) == IF bids[id].active THEN bids[id].escrow ELSE 0

\* What the transaction returns to the bidder of id: nothing for an inactive bid.
Refund(price, alloc, id) ==
  IF bids[id].active THEN bids[id].escrow - price * alloc[id] ELSE 0

SumEscrow              == Sum([id \in BidIds |-> ActiveEscrow(id)], MaxBids)
SumRefund(price, alloc) == Sum([id \in BidIds |-> Refund(price, alloc, id)], MaxBids)
SumAllocated(alloc)     == Sum(alloc, MaxBids)
Proceeds(price, alloc)  == Sum([id \in BidIds |-> price * alloc[id]], MaxBids)

PLATFORM_FEE_BPS == 300
\* Fault: the fee is rounded up.
Fault_PlatformFee(proceeds) == (proceeds * PLATFORM_FEE_BPS + 9999) \div 10000

PlatformFee(proceeds) == (proceeds * PLATFORM_FEE_BPS) \div 10000
ArtistNet(proceeds)   == proceeds - PlatformFee(proceeds)

\* Step 1: a winner is an active bid at or above the price, filled at most in full.
\* Fault: a cancelled bid may win.
Fault_AllocationValid(price, alloc, id) ==
  alloc[id] # 0 =>
    /\ bids[id] # NoBid
    /\ alloc[id] >= 0 /\ alloc[id] <= bids[id].count
    /\ price > 0 /\ price <= bids[id].price
    /\ bids[id].escrow - price * alloc[id] >= 0

AllocationValid(price, alloc, id) ==
  alloc[id] # 0 =>
    /\ bids[id] # NoBid
    /\ bids[id].active
    /\ alloc[id] >= 0 /\ alloc[id] <= bids[id].count
    /\ price > 0 /\ price <= bids[id].price
    /\ bids[id].escrow - price * alloc[id] >= 0

MintInvariant(alloc) ==
  SumAllocated(alloc) + ArtistRetention + TreasuryRetention + LeftoverToArtist = TotalSupply

SettleValid(price, alloc) ==
  /\ \A id \in BidIds : AllocationValid(price, alloc, id)
  /\ MintInvariant(alloc)
  /\ \A id \in 1..bidSeq : bids[id] # NoBid

\* Step 5: what leaves the contract, and the belt that compares it with the escrow held.
Outflow(price, alloc) ==
  LET p == Proceeds(price, alloc)
  IN  SumRefund(price, alloc) + PlatformFee(p) + ArtistNet(p)

Belt(price, alloc) == Outflow(price, alloc) = SumEscrow

\* Fault: winners are not refunded the difference between their price and the clearing price.
Fault_RefundTo(price, alloc, b) ==
  Sum([id \in BidIds |-> IF bids[id].bidder = b /\ alloc[id] = 0
                         THEN Refund(price, alloc, id) ELSE 0], MaxBids)

RefundTo(price, alloc, b) ==
  Sum([id \in BidIds |-> IF bids[id].bidder = b THEN Refund(price, alloc, id) ELSE 0], MaxBids)

AllocatedTo(alloc, b) ==
  Sum([id \in BidIds |-> IF bids[id].bidder = b THEN alloc[id] ELSE 0], MaxBids)

\* Steps 3 and 4: refunds, platform fee, artist net.
Payments(price, alloc) ==
  LET p == Proceeds(price, alloc)
  IN  [a \in Accounts |->
        usdc[a] + CASE a \in Bidders  -> RefundTo(price, alloc, a)
                    [] a = Treasury -> PlatformFee(p)
                    [] a = Payout   -> ArtistNet(p)
                    [] OTHER        -> - Outflow(price, alloc)]

\* Step 2, the token's one-shot mint_settle.
Minted(alloc) ==
  [h \in Holders |->
     fractions[h] + CASE h \in Bidders  -> AllocatedTo(alloc, h)
                      [] h = Artist   -> ArtistRetention + LeftoverToArtist
                      [] OTHER        -> TreasuryRetention]

close_and_settle(price, alloc) ==
  /\ status = "Closed"
  /\ tokenBound
  /\ SettleValid(price, alloc)
  /\ Belt(price, alloc)
  /\ status' = "Settled"
  /\ escrowTotal' = 0
  /\ bids' = [id \in BidIds |-> [bids[id] EXCEPT !.active = FALSE]]
  /\ usdc' = Payments(price, alloc)
  /\ fractions' = Minted(alloc)
  /\ settlement' = [price |-> price, alloc |-> alloc]
  /\ UNCHANGED <<tokenBound, bidSeq, idem, donated>>

-----------------------------------------------------------------------------
\* A third party sends USDC to the contract's address by a plain token transfer: no
\* code of this contract runs, and the belt must not count what it never escrowed.
donate ==
  /\ donated < MaxDonation
  /\ usdc' = [usdc EXCEPT ![Escrow] = @ + 1]
  /\ donated' = donated + 1
  /\ UNCHANGED <<status, tokenBound, bidSeq, escrowTotal, bids, idem, fractions, settlement>>

Next ==
  \/ bind_token
  \/ \E b \in Bidders, p \in Prices, c \in Counts, k \in Keys : submit_bid(b, p, c, k)
  \/ \E b \in Bidders, id \in BidIds : cancel_bid(b, id)
  \/ close_offering
  \/ cancel_offering
  \/ \E p \in ClearingPrices, alloc \in [BidIds -> Allocations] : close_and_settle(p, alloc)
  \/ donate

Spec == Init /\ [][Next]_vars

-----------------------------------------------------------------------------
\* Types.  Balances are naturals: no refund, fee or net payment overdraws the contract.
TypeOK ==
  /\ status \in Statuses
  /\ tokenBound \in BOOLEAN
  /\ bidSeq \in 0..MaxBids
  /\ escrowTotal \in Int
  /\ bids \in [BidIds -> Bid \cup {NoBid}]
  /\ idem \in [Keys -> 0..MaxBids]
  /\ usdc \in [Accounts -> Nat]
  /\ fractions \in [Holders -> Nat]
  /\ donated \in Nat
  /\ settlement \in [price: Int, alloc: [BidIds -> Int]]

\* The running total submit_bid, cancel_bid and close_and_settle maintain is the sum of
\* the escrow of the active bids, and the contract really holds that much USDC.
EscrowBacked ==
  /\ escrowTotal = SumEscrow
  /\ usdc[Escrow] = escrowTotal + donated

\* submit_bid's DuplicateBid guard: a key stands for one recorded bid for ever, and every
\* recorded bid was made under exactly one key.
OneBidPerKey ==
  /\ \A id \in BidIds : bids[id] # NoBid <=> id <= bidSeq
  /\ \A k \in Keys : idem[k] <= bidSeq
  /\ \A k1, k2 \in Keys : idem[k1] = idem[k2] /\ idem[k1] # 0 => k1 = k2
  /\ \A id \in 1..bidSeq : \E k \in Keys : idem[k] = id

\* cancel_offering tests EscrowTotal, not the bids: a finished offering, settled or
\* cancelled, holds no bidder's money (nothing could return it any more).
TerminalHoldsNothing ==
  status \in {"Settled", "Cancelled"} => \A id \in BidIds : ~bids[id].active

\* What a bidder has in the escrow.
InEscrow(b) ==
  Sum([id \in BidIds |-> IF bids[id].bidder = b THEN ActiveEscrow(id) ELSE 0], MaxBids)

\* A bidder's USDC is always the initial sum less the escrow of its active bids and less
\* the uniform price of the fractions it was allocated: cancelled and lost bids came back
\* in full, a winner's price difference too, and nothing came back twice.
BidderMadeWhole ==
  \A b \in Bidders :
    usdc[b] = InitialUsdc - InEscrow(b) - settlement.price * fractions[b]

\* The whole supply is minted by the settlement and by nothing else (the mint invariant of
\* close_and_settle, over what the recipients actually hold).
SupplyMintedOnce ==
  SumFunction(fractions) = IF status = "Settled" THEN TotalSupply ELSE 0

\* The proceeds are split between treasury and artist without dust, the fee rounded in the
\* artist's favour: floor(proceeds * 3%), and both come from the winners alone.
ProceedsSplit ==
  LET proceeds == settlement.price * SumFunctionOnSet(fractions, Bidders)
  IN  /\ usdc[Treasury] + usdc[Payout] = proceeds
      /\ 10000 * usdc[Treasury] <= PLATFORM_FEE_BPS * proceeds
      /\ PLATFORM_FEE_BPS * proceeds < 10000 * (usdc[Treasury] + 1)

\* What close_and_settle leaves behind: the supply minted and the proceeds split to the stroop.
SettledExactly == SupplyMintedOnce /\ ProceedsSplit

\* The comment on the conservation belt says its identity "holds by construction": whatever
\* arguments pass validation in a closed offering, the payments add up to the escrow held,
\* so UsdcAccounting is unreachable and a validated settlement is never refused by it.
SettlePayable ==
  status = "Closed" =>
    \A price \in ClearingPrices, alloc \in [BidIds -> Allocations] :
      SettleValid(price, alloc) =>
        /\ Belt(price, alloc)
        /\ Outflow(price, alloc) <= usdc[Escrow]

\* A recorded bid is never rewritten, removed or revived: only active may go to FALSE.
BidsWriteOnce ==
  [][\A id \in BidIds : bids[id] # NoBid =>
       bids'[id] \in {bids[id], [bids[id] EXCEPT !.active = FALSE]}]_vars

\* Settled and Cancelled are final: no later call moves a bid, a fraction or the status.
TerminalIsFinal ==
  [][(status = "Settled" \/ status = "Cancelled") =>
       UNCHANGED <<status, bidSeq, bids, idem, escrowTotal, fractions, settlement>>]_vars

-----------------------------------------------------------------------------
\* The contract is an auction: what a bidder staked is the escrow of its active bids, and
\* what the sale brought is what treasury and artist were paid.
Phase ==
  CASE status = "Open"    -> "collecting"
    [] status = "Closed"  -> "closed"
    [] status = "Settled" -> "sold"
    [] OTHER              -> "void"

Sale == INSTANCE Auction WITH
  Money    <- InitialUsdc,
  Float    <- TotalSupply - ArtistRetention - TreasuryRetention - LeftoverToArtist,
  Prices   <- ClearingPrices,
  phase    <- Phase,
  wallet   <- [b \in Bidders |-> usdc[b]],
  stake    <- [b \in Bidders |-> InEscrow(b)],
  price    <- settlement.price,
  shares   <- [b \in Bidders |-> fractions[b]],
  earnings <- usdc[Treasury] + usdc[Payout]

\* Every call of the contract is a step of that auction or none at all: whatever bids,
\* cancellations, donations and refused calls came before, close_and_settle sells exactly
\* the float at one price and returns every other stroop in the same transaction, and an
\* offering is only called off, or left for good, when no bidder has anything in it.
ImplementsAuction == Sale!Spec
=============================================================================
