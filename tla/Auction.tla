------------------------------ MODULE Auction ------------------------------
(***************************************************************************)
(* What an offering promises its bidders, without bids, keys, contracts or *)
(* tokens: money is staked and withdrawn while the sale collects; once it  *)
(* is closed, either the whole float is sold at one price, nobody paying   *)
(* more than they staked and the rest of every stake returned in the same  *)
(* step, or the sale is called off when nobody has a stake left.           *)
(***************************************************************************)
EXTENDS Integers, Functions

CONSTANTS
  Bidders,
  Money,      \* what each bidder starts with
  Float,      \* the shares for sale
  Prices      \* the prices they may be sold at

VARIABLES
  phase,      \* "collecting", "closed", "sold" or "void"
  wallet,     \* what each bidder has
  stake,      \* what each bidder has in the sale
  price,      \* the uniform price, 0 until the sale
  shares,     \* what each bidder bought
  earnings    \* what the sale brought

auctionVars == <<phase, wallet, stake, price, shares, earnings>>

Nothing == [b \in Bidders |-> 0]

Init ==
  /\ phase = "collecting"
  /\ wallet = [b \in Bidders |-> Money]
  /\ stake = Nothing /\ shares = Nothing
  /\ price = 0 /\ earnings = 0

Stake(b, amount) ==
  /\ phase = "collecting"
  /\ wallet' = [wallet EXCEPT ![b] = @ - amount]
  /\ stake' = [stake EXCEPT ![b] = @ + amount]
  /\ UNCHANGED <<phase, price, shares, earnings>>

Withdraw(b, amount) ==
  /\ phase = "collecting"
  /\ stake' = [stake EXCEPT ![b] = @ - amount]
  /\ wallet' = [wallet EXCEPT ![b] = @ + amount]
  /\ UNCHANGED <<phase, price, shares, earnings>>

Close ==
  /\ phase = "collecting"
  /\ phase' = "closed"
  /\ UNCHANGED <<wallet, stake, price, shares, earnings>>

Sell(p, won) ==
  /\ phase = "closed"
  /\ SumFunctionOnSet(won, Bidders) = Float
  /\ \A b \in Bidders : p * won[b] \in 0..stake[b]
  /\ phase' = "sold"
  /\ wallet' = [b \in Bidders |-> wallet[b] + stake[b] - p * won[b]]
  /\ stake' = Nothing
  /\ price' = p
  /\ shares' = won
  /\ earnings' = p * Float

CallOff ==
  /\ phase \in {"collecting", "closed"}
  /\ stake = Nothing
  /\ phase' = "void"
  /\ UNCHANGED <<wallet, stake, price, shares, earnings>>

Next ==
  \/ \E b \in Bidders : \E amount \in 1..wallet[b] : Stake(b, amount)
  \/ \E b \in Bidders : \E amount \in 1..stake[b] : Withdraw(b, amount)
  \/ Close
  \/ \E p \in Prices : \E won \in [Bidders -> 0..Float] : Sell(p, won)
  \/ CallOff

Spec == Init /\ [][Next]_auctionVars
=============================================================================
