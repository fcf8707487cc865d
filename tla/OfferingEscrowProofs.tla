------------------------ MODULE OfferingEscrowProofs ------------------------
(***************************************************************************)
(* The escrow contract's invariants, for every number of bidders, keys and *)
(* bids, every argument value and every offering the constructor accepts;  *)
(* the auction it implements; and, in the last part, its deployment.       *)
(***************************************************************************)
EXTENDS OfferingEscrow, OfferingDeploy, SumsProofs

\* What submit_bid records: positive price and count, and their product in escrow.
BidShape ==
  \A id \in BidIds : bids[id] # NoBid =>
    /\ bids[id].price > 0 /\ bids[id].count > 0
    /\ bids[id].escrow = bids[id].price * bids[id].count
    /\ bids[id].escrow \in Nat \ {0}

\* Before the settlement nothing is minted and no settlement is recorded.
NothingMinted ==
  status # "Settled" =>
    /\ settlement = NoSettlement
    /\ \A h \in Holders : fractions[h] = 0

\* The inductive invariant.  EscrowBacked alone is not inductive: a refund is backed only
\* because every recorded escrow is non-negative (BidShape), and cancel_offering's test of
\* the total says something of the bids only for the same reason.
Inv ==
  /\ TypeOK
  /\ EscrowBacked
  /\ OneBidPerKey
  /\ BidShape
  /\ TerminalHoldsNothing
  /\ NothingMinted
  /\ BidderMadeWhole

\* The summands of the sums the contract takes.
EscrowOf == [id \in BidIds |-> ActiveEscrow(id)]
OwedTo(b) == [id \in BidIds |-> IF bids[id].bidder = b THEN ActiveEscrow(id) ELSE 0]

-----------------------------------------------------------------------------
\* A bid's active escrow is a natural number, positive exactly while it is active.
LEMMA ActiveEscrowNat ==
  ASSUME TypeOK, BidShape
  PROVE  \A id \in BidIds : ActiveEscrow(id) \in Nat /\ (ActiveEscrow(id) = 0 <=> ~bids[id].active)
<1> SUFFICES ASSUME NEW id \in BidIds
             PROVE  ActiveEscrow(id) \in Nat /\ (ActiveEscrow(id) = 0 <=> ~bids[id].active)
  OBVIOUS
<1>1. CASE bids[id] = NoBid BY <1>1 DEF ActiveEscrow, NoBid
<1>2. CASE bids[id] # NoBid BY <1>2 DEF ActiveEscrow, BidShape, TypeOK, Bid
<1> QED BY <1>1, <1>2

\* The constructor establishes the invariant.
LEMMA InitInv == Init => Inv
<1> SUFFICES ASSUME Init PROVE Inv OBVIOUS
<1> USE BoundsAssumption, AddressAssumption
<1>0. MaxBids \in Nat OBVIOUS
<1>1. TypeOK
  <2>0. tokenBound \in BOOLEAN BY Zenon DEF Init
  <2>1. status \in Statuses /\ bidSeq \in 0..MaxBids
        /\ escrowTotal \in Int /\ donated \in Nat /\ idem \in [Keys -> 0..MaxBids]
    BY DEF Init, Statuses
  <2>2. bids \in [BidIds -> Bid \cup {NoBid}] BY DEF Init
  <2>3. usdc \in [Accounts -> Nat] /\ fractions \in [Holders -> Nat] BY DEF Init
  <2>4. settlement \in [price: Int, alloc: [BidIds -> Int]] BY DEF Init, NoSettlement
  <2> QED BY <2>0, <2>1, <2>2, <2>3, <2>4 DEF TypeOK
<1>2. \A id \in BidIds : ActiveEscrow(id) = 0 BY DEF Init, ActiveEscrow, NoBid
<1>3. SumEscrow = 0 BY <1>0, <1>2, SumZero DEF SumEscrow, BidIds
<1>4. EscrowBacked BY <1>3 DEF Init, EscrowBacked, Accounts, Escrow
<1>5. OneBidPerKey BY DEF Init, OneBidPerKey, BidIds
<1>6. BidShape /\ NothingMinted BY DEF Init, BidShape, NothingMinted
<1>7. TerminalHoldsNothing BY DEF Init, TerminalHoldsNothing
<1>8. BidderMadeWhole
  <2> SUFFICES ASSUME NEW b \in Bidders
               PROVE  usdc[b] = InitialUsdc - Sum(OwedTo(b), MaxBids) - settlement.price * fractions[b]
    BY DEF BidderMadeWhole, InEscrow, OwedTo
  <2>1. Sum(OwedTo(b), MaxBids) = 0 BY <1>0, <1>2, SumZero DEF OwedTo, BidIds
  <2>2. usdc[b] = InitialUsdc /\ settlement.price = 0 /\ fractions[b] = 0
    BY DEF Init, NoSettlement, Accounts, Holders
  <2> QED BY <2>1, <2>2
<1> QED BY <1>1, <1>4, <1>5, <1>6, <1>7, <1>8 DEF Inv

\* Changing one bid changes the two sums taken over the bids by that bid's difference.
LEMMA OneBidChanged ==
  ASSUME TypeOK, BidShape, TypeOK', BidShape', NEW k \in BidIds,
         \A id \in BidIds : id # k => bids'[id] = bids[id]
  PROVE  /\ SumEscrow \in Int
         /\ SumEscrow' = SumEscrow + ActiveEscrow(k)' - ActiveEscrow(k)
         /\ \A b \in Bidders :
              /\ Sum(OwedTo(b), MaxBids) \in Int
              /\ Sum(OwedTo(b)', MaxBids) = Sum(OwedTo(b), MaxBids) + OwedTo(b)'[k] - OwedTo(b)[k]
<1>0. MaxBids \in Nat BY BoundsAssumption
<1>1. \A id \in BidIds : ActiveEscrow(id) \in Int BY ActiveEscrowNat
<1>2. \A id \in BidIds : ActiveEscrow(id)' \in Int
  <2> SUFFICES ASSUME NEW id \in BidIds PROVE ActiveEscrow(id)' \in Int OBVIOUS
  <2>1. CASE bids'[id] = NoBid BY <2>1 DEF ActiveEscrow, NoBid
  <2>2. CASE bids'[id] # NoBid BY <2>2 DEF ActiveEscrow, BidShape
  <2> QED BY <2>1, <2>2
<1>3. \A id \in BidIds : id # k => ActiveEscrow(id)' = ActiveEscrow(id) BY DEF ActiveEscrow
<1>4. SumEscrow \in Int /\ SumEscrow' = SumEscrow + ActiveEscrow(k)' - ActiveEscrow(k)
  <2>1. IntegerTo(EscrowOf, MaxBids) /\ IntegerTo(EscrowOf', MaxBids)
    BY <1>1, <1>2 DEF IntegerTo, EscrowOf, BidIds
  <2>2. \A id \in 1..MaxBids : id # k => EscrowOf'[id] = EscrowOf[id]
    BY <1>3 DEF EscrowOf, BidIds
  <2>3. k \in 1..MaxBids BY DEF BidIds
  <2>4. Sum(EscrowOf', MaxBids) = Sum(EscrowOf, MaxBids) + EscrowOf'[k] - EscrowOf[k]
    BY <1>0, <2>1, <2>2, <2>3, SumUpdate
  <2>5. Sum(EscrowOf, MaxBids) \in Int BY <1>0, <2>1, PrefixSumsIs
  <2> QED BY <2>4, <2>5 DEF EscrowOf, SumEscrow
<1>5. ASSUME NEW b \in Bidders
      PROVE  /\ Sum(OwedTo(b), MaxBids) \in Int
             /\ Sum(OwedTo(b)', MaxBids) = Sum(OwedTo(b), MaxBids) + OwedTo(b)'[k] - OwedTo(b)[k]
  <2>1. IntegerTo(OwedTo(b), MaxBids) /\ IntegerTo(OwedTo(b)', MaxBids)
    BY <1>1, <1>2 DEF IntegerTo, OwedTo, BidIds
  <2>2. \A id \in 1..MaxBids : id # k => OwedTo(b)'[id] = OwedTo(b)[id]
    BY <1>3 DEF OwedTo, BidIds
  <2>3. k \in 1..MaxBids BY DEF BidIds
  <2>4. Sum(OwedTo(b), MaxBids) \in Int BY <1>0, <2>1, PrefixSumsIs
  <2> QED BY <1>0, <2>1, <2>2, <2>3, <2>4, SumUpdate
<1> QED BY <1>4, <1>5

\* submit_bid preserves the invariant.
LEMMA SubmitInv ==
  ASSUME Inv, NEW b \in Bidders, NEW p \in Prices, NEW c \in Counts, NEW k \in Keys,
         submit_bid(b, p, c, k)
  PROVE  Inv'
<1>i. PICK id \in BidIds : id = bidSeq + 1
  BY BoundsAssumption DEF submit_bid, Inv, TypeOK, BidIds
<1> DEFINE e   == p * c
           new == [bidder |-> b, price |-> p, count |-> c, escrow |-> e, active |-> TRUE]
<1>0. /\ id \in BidIds /\ id \in Nat \ {0} /\ bids[id] = NoBid
      /\ p \in Int /\ c \in Int /\ e \in Nat \ {0}
  <2>1. p \in Int /\ c \in Int /\ p > 0 /\ c > 0
    BY InputsAssumption DEF submit_bid
  <2>2. p * c \in Int /\ p * c > 0 BY <2>1
  <2>3. id \in Nat \ {0} BY BoundsAssumption DEF BidIds
  <2>4. bids[id] = NoBid BY <1>i, <2>3 DEF Inv, TypeOK, OneBidPerKey
  <2> QED BY <2>1, <2>2, <2>3, <2>4
<1>1. /\ status = "Open" /\ idem[k] = 0 /\ usdc[b] >= e
      /\ bidSeq' = id
      /\ bids' = [bids EXCEPT ![id] = new]
      /\ idem' = [idem EXCEPT ![k] = id]
      /\ escrowTotal' = escrowTotal + e
      /\ usdc' = [usdc EXCEPT ![b] = @ - e, ![Escrow] = @ + e]
      /\ UNCHANGED <<status, tokenBound, fractions, donated, settlement>>
  BY <1>i DEF submit_bid, next_bid_id, Transfer
<1>a. b # Escrow /\ b \in Accounts /\ Escrow \in Accounts BY AddressAssumption DEF Accounts
<1> HIDE DEF e
<1>2. new \in Bid BY <1>0 DEF Bid
<1>3. TypeOK'
  <2>1. bids' \in [BidIds -> Bid \cup {NoBid}] BY <1>0, <1>1, <1>2 DEF Inv, TypeOK
  <2>2. idem' \in [Keys -> 0..MaxBids] BY <1>0, <1>1, BoundsAssumption DEF Inv, TypeOK, BidIds
  <2>3. usdc' \in [Accounts -> Nat] BY <1>0, <1>1, <1>a DEF Inv, TypeOK
  <2>4. bidSeq' \in 0..MaxBids /\ escrowTotal' \in Int
    BY <1>0, <1>1, BoundsAssumption DEF Inv, TypeOK, BidIds
  <2> QED BY <1>1, <2>1, <2>2, <2>3, <2>4 DEF Inv, TypeOK
<1>4. bids'[id] = new /\ \A i \in BidIds : i # id => bids'[i] = bids[i]
  BY <1>0, <1>1 DEF Inv, TypeOK
<1>5. NoBid # new BY <1>0 DEF NoBid
<1>6. BidShape'
  <2> SUFFICES ASSUME NEW i \in BidIds, bids'[i] # NoBid
               PROVE  /\ bids'[i].price > 0 /\ bids'[i].count > 0
                      /\ bids'[i].escrow = bids'[i].price * bids'[i].count
                      /\ bids'[i].escrow \in Nat \ {0}
    BY DEF BidShape
  <2>1. CASE i = id
    <3>1. p > 0 /\ c > 0 BY DEF submit_bid
    <3> QED BY <2>1, <1>4, <1>0, <3>1 DEF e
  <2>2. CASE i # id BY <2>2, <1>4 DEF Inv, BidShape
  <2> QED BY <2>1, <2>2
<1>7. ActiveEscrow(id) = 0 /\ ActiveEscrow(id)' = e
  BY <1>0, <1>4 DEF ActiveEscrow, NoBid
<1>8. /\ SumEscrow \in Int
      /\ SumEscrow' = SumEscrow + ActiveEscrow(id)' - ActiveEscrow(id)
      /\ \A q \in Bidders :
           /\ Sum(OwedTo(q), MaxBids) \in Int
           /\ Sum(OwedTo(q)', MaxBids) = Sum(OwedTo(q), MaxBids) + OwedTo(q)'[id] - OwedTo(q)[id]
  BY <1>0, <1>3, <1>4, <1>6, OneBidChanged DEF Inv
<1>9. EscrowBacked'
  <2>1. SumEscrow' = SumEscrow + e BY <1>7, <1>8, <1>0
  <2>2. usdc'[Escrow] = usdc[Escrow] + e BY <1>0, <1>1, <1>a DEF Inv, TypeOK
  <2>3. escrowTotal \in Int /\ usdc[Escrow] \in Int /\ donated \in Int
    BY <1>a DEF Inv, TypeOK
  <2> QED BY <1>0, <1>1, <2>1, <2>2, <2>3 DEF Inv, EscrowBacked
<1>10. OneBidPerKey'
  <2>0. bidSeq \in 0..MaxBids /\ MaxBids \in Nat BY BoundsAssumption DEF Inv, TypeOK
  <2>1. \A i \in BidIds : bids'[i] # NoBid <=> i <= bidSeq'
    BY <1>i, <1>0, <1>1, <1>4, <1>5, <2>0 DEF Inv, OneBidPerKey, BidIds
  <2>2. \A j \in Keys : idem'[j] = IF j = k THEN id ELSE idem[j] BY <1>1 DEF Inv, TypeOK
  <2>3. \A j \in Keys : idem[j] \in 0..MaxBids /\ idem[j] <= bidSeq
    BY DEF Inv, TypeOK, OneBidPerKey
  <2>4. \A j \in Keys : idem'[j] <= bidSeq' BY <1>i, <1>1, <2>0, <2>2, <2>3
  <2>5. \A k1, k2 \in Keys : idem'[k1] = idem'[k2] /\ idem'[k1] # 0 => k1 = k2
    BY <1>i, <2>0, <2>2, <2>3 DEF Inv, OneBidPerKey
  <2>6. \A i \in 1..bidSeq' : \E j \in Keys : idem'[j] = i
    <3> SUFFICES ASSUME NEW i \in 1..bidSeq' PROVE \E j \in Keys : idem'[j] = i OBVIOUS
    <3>1. CASE i = id BY <3>1, <2>2
    <3>2. CASE i # id
      <4>1. i \in 1..bidSeq BY <1>i, <3>2, <1>1, <2>0
      <4>2. PICK j \in Keys : idem[j] = i BY <4>1 DEF Inv, OneBidPerKey
      <4>3. j # k BY <4>1, <4>2, <1>1
      <4> QED BY <4>2, <4>3, <2>2
    <3> QED BY <3>1, <3>2
  <2> QED BY <2>1, <2>4, <2>5, <2>6 DEF OneBidPerKey
<1>11. TerminalHoldsNothing' /\ NothingMinted'
  BY <1>1 DEF Inv, TerminalHoldsNothing, NothingMinted
<1>12. BidderMadeWhole'
  <2> SUFFICES ASSUME NEW q \in Bidders
               PROVE  usdc'[q] = InitialUsdc - Sum(OwedTo(q)', MaxBids)
                                 - settlement'.price * fractions'[q]
    BY DEF BidderMadeWhole, InEscrow, OwedTo
  <2>1. OwedTo(q)[id] = 0 /\ OwedTo(q)'[id] = IF q = b THEN e ELSE 0
    BY <1>0, <1>4, <1>7 DEF OwedTo
  <2>2. usdc'[q] = IF q = b THEN usdc[q] - e ELSE usdc[q]
    BY <1>1, <1>a, AddressAssumption DEF Inv, TypeOK, Accounts
  <2>3. usdc[q] = InitialUsdc - Sum(OwedTo(q), MaxBids) - settlement.price * fractions[q]
    BY DEF Inv, BidderMadeWhole, InEscrow, OwedTo
  <2>4. settlement.price \in Int /\ fractions[q] \in Int /\ usdc[q] \in Int /\ InitialUsdc \in Int
    BY BoundsAssumption DEF Inv, TypeOK, Holders, Accounts
  <2>5. settlement.price * fractions[q] \in Int BY <2>4
  <2>6. Sum(OwedTo(q)', MaxBids) = Sum(OwedTo(q), MaxBids) + OwedTo(q)'[id] - OwedTo(q)[id]
        /\ Sum(OwedTo(q), MaxBids) \in Int
    BY <1>8
  <2>7. settlement'.price * fractions'[q] = settlement.price * fractions[q] BY <1>1
  <2> QED BY <1>0, <2>1, <2>2, <2>3, <2>4, <2>5, <2>6, <2>7
<1> QED BY <1>3, <1>6, <1>9, <1>10, <1>11, <1>12 DEF Inv

\* cancel_bid preserves the invariant.
LEMMA CancelBidInv ==
  ASSUME Inv, NEW b \in Bidders, NEW id \in BidIds, cancel_bid(b, id)
  PROVE  Inv'
<1>e. PICK e \in Nat \ {0} : e = bids[id].escrow
  BY DEF cancel_bid, Inv, BidShape
<1>1. /\ status = "Open" /\ bids[id] # NoBid /\ bids[id].bidder = b /\ bids[id].active
      /\ bids' = [bids EXCEPT ![id].active = FALSE]
      /\ escrowTotal' = escrowTotal - e
      /\ usdc' = [usdc EXCEPT ![Escrow] = @ - e, ![b] = @ + e]
      /\ UNCHANGED <<status, tokenBound, bidSeq, idem, fractions, donated, settlement>>
  BY <1>e DEF cancel_bid, Transfer
<1>a. b # Escrow /\ b \in Accounts /\ Escrow \in Accounts BY AddressAssumption DEF Accounts
<1>b. bids[id] \in Bid BY <1>1 DEF Inv, TypeOK
<1>4. /\ bids'[id] = [bids[id] EXCEPT !.active = FALSE]
      /\ \A i \in BidIds : i # id => bids'[i] = bids[i]
  BY <1>1 DEF Inv, TypeOK
<1>5. bids'[id] # NoBid
  BY <1>1, <1>4, <1>b, AddressAssumption DEF Bid, NoBid
<1>c. SumEscrow \in Int /\ ActiveEscrow(id) = e /\ e <= SumEscrow
  <2>1. \A i \in 1..MaxBids : EscrowOf[i] \in Nat
    BY ActiveEscrowNat DEF Inv, EscrowOf, BidIds
  <2>2. Sum(EscrowOf, MaxBids) \in Nat /\ \A i \in 1..MaxBids : EscrowOf[i] <= Sum(EscrowOf, MaxBids)
    BY <2>1, SumBounds, BoundsAssumption
  <2>3. ActiveEscrow(id) = e BY <1>e, <1>1 DEF ActiveEscrow
  <2> QED BY <2>2, <2>3 DEF SumEscrow, EscrowOf, BidIds
<1>d. usdc[Escrow] >= e
  <2>1. usdc[Escrow] = SumEscrow + donated /\ donated \in Nat BY DEF Inv, EscrowBacked, TypeOK
  <2> QED BY <2>1, <1>c
<1>3. TypeOK'
  <2>1. bids' \in [BidIds -> Bid \cup {NoBid}]
    <3>1. [bids[id] EXCEPT !.active = FALSE] \in Bid BY <1>b DEF Bid
    <3> QED BY <1>1, <3>1 DEF Inv, TypeOK
  <2>2. usdc' \in [Accounts -> Nat] BY <1>1, <1>a, <1>d DEF Inv, TypeOK
  <2>3. escrowTotal' \in Int BY <1>1 DEF Inv, TypeOK
  <2> QED BY <1>1, <2>1, <2>2, <2>3 DEF Inv, TypeOK
<1>6. BidShape'
  <2> SUFFICES ASSUME NEW i \in BidIds, bids'[i] # NoBid
               PROVE  /\ bids'[i].price > 0 /\ bids'[i].count > 0
                      /\ bids'[i].escrow = bids'[i].price * bids'[i].count
                      /\ bids'[i].escrow \in Nat \ {0}
    BY DEF BidShape
  <2>1. CASE i = id
    <3>1. /\ bids'[id].price = bids[id].price /\ bids'[id].count = bids[id].count
          /\ bids'[id].escrow = bids[id].escrow
      BY <1>4, <1>b DEF Bid
    <3> QED BY <2>1, <3>1, <1>1 DEF Inv, BidShape
  <2>2. CASE i # id BY <2>2, <1>4 DEF Inv, BidShape
  <2> QED BY <2>1, <2>2
<1>7. ActiveEscrow(id)' = 0 BY <1>4, <1>b DEF ActiveEscrow, Bid
<1>8. /\ SumEscrow' = SumEscrow + ActiveEscrow(id)' - ActiveEscrow(id)
      /\ \A q \in Bidders :
           /\ Sum(OwedTo(q), MaxBids) \in Int
           /\ Sum(OwedTo(q)', MaxBids) = Sum(OwedTo(q), MaxBids) + OwedTo(q)'[id] - OwedTo(q)[id]
  BY <1>3, <1>4, <1>6, OneBidChanged DEF Inv
<1>9. EscrowBacked'
  <2>1. SumEscrow' = SumEscrow - e BY <1>7, <1>8, <1>c
  <2>2. usdc'[Escrow] = usdc[Escrow] - e BY <1>1, <1>a DEF Inv, TypeOK
  <2>3. escrowTotal \in Int /\ usdc[Escrow] \in Int /\ donated \in Int
    BY <1>a DEF Inv, TypeOK
  <2> QED BY <1>1, <2>1, <2>2, <2>3 DEF Inv, EscrowBacked
<1>10. OneBidPerKey'
  <2>1. \A i \in BidIds : bids'[i] # NoBid <=> bids[i] # NoBid BY <1>1, <1>4, <1>5
  <2> QED BY <1>1, <2>1 DEF Inv, OneBidPerKey
<1>11. TerminalHoldsNothing' /\ NothingMinted'
  BY <1>1 DEF Inv, TerminalHoldsNothing, NothingMinted
<1>12. BidderMadeWhole'
  <2> SUFFICES ASSUME NEW q \in Bidders
               PROVE  usdc'[q] = InitialUsdc - Sum(OwedTo(q)', MaxBids)
                                 - settlement'.price * fractions'[q]
    BY DEF BidderMadeWhole, InEscrow, OwedTo
  <2>1. OwedTo(q)'[id] = 0 /\ OwedTo(q)[id] = IF q = b THEN e ELSE 0
    BY <1>1, <1>7, <1>c DEF OwedTo
  <2>2. usdc'[q] = IF q = b THEN usdc[q] + e ELSE usdc[q]
    BY <1>1, <1>a, AddressAssumption DEF Inv, TypeOK, Accounts
  <2>3. usdc[q] = InitialUsdc - Sum(OwedTo(q), MaxBids) - settlement.price * fractions[q]
    BY DEF Inv, BidderMadeWhole, InEscrow, OwedTo
  <2>4. settlement.price \in Int /\ fractions[q] \in Int /\ usdc[q] \in Int /\ InitialUsdc \in Int
    BY BoundsAssumption DEF Inv, TypeOK, Holders, Accounts
  <2>5. settlement.price * fractions[q] \in Int BY <2>4
  <2>6. Sum(OwedTo(q)', MaxBids) = Sum(OwedTo(q), MaxBids) + OwedTo(q)'[id] - OwedTo(q)[id]
        /\ Sum(OwedTo(q), MaxBids) \in Int
    BY <1>8
  <2>7. settlement'.price * fractions'[q] = settlement.price * fractions[q] BY <1>1
  <2> QED BY <2>1, <2>2, <2>3, <2>4, <2>5, <2>6, <2>7
<1> QED BY <1>3, <1>6, <1>9, <1>10, <1>11, <1>12 DEF Inv

\* With no escrow recorded, no bid is active (what cancel_offering relies on).
LEMMA NoEscrowNoActiveBid ==
  ASSUME Inv, escrowTotal <= 0
  PROVE  \A id \in BidIds : ~bids[id].active
<1>1. \A i \in 1..MaxBids : EscrowOf[i] \in Nat
  BY ActiveEscrowNat DEF Inv, EscrowOf, BidIds
<1>2. Sum(EscrowOf, MaxBids) \in Nat /\ \A i \in 1..MaxBids : EscrowOf[i] <= Sum(EscrowOf, MaxBids)
  BY <1>1, SumBounds, BoundsAssumption
<1>3. Sum(EscrowOf, MaxBids) <= 0 BY DEF Inv, EscrowBacked, SumEscrow, EscrowOf
<1>4. \A i \in BidIds : ActiveEscrow(i) = 0 BY <1>1, <1>2, <1>3 DEF EscrowOf, BidIds
<1> QED BY <1>4, ActiveEscrowNat DEF Inv

\* The calls that move no bid and no escrow preserve the invariant.
LEMMA OtherInv ==
  ASSUME Inv, bind_token \/ close_offering \/ cancel_offering \/ donate \/ UNCHANGED vars
  PROVE  Inv'
<1>1. /\ UNCHANGED <<bidSeq, escrowTotal, bids, idem, fractions, settlement>>
      /\ tokenBound' \in {tokenBound, TRUE}
  BY DEF bind_token, close_offering, cancel_offering, donate, vars
<1>2. /\ SumEscrow' = SumEscrow
      /\ \A b \in Bidders : OwedTo(b)' = OwedTo(b)
  BY <1>1 DEF SumEscrow, ActiveEscrow, OwedTo
<1>3. OneBidPerKey' /\ BidShape' BY <1>1 DEF Inv, OneBidPerKey, BidShape
<1>4. /\ status' \in Statuses
      /\ status' = "Settled" <=> status = "Settled"
      /\ status' # status /\ status' = "Cancelled" => cancel_offering
  BY DEF bind_token, close_offering, cancel_offering, donate, vars, Inv, TypeOK, Statuses
<1>5. NothingMinted' BY <1>1, <1>4 DEF Inv, NothingMinted
<1>6. TerminalHoldsNothing'
  <2>1. CASE cancel_offering
    <3>1. escrowTotal <= 0 BY <2>1 DEF cancel_offering
    <3> QED BY <3>1, <1>1, NoEscrowNoActiveBid DEF TerminalHoldsNothing
  <2>2. CASE ~cancel_offering
    BY <2>2, <1>1, <1>4 DEF Inv, TerminalHoldsNothing
  <2> QED BY <2>1, <2>2
<1>7. /\ usdc' \in [Accounts -> Nat] /\ donated' \in Nat
      /\ usdc'[Escrow] - donated' = usdc[Escrow] - donated
      /\ \A b \in Bidders : usdc'[b] = usdc[b]
  <2>0. Escrow \in Accounts /\ \A b \in Bidders : b # Escrow /\ b \in Accounts
    BY AddressAssumption DEF Accounts
  <2>1. CASE donate BY <2>0, <2>1 DEF donate, Inv, TypeOK
  <2>2. CASE UNCHANGED <<usdc, donated>> BY <2>0, <2>2 DEF Inv, TypeOK
  <2> QED BY <2>1, <2>2 DEF bind_token, close_offering, cancel_offering, vars
<1>8. TypeOK'
  <2>1. tokenBound' \in BOOLEAN BY <1>1 DEF Inv, TypeOK
  <2> QED BY <1>1, <1>4, <1>7, <2>1 DEF Inv, TypeOK
<1>9. EscrowBacked'
  <2>1. usdc[Escrow] \in Int /\ donated \in Int /\ usdc'[Escrow] \in Int /\ escrowTotal \in Int
    BY <1>7 DEF Inv, TypeOK, Accounts
  <2> QED BY <1>1, <1>2, <1>7, <2>1 DEF Inv, EscrowBacked
<1>10. BidderMadeWhole' BY <1>1, <1>2, <1>7 DEF Inv, BidderMadeWhole, InEscrow, OwedTo
<1> QED BY <1>3, <1>5, <1>6, <1>8, <1>9, <1>10 DEF Inv

-----------------------------------------------------------------------------
\* The platform fee of non-negative proceeds is between nothing and all of them.
LEMMA FeeBounds ==
  ASSUME NEW p \in Nat
  PROVE  PlatformFee(p) \in Nat /\ ArtistNet(p) \in Nat /\ PlatformFee(p) + ArtistNet(p) = p
<1>1. PlatformFee(p) \in Int /\ PlatformFee(p) >= 0 /\ PlatformFee(p) <= p
  BY DEF PlatformFee, PLATFORM_FEE_BPS
<1> QED BY <1>1 DEF ArtistNet

\* A validated allocation splits every bid's active escrow into a refund and a payment,
\* both non-negative.
LEMMA SplitOfBid ==
  ASSUME Inv, NEW price \in Int, NEW alloc \in [BidIds -> Int], SettleValid(price, alloc)
  PROVE  \A id \in BidIds :
           /\ alloc[id] \in Nat /\ price * alloc[id] \in Nat /\ Refund(price, alloc, id) \in Nat
           /\ ActiveEscrow(id) = Refund(price, alloc, id) + price * alloc[id]
<1> SUFFICES ASSUME NEW id \in BidIds
             PROVE  /\ alloc[id] \in Nat /\ price * alloc[id] \in Nat
                    /\ Refund(price, alloc, id) \in Nat
                    /\ ActiveEscrow(id) = Refund(price, alloc, id) + price * alloc[id]
  OBVIOUS
<1>1. ActiveEscrow(id) \in Nat BY ActiveEscrowNat DEF Inv
<1>2. CASE alloc[id] = 0
  <2>1. price * alloc[id] = 0 BY <1>2
  <2>2. Refund(price, alloc, id) = ActiveEscrow(id)
    BY <1>1, <2>1 DEF Refund, ActiveEscrow
  <2> QED BY <1>1, <1>2, <2>1, <2>2
<1>3. CASE alloc[id] # 0
  <2>1. /\ bids[id].active /\ alloc[id] >= 0 /\ price > 0
        /\ bids[id].escrow - price * alloc[id] >= 0
    BY <1>3 DEF SettleValid, AllocationValid
  <2>2. alloc[id] \in Nat /\ price * alloc[id] \in Nat BY <2>1
  <2>3. bids[id].escrow \in Int /\ ActiveEscrow(id) = bids[id].escrow
    BY <1>1, <2>1 DEF ActiveEscrow
  <2>4. Refund(price, alloc, id) = bids[id].escrow - price * alloc[id] BY <2>1 DEF Refund
  <2> QED BY <2>1, <2>2, <2>3, <2>4
<1> QED BY <1>2, <1>3

\* The conservation belt: what a validated settlement pays out is exactly the escrow held.
LEMMA BeltHolds ==
  ASSUME Inv, NEW price \in Int, NEW alloc \in [BidIds -> Int], SettleValid(price, alloc)
  PROVE  /\ Proceeds(price, alloc) \in Nat
         /\ Outflow(price, alloc) = SumEscrow
         /\ SumEscrow \in Nat
<1> DEFINE R == [id \in BidIds |-> Refund(price, alloc, id)]
           V == [id \in BidIds |-> price * alloc[id]]
<1>0. MaxBids \in Nat /\ BidIds = 1..MaxBids BY BoundsAssumption DEF BidIds
<1>1. \A id \in 1..MaxBids : R[id] \in Nat /\ V[id] \in Nat /\ EscrowOf[id] = R[id] + V[id]
  BY <1>0, SplitOfBid DEF EscrowOf
<1>2. SumRefund(price, alloc) = Sum(R, MaxBids) /\ Proceeds(price, alloc) = Sum(V, MaxBids)
      /\ SumEscrow = Sum(EscrowOf, MaxBids)
  BY DEF SumRefund, Proceeds, SumEscrow, EscrowOf
<1> HIDE DEF R, V
<1>3. Sum(R, MaxBids) \in Nat /\ Sum(V, MaxBids) \in Nat BY <1>0, <1>1, SumBounds
<1>4. Sum(EscrowOf, MaxBids) = Sum(R, MaxBids) + Sum(V, MaxBids)
  <2>1. IntegerTo(R, MaxBids) /\ IntegerTo(V, MaxBids) BY <1>1 DEF IntegerTo
  <2> QED BY <1>0, <1>1, <2>1, SumAdd
<1>5. Outflow(price, alloc) = SumRefund(price, alloc) + PlatformFee(Proceeds(price, alloc))
                              + ArtistNet(Proceeds(price, alloc))
  BY DEF Outflow
<1>6. /\ PlatformFee(Proceeds(price, alloc)) \in Nat /\ ArtistNet(Proceeds(price, alloc)) \in Nat
      /\ PlatformFee(Proceeds(price, alloc)) + ArtistNet(Proceeds(price, alloc)) = Proceeds(price, alloc)
  BY <1>2, <1>3, FeeBounds
<1> QED BY <1>2, <1>3, <1>4, <1>5, <1>6

\* What a bidder had in escrow is what it gets back plus the price of what it is allocated.
LEMMA BidderSplit ==
  ASSUME Inv, NEW price \in Int, NEW alloc \in [BidIds -> Int], SettleValid(price, alloc),
         NEW b \in Bidders
  PROVE  /\ RefundTo(price, alloc, b) \in Nat /\ AllocatedTo(alloc, b) \in Nat
         /\ price * AllocatedTo(alloc, b) \in Nat
         /\ Sum(OwedTo(b), MaxBids) = RefundTo(price, alloc, b) + price * AllocatedTo(alloc, b)
<1> DEFINE R == [id \in BidIds |-> IF bids[id].bidder = b THEN Refund(price, alloc, id) ELSE 0]
           A == [id \in BidIds |-> IF bids[id].bidder = b THEN alloc[id] ELSE 0]
           V == [id \in BidIds |-> price * A[id]]
<1>0. MaxBids \in Nat /\ BidIds = 1..MaxBids BY BoundsAssumption DEF BidIds
<1>1. \A id \in 1..MaxBids : /\ R[id] \in Nat /\ A[id] \in Nat /\ V[id] \in Nat
                             /\ V[id] = price * A[id]
                             /\ OwedTo(b)[id] = R[id] + V[id]
  <2> SUFFICES ASSUME NEW id \in BidIds
               PROVE  /\ R[id] \in Nat /\ A[id] \in Nat /\ V[id] \in Nat
                      /\ V[id] = price * A[id]
                      /\ OwedTo(b)[id] = R[id] + V[id]
    BY <1>0
  <2>1. /\ alloc[id] \in Nat /\ price * alloc[id] \in Nat /\ Refund(price, alloc, id) \in Nat
        /\ ActiveEscrow(id) = Refund(price, alloc, id) + price * alloc[id]
    BY SplitOfBid
  <2>2. CASE bids[id].bidder = b BY <2>1, <2>2 DEF OwedTo
  <2>3. CASE bids[id].bidder # b
    <3>1. price * 0 = 0 OBVIOUS
    <3> QED BY <2>3, <3>1 DEF OwedTo
  <2> QED BY <2>2, <2>3
<1>2. RefundTo(price, alloc, b) = Sum(R, MaxBids) /\ AllocatedTo(alloc, b) = Sum(A, MaxBids)
  BY DEF RefundTo, AllocatedTo
<1> HIDE DEF R, A, V
<1>3. Sum(R, MaxBids) \in Nat /\ Sum(A, MaxBids) \in Nat /\ Sum(V, MaxBids) \in Nat
  BY <1>0, <1>1, SumBounds
<1>4. IntegerTo(R, MaxBids) /\ IntegerTo(A, MaxBids) /\ IntegerTo(V, MaxBids)
  BY <1>1 DEF IntegerTo
<1>5. Sum(OwedTo(b), MaxBids) = Sum(R, MaxBids) + Sum(V, MaxBids)
  BY <1>0, <1>1, <1>4, SumAdd
<1>6. Sum(V, MaxBids) = price * Sum(A, MaxBids)
  BY <1>0, <1>1, <1>4, SumScale
<1> QED BY <1>2, <1>3, <1>5, <1>6

\* close_and_settle preserves the invariant.
LEMMA SettleInv ==
  ASSUME Inv, NEW price \in ClearingPrices, NEW alloc \in [BidIds -> Allocations],
         close_and_settle(price, alloc)
  PROVE  Inv'
<1>0. price \in Int /\ alloc \in [BidIds -> Int] /\ SettleValid(price, alloc)
  BY InputsAssumption DEF close_and_settle
<1>1. /\ status = "Closed" /\ status' = "Settled" /\ escrowTotal' = 0
      /\ bids' = [id \in BidIds |-> [bids[id] EXCEPT !.active = FALSE]]
      /\ usdc' = Payments(price, alloc)
      /\ fractions' = Minted(alloc)
      /\ settlement' = [price |-> price, alloc |-> alloc]
      /\ UNCHANGED <<tokenBound, bidSeq, idem, donated>>
  BY DEF close_and_settle
<1> DEFINE P == Proceeds(price, alloc)
<1>2. P \in Nat /\ Outflow(price, alloc) = SumEscrow /\ SumEscrow \in Nat BY <1>0, BeltHolds
<1>3. PlatformFee(P) \in Nat /\ ArtistNet(P) \in Nat BY <1>2, FeeBounds
<1>4. /\ \A b \in Bidders : usdc'[b] = usdc[b] + RefundTo(price, alloc, b)
      /\ usdc'[Treasury] = usdc[Treasury] + PlatformFee(P)
      /\ usdc'[Payout] = usdc[Payout] + ArtistNet(P)
      /\ usdc'[Escrow] = usdc[Escrow] - Outflow(price, alloc)
      /\ usdc' = [a \in Accounts |-> usdc'[a]]
  <2>1. Treasury \notin Bidders /\ Payout \notin Bidders /\ Escrow \notin Bidders
        /\ Treasury # Payout /\ Escrow # Treasury /\ Escrow # Payout
    BY AddressAssumption DEF Treasury, Payout, Escrow
  <2>2. usdc[Escrow] \in Int /\ Outflow(price, alloc) \in Int
    BY <1>2 DEF Inv, TypeOK, Accounts
  <2> QED BY <1>1, <2>1, <2>2 DEF Payments, Accounts
<1>5. /\ \A b \in Bidders : fractions'[b] = fractions[b] + AllocatedTo(alloc, b)
      /\ fractions'[Artist] = fractions[Artist] + (ArtistRetention + LeftoverToArtist)
      /\ fractions'[Treasury] = fractions[Treasury] + TreasuryRetention
      /\ fractions' = [h \in Holders |-> fractions'[h]]
  <2>1. Treasury \notin Bidders /\ Artist \notin Bidders /\ Treasury # Artist
    BY AddressAssumption DEF Treasury, Artist
  <2> QED BY <1>1, <2>1 DEF Minted, Holders
<1>6. \A b \in Bidders : /\ RefundTo(price, alloc, b) \in Nat /\ AllocatedTo(alloc, b) \in Nat
                         /\ Sum(OwedTo(b), MaxBids) = RefundTo(price, alloc, b)
                                                      + price * AllocatedTo(alloc, b)
  BY <1>0, BidderSplit
<1>7. usdc[Escrow] = SumEscrow + donated /\ donated \in Nat BY DEF Inv, TypeOK, EscrowBacked
<1>8. usdc'[Escrow] = donated BY <1>2, <1>4, <1>7
<1>9. \A id \in BidIds : bids'[id] = [bids[id] EXCEPT !.active = FALSE] BY <1>1
<1>10. \A id \in BidIds : /\ bids'[id] \in Bid \cup {NoBid}
                          /\ bids'[id] # NoBid <=> bids[id] # NoBid
                          /\ ~bids'[id].active
                          /\ bids'[id].price = bids[id].price /\ bids'[id].count = bids[id].count
                          /\ bids'[id].escrow = bids[id].escrow
  <2> SUFFICES ASSUME NEW id \in BidIds
               PROVE  /\ bids'[id] \in Bid \cup {NoBid}
                      /\ bids'[id] # NoBid <=> bids[id] # NoBid
                      /\ ~bids'[id].active
                      /\ bids'[id].price = bids[id].price /\ bids'[id].count = bids[id].count
                      /\ bids'[id].escrow = bids[id].escrow
    OBVIOUS
  <2>1. CASE bids[id] = NoBid BY <2>1, <1>9 DEF NoBid
  <2>2. CASE bids[id] # NoBid
    <3>1. bids[id] \in Bid BY <2>2 DEF Inv, TypeOK
    <3>2. bids'[id] \in Bid BY <3>1, <1>9 DEF Bid
    <3>3. bids'[id] # NoBid BY <3>2, AddressAssumption DEF Bid, NoBid
    <3> QED BY <3>1, <3>2, <3>3, <2>2, <1>9 DEF Bid
  <2> QED BY <2>1, <2>2
<1>11. TypeOK'
  <2>1. usdc' \in [Accounts -> Nat]
    BY <1>3, <1>4, <1>6, <1>7, <1>8 DEF Inv, TypeOK, Accounts
  <2>2. fractions' \in [Holders -> Nat]
    BY <1>5, <1>6, ParamsAssumption DEF Inv, TypeOK, Holders
  <2>3. bids' \in [BidIds -> Bid \cup {NoBid}] BY <1>1, <1>10
  <2>4. settlement' \in [price: Int, alloc: [BidIds -> Int]] BY <1>0, <1>1
  <2> QED BY <1>1, <2>1, <2>2, <2>3, <2>4 DEF Inv, TypeOK, Statuses
<1>12. \A id \in BidIds : ActiveEscrow(id)' = 0 BY <1>10 DEF ActiveEscrow
<1>13. EscrowBacked'
  <2>1. SumEscrow' = 0 BY <1>12, SumZero, BoundsAssumption DEF SumEscrow, BidIds
  <2> QED BY <1>1, <1>7, <1>8, <2>1 DEF EscrowBacked
<1>14. OneBidPerKey' BY <1>1, <1>10 DEF Inv, OneBidPerKey
<1>15. BidShape' BY <1>10 DEF Inv, BidShape
<1>16. TerminalHoldsNothing' /\ NothingMinted'
  BY <1>1, <1>10 DEF TerminalHoldsNothing, NothingMinted
<1>17. BidderMadeWhole'
  <2> SUFFICES ASSUME NEW b \in Bidders
               PROVE  usdc'[b] = InitialUsdc - Sum(OwedTo(b)', MaxBids)
                                 - settlement'.price * fractions'[b]
    BY DEF BidderMadeWhole, InEscrow, OwedTo
  <2>1. Sum(OwedTo(b)', MaxBids) = 0
    BY <1>12, SumZero, BoundsAssumption DEF OwedTo, BidIds
  <2>2. usdc[b] = InitialUsdc - Sum(OwedTo(b), MaxBids) - settlement.price * fractions[b]
    BY DEF Inv, BidderMadeWhole, InEscrow, OwedTo
  <2>3. settlement.price = 0 /\ fractions[b] = 0
    BY <1>1 DEF Inv, NothingMinted, NoSettlement, Holders
  <2>4. settlement'.price = price /\ fractions'[b] = AllocatedTo(alloc, b)
    BY <1>1, <1>5, <1>6, <2>3
  <2>5. price * AllocatedTo(alloc, b) \in Int BY <1>0, <1>6
  <2>6. InitialUsdc \in Int BY BoundsAssumption
  <2> QED BY <1>4, <1>6, <2>1, <2>2, <2>3, <2>4, <2>5, <2>6
<1> QED BY <1>11, <1>13, <1>14, <1>15, <1>16, <1>17 DEF Inv

-----------------------------------------------------------------------------
\* Every step of the contract, and every stuttering step, preserves the invariant.
LEMMA NextInv == Inv /\ [Next]_vars => Inv'
<1> SUFFICES ASSUME Inv, [Next]_vars PROVE Inv' OBVIOUS
<1>1. CASE \E b \in Bidders, p \in Prices, c \in Counts, k \in Keys : submit_bid(b, p, c, k)
  BY <1>1, SubmitInv
<1>2. CASE \E b \in Bidders, id \in BidIds : cancel_bid(b, id)
  BY <1>2, CancelBidInv
<1>3. CASE \E p \in ClearingPrices, alloc \in [BidIds -> Allocations] : close_and_settle(p, alloc)
  BY <1>3, SettleInv
<1>4. CASE bind_token \/ close_offering \/ cancel_offering \/ donate \/ UNCHANGED vars
  BY <1>4, OtherInv
<1> QED BY <1>1, <1>2, <1>3, <1>4 DEF Next

\* The inductive invariant holds in every reachable state.
THEOREM Invariance == Spec => []Inv
BY InitInv, NextInv, PTL DEF Spec

\* submit_bid, cancel_bid, close_and_settle: the contract's balances, counters and records
\* keep their types; no transfer it makes overdraws an account.
THEOREM TypeCorrect == Spec => []TypeOK
<1>1. Inv => TypeOK BY DEF Inv
<1> QED BY <1>1, Invariance, PTL

\* EscrowTotal is the sum of the active bids' escrow, and the USDC is there.
THEOREM EscrowIsBacked == Spec => []EscrowBacked
<1>1. Inv => EscrowBacked BY DEF Inv
<1> QED BY <1>1, Invariance, PTL

\* submit_bid's idempotency keys and the recorded bids are in one-to-one correspondence.
THEOREM KeysAreUnique == Spec => []OneBidPerKey
<1>1. Inv => OneBidPerKey BY DEF Inv
<1> QED BY <1>1, Invariance, PTL

-----------------------------------------------------------------------------
(***************************************************************************)
(* What the settlement leaves behind.  SettledExactly speaks of sums over  *)
(* the holders; the allocations are summed over the bids.                  *)
(***************************************************************************)
\* Before the settlement neither treasury nor artist has been paid.
NothingPaid == status # "Settled" => usdc[Treasury] = 0 /\ usdc[Payout] = 0

PaidInv == NothingPaid /\ SettledExactly

\* The supply is what the artist, the treasury and the bidders hold.
LEMMA SupplySplit ==
  ASSUME NEW f \in [Holders -> Int]
  PROVE  /\ SumFunctionOnSet(f, Bidders) = SetSum(f, Bidders)
         /\ SetSum(f, Bidders) \in Int
         /\ SumFunction(f) = f[Artist] + f[Treasury] + SetSum(f, Bidders)
<1>1. /\ IsFiniteSet(Bidders) /\ Treasury \notin Bidders /\ Artist \notin Bidders
      /\ Treasury # Artist
  BY AddressAssumption DEF Treasury, Artist
<1> DEFINE Most == Bidders \cup {Treasury}
<1>2. Holders = Most \cup {Artist} /\ Artist \notin Most BY <1>1 DEF Holders
<1>3. IsFiniteSet(Most) BY <1>1, FS_AddElement
<1>4. IsFiniteSet(Holders) BY <1>2, <1>3, FS_AddElement
<1>5. IntegerOn(f, Holders) /\ IntegerOn(f, Most) /\ IntegerOn(f, Bidders)
  BY <1>2 DEF IntegerOn
<1>6. Holders \ {Artist} = Most /\ Most \ {Treasury} = Bidders BY <1>1, <1>2
<1>7. SetSum(f, Holders) = f[Artist] + SetSum(f, Most)
  BY <1>2, <1>4, <1>5, <1>6, SetSumStep
<1>8. SetSum(f, Most) = f[Treasury] + SetSum(f, Bidders)
  <2>1. Treasury \in Most OBVIOUS
  <2> HIDE DEF Most
  <2> QED BY <1>3, <1>5, <1>6, <2>1, SetSumStep
<1>9. SumFunctionOnSet(f, Bidders) = SetSum(f, Bidders) BY <1>1, <1>5, FunctionSum
<1>10. SumFunctionOnSet(f, Holders) = SetSum(f, Holders) BY <1>4, <1>5, FunctionSum
<1>11. SumFunction(f) = SumFunctionOnSet(f, Holders) BY DEF SumFunction
<1>12. SetSum(f, Bidders) \in Int BY <1>1, <1>5, SetSumStep
<1>13. f[Artist] \in Int /\ f[Treasury] \in Int BY DEF Holders
<1> QED BY <1>7, <1>8, <1>9, <1>10, <1>11, <1>12, <1>13

\* If no holder holds anything, the sums are zero.
LEMMA NothingSums ==
  ASSUME NEW f \in [Holders -> Int], \A h \in Holders : f[h] = 0
  PROVE  SumFunction(f) = 0 /\ SumFunctionOnSet(f, Bidders) = 0
<1>1. IsFiniteSet(Bidders) /\ IntegerOn(f, Bidders)
  BY AddressAssumption DEF IntegerOn, Holders
<1>2. SetSum(f, Bidders) = SetSum(f, {})
  <2>1. {} \in SUBSET Bidders /\ \A b \in Bidders \ {} : f[b] = 0 BY DEF Holders
  <2> QED BY <1>1, <2>1, SetSumSubset
<1>3. SetSum(f, {}) = 0 BY <1>1, SetSumStep
<1>4. f[Artist] = 0 /\ f[Treasury] = 0 BY DEF Holders
<1> QED BY <1>2, <1>3, <1>4, SupplySplit

\* Nothing is minted and nobody paid when the contract is constructed.
LEMMA PaidInit == Init => PaidInv
<1> SUFFICES ASSUME Init PROVE PaidInv OBVIOUS
<1>1. /\ status = "Open" /\ settlement.price = 0
      /\ usdc[Treasury] = 0 /\ usdc[Payout] = 0
  BY AddressAssumption DEF Init, NoSettlement, Accounts, Treasury, Payout
<1>2. fractions \in [Holders -> Int] /\ \A h \in Holders : fractions[h] = 0 BY DEF Init
<1>3. SumFunction(fractions) = 0 /\ SumFunctionOnSet(fractions, Bidders) = 0
  BY <1>2, NothingSums
<1> QED BY <1>1, <1>3 DEF PaidInv, NothingPaid, SettledExactly, SupplyMintedOnce,
                          ProceedsSplit, PLATFORM_FEE_BPS

\* Every call but close_and_settle leaves the fractions and the proceeds alone.
LEMMA PaidOther ==
  ASSUME Inv, PaidInv, [Next]_vars, status' # "Settled" \/ status = "Settled"
  PROVE  PaidInv'
<1>1. \A p \in ClearingPrices, alloc \in [BidIds -> Allocations] : ~close_and_settle(p, alloc)
  BY DEF close_and_settle
<1>2. UNCHANGED <<fractions, settlement>> /\ (status' = "Settled" <=> status = "Settled")
  BY <1>1 DEF Next, vars, bind_token, submit_bid, cancel_bid, close_offering,
              cancel_offering, donate
<1>3. usdc'[Treasury] = usdc[Treasury] /\ usdc'[Payout] = usdc[Payout]
  <2>0. /\ usdc \in [Accounts -> Nat] /\ Treasury \in Accounts /\ Payout \in Accounts
        /\ Treasury \notin Bidders \cup {Escrow} /\ Payout \notin Bidders \cup {Escrow}
    BY AddressAssumption DEF Inv, TypeOK, Accounts, Treasury, Payout, Escrow
  <2>1. CASE \E b \in Bidders, p \in Prices, c \in Counts, k \in Keys : submit_bid(b, p, c, k)
    BY <2>0, <2>1 DEF submit_bid, Transfer
  <2>2. CASE \E b \in Bidders, id \in BidIds : cancel_bid(b, id)
    BY <2>0, <2>2 DEF cancel_bid, Transfer
  <2>3. CASE bind_token \/ close_offering \/ cancel_offering \/ donate \/ UNCHANGED vars
    BY <2>0, <2>3 DEF bind_token, close_offering, cancel_offering, donate, vars
  <2> QED BY <1>1, <2>1, <2>2, <2>3 DEF Next
<1>4. NothingPaid' BY <1>2, <1>3 DEF PaidInv, NothingPaid
<1>5. SupplyMintedOnce' BY <1>2 DEF PaidInv, SettledExactly, SupplyMintedOnce
<1>6. ProceedsSplit' BY <1>2, <1>3 DEF PaidInv, SettledExactly, ProceedsSplit
<1> QED BY <1>4, <1>5, <1>6 DEF PaidInv, SettledExactly

\* close_and_settle mints the supply and splits the proceeds.
LEMMA PaidSettle ==
  ASSUME Inv, Inv', PaidInv, NEW price \in ClearingPrices,
         NEW alloc \in [BidIds -> Allocations], close_and_settle(price, alloc)
  PROVE  PaidInv'
<1>0. price \in Int /\ alloc \in [BidIds -> Int] /\ SettleValid(price, alloc)
  BY InputsAssumption DEF close_and_settle
<1>1. /\ status = "Closed" /\ status' = "Settled"
      /\ usdc' = Payments(price, alloc) /\ fractions' = Minted(alloc)
      /\ settlement' = [price |-> price, alloc |-> alloc]
  BY DEF close_and_settle
<1> DEFINE P == Proceeds(price, alloc)
           A == SumAllocated(alloc)
<1>2. P \in Nat BY <1>0, BeltHolds
<1>3. PlatformFee(P) \in Nat /\ ArtistNet(P) \in Nat /\ PlatformFee(P) + ArtistNet(P) = P
  BY <1>2, FeeBounds
<1>4. usdc'[Treasury] = PlatformFee(P) /\ usdc'[Payout] = ArtistNet(P)
  <2>1. Treasury \notin Bidders /\ Payout \notin Bidders /\ Treasury # Payout
    BY AddressAssumption DEF Treasury, Payout
  <2>2. usdc[Treasury] = 0 /\ usdc[Payout] = 0 BY <1>1 DEF PaidInv, NothingPaid
  <2> QED BY <1>1, <1>3, <2>1, <2>2 DEF Payments, Accounts
<1>5. /\ \A b \in Bidders : fractions'[b] = AllocatedTo(alloc, b)
      /\ fractions'[Artist] = ArtistRetention + LeftoverToArtist
      /\ fractions'[Treasury] = TreasuryRetention
  <2>1. Treasury \notin Bidders /\ Artist \notin Bidders /\ Treasury # Artist
    BY AddressAssumption DEF Treasury, Artist
  <2>2. \A h \in Holders : fractions[h] = 0 BY <1>1 DEF Inv, NothingMinted
  <2>3. \A b \in Bidders : AllocatedTo(alloc, b) \in Nat BY <1>0, BidderSplit
  <2> QED BY <1>1, <2>1, <2>2, <2>3, ParamsAssumption DEF Minted, Holders
<1>6. fractions' \in [Holders -> Int] BY DEF Inv, TypeOK
<1>7. IntegerTo(alloc, MaxBids) /\ MaxBids \in Nat
  BY <1>0, BoundsAssumption DEF IntegerTo, BidIds
<1>8. SetSum(fractions', Bidders) = A
  <2> DEFINE who == [id \in BidIds |-> bids[id].bidder]
             by  == [b \in Bidders |-> AllocatedTo(alloc, b)]
  <2>1. \A id \in 1..MaxBids : alloc[id] # 0 => who[id] \in Bidders
    BY <1>0 DEF SettleValid, AllocationValid, Inv, TypeOK, Bid, BidIds
  <2>2. by = [b \in Bidders |->
                Sum([id \in 1..MaxBids |-> IF who[id] = b THEN alloc[id] ELSE 0], MaxBids)]
    <3>1. \A b \in Bidders : AllocatedTo(alloc, b) =
            Sum([id \in 1..MaxBids |-> IF who[id] = b THEN alloc[id] ELSE 0], MaxBids)
      <4> SUFFICES ASSUME NEW b \in Bidders
                   PROVE  AllocatedTo(alloc, b) =
                     Sum([id \in 1..MaxBids |-> IF who[id] = b THEN alloc[id] ELSE 0], MaxBids)
        OBVIOUS
      <4>1. [id \in BidIds |-> IF bids[id].bidder = b THEN alloc[id] ELSE 0]
              = [id \in 1..MaxBids |-> IF who[id] = b THEN alloc[id] ELSE 0]
        BY DEF BidIds
      <4> QED BY <4>1 DEF AllocatedTo
    <3> QED BY <3>1
  <2>3. IsFiniteSet(Bidders) BY AddressAssumption
  <2>4. SetSum(by, Bidders) = Sum(alloc, MaxBids)
    <3> HIDE DEF who, by
    <3> QED BY <1>7, <2>1, <2>2, <2>3, SetSumByOwner
  <2>5. IntegerOn(fractions', Bidders) BY <1>6 DEF IntegerOn, Holders
  <2>6. \A b \in Bidders : by[b] = fractions'[b] BY <1>5
  <2>7. SetSum(by, Bidders) = SetSum(fractions', Bidders)
    <3> HIDE DEF by
    <3> QED BY <2>3, <2>5, <2>6, SetSumExt
  <2> QED BY <2>4, <2>7 DEF SumAllocated
<1>9. A \in Int BY <1>7, PrefixSumsIs DEF SumAllocated
<1>10. P = price * A
  <2> DEFINE paid == [id \in BidIds |-> price * alloc[id]]
  <2>1. \A i \in 1..MaxBids : paid[i] = price * alloc[i] BY DEF BidIds
  <2>2. Proceeds(price, alloc) = Sum(paid, MaxBids) BY DEF Proceeds
  <2> HIDE DEF paid
  <2> QED BY <1>0, <1>7, <2>1, <2>2, SumScale DEF SumAllocated
<1>11. SumFunction(fractions') = TotalSupply
  <2>1. A + ArtistRetention + TreasuryRetention + LeftoverToArtist = TotalSupply
    BY <1>0 DEF SettleValid, MintInvariant
  <2>2. SumFunction(fractions') = fractions'[Artist] + fractions'[Treasury] + A
    BY <1>6, <1>8, SupplySplit
  <2> HIDE DEF A
  <2> QED BY <1>5, <1>9, <2>1, <2>2, ParamsAssumption
<1>12. SumFunctionOnSet(fractions', Bidders) = A BY <1>6, <1>8, SupplySplit
<1>13. SupplyMintedOnce' BY <1>1, <1>11 DEF SupplyMintedOnce
<1>14. ProceedsSplit'
  <2>1. settlement'.price * SumFunctionOnSet(fractions', Bidders) = P BY <1>1, <1>10, <1>12
  <2> HIDE DEF P
  <2>2. /\ 10000 * PlatformFee(P) <= PLATFORM_FEE_BPS * P
        /\ PLATFORM_FEE_BPS * P < 10000 * (PlatformFee(P) + 1)
    BY <1>2 DEF PlatformFee, PLATFORM_FEE_BPS
  <2> QED BY <1>3, <1>4, <2>1, <2>2 DEF ProceedsSplit
<1>15. NothingPaid' BY <1>1 DEF NothingPaid
<1> QED BY <1>13, <1>14, <1>15 DEF PaidInv, SettledExactly

\* Every step keeps it.
LEMMA PaidNext == Inv /\ PaidInv /\ Inv' /\ [Next]_vars => PaidInv'
<1> SUFFICES ASSUME Inv, PaidInv, Inv', [Next]_vars PROVE PaidInv' OBVIOUS
<1>1. CASE \E p \in ClearingPrices, alloc \in [BidIds -> Allocations] : close_and_settle(p, alloc)
  BY <1>1, PaidSettle
<1>2. CASE ~ \E p \in ClearingPrices, alloc \in [BidIds -> Allocations] :
               close_and_settle(p, alloc)
  <2>1. status' # "Settled" \/ status = "Settled"
    BY <1>2 DEF Next, vars, bind_token, submit_bid, cancel_bid, close_offering,
                cancel_offering, donate
  <2> QED BY <2>1, PaidOther
<1> QED BY <1>1, <1>2

\* close_and_settle: after it, and only after it, the whole supply is held, and the price
\* of what the bidders hold has been split between treasury and artist.
THEOREM SettlementIsExact == Spec => []SettledExactly
<1>1. PaidInv => SettledExactly BY DEF PaidInv
<1> QED BY <1>1, PaidNext, PaidInit, Invariance, PTL DEF Spec

\* A settled or cancelled offering holds no active bid.
THEOREM TerminalIsEmpty == Spec => []TerminalHoldsNothing
<1>1. Inv => TerminalHoldsNothing BY DEF Inv
<1> QED BY <1>1, Invariance, PTL

\* Bidders pay the uniform price of what they are allocated and not a unit more.
THEOREM BiddersAreWhole == Spec => []BidderMadeWhole
<1>1. Inv => BidderMadeWhole BY DEF Inv
<1> QED BY <1>1, Invariance, PTL

\* The conservation belt of close_and_settle is redundant: every validated settlement of a
\* closed offering pays out exactly the escrow held, which the contract has.
THEOREM BeltIsRedundant == Spec => []SettlePayable
<1>1. Inv => SettlePayable
  <2> SUFFICES ASSUME Inv, status = "Closed", NEW price \in ClearingPrices,
                      NEW alloc \in [BidIds -> Allocations], SettleValid(price, alloc)
               PROVE  Belt(price, alloc) /\ Outflow(price, alloc) <= usdc[Escrow]
    BY DEF SettlePayable
  <2>1. price \in Int /\ alloc \in [BidIds -> Int] BY InputsAssumption
  <2>2. Outflow(price, alloc) = SumEscrow /\ SumEscrow \in Nat BY <2>1, BeltHolds
  <2>3. usdc[Escrow] = SumEscrow + donated /\ donated \in Nat BY DEF Inv, TypeOK, EscrowBacked
  <2> QED BY <2>2, <2>3 DEF Belt
<1> QED BY <1>1, Invariance, PTL

\* No call rewrites, removes or revives a recorded bid.
THEOREM RecordedBidsStay == Spec => BidsWriteOnce
<1> DEFINE Kept == \A id \in BidIds : bids[id] # NoBid =>
                     bids'[id] \in {bids[id], [bids[id] EXCEPT !.active = FALSE]}
<1>1. Inv /\ [Next]_vars => [Kept]_vars
  <2> SUFFICES ASSUME Inv, [Next]_vars, NEW id \in BidIds, bids[id] # NoBid
               PROVE  bids'[id] \in {bids[id], [bids[id] EXCEPT !.active = FALSE]}
    OBVIOUS
  <2>1. ASSUME NEW b \in Bidders, NEW p \in Prices, NEW c \in Counts, NEW k \in Keys,
               submit_bid(b, p, c, k)
        PROVE  bids'[id] = bids[id]
    <3>1. bidSeq + 1 # id BY DEF Inv, OneBidPerKey, TypeOK, BidIds
    <3> QED BY <2>1, <3>1 DEF submit_bid, next_bid_id, Inv, TypeOK
  <2>2. ASSUME NEW b \in Bidders, NEW i \in BidIds, cancel_bid(b, i)
        PROVE  bids'[id] \in {bids[id], [bids[id] EXCEPT !.active = FALSE]}
    BY <2>2 DEF cancel_bid, Inv, TypeOK
  <2>3. ASSUME NEW p \in ClearingPrices, NEW alloc \in [BidIds -> Allocations],
               close_and_settle(p, alloc)
        PROVE  bids'[id] = [bids[id] EXCEPT !.active = FALSE]
    BY <2>3 DEF close_and_settle
  <2>4. CASE bind_token \/ close_offering \/ cancel_offering \/ donate \/ UNCHANGED vars
    BY <2>4 DEF bind_token, close_offering, cancel_offering, donate, vars
  <2> QED BY <2>1, <2>2, <2>3, <2>4 DEF Next
<1> QED BY <1>1, Invariance, PTL DEF Spec, BidsWriteOnce

\* No call changes a settled or cancelled offering.
THEOREM TerminalStays == Spec => TerminalIsFinal
<1> DEFINE Final == (status = "Settled" \/ status = "Cancelled") =>
                      UNCHANGED <<status, bidSeq, bids, idem, escrowTotal, fractions, settlement>>
<1>1. Inv /\ [Next]_vars => [Final]_vars
  BY DEF Next, bind_token, submit_bid, cancel_bid, close_offering, cancel_offering,
         close_and_settle, donate, vars
<1> QED BY <1>1, Invariance, PTL DEF Spec, TerminalIsFinal

-----------------------------------------------------------------------------
(***************************************************************************)
(* The refinement of Auction: the constructor starts an auction, and every *)
(* call is one of its steps or leaves it as it was.                        *)
(***************************************************************************)
\* What a bidder has in the escrow covers each of its active bids.
LEMMA StakeCovers ==
  ASSUME Inv, NEW b \in Bidders
  PROVE  /\ InEscrow(b) \in Nat
         /\ \A id \in BidIds : bids[id].bidder = b => ActiveEscrow(id) <= InEscrow(b)
<1>1. \A id \in 1..MaxBids : OwedTo(b)[id] \in Nat
  BY ActiveEscrowNat DEF Inv, OwedTo, BidIds
<1>2. InEscrow(b) = Sum(OwedTo(b), MaxBids) BY DEF InEscrow, OwedTo
<1>3. /\ Sum(OwedTo(b), MaxBids) \in Nat
      /\ \A id \in 1..MaxBids : OwedTo(b)[id] <= Sum(OwedTo(b), MaxBids)
  BY <1>1, SumBounds, BoundsAssumption
<1> QED BY <1>2, <1>3 DEF OwedTo, BidIds

\* The constructor starts the auction.
LEMMA SaleInit == Init => Sale!Init
<1> SUFFICES ASSUME Init PROVE Sale!Init OBVIOUS
<1>1. Inv BY InitInv
<1>2. Phase = "collecting" BY DEF Init, Phase
<1>3. \A b \in Bidders : usdc[b] = InitialUsdc /\ fractions[b] = 0
  BY DEF Init, Accounts, Holders
<1>4. settlement.price = 0 BY DEF Init, NoSettlement
<1>5. \A b \in Bidders : InEscrow(b) = 0
  <2> SUFFICES ASSUME NEW b \in Bidders PROVE InEscrow(b) = 0 OBVIOUS
  <2>1. InEscrow(b) \in Nat BY <1>1, StakeCovers
  <2>2. usdc[b] = InitialUsdc - InEscrow(b) - settlement.price * fractions[b]
    BY <1>1 DEF Inv, BidderMadeWhole
  <2>3. 0 * 0 = 0 OBVIOUS
  <2> QED BY <1>3, <1>4, <2>1, <2>2, <2>3, BoundsAssumption
<1>6. usdc[Treasury] + usdc[Payout] = 0
  BY AddressAssumption DEF Init, Accounts, Treasury, Payout
<1> QED BY <1>2, <1>3, <1>4, <1>5, <1>6 DEF Sale!Init, Sale!Nothing

\* The stakes are natural numbers ...
StakesNat == \A b \in Bidders : InEscrow(b) \in Nat

\* ... before and after a step that keeps the invariant.
LEMMA StakesStayNat == (Inv => StakesNat) /\ (Inv' => StakesNat')
<1>1. Inv => StakesNat BY StakeCovers DEF StakesNat
<1> QED BY <1>1, PTL

\* While nothing is settled, a stake gains what the wallet loses.
LEMMA StakeMirrorsWallet ==
  ASSUME Inv, Inv', UNCHANGED <<fractions, settlement>>, NEW b \in Bidders
  PROVE  /\ InEscrow(b) \in Nat /\ InEscrow(b)' \in Nat
         /\ usdc[b] \in Nat /\ usdc'[b] \in Nat
         /\ InEscrow(b)' = InEscrow(b) + usdc[b] - usdc'[b]
<1>2. InEscrow(b) \in Nat /\ InEscrow(b)' \in Nat BY StakesStayNat DEF StakesNat
<1>3. usdc[b] \in Nat /\ usdc'[b] \in Nat BY DEF Inv, TypeOK, Accounts
<1>4. settlement.price * fractions[b] \in Int
  BY DEF Inv, TypeOK, Holders
<1>5. usdc[b] = InitialUsdc - InEscrow(b) - settlement.price * fractions[b]
  BY DEF Inv, BidderMadeWhole
<1>6. usdc'[b] = InitialUsdc - InEscrow(b)' - settlement.price * fractions[b]
  BY DEF Inv, BidderMadeWhole
<1> QED BY <1>2, <1>3, <1>4, <1>5, <1>6, BoundsAssumption

\* submit_bid is a stake of price times count.
LEMMA SubmitIsStake ==
  ASSUME Inv, Inv', NEW b \in Bidders, NEW p \in Prices, NEW c \in Counts, NEW k \in Keys,
         submit_bid(b, p, c, k)
  PROVE  \E amount \in 1..usdc[b] : Sale!Stake(b, amount)
<1>1. PICK e \in Nat \ {0} : e = p * c
  <2>1. p \in Int /\ c \in Int /\ p > 0 /\ c > 0 BY InputsAssumption DEF submit_bid
  <2>2. p * c \in Int /\ p * c > 0 BY <2>1
  <2> QED BY <2>2
<1>2. /\ status = "Open" /\ usdc[b] >= e /\ usdc' = Transfer(usdc, b, Escrow, e)
      /\ UNCHANGED <<status, fractions, settlement>>
  BY <1>1 DEF submit_bid
<1>3. \A a \in Accounts \ {Escrow} : usdc'[a] = IF a = b THEN usdc[a] - e ELSE usdc[a]
  BY <1>2, AddressAssumption DEF Transfer, Inv, TypeOK, Accounts
<1>4. Treasury \notin Bidders /\ Payout \notin Bidders /\ Escrow \notin Bidders
      /\ Treasury # Escrow /\ Payout # Escrow
  BY AddressAssumption DEF Treasury, Payout, Escrow
<1>5. /\ usdc[b] \in Nat
      /\ \A q \in Bidders : /\ usdc'[q] = IF q = b THEN usdc[q] - e ELSE usdc[q]
                            /\ InEscrow(q)' = IF q = b THEN InEscrow(q) + e ELSE InEscrow(q)
  BY <1>2, <1>3, <1>4, StakeMirrorsWallet DEF Accounts
<1>6. usdc'[Treasury] + usdc'[Payout] = usdc[Treasury] + usdc[Payout]
  BY <1>3, <1>4 DEF Accounts
<1>7. Phase = "collecting" /\ Phase' = Phase BY <1>2 DEF Phase
<1>8. [q \in Bidders |-> fractions'[q]] = [q \in Bidders |-> fractions[q]] BY <1>2
<1>9. Sale!Stake(b, e) BY <1>2, <1>5, <1>6, <1>7, <1>8 DEF Sale!Stake
<1>10. e \in 1..usdc[b] BY <1>2, <1>5
<1> QED BY <1>9, <1>10

\* cancel_bid is the withdrawal of that bid's escrow.
LEMMA CancelIsWithdrawal ==
  ASSUME Inv, Inv', NEW b \in Bidders, NEW id \in BidIds, cancel_bid(b, id)
  PROVE  \E amount \in 1..InEscrow(b) : Sale!Withdraw(b, amount)
<1>1. PICK e \in Nat \ {0} : e = bids[id].escrow
  BY DEF cancel_bid, Inv, BidShape
<1>2. /\ status = "Open" /\ usdc' = Transfer(usdc, Escrow, b, e)
      /\ UNCHANGED <<status, fractions, settlement>>
  BY <1>1 DEF cancel_bid
<1>3. \A a \in Accounts \ {Escrow} : usdc'[a] = IF a = b THEN usdc[a] + e ELSE usdc[a]
  BY <1>2, AddressAssumption DEF Transfer, Inv, TypeOK, Accounts
<1>4. Treasury \notin Bidders /\ Payout \notin Bidders /\ Escrow \notin Bidders
      /\ Treasury # Escrow /\ Payout # Escrow
  BY AddressAssumption DEF Treasury, Payout, Escrow
<1>5. \A q \in Bidders : /\ usdc'[q] = IF q = b THEN usdc[q] + e ELSE usdc[q]
                         /\ InEscrow(q)' = IF q = b THEN InEscrow(q) - e ELSE InEscrow(q)
  BY <1>2, <1>3, <1>4, StakeMirrorsWallet DEF Accounts
<1>6. usdc'[Treasury] + usdc'[Payout] = usdc[Treasury] + usdc[Payout]
  BY <1>3, <1>4 DEF Accounts
<1>7. Phase = "collecting" /\ Phase' = Phase BY <1>2 DEF Phase
<1>8. [q \in Bidders |-> fractions'[q]] = [q \in Bidders |-> fractions[q]] BY <1>2
<1>9. Sale!Withdraw(b, e) BY <1>2, <1>5, <1>6, <1>7, <1>8 DEF Sale!Withdraw
<1>10. e \in 1..InEscrow(b)
  <2>1. ActiveEscrow(id) = e /\ bids[id].bidder = b BY <1>1 DEF cancel_bid, ActiveEscrow
  <2> QED BY <2>1, StakeCovers
<1> QED BY <1>9, <1>10

\* cancel_offering calls the auction off, unless that has been done: with no escrow
\* recorded nobody has a stake.
LEMMA CancelIsCallOff ==
  ASSUME Inv, Inv', cancel_offering
  PROVE  Sale!CallOff \/ UNCHANGED Sale!auctionVars
<1>1. /\ status # "Settled" /\ escrowTotal <= 0 /\ status' = "Cancelled"
      /\ UNCHANGED <<usdc, fractions, settlement>>
  BY DEF cancel_offering
<1>2. \A q \in Bidders : InEscrow(q)' = InEscrow(q) /\ usdc'[q] = usdc[q]
  BY <1>1, StakeMirrorsWallet
<1>3. [q \in Bidders |-> InEscrow(q)]' = [q \in Bidders |-> InEscrow(q)]
      /\ [q \in Bidders |-> usdc[q]]' = [q \in Bidders |-> usdc[q]]
      /\ [q \in Bidders |-> fractions[q]]' = [q \in Bidders |-> fractions[q]]
      /\ (usdc[Treasury] + usdc[Payout])' = usdc[Treasury] + usdc[Payout]
      /\ settlement'.price = settlement.price
  BY <1>1, <1>2
<1>4. \A q \in Bidders : InEscrow(q) = 0
  <2> SUFFICES ASSUME NEW q \in Bidders PROVE InEscrow(q) = 0 OBVIOUS
  <2>1. \A i \in 1..MaxBids : OwedTo(q)[i] = 0
    BY <1>1, NoEscrowNoActiveBid DEF OwedTo, ActiveEscrow, BidIds
  <2>2. Sum(OwedTo(q), MaxBids) = 0 BY <2>1, SumZero, BoundsAssumption
  <2> QED BY <2>2 DEF InEscrow, OwedTo
<1>5. [q \in Bidders |-> InEscrow(q)] = Sale!Nothing BY <1>4 DEF Sale!Nothing
<1>6. Phase' = "void" BY <1>1 DEF Phase
<1>7. CASE status = "Cancelled"
  <2>1. Phase = "void" BY <1>7 DEF Phase
  <2> QED BY <1>3, <1>6, <2>1 DEF Sale!auctionVars
<1>8. CASE status # "Cancelled"
  <2>1. Phase \in {"collecting", "closed"} BY <1>1, <1>8 DEF Phase, Inv, TypeOK, Statuses
  <2> QED BY <1>3, <1>5, <1>6, <2>1 DEF Sale!CallOff
<1> QED BY <1>7, <1>8

\* bind_token, a third party's transfer and refused calls are no steps of the auction.
LEMMA OthersAreNone ==
  ASSUME Inv, Inv', bind_token \/ donate \/ UNCHANGED vars
  PROVE  UNCHANGED Sale!auctionVars
<1>1. UNCHANGED <<status, fractions, settlement>>
  BY DEF bind_token, donate, vars
<1>2. Treasury \notin Bidders /\ Payout \notin Bidders /\ Escrow \notin Bidders
      /\ Treasury # Escrow /\ Payout # Escrow
  BY AddressAssumption DEF Treasury, Payout, Escrow
<1>3. \A a \in Accounts \ {Escrow} : usdc'[a] = usdc[a]
  BY DEF bind_token, donate, vars, Inv, TypeOK
<1>4. \A q \in Bidders : InEscrow(q)' = InEscrow(q) /\ usdc'[q] = usdc[q]
  BY <1>1, <1>2, <1>3, StakeMirrorsWallet DEF Accounts
<1>5. usdc'[Treasury] = usdc[Treasury] /\ usdc'[Payout] = usdc[Payout]
  BY <1>2, <1>3 DEF Accounts
<1>6. Phase' = Phase BY <1>1 DEF Phase
<1> QED BY <1>1, <1>4, <1>5, <1>6 DEF Sale!auctionVars

\* close_offering closes the auction.
LEMMA CloseIsClose ==
  ASSUME Inv, Inv', close_offering
  PROVE  Sale!Close
<1>1. Phase = "collecting" /\ Phase' = "closed" BY DEF close_offering, Phase
<1>2. UNCHANGED <<usdc, fractions, settlement>> BY DEF close_offering
<1>3. \A q \in Bidders : InEscrow(q)' = InEscrow(q) BY <1>2, StakeMirrorsWallet
<1> QED BY <1>1, <1>2, <1>3 DEF Sale!Close

\* close_and_settle sells the float: SettledExactly speaks of what the bidders hold after it.
LEMMA SettleIsSale ==
  ASSUME Inv, Inv', PaidInv', NEW price \in ClearingPrices, NEW alloc \in [BidIds -> Allocations],
         close_and_settle(price, alloc)
  PROVE  \E won \in [Bidders -> 0..(TotalSupply - ArtistRetention - TreasuryRetention
                                    - LeftoverToArtist)] : Sale!Sell(price, won)
<1> DEFINE left == TotalSupply - ArtistRetention - TreasuryRetention - LeftoverToArtist
<1>w. PICK won : won = [b \in Bidders |-> fractions'[b]] OBVIOUS
<1>0. price \in Int /\ alloc \in [BidIds -> Int] /\ SettleValid(price, alloc)
  BY InputsAssumption DEF close_and_settle
<1>1. /\ status = "Closed" /\ status' = "Settled" /\ settlement' = [price |-> price, alloc |-> alloc]
      /\ usdc' = Payments(price, alloc) /\ fractions' = Minted(alloc)
  BY DEF close_and_settle
<1>2. Treasury \notin Bidders /\ Artist \notin Bidders /\ Treasury # Artist
  BY AddressAssumption DEF Treasury, Artist
<1>3. \A h \in Holders : fractions[h] = 0 BY <1>1 DEF Inv, NothingMinted
<1>4. \A b \in Bidders : /\ RefundTo(price, alloc, b) \in Nat /\ AllocatedTo(alloc, b) \in Nat
                         /\ price * AllocatedTo(alloc, b) \in Nat
                         /\ InEscrow(b) = RefundTo(price, alloc, b) + price * AllocatedTo(alloc, b)
  BY <1>0, BidderSplit DEF InEscrow, OwedTo
<1>5. /\ \A b \in Bidders : fractions'[b] = AllocatedTo(alloc, b)
      /\ fractions'[Artist] = ArtistRetention + LeftoverToArtist
      /\ fractions'[Treasury] = TreasuryRetention
  BY <1>1, <1>2, <1>3, <1>4, ParamsAssumption DEF Minted, Holders
<1>6. \A b \in Bidders : usdc'[b] = usdc[b] + RefundTo(price, alloc, b)
  <2>1. Payout \notin Bidders /\ Escrow \notin Bidders BY AddressAssumption
  <2> QED BY <1>1, <1>2, <2>1 DEF Payments, Accounts
<1>7. \A b \in Bidders : usdc'[b] = usdc[b] + InEscrow(b) - price * won[b]
  <2>1. \A b \in Bidders : usdc[b] \in Nat BY DEF Inv, TypeOK, Accounts
  <2> QED BY <1>w, <1>4, <1>5, <1>6, <2>1
<1>8. \A b \in Bidders : price * won[b] \in 0..InEscrow(b) BY <1>w, <1>4, <1>5
<1>9. fractions' \in [Holders -> Int] BY DEF Inv, TypeOK
<1>10. SetSum(fractions', Bidders) = left /\ SumFunctionOnSet(fractions', Bidders) = left
  <2>1. SumFunction(fractions') = TotalSupply
    BY <1>1 DEF PaidInv, SettledExactly, SupplyMintedOnce
  <2>2. /\ SumFunctionOnSet(fractions', Bidders) = SetSum(fractions', Bidders)
        /\ SetSum(fractions', Bidders) \in Int
        /\ SumFunction(fractions') = fractions'[Artist] + fractions'[Treasury]
                                     + SetSum(fractions', Bidders)
    BY <1>9, SupplySplit
  <2> QED BY <1>5, <2>1, <2>2, ParamsAssumption
<1>11. SumFunctionOnSet(won, Bidders) = left
  <2>1. IsFiniteSet(Bidders) BY AddressAssumption
  <2>2. IntegerOn(fractions', Bidders) /\ IntegerOn(won, Bidders)
    BY <1>w, <1>9 DEF IntegerOn, Holders
  <2>3. \A b \in Bidders : won[b] = fractions'[b] BY <1>w
  <2>4. SetSum(won, Bidders) = SetSum(fractions', Bidders) BY <2>1, <2>2, <2>3, SetSumExt
  <2> QED BY <1>10, <2>1, <2>2, <2>4, FunctionSum
<1>12. won \in [Bidders -> 0..left]
  <2> SUFFICES ASSUME NEW b \in Bidders PROVE fractions'[b] \in 0..left BY <1>w
  <2>1. \A x \in Bidders : fractions'[x] \in Nat BY <1>4, <1>5
  <2>2. IsFiniteSet(Bidders) BY AddressAssumption
  <2>3. SetSum(fractions', Bidders \ {b}) \in Nat
    <3>1. Bidders \ {b} \in SUBSET Bidders OBVIOUS
    <3> QED BY <2>1, <2>2, <3>1, SetSumMonotone
  <2>4. SetSum(fractions', Bidders) = fractions'[b] + SetSum(fractions', Bidders \ {b})
    <3>1. IntegerOn(fractions', Bidders) BY <2>1 DEF IntegerOn
    <3> QED BY <2>2, <3>1, SetSumStep
  <2> QED BY <1>10, <2>1, <2>3, <2>4, ParamsAssumption
<1>13. (usdc[Treasury] + usdc[Payout])' = price * left
  BY <1>1, <1>10 DEF PaidInv, SettledExactly, ProceedsSplit
<1>14. \A b \in Bidders : InEscrow(b)' = 0
  <2> SUFFICES ASSUME NEW b \in Bidders PROVE InEscrow(b)' = 0 OBVIOUS
  <2>1. \A id \in BidIds : ~bids'[id].active
    BY <1>1 DEF Inv, TerminalHoldsNothing
  <2>2. \A id \in 1..MaxBids : OwedTo(b)'[id] = 0 BY <2>1 DEF OwedTo, ActiveEscrow, BidIds
  <2>3. Sum(OwedTo(b)', MaxBids) = 0 BY <2>2, SumZero, BoundsAssumption
  <2> QED BY <2>3 DEF InEscrow, OwedTo
<1>15. [b \in Bidders |-> InEscrow(b)]' = Sale!Nothing BY <1>14 DEF Sale!Nothing
<1>16. Phase = "closed" /\ Phase' = "sold" BY <1>1 DEF Phase
<1>17. settlement'.price = price BY <1>1
<1>18. [b \in Bidders |-> usdc[b]]'
         = [b \in Bidders |-> [q \in Bidders |-> usdc[q]][b] + [q \in Bidders |-> InEscrow(q)][b]
                             - price * won[b]]
  BY <1>7
<1>19. \A b \in Bidders : price * won[b] \in 0..[q \in Bidders |-> InEscrow(q)][b] BY <1>8
<1>20. [b \in Bidders |-> fractions[b]]' = won BY <1>w
<1>21. Sale!SumFunctionOnSet(won, Bidders) = left
  BY <1>11 DEF SumFunctionOnSet, FoldFunctionOnSet, MapThenFoldSet,
               Sale!SumFunctionOnSet, Sale!FoldFunctionOnSet, Sale!MapThenFoldSet
<1>22. Sale!Sell(price, won)
  BY <1>21, <1>13, <1>15, <1>16, <1>17, <1>18, <1>19, <1>20 DEF Sale!Sell
<1> QED BY <1>12, <1>22

\* Every behaviour of the contract is one of the auction: the refinement of one step takes
\* each call to the auction's step of that kind.
THEOREM EscrowIsAuction == Spec => ImplementsAuction
<1>1. Inv /\ Inv' /\ PaidInv' /\ [Next]_vars => [Sale!Next]_(Sale!auctionVars)
  <2> SUFFICES ASSUME Inv, Inv', PaidInv', [Next]_vars
               PROVE  [Sale!Next]_(Sale!auctionVars)
    OBVIOUS
  <2>1. ASSUME NEW b \in Bidders, NEW p \in Prices, NEW c \in Counts, NEW k \in Keys,
               submit_bid(b, p, c, k)
        PROVE  Sale!Next
    <3>1. \E amount \in 1..usdc[b] : Sale!Stake(b, amount) BY <2>1, SubmitIsStake
    <3>2. [q \in Bidders |-> usdc[q]][b] = usdc[b] OBVIOUS
    <3> QED BY <3>1, <3>2 DEF Sale!Next
  <2>2. ASSUME NEW b \in Bidders, NEW id \in BidIds, cancel_bid(b, id)
        PROVE  Sale!Next
    <3>1. \E amount \in 1..InEscrow(b) : Sale!Withdraw(b, amount) BY <2>2, CancelIsWithdrawal
    <3>2. [q \in Bidders |-> InEscrow(q)][b] = InEscrow(b) OBVIOUS
    <3> QED BY <3>1, <3>2 DEF Sale!Next
  <2>3. ASSUME NEW p \in ClearingPrices, NEW alloc \in [BidIds -> Allocations],
               close_and_settle(p, alloc)
        PROVE  Sale!Next
    BY <2>3, SettleIsSale DEF Sale!Next
  <2>4. CASE close_offering BY <2>4, CloseIsClose DEF Sale!Next
  <2>5. CASE cancel_offering BY <2>5, CancelIsCallOff DEF Sale!Next
  <2>6. CASE bind_token \/ donate \/ UNCHANGED vars BY <2>6, OthersAreNone
  <2> QED BY <2>1, <2>2, <2>3, <2>4, <2>5, <2>6 DEF Next
<1>2. Inv /\ PaidInv /\ Inv' /\ [Next]_vars => PaidInv' BY PaidNext
<1> QED BY <1>1, <1>2, SaleInit, PaidInit, Invariance, PTL DEF Spec, ImplementsAuction, Sale!Spec

-----------------------------------------------------------------------------
(***************************************************************************)
(* The deployment of the contract (OfferingDeploy) and of the token whose  *)
(* fractions it sells (Fractionalization).                                 *)
(***************************************************************************)
RunPcs == {"idle", "read", "send", "poll", "latch", "fail"}
Args   == [plan : Edits \cup {Null}, artist : Artists \cup {Null}]

\* The state of the escrow's workers, transaction and contract, which DeployTypeOK leaves open.
WorkOK ==
  /\ escrowRun \in [Workers -> [pc : RunPcs, args : Args]]
  /\ escrowTx \in [st : {"none", "pending", "success", "failed", "dropped"}, args : Args]
  /\ escrow \in Args

\* A row that has been inserted keeps its plan: the worker, the transaction and the token
\* refer to such rows only, and the worker to one whose job it holds.
RefersToRows ==
  /\ run = Idle \/ (run.by \in Rows /\ row[run.by].status # "none" /\ jobs[run.by] > 0)
  /\ tx.st # "none" =>
       tx.by \in Rows /\ row[tx.by].status # "none" /\ tx.plan = row[tx.by].plan
  /\ OnChain =>
       token.by \in Rows /\ row[token.by].status # "none" /\ token.plan = row[token.by].plan

\* At most one row is active, and the artwork's latch says which.
OneActive ==
  /\ \A i, j \in Status("deploying") \cup Status("deployed") : i = j
  /\ (artwork = "fractionalizing") <=> (Status("deploying") # {})
  /\ (artwork = "fractionalized") <=> (Status("deployed") # {})

\* What is about to be latched as deployed is on chain.
FracLatch == run.pc = "latch" \/ tx.st = "success" \/ Status("deployed") # {} => OnChain

EscrowLatch ==
  /\ escrowTx.st = "success" \/ offering \in {"approved", "opened"} => escrow # NoArgs
  /\ \A w \in Workers : escrowRun[w].pc = "latch" => escrow # NoArgs

\* A planned offering is built on a deployed row.
Planned ==
  /\ offering # "none" => fc \in Status("deployed")
  /\ offering = "none" => latch = "null"

\* The deploy was claimed by a quorum, which has seen the payout address.
Claimed ==
  /\ approvals \subseteq signed
  /\ latch # "null" => attested # Null /\ Cardinality(signed) >= Threshold

\* Only the attested arguments get past the belts, whatever is retried.
Attested(args) == FloatOf(args.plan) = float /\ args.artist = attested

ArgsAttested ==
  /\ \A w \in Workers : escrowRun[w].pc # "idle" => latch # "null"
  /\ \A w \in Workers :
       escrowRun[w].pc \in {"read", "send", "poll", "latch"} => Attested(escrowRun[w].args)
  /\ escrowTx.st # "none" => latch # "null" /\ Attested(escrowTx.args)
  /\ escrow # NoArgs => latch # "null" /\ Attested(escrow)

\* Types, in two parts.
FracPcs == {"idle", "check", "send", "poll", "latch", "fail"}

FracTypeOK ==
  /\ artwork \in {"verified", "fractionalizing", "fractionalized"}
  /\ row \in [Rows -> [status : {"none", "deploying", "deployed", "failed"},
                       plan : Plans \cup {Null}]]
  /\ token \in [by : 0..MaxRows, plan : Plans \cup {Null}]
  /\ tx \in [st : {"none", "pending", "success", "failed", "dropped"}, by : 0..MaxRows,
             plan : Plans \cup {Null}]
  /\ jobs \in [Rows -> 0..Attempts] /\ stalled \subseteq Rows
  /\ run \in [pc : FracPcs, by : 0..MaxRows]

OffTypeOK ==
  /\ offering \in {"none", "planned", "approved", "opened"} /\ fc \in 0..MaxRows
  /\ float \subseteq Edits /\ latch \in {"null", "deploying", "failed", "deployed"}
  /\ live \in [plan : Edits \cup {Null}, artist : Artists] /\ attested \in Artists \cup {Null}
  /\ approvals \subseteq Admins /\ aged \in BOOLEAN /\ signed \subseteq Admins
  /\ expiring \in BOOLEAN /\ escrowJobs \in 0..MaxJobs

\* The inductive invariant.  RecordsTrue and EscrowAttested are not inductive alone: what a
\* worker will latch, or has sent, must already be what the chain or the quorum says.
FracInv == FracTypeOK /\ RefersToRows /\ OneActive /\ FracLatch

OffInv == OffTypeOK /\ WorkOK /\ EscrowLatch /\ Planned /\ Claimed /\ ArgsAttested

DeployInv == FracInv /\ OffInv

\* The worker's moves: on to the next step, or an end of the job with or without a retry.
LEMMA WorkerMoves ==
  ASSUME FracTypeOK, RefersToRows, run # Idle
  PROVE  /\ \A p \in {"latch", "send", "poll", "fail"} :
              Goto(p) => /\ run' \in [pc : FracPcs, by : 0..MaxRows]
                         /\ run'.by = run.by /\ run'.pc = p
         /\ Retry \/ Finish => /\ run' = Idle /\ run' \in [pc : FracPcs, by : 0..MaxRows]
                               /\ jobs' \in [Rows -> 0..Attempts]
<1>1. /\ run \in [pc : FracPcs, by : 0..MaxRows] /\ run.by \in Rows
      /\ jobs \in [Rows -> 0..Attempts] /\ jobs[run.by] > 0 /\ Attempts \in Nat
  BY FractionalizationAssumption DEF FracTypeOK, RefersToRows, FracPcs
<1>2. ASSUME NEW p \in {"latch", "send", "poll", "fail"}, Goto(p)
      PROVE  /\ run' \in [pc : FracPcs, by : 0..MaxRows]
             /\ run'.by = run.by /\ run'.pc = p
  BY <1>1, <1>2 DEF Goto, FracPcs
<1>3. ASSUME Retry \/ Finish
      PROVE  /\ run' = Idle /\ run' \in [pc : FracPcs, by : 0..MaxRows]
             /\ jobs' \in [Rows -> 0..Attempts]
  <2>1. Idle \in [pc : FracPcs, by : 0..MaxRows]
    BY FractionalizationAssumption DEF Idle, FracPcs, Null
  <2>2. jobs[run.by] - 1 \in 0..Attempts /\ 0 \in 0..Attempts BY <1>1
  <2> QED BY <1>1, <1>3, <2>1, <2>2 DEF Retry, Finish
<1> QED BY <1>2, <1>3

\* The two CASes move a deploying row and the artwork's latch together.
LEMMA RowAndLatch ==
  ASSUME FracTypeOK, OneActive, NEW i \in Rows,
         \/ casDeployed(i) /\ casStatus(i, "fractionalized")
         \/ casFailed(i) /\ casStatus(i, "verified")
  PROVE  /\ artwork' \in {"verified", "fractionalizing", "fractionalized"}
         /\ row' \in [Rows -> [status : {"none", "deploying", "deployed", "failed"},
                               plan : Plans \cup {Null}]]
         /\ OneActive'
         /\ \A j \in Rows : /\ row'[j].plan = row[j].plan
                            /\ row'[j].status = "none" <=> row[j].status = "none"
                            /\ row[j].status = "deployed" => row'[j] = row[j]
<1>1. CASE row[i].status # "deploying"
  <2>1. row' = row /\ artwork' = artwork
    BY <1>1 DEF casDeployed, casFailed, casStatus
  <2> QED BY <2>1 DEF FracTypeOK, OneActive, Status
<1>2. CASE row[i].status = "deploying"
  <2>1. artwork = "fractionalizing" BY <1>2 DEF OneActive, Status
  <2>2. PICK st \in {"deployed", "failed"} :
          /\ row' = [row EXCEPT ![i].status = st]
          /\ artwork' = IF st = "deployed" THEN "fractionalized" ELSE "verified"
    BY <1>2, <2>1 DEF casDeployed, casFailed, casStatus
  <2>3. /\ row'[i].status = st /\ row'[i].plan = row[i].plan
        /\ \A j \in Rows : j # i => row'[j] = row[j]
    BY <2>2 DEF FracTypeOK
  <2>4. \A j \in Rows : j # i => row[j].status \notin {"deploying", "deployed"}
    BY <1>2 DEF OneActive, Status
  <2>5. \A j \in Rows : row'[j].status \in {"deploying", "deployed"} => j = i /\ st = "deployed"
    BY <2>3, <2>4
  <2>6. OneActive' BY <2>2, <2>3, <2>5 DEF OneActive, Status
  <2>7. row' \in [Rows -> [status : {"none", "deploying", "deployed", "failed"},
                           plan : Plans \cup {Null}]]
    BY <2>2 DEF FracTypeOK
  <2> QED BY <1>2, <2>2, <2>3, <2>6, <2>7
<1> QED BY <1>1, <1>2

\* Every step of the fractionalization keeps what its rows, worker, transaction and token say.
LEMMA FracStep == FracInv /\ [FracNext]_fracVars => FracInv'
<1> SUFFICES ASSUME FracInv, [FracNext]_fracVars PROVE FracInv'
  OBVIOUS
<1> USE FractionalizationAssumption DEF FracInv, FracPcs, Rows, Null, NoToken, NoRow
<1>1. CASE \E p \in Plans : fractionalize(p)
  <2>1. FracTypeOK'
    BY <1>1, SMTT(20) DEF fractionalize, FracTypeOK, RefersToRows, OnChain
  <2>2. RefersToRows'
    BY <1>1 DEF fractionalize, FracTypeOK, RefersToRows, OnChain
  <2>3. OneActive'
    <3>1. PICK i \in Rows, p \in Plans :
            /\ artwork = "verified" /\ artwork' = "fractionalizing"
            /\ row' = [row EXCEPT ![i] = [status |-> "deploying", plan |-> p]]
      BY <1>1 DEF fractionalize
    <3>2. \A j \in Rows : row[j].status \notin {"deploying", "deployed"}
      BY <3>1 DEF OneActive, Status
    <3>3. \A j \in Rows : /\ row'[j].status # "deployed"
                          /\ row'[j].status = "deploying" <=> j = i
      BY <3>1, <3>2 DEF FracTypeOK
    <3> QED BY <3>1, <3>3 DEF OneActive, Status
  <2>4. FracLatch'
    BY <1>1 DEF fractionalize, FracTypeOK, FracLatch, Status, OnChain, RefersToRows
  <2> QED BY <2>1, <2>2, <2>3, <2>4
<1>2. CASE \E i \in Rows : takeJob(i)
  <2>1. FracTypeOK'
    BY <1>2, SMTT(20) DEF takeJob, Idle, FracTypeOK, RefersToRows, OnChain
  <2>2. RefersToRows'
    BY <1>2 DEF takeJob, Idle, FracTypeOK, RefersToRows, OnChain
  <2>3. FracLatch'
    BY <1>2 DEF takeJob, Idle, FracTypeOK, FracLatch, Status, OnChain, RefersToRows
  <2>4. OneActive'
    BY <1>2 DEF takeJob, Idle, OneActive, Status
  <2> QED BY <2>1, <2>2, <2>3, <2>4
<1>3. CASE \E i \in Rows : reconcile(i)
  <2>1. PICK i \in Rows : /\ OnChain /\ casDeployed(i) /\ casStatus(i, "fractionalized")
                          /\ UNCHANGED <<token, tx, jobs, stalled, run>>
    BY <1>3 DEF reconcile
  <2>2. FracTypeOK' BY <2>1, RowAndLatch DEF FracTypeOK
  <2>3. RefersToRows' BY <2>1, RowAndLatch DEF RefersToRows, OnChain, FracTypeOK
  <2>4. OneActive' BY <2>1, RowAndLatch
  <2>5. FracLatch' BY <2>1 DEF FracLatch, OnChain
  <2> QED BY <2>2, <2>3, <2>4, <2>5
<1>4. CASE tokenOf
  <2>0. run # Idle BY <1>4 DEF tokenOf, Idle
  <2>1. FracTypeOK' BY <1>4, <2>0, WorkerMoves DEF tokenOf, FracTypeOK
  <2>2. RefersToRows'
    BY <1>4 DEF tokenOf, Goto, Retry, Idle, FracTypeOK, RefersToRows, OnChain
  <2>3. FracLatch'
    BY <1>4 DEF tokenOf, Goto, Retry, Idle, FracTypeOK, FracLatch, Status, OnChain, RefersToRows
  <2>4. OneActive' BY <1>4 DEF tokenOf, OneActive, Status
  <2> QED BY <2>1, <2>2, <2>3, <2>4
<1>5. CASE buildSignAndSend
  <2>1. FracTypeOK'
    BY <1>5 DEF buildSignAndSend, Throttled, TokenInit, Goto, Retry, Idle, FracTypeOK,
           RefersToRows, OnChain
  <2>2. RefersToRows'
    BY <1>5 DEF buildSignAndSend, Throttled, TokenInit, Goto, Retry, Idle, FracTypeOK,
           RefersToRows, OnChain
  <2>3. FracLatch'
    BY <1>5 DEF buildSignAndSend, Throttled, TokenInit, Goto, Retry, Idle, FracTypeOK, FracLatch,
           Status, OnChain, RefersToRows
  <2>4. OneActive'
    BY <1>5 DEF buildSignAndSend, Throttled, TokenInit, Goto, Retry, Idle, OneActive, Status
  <2> QED BY <2>1, <2>2, <2>3, <2>4
<1>6. CASE pollForResult
  <2>1. FracTypeOK'
    BY <1>6, SMTT(20) DEF pollForResult, Goto, Retry, Idle, FracTypeOK, RefersToRows, OnChain
  <2>2. RefersToRows'
    BY <1>6 DEF pollForResult, Goto, Retry, Idle, FracTypeOK, RefersToRows, OnChain
  <2>3. FracLatch'
    BY <1>6 DEF pollForResult, Goto, Retry, Idle, FracTypeOK, FracLatch, Status, OnChain,
           RefersToRows
  <2>4. OneActive'
    BY <1>6 DEF pollForResult, Goto, Retry, Idle, OneActive, Status
  <2> QED BY <2>1, <2>2, <2>3, <2>4
<1>7. CASE latchDeployed
  <2>0. run # Idle /\ run.by \in Rows /\ run'.pc # "latch" /\ UNCHANGED <<token, tx, stalled>>
    BY <1>7 DEF latchDeployed, Idle, Finish, Goto, FracTypeOK, RefersToRows
  <2>1. CASE /\ casDeployed(run.by) /\ casStatus(run.by, "fractionalized") /\ Finish
    <3>1. run' = Idle /\ run' \in [pc : FracPcs, by : 0..MaxRows]
          /\ jobs' \in [Rows -> 0..Attempts]
      BY <2>0, <2>1, WorkerMoves
    <3>2. FracTypeOK' BY <2>0, <2>1, <3>1, RowAndLatch DEF FracTypeOK
    <3>3. RefersToRows' BY <2>0, <2>1, <3>1, RowAndLatch DEF RefersToRows, OnChain, FracTypeOK
    <3>4. OneActive' BY <2>0, <2>1, RowAndLatch
    <3>5. FracLatch'
      BY <1>7, <2>0, <2>1 DEF latchDeployed, FracLatch, OnChain, Status, casDeployed, FracTypeOK
    <3> QED BY <3>2, <3>3, <3>4, <3>5
  <2>2. CASE Goto("fail") /\ UNCHANGED <<row, artwork, jobs>>
    <3>1. /\ run' \in [pc : FracPcs, by : 0..MaxRows]
          /\ run'.by = run.by /\ run'.pc = "fail"
      BY <2>0, <2>2, WorkerMoves
    <3>2. FracTypeOK' BY <2>0, <2>2, <3>1 DEF FracTypeOK
    <3>3. RefersToRows' BY <2>0, <2>2, <3>1 DEF RefersToRows, OnChain, Idle
    <3>4. OneActive' /\ FracLatch'
      BY <2>0, <2>2, <3>1 DEF OneActive, FracLatch, OnChain, Status
    <3> QED BY <3>2, <3>3, <3>4
  <2> QED BY <1>7, <2>1, <2>2 DEF latchDeployed
<1>8. CASE latchFailed
  <2>0. run # Idle /\ run.by \in Rows /\ run'.pc # "latch" /\ UNCHANGED <<token, tx, stalled>>
    BY <1>8 DEF latchFailed, Idle, Finish, Goto, FracTypeOK, RefersToRows
  <2>1. CASE /\ casFailed(run.by) /\ casStatus(run.by, "verified") /\ Finish
    <3>1. run' = Idle /\ run' \in [pc : FracPcs, by : 0..MaxRows]
          /\ jobs' \in [Rows -> 0..Attempts]
      BY <2>0, <2>1, WorkerMoves
    <3>2. FracTypeOK' BY <2>0, <2>1, <3>1, RowAndLatch DEF FracTypeOK
    <3>3. RefersToRows' BY <2>0, <2>1, <3>1, RowAndLatch DEF RefersToRows, OnChain, FracTypeOK
    <3>4. OneActive' BY <2>0, <2>1, RowAndLatch
    <3>5. FracLatch'
      BY <1>8, <2>0, <2>1 DEF latchFailed, FracLatch, OnChain, Status, casFailed, FracTypeOK
    <3> QED BY <3>2, <3>3, <3>4, <3>5
  <2>2. CASE Goto("fail") /\ UNCHANGED <<row, artwork, jobs>>
    <3>1. /\ run' \in [pc : FracPcs, by : 0..MaxRows]
          /\ run'.by = run.by /\ run'.pc = "fail"
      BY <2>0, <2>2, WorkerMoves
    <3>2. FracTypeOK' BY <2>0, <2>2, <3>1 DEF FracTypeOK
    <3>3. RefersToRows' BY <2>0, <2>2, <3>1 DEF RefersToRows, OnChain, Idle
    <3>4. OneActive' /\ FracLatch'
      BY <2>0, <2>2, <3>1 DEF OneActive, FracLatch, OnChain, Status
    <3> QED BY <3>2, <3>3, <3>4
  <2> QED BY <1>8, <2>1, <2>2 DEF latchFailed
<1>9. CASE crash
  <2>1. FracTypeOK'
    <3>1. run.by \in Rows /\ 0 \in 0..Attempts BY <1>9 DEF crash, RefersToRows
    <3>2. run' \in [pc : FracPcs, by : 0..MaxRows] BY <1>9 DEF crash, Idle
    <3>3. jobs' \in [Rows -> 0..Attempts] BY <1>9, <3>1 DEF crash, FracTypeOK
    <3> QED BY <1>9, <3>1, <3>2, <3>3 DEF crash, FracTypeOK
  <2>2. RefersToRows'
    BY <1>9 DEF crash, Idle, FracTypeOK, RefersToRows, OnChain
  <2>3. FracLatch'
    BY <1>9 DEF crash, Idle, FracTypeOK, FracLatch, Status, OnChain, RefersToRows
  <2>4. OneActive'
    BY <1>9 DEF crash, Idle, OneActive, Status
  <2> QED BY <2>1, <2>2, <2>3, <2>4
<1>10. CASE deploy
  <2>1. FracTypeOK'
    BY <1>10 DEF deploy, FracTypeOK, RefersToRows, OnChain
  <2>2. RefersToRows'
    BY <1>10 DEF deploy, FracTypeOK, RefersToRows, OnChain
  <2>3. FracLatch'
    BY <1>10 DEF deploy, FracTypeOK, FracLatch, Status, OnChain, RefersToRows
  <2>4. OneActive'
    BY <1>10 DEF deploy, OneActive, Status
  <2> QED BY <2>1, <2>2, <2>3, <2>4
<1>11. CASE dropTx
  <2>1. FracTypeOK'
    BY <1>11 DEF dropTx, FracTypeOK, RefersToRows, OnChain
  <2>2. RefersToRows'
    BY <1>11 DEF dropTx, FracTypeOK, RefersToRows, OnChain
  <2>3. FracLatch'
    BY <1>11 DEF dropTx, FracTypeOK, FracLatch, Status, OnChain, RefersToRows
  <2>4. OneActive'
    BY <1>11 DEF dropTx, OneActive, Status
  <2> QED BY <2>1, <2>2, <2>3, <2>4
<1>12. CASE UNCHANGED fracVars
  BY <1>12, SMTT(20) DEF fracVars, FracTypeOK, RefersToRows, OneActive, FracLatch, OnChain, Status
<1> QED BY <1>1, <1>2, <1>3, <1>4, <1>5, <1>6, <1>7, <1>8, <1>9, <1>10, <1>11, <1>12 DEF FracNext

\* A deployed row is never touched again.
LEMMA DeployedStay ==
  ASSUME FracInv, [FracNext]_fracVars
  PROVE  \A j \in Status("deployed") : j \in Status("deployed")' /\ row'[j] = row[j]
<1> USE DEF FracInv, Status
<1>1. CASE \E p \in Plans : fractionalize(p)
  BY <1>1 DEF fractionalize, FracTypeOK, NoRow
<1>2. CASE \E i \in Rows : reconcile(i)
  BY <1>2, RowAndLatch DEF reconcile
<1>3. CASE latchDeployed \/ latchFailed
  <2>1. run # Idle BY <1>3 DEF latchDeployed, latchFailed, Idle
  <2>2. run.by \in Rows BY <2>1 DEF RefersToRows
  <2> QED BY <1>3, <2>2, RowAndLatch DEF latchDeployed, latchFailed
<1>4. CASE row' = row BY <1>4
<1> QED
  BY <1>1, <1>2, <1>3, <1>4
  DEF FracNext, fracVars, takeJob, tokenOf, buildSignAndSend, pollForResult, crash, deploy, dropTx

\* Every step of the backoffice, the escrow's workers, the sweeps and its chain keeps what
\* they say of the offering.
LEMMA OffStep == FracInv /\ OffInv /\ OffNext => OffInv'
<1> SUFFICES ASSUME FracInv, OffInv, OffNext PROVE OffInv'
  OBVIOUS
<1> USE OfferingDeployAssumption
    DEF OffInv, Rows, Null, planVars, approvalVars, workVars, chainVars, fracVars
<1>1. CASE create
  <2>1. OffTypeOK'
    BY <1>1 DEF create, OffTypeOK, FracInv, FracTypeOK, Status, FloatOf
  <2>2. EscrowLatch'
    BY <1>1 DEF create, OffTypeOK, EscrowLatch, NoRun, NoArgs, WorkOK
  <2>3. Planned'
    BY <1>1 DEF create, OffTypeOK, Planned, Status
  <2>4. ArgsAttested'
    BY <1>1 DEF create, OffTypeOK, ArgsAttested, Attested, NoRun, NoArgs, WorkOK, RunPcs, Args,
           Claimed, Planned
  <2>5. (WorkOK /\ Claimed)'
    BY <1>1 DEF create, WorkOK, Claimed
  <2> QED BY <2>1, <2>2, <2>3, <2>4, <2>5
<1>2. CASE \E a \in Admins : approve(a)
  <2>1. OffTypeOK'
    BY <1>2 DEF approve, countLiveSigners, Queued, OffTypeOK
  <2>2. Planned'
    BY <1>2 DEF approve, countLiveSigners, Queued, OffTypeOK, Planned, Status
  <2>3. Claimed'
    <3>1. PICK a \in Admins : approve(a) BY <1>2
    <3>2. /\ approvals' = approvals \cup {a} /\ signed' = signed \cup {a}
          /\ attested' = IF attested = Null THEN live.artist ELSE attested
          /\ latch' # latch => Cardinality(approvals \cup {a}) >= Threshold
      BY <3>1 DEF approve, countLiveSigners
    <3>3. IsFiniteSet(signed') /\ signed \in SUBSET signed' /\ approvals' \in SUBSET signed'
          /\ attested' # Null
      <4>1. signed' \in SUBSET Admins BY <3>2 DEF OffTypeOK
      <4>2. IsFiniteSet(signed') BY <4>1, FS_Subset
      <4> QED BY <3>2, <4>2 DEF OffTypeOK, Claimed
    <3>4. /\ Cardinality(signed) <= Cardinality(signed')
          /\ Cardinality(approvals') <= Cardinality(signed')
      BY <3>3, FS_Subset
    <3>5. /\ Cardinality(signed) \in Nat /\ Cardinality(approvals') \in Nat
          /\ Cardinality(signed') \in Nat
      BY <3>3, FS_Subset, FS_CardinalityType
    <3>6. Threshold \in Int OBVIOUS
    <3>7. latch' # "null" => Cardinality(signed') >= Threshold
      BY <3>2, <3>4, <3>5, <3>6 DEF Claimed
    <3> QED BY <3>3, <3>7 DEF Claimed
  <2>4. ArgsAttested'
    BY <1>2 DEF approve, countLiveSigners, Queued, OffTypeOK, ArgsAttested, Attested, NoRun,
           NoArgs, WorkOK, RunPcs, Args, Claimed, Planned
  <2>5. (WorkOK /\ EscrowLatch)'
    BY <1>2 DEF approve, countLiveSigners, Queued, WorkOK, EscrowLatch
  <2> QED BY <2>1, <2>2, <2>3, <2>4, <2>5
<1>3. CASE \E w \in Workers : process(w)
  <2>1. OffTypeOK'
    BY <1>3 DEF process, belts, OffTypeOK
  <2>2. WorkOK'
    <3>1. PICK w \in Workers :
            \/ escrowRun' = escrowRun
            \/ /\ latch = "deploying"
               /\ escrowRun' = [escrowRun EXCEPT ![w] =
                                  [pc |-> IF belts THEN "read" ELSE "fail", args |-> live]]
      BY <1>3 DEF process
    <3>2. [pc |-> IF belts THEN "read" ELSE "fail", args |-> live] \in [pc : RunPcs, args : Args]
      BY DEF OffTypeOK, Args, RunPcs
    <3>3. escrowTx' = escrowTx /\ escrow' = escrow BY <1>3 DEF process
    <3> QED BY <3>1, <3>2, <3>3 DEF WorkOK
  <2>3. EscrowLatch'
    BY <1>3 DEF process, belts, OffTypeOK, EscrowLatch, NoRun, NoArgs, WorkOK
  <2>4. ArgsAttested'
    BY <1>3 DEF process, belts, OffTypeOK, ArgsAttested, Attested, NoRun, NoArgs, WorkOK, RunPcs,
           Args, Claimed, Planned
  <2>5. (Planned /\ Claimed)'
    BY <1>3 DEF process, belts, Planned, Claimed, Status
  <2> QED BY <2>1, <2>2, <2>3, <2>4, <2>5
<1>4. CASE \E w \in Workers : readInstanceWasmHash(w)
  <2>1. WorkOK'
    <3>1. PICK w \in Workers, q \in RunPcs : escrowRun' = [escrowRun EXCEPT ![w].pc = q]
      BY <1>4 DEF readInstanceWasmHash, To, RunPcs
    <3>2. escrowTx' = escrowTx /\ escrow' = escrow BY <1>4 DEF readInstanceWasmHash
    <3>3. escrowRun' \in [Workers -> [pc : RunPcs, args : Args]] BY <3>1 DEF WorkOK
    <3> QED BY <3>2, <3>3 DEF WorkOK
  <2>2. EscrowLatch'
    BY <1>4 DEF readInstanceWasmHash, To, OffTypeOK, EscrowLatch, NoRun, NoArgs, WorkOK
  <2>3. ArgsAttested'
    BY <1>4 DEF readInstanceWasmHash, To, OffTypeOK, ArgsAttested, Attested, NoRun, NoArgs,
           WorkOK, RunPcs, Args, Claimed, Planned
  <2>4. (OffTypeOK /\ Planned /\ Claimed)'
    BY <1>4 DEF readInstanceWasmHash, To, OffTypeOK, Planned, Claimed, Status
  <2> QED BY <2>1, <2>2, <2>3, <2>4
<1>5. CASE \E w \in Workers : deployLocked(w)
  <2>1. OffTypeOK'
    BY <1>5 DEF deployLocked, To, Again, Queued, OffTypeOK
  <2>2. WorkOK'
    BY <1>5 DEF deployLocked, To, Again, Queued, OffTypeOK, WorkOK, RunPcs, Args, NoRun, NoArgs
  <2>3. EscrowLatch'
    BY <1>5 DEF deployLocked, To, Again, Queued, OffTypeOK, EscrowLatch, NoRun, NoArgs, WorkOK
  <2>4. ArgsAttested'
    BY <1>5 DEF deployLocked, To, Again, Queued, OffTypeOK, ArgsAttested, Attested, NoRun,
           NoArgs, WorkOK, RunPcs, Args, Claimed, Planned
  <2>5. (Planned /\ Claimed)'
    BY <1>5 DEF deployLocked, To, Again, Queued, Planned, Claimed, Status
  <2> QED BY <2>1, <2>2, <2>3, <2>4, <2>5
<1>6. CASE \E w \in Workers : pollToClosure(w)
  <2>1. OffTypeOK'
    BY <1>6 DEF pollToClosure, To, Again, Queued, OffTypeOK
  <2>2. WorkOK'
    BY <1>6, SMTT(20) DEF pollToClosure, To, Again, Queued, OffTypeOK, WorkOK, RunPcs, Args,
           NoRun, NoArgs
  <2>3. EscrowLatch'
    BY <1>6, SMTT(20) DEF pollToClosure, To, Again, Queued, OffTypeOK, EscrowLatch, NoRun, NoArgs,
           WorkOK
  <2>4. ArgsAttested'
    BY <1>6, SMTT(20) DEF pollToClosure, To, Again, Queued, OffTypeOK, ArgsAttested, Attested,
           NoRun, NoArgs, WorkOK, RunPcs, Args, Claimed, Planned
  <2>5. (Planned /\ Claimed)'
    BY <1>6 DEF pollToClosure, To, Again, Queued, Planned, Claimed, Status
  <2> QED BY <2>1, <2>2, <2>3, <2>4, <2>5
<1>7. CASE \E w \in Workers : latchEscrow(w)
  <2>0. PICK w \in Workers :
          /\ escrowRun[w].pc = "latch"
          /\ \/ escrowRun' = [escrowRun EXCEPT ![w] = NoRun]
             \/ escrowRun' = [escrowRun EXCEPT ![w].pc = "fail"]
          /\ latch' # latch => latch = "deploying" /\ latch' = "deployed"
          /\ UNCHANGED <<escrowTx, escrow, float, attested>>
    BY <1>7 DEF latchEscrow, casEscrowDeployed, Done, To
  <2>1. OffTypeOK'
    BY <1>7 DEF latchEscrow, casEscrowDeployed, Done, To, OffTypeOK
  <2>2. WorkOK'
    <3>1. NoRun \in [pc : RunPcs, args : Args] /\ "fail" \in RunPcs
      BY DEF NoRun, NoArgs, RunPcs, Args
    <3>2. escrowRun' \in [Workers -> [pc : RunPcs, args : Args]]
      BY <2>0, <3>1 DEF WorkOK
    <3> QED BY <2>0, <3>2 DEF WorkOK
  <2>3. EscrowLatch'
    BY <1>7 DEF latchEscrow, casEscrowDeployed, Done, To, OffTypeOK, EscrowLatch, NoRun, NoArgs,
           WorkOK
  <2>4. Planned'
    BY <1>7, SMTT(20) DEF latchEscrow, casEscrowDeployed, Planned, Status
  <2>5. Claimed'
    BY <1>7 DEF latchEscrow, casEscrowDeployed, Done, To, OffTypeOK, Claimed, Planned
  <2>6. ArgsAttested'
    <3>1. \A v \in Workers : \/ escrowRun'[v] = escrowRun[v]
                             \/ escrowRun'[v].pc = "idle"
                             \/ escrowRun'[v].pc = "fail" /\ v = w
      BY <2>0 DEF NoRun, WorkOK
    <3> QED
      BY <2>0, <3>1 DEF ArgsAttested, Attested
  <2> QED BY <2>1, <2>2, <2>3, <2>4, <2>5, <2>6
<1>8. CASE \E w \in Workers : failEscrow(w)
  <2>1. OffTypeOK'
    BY <1>8 DEF failEscrow, casEscrowFailed, Done, OffTypeOK
  <2>2. WorkOK'
    BY <1>8 DEF failEscrow, casEscrowFailed, Done, OffTypeOK, WorkOK, RunPcs, Args, NoRun, NoArgs
  <2>3. EscrowLatch'
    BY <1>8 DEF failEscrow, casEscrowFailed, Done, OffTypeOK, EscrowLatch, NoRun, NoArgs, WorkOK
  <2>4. Planned'
    BY <1>8 DEF failEscrow, casEscrowFailed, Done, OffTypeOK, Planned, Status
  <2>5. Claimed'
    BY <1>8 DEF failEscrow, casEscrowFailed, Done, OffTypeOK, Claimed, Planned
  <2>6. ArgsAttested'
    BY <1>8 DEF failEscrow, casEscrowFailed, Done, OffTypeOK, ArgsAttested, Attested, NoRun,
           NoArgs, WorkOK, RunPcs, Args, Claimed, Planned
  <2> QED BY <2>1, <2>2, <2>3, <2>4, <2>5, <2>6
<1>9. CASE \E w \in Workers : escrowCrash(w)
  <2>1. OffTypeOK'
    BY <1>9 DEF escrowCrash, Again, Queued, OffTypeOK
  <2>2. WorkOK'
    BY <1>9 DEF escrowCrash, Again, Queued, OffTypeOK, WorkOK, RunPcs, Args, NoRun, NoArgs
  <2>3. EscrowLatch'
    BY <1>9 DEF escrowCrash, Again, Queued, OffTypeOK, EscrowLatch, NoRun, NoArgs, WorkOK
  <2>4. ArgsAttested'
    BY <1>9 DEF escrowCrash, Again, Queued, OffTypeOK, ArgsAttested, Attested, NoRun, NoArgs,
           WorkOK, RunPcs, Args, Claimed, Planned
  <2>5. (Planned /\ Claimed)'
    BY <1>9 DEF escrowCrash, Again, Queued, Planned, Claimed, Status
  <2> QED BY <2>1, <2>2, <2>3, <2>4, <2>5
<1>10. CASE sweepStaleDeploying
  <2>1. OffTypeOK'
    BY <1>10 DEF sweepStaleDeploying, OffTypeOK
  <2>2. (WorkOK /\ EscrowLatch /\ Planned /\ Claimed /\ ArgsAttested)'
    BY <1>10 DEF sweepStaleDeploying, WorkOK, EscrowLatch, Planned, Claimed, ArgsAttested,
           Status, Attested
  <2> QED BY <2>1, <2>2
<1>11. CASE sweepWindowOpen
  <2>1. OffTypeOK'
    BY <1>11 DEF sweepWindowOpen, OffTypeOK
  <2>2. EscrowLatch'
    BY <1>11 DEF sweepWindowOpen, OffTypeOK, EscrowLatch, NoRun, NoArgs, WorkOK
  <2>3. Planned'
    BY <1>11 DEF sweepWindowOpen, OffTypeOK, Planned, Status
  <2>4. (WorkOK /\ Claimed /\ ArgsAttested)'
    BY <1>11 DEF sweepWindowOpen, WorkOK, Claimed, ArgsAttested, Attested
  <2> QED BY <2>1, <2>2, <2>3, <2>4
<1>12. CASE findExpiredOfferingIds
  <2>1. OffTypeOK'
    BY <1>12 DEF findExpiredOfferingIds, OffTypeOK
  <2>2. (WorkOK /\ EscrowLatch /\ Planned /\ Claimed /\ ArgsAttested)'
    BY <1>12 DEF findExpiredOfferingIds, WorkOK, EscrowLatch, Planned, Claimed, ArgsAttested,
           Status, Attested
  <2> QED BY <2>1, <2>2
<1>13. CASE sweepExpiry
  <2>1. OffTypeOK'
    BY <1>13 DEF sweepExpiry, OffTypeOK
  <2>2. Claimed'
    BY <1>13 DEF sweepExpiry, OffTypeOK, Claimed, Planned
  <2>3. (WorkOK /\ EscrowLatch /\ Planned /\ ArgsAttested)'
    BY <1>13 DEF sweepExpiry, WorkOK, EscrowLatch, Planned, ArgsAttested, Status, Attested
  <2> QED BY <2>1, <2>2, <2>3
<1>14. CASE createContract
  <2>1. WorkOK'
    BY <1>14 DEF createContract, OffTypeOK, WorkOK, RunPcs, Args, NoRun, NoArgs
  <2>2. EscrowLatch'
    <3>1. Attested(escrowTx.args) /\ attested # Null
      BY <1>14 DEF createContract, ArgsAttested, Claimed
    <3>2. escrowTx.args # NoArgs BY <3>1 DEF Attested, NoArgs
    <3>3. escrow' # NoArgs /\ UNCHANGED <<offering, escrowRun>>
      BY <1>14, <3>2 DEF createContract
    <3> QED BY <3>3 DEF EscrowLatch
  <2>3. ArgsAttested'
    BY <1>14 DEF createContract, OffTypeOK, ArgsAttested, Attested, NoRun, NoArgs, WorkOK,
           RunPcs, Args, Claimed, Planned
  <2>4. (OffTypeOK /\ Planned /\ Claimed)'
    BY <1>14 DEF createContract, OffTypeOK, Planned, Claimed, Status
  <2> QED BY <2>1, <2>2, <2>3, <2>4
<1>15. CASE dropEscrowTx
  <2>1. WorkOK'
    BY <1>15 DEF dropEscrowTx, OffTypeOK, WorkOK, RunPcs, Args, NoRun, NoArgs
  <2>2. EscrowLatch'
    BY <1>15 DEF dropEscrowTx, OffTypeOK, EscrowLatch, NoRun, NoArgs, WorkOK
  <2>3. ArgsAttested'
    BY <1>15 DEF dropEscrowTx, OffTypeOK, ArgsAttested, Attested, NoRun, NoArgs, WorkOK, RunPcs,
           Args, Claimed, Planned
  <2>4. (OffTypeOK /\ Planned /\ Claimed)'
    BY <1>15 DEF dropEscrowTx, OffTypeOK, Planned, Claimed, Status
  <2> QED BY <2>1, <2>2, <2>3, <2>4
<1>16. CASE age
  <2>1. OffTypeOK'
    BY <1>16 DEF age, OffTypeOK
  <2>2. (WorkOK /\ EscrowLatch /\ Planned /\ Claimed /\ ArgsAttested)'
    BY <1>16 DEF age, WorkOK, EscrowLatch, Planned, Claimed, ArgsAttested, Status, Attested
  <2> QED BY <2>1, <2>2
<1>17. CASE drift
  <2>1. OffTypeOK'
    BY <1>17 DEF drift, OffTypeOK
  <2>2. (WorkOK /\ EscrowLatch /\ Planned /\ Claimed /\ ArgsAttested)'
    BY <1>17 DEF drift, WorkOK, EscrowLatch, Planned, Claimed, ArgsAttested, Status, Attested
  <2> QED BY <2>1, <2>2
<1> QED BY <1>1, <1>2, <1>3, <1>4, <1>5, <1>6, <1>7, <1>8, <1>9, <1>10, <1>11, <1>12, <1>13,
      <1>14, <1>15, <1>16, <1>17 DEF OffNext

\* Before the request there is no row, transaction, offering or job.
LEMMA DeployInitInv == DeployInit => DeployInv
<1> SUFFICES ASSUME DeployInit PROVE DeployInv OBVIOUS
<1> USE FractionalizationAssumption, OfferingDeployAssumption
    DEF DeployInit, FracInit, Null, Rows
<1>1. FracTypeOK BY DEF FracTypeOK, NoRow, NoToken, Idle, FracPcs
<1>2. Status("deploying") = {} /\ Status("deployed") = {} BY DEF Status, NoRow
<1>3. RefersToRows /\ OneActive /\ FracLatch
  BY <1>2 DEF RefersToRows, OneActive, FracLatch, OnChain, Idle
<1>4. OffTypeOK
  <2>1. aged \in BOOLEAN /\ expiring \in BOOLEAN BY Zenon
  <2>2. live \in [plan : Edits \cup {Null}, artist : Artists] OBVIOUS
  <2> QED BY <2>1, <2>2 DEF OffTypeOK
<1>5. WorkOK BY DEF WorkOK, NoRun, NoArgs, Args, RunPcs
<1>6. EscrowLatch /\ Planned /\ Claimed /\ ArgsAttested
  BY DEF EscrowLatch, Planned, Claimed, ArgsAttested, NoRun
<1> QED BY <1>1, <1>3, <1>4, <1>5, <1>6 DEF DeployInv, FracInv, OffInv

\* Every step, and every stuttering step, preserves the invariant.
LEMMA DeployNextInv == DeployInv /\ [DeployNext]_deployVars => DeployInv'
<1> SUFFICES ASSUME DeployInv, [DeployNext]_deployVars PROVE DeployInv' OBVIOUS
<1>1. CASE [FracNext]_fracVars /\ UNCHANGED offVars
  <2>1. FracInv' BY <1>1, FracStep DEF DeployInv
  <2>2. Planned'
    <3>1. \A j \in Status("deployed") : j \in Status("deployed")' /\ row'[j] = row[j]
      BY <1>1, DeployedStay DEF DeployInv
    <3> QED BY <1>1, <3>1 DEF offVars, DeployInv, OffInv, Planned
  <2>3. (OffTypeOK /\ WorkOK /\ EscrowLatch /\ Claimed /\ ArgsAttested)'
    BY <1>1 DEF offVars, DeployInv, OffInv, OffTypeOK, WorkOK, EscrowLatch, Claimed,
                ArgsAttested, Attested
  <2> QED BY <2>1, <2>2, <2>3 DEF DeployInv, OffInv
<1>2. CASE OffNext
  <2>1. UNCHANGED fracVars
    BY <1>2 DEF OffNext, create, approve, process, readInstanceWasmHash, deployLocked,
         pollToClosure, latchEscrow, failEscrow, escrowCrash, sweepStaleDeploying,
         sweepWindowOpen, findExpiredOfferingIds, sweepExpiry, createContract, dropEscrowTx,
         age, drift
  <2>2. FracInv' BY <2>1, FracStep DEF DeployInv
  <2>3. OffInv' BY <1>2, OffStep DEF DeployInv
  <2> QED BY <2>2, <2>3 DEF DeployInv
<1> QED BY <1>1, <1>2 DEF DeployNext, deployVars

\* The deploy's inductive invariant holds in every reachable state.
THEOREM DeployInvariance == DeploySpec => []DeployInv
BY DeployInitInv, DeployNextInv, PTL DEF DeploySpec

\* The latches of artworks.status, fraction_contracts and offerings, whoever moves them: the
\* tables agree with each other and never run ahead of the chain, and a deployed row has the
\* amounts of the token unless a failed attempt's transaction landed.
THEOREM RecordsAreTrue == DeploySpec => []RecordsTrue
<1>1. DeployInv => RecordsTrue
  <2> SUFFICES ASSUME DeployInv PROVE RecordsTrue OBVIOUS
  <2>1. FracTypeOK /\ OffTypeOK /\ RefersToRows /\ OneActive /\ FracLatch /\ EscrowLatch
    BY DEF DeployInv, FracInv, OffInv
  <2>2. DeployTypeOK BY <2>1 DEF DeployTypeOK, FracTypeOK, OffTypeOK, FracPcs
  <2>3. ArtworkTracksRows
    <3> DEFINE A == Status("deploying") \cup Status("deployed")
    <3>1. A = {} \/ \E i \in A : A = {i} BY <2>1 DEF OneActive
    <3>2. Cardinality(A) <= 1
      <4> HIDE DEF A
      <4>1. CASE A = {} BY <4>1, FS_EmptySet
      <4>2. ASSUME NEW i \in A, A = {i} PROVE Cardinality(A) <= 1
        <5>1. Cardinality({i}) = 1 BY FS_Singleton
        <5> QED BY <4>2, <5>1
      <4> QED BY <3>1, <4>1, <4>2
    <3> QED BY <2>1, <3>2 DEF ArtworkTracksRows, OneActive
  <2>4. RecordedOnChain BY <2>1 DEF RecordedOnChain, FracLatch, EscrowLatch
  <2>5. AmountsMatch
    BY <2>1 DEF AmountsMatch, FracLatch, OneActive, RefersToRows, Status, FracTypeOK
  <2> QED BY <2>2, <2>3, <2>4, <2>5 DEF RecordsTrue
<1> QED BY <1>1, DeployInvariance, PTL

\* process's belts and the deploy's retries: the escrow on chain pays the artist the quorum
\* attested to and sells the planned float.
THEOREM EscrowIsAttested == DeploySpec => []EscrowAttested
<1>1. DeployInv => EscrowAttested
  BY DEF DeployInv, OffInv, Claimed, ArgsAttested, Attested, EscrowAttested
<1> QED BY <1>1, DeployInvariance, PTL
=============================================================================
