-------------------------- MODULE MarketplaceProofs --------------------------
(***************************************************************************)
(* The fraction token's and the settler's properties, for any number of    *)
(* addresses, trades, upgrades and interim writes, and for any trade the   *)
(* token's settler could ask for; and, last, the KYC intake of those whom  *)
(* the token's allowlist admits.                                           *)
(***************************************************************************)
EXTENDS MarketplaceSettler, KycIntake, SumsProofs

\* The seal: an interim executable runs only under it, and what it is compared with is what
\* this code left behind.
Sealed ==
  /\ ~canonical => pending
  /\ pending => /\ snapshot.supply = honest.supply
                /\ snapshot.minted = honest.minted
                /\ snapshot.digest = <<"bound", honest.leftover>>
                /\ snapshot.artistUntil \in Nat /\ snapshot.artistUntil >= ArtistLockup
                /\ snapshot.treasuryUntil \in Nat /\ snapshot.treasuryUntil >= TreasuryLockup

\* Before an interim executable writes, the slots are this code's own, sealed or not.
Untampered ==
  tampers = 0 => minted = honest.minted /\ Leftover = honest.leftover

\* The inductive invariant.  NothingLaundered needs Sealed: migrate compares with the
\* snapshot, so the snapshot must be the state before the first interim write.
TokenInv ==
  /\ TypeOK /\ honest.leftover \in Nat
  /\ Sealed /\ Untampered
  /\ SupplyIsSum /\ LockupHeld /\ NothingLaundered

-----------------------------------------------------------------------------
\* The movement of an amount between two balances keeps them natural and keeps their sum.
LEMMA MovedKeepsSum ==
  ASSUME N \in Nat, NEW bal \in [Addresses -> Nat], NEW from \in Addresses, NEW to \in Addresses,
         NEW n \in Nat, n <= bal[from]
  PROVE  /\ Moved(bal, from, to, n) \in [Addresses -> Nat]
         /\ Sum(Moved(bal, from, to, n), N) = Sum(bal, N)
<1>1. CASE from = to BY <1>1 DEF Moved
<1>2. CASE from # to
  <2> DEFINE mid == [bal EXCEPT ![from] = @ - n]
             new == [mid EXCEPT ![to] = @ + n]
  <2>1. Moved(bal, from, to, n) = new BY <1>2 DEF Moved
  <2>2. mid \in [Addresses -> Nat] /\ new \in [Addresses -> Nat] OBVIOUS
  <2>3. IntegerTo(bal, N) /\ IntegerTo(mid, N) /\ IntegerTo(new, N)
    BY <2>2 DEF IntegerTo, Addresses
  <2>4. Sum(mid, N) = Sum(bal, N) + mid[from] - bal[from]
    <3>1. \A i \in 1..N : i # from => mid[i] = bal[i] BY DEF Addresses
    <3> HIDE DEF mid
    <3> QED BY <3>1, <2>3, SumUpdate DEF Addresses
  <2>5. Sum(new, N) = Sum(mid, N) + new[to] - mid[to]
    <3>1. \A i \in 1..N : i # to => new[i] = mid[i] BY <2>2 DEF Addresses
    <3> HIDE DEF mid, new
    <3> QED BY <3>1, <2>3, SumUpdate DEF Addresses
  <2>6. Sum(bal, N) \in Int /\ Sum(mid, N) \in Int BY <2>3, PrefixSumsIs
  <2>7. mid[from] = bal[from] - n /\ new[to] = mid[to] + n BY DEF Addresses
  <2>8. bal[from] \in Nat /\ mid[to] \in Nat BY <2>2
  <2> QED BY <2>1, <2>2, <2>4, <2>5, <2>6, <2>7, <2>8
<1> QED BY <1>1, <1>2

\* The cuts are natural and leave the seller something.
LEMMA Cuts ==
  ASSUME NEW g \in Int, g >= 0
  PROVE  /\ PlatformCut(g) \in Nat /\ ArtistCut(g) \in Nat /\ SellerNet(g) \in Nat
BY DEF PlatformCut, ArtistCut, SellerNet, PLATFORM_FEE_BPS, ROYALTY_BPS

\* The legs of a payable trade keep USDC balances natural.
LEMMA LegsPayable ==
  ASSUME N \in Nat, Treasury \in Addresses, ArtistPayout \in Addresses,
         usdc \in [Addresses -> Nat], NEW buyer \in Addresses, NEW seller \in Addresses,
         NEW g \in Int, g >= 0, Payable(buyer, g)
  PROVE  AfterSeller(buyer, seller, g) \in [Addresses -> Nat]
<1>1. PlatformCut(g) \in Nat /\ ArtistCut(g) \in Nat /\ SellerNet(g) \in Nat BY Cuts
<1>2. AfterPlatform(buyer, g) \in [Addresses -> Nat]
  BY <1>1, MovedKeepsSum DEF AfterPlatform, Payable
<1>3. AfterArtist(buyer, g) \in [Addresses -> Nat]
  BY <1>1, <1>2, MovedKeepsSum DEF AfterArtist, Payable
<1> QED BY <1>1, <1>3, MovedKeepsSum DEF AfterSeller, Payable

\* The constructor establishes the invariant.
LEMMA TokenInit == Init => TokenInv
<1> SUFFICES ASSUME Init PROVE TokenInv OBVIOUS
<1> USE AddressAssumption, AmountAssumption, BoundsAssumption
<1>0. minted \in BOOLEAN /\ canonical \in BOOLEAN /\ pending \in BOOLEAN BY Zenon DEF Init
<1>1. TypeOK /\ honest.leftover \in Nat
  <2>1. now \in 0..MaxTime /\ balance \in [Addresses -> Nat] /\ supply \in Int
        /\ leftover \in Nat \cup {Absent} /\ usdc \in [Addresses -> Nat]
        /\ distribution \in [Addresses -> Nat] /\ tampers \in 0..MaxTampers
        /\ honest.leftover \in Nat
    BY DEF Init
  <2>2. artistUntil \in Nat /\ treasuryUntil \in Nat /\ config \in {"bound", "repointed"}
        /\ allowed \subseteq Addresses /\ frozen \subseteq Addresses
    BY DEF Init
  <2> QED BY <1>0, <2>1, <2>2 DEF TypeOK
<1>2. Sum(balance, N) = 0 BY SumZero DEF Init, Addresses
<1>3. SupplyIsSum BY <1>2 DEF Init, SupplyIsSum
<1>4. Sealed /\ Untampered BY DEF Init, Sealed, Untampered, Leftover, Absent
<1>5. LockupHeld BY DEF Init, LockupHeld
<1>6. NothingLaundered
  <2>1. minted = honest.minted BY Zenon DEF Init
  <2>2. supply = honest.supply /\ Leftover = honest.leftover BY DEF Init, Leftover
  <2>3. artistUntil >= ArtistLockup /\ treasuryUntil >= TreasuryLockup /\ config = "bound"
    BY DEF Init
  <2> QED BY <2>1, <2>2, <2>3 DEF NothingLaundered
<1> QED BY <1>1, <1>3, <1>4, <1>5, <1>6 DEF TokenInv

\* A step that leaves the slots and the seal alone keeps the invariant: gates and clock.
LEMMA SlotsUnchanged ==
  ASSUME TokenInv, TypeOK', UNCHANGED <<tokenVars, slotVars, sealVars>>, now' >= now
  PROVE  TokenInv'
<1> USE DEF tokenVars, slotVars, sealVars, TokenInv
<1>1. Sealed' /\ Untampered' BY DEF Sealed, Untampered, Leftover
<1>2. SupplyIsSum' BY DEF SupplyIsSum
<1>3. \A a : Locked(a)' => Locked(a) BY DEF Locked, TypeOK
<1>4. LockupHeld' BY <1>3 DEF LockupHeld
<1>5. NothingLaundered' BY DEF NothingLaundered, Leftover
<1> QED BY <1>1, <1>2, <1>4, <1>5

\* A movement the funnel lets through leaves a locked position at its floor or untouched.
LEMMA FunnelKeepsFloor ==
  ASSUME TokenInv, NEW from \in Addresses, NEW tos, NEW n \in Nat,
         guard_movement(from, tos, n), UNCHANGED <<now, artistUntil, treasuryUntil>>,
         UNCHANGED <<minted, leftover, distribution, tampers>>,
         honest'.leftover = honest.leftover,
         balance' \in [Addresses -> Nat],
         \A a \in Addresses :
           balance'[a] >= balance[a] \/ (a = from /\ balance'[a] >= balance[a] - n)
  PROVE  LockupHeld'
<1> USE AddressAssumption, AmountAssumption DEF TokenInv
<1> SUFFICES ASSUME tampers = 0, minted, NEW a \in {Artist, Treasury}, Locked(a)
             PROVE  \/ balance'[a] >= (IF a = Artist THEN ArtistRetention + honest.leftover
                                                     ELSE TreasuryRetention)
                    \/ balance'[a] >= distribution[a]
  BY DEF LockupHeld, Locked
<1>1. CASE balance'[a] >= balance[a] BY <1>1 DEF LockupHeld, TypeOK
<1>2. CASE a = from /\ balance'[a] >= balance[a] - n
  <2>1. balance[a] - n >= Floor(a) BY <1>2 DEF guard_movement, check_lockup_floor
  <2>2. Leftover = honest.leftover BY DEF guard_movement, NothingLaundered
  <2>3. Floor(a) = IF a = Artist THEN ArtistRetention + honest.leftover ELSE TreasuryRetention
    BY <2>2 DEF Floor, Locked
  <2> QED BY <1>2, <2>1, <2>3 DEF TypeOK
<1> QED BY <1>1, <1>2

\* transfer keeps the invariant: the funnel admits it, and a locked position stays at its floor.
LEMMA TransferStep ==
  ASSUME TokenInv, NEW from \in Addresses, NEW to \in Addresses, NEW n \in Int,
         transfer(from, to, n)
  PROVE  TokenInv'
<1> USE AddressAssumption DEF TokenInv, slotVars, sealVars, gateVars
<1>1. n \in Nat /\ n <= balance[from] BY DEF transfer, Movable
<1>2. balance \in [Addresses -> Nat] BY DEF TypeOK
<1>3. balance' \in [Addresses -> Nat] /\ Sum(balance', N) = Sum(balance, N)
  BY <1>1, <1>2, MovedKeepsSum DEF transfer
<1>4. TypeOK' BY <1>3 DEF TypeOK, transfer
<1>5. Sealed' /\ Untampered' BY DEF Sealed, Untampered, Leftover, transfer
<1>6. SupplyIsSum' BY <1>3 DEF SupplyIsSum, transfer
<1>7. LockupHeld'
  <2>1. \A a \in Addresses :
          balance'[a] >= balance[a] \/ (a = from /\ balance'[a] >= balance[a] - n)
    BY <1>1, <1>2 DEF transfer, Moved
  <2> QED BY <1>1, <1>3, <2>1, FunnelKeepsFloor DEF transfer
<1>8. NothingLaundered' BY DEF NothingLaundered, Leftover, transfer
<1>9. honest'.leftover \in Nat BY DEF transfer
<1> QED BY <1>4, <1>5, <1>6, <1>7, <1>8, <1>9

\* burn keeps the invariant: supply and balance shrink by the same amount.
LEMMA BurnStep ==
  ASSUME TokenInv, NEW from \in Addresses, NEW n \in Int, burn(from, n)
  PROVE  TokenInv'
<1> USE AddressAssumption DEF TokenInv, slotVars, sealVars, gateVars
<1>1. n \in Nat /\ n <= balance[from] BY DEF burn, Movable
<1>2. balance \in [Addresses -> Nat] BY DEF TypeOK
<1>3. balance' = [balance EXCEPT ![from] = @ - n] BY DEF burn
<1>4. balance' \in [Addresses -> Nat] BY <1>1, <1>2, <1>3
<1>5. Sum(balance', N) = Sum(balance, N) - n
  <2>1. IntegerTo(balance, N) /\ IntegerTo(balance', N) BY <1>2, <1>4 DEF IntegerTo, Addresses
  <2>2. \A i \in 1..N : i # from => balance'[i] = balance[i] BY <1>2, <1>3 DEF Addresses
  <2>3. Sum(balance', N) = Sum(balance, N) + balance'[from] - balance[from]
    BY <2>1, <2>2, SumUpdate DEF Addresses
  <2>4. balance'[from] = balance[from] - n BY <1>2, <1>3
  <2>5. Sum(balance, N) \in Int BY <2>1, PrefixSumsIs
  <2> QED BY <1>1, <1>2, <2>3, <2>4, <2>5
<1>6. supply' = supply - n /\ honest'.supply = supply'
      /\ honest'.leftover = Leftover /\ honest'.minted = minted
  BY DEF burn, Recorded, Leftover
<1>7. ~pending /\ Leftover = honest.leftover /\ minted = honest.minted
  BY DEF burn, guard_movement, NothingLaundered
<1>8. TypeOK'
  <2>1. supply' \in Int BY <1>1, <1>6 DEF TypeOK
  <2> QED BY <1>4, <2>1 DEF TypeOK, burn
<1>9. Sealed' /\ Untampered' BY <1>6, <1>7 DEF Sealed, Untampered, Leftover, burn
<1>10. SupplyIsSum' BY <1>5, <1>6 DEF SupplyIsSum, burn
<1>11. LockupHeld'
  <2>1. \A a \in Addresses :
          balance'[a] >= balance[a] \/ (a = from /\ balance'[a] >= balance[a] - n)
    BY <1>1, <1>2, <1>3
  <2> QED BY <1>1, <1>4, <1>6, <1>7, <2>1, FunnelKeepsFloor DEF burn
<1>12. NothingLaundered' BY <1>6, <1>7 DEF NothingLaundered, Leftover, burn
<1>13. honest'.leftover \in Nat BY <1>6, <1>7
<1> QED BY <1>8, <1>9, <1>10, <1>11, <1>12, <1>13

\* mint_settle keeps the invariant: the supply grows by what the winners receive, once.
LEMMA MintStep ==
  ASSUME TokenInv, NEW dist \in [Addresses -> Int], mint_settle(dist)
  PROVE  TokenInv'
<1> USE AddressAssumption DEF TokenInv, slotVars, sealVars, gateVars
<1>1. dist \in [Addresses -> Nat] BY DEF mint_settle
<1>2. balance \in [Addresses -> Nat] BY DEF TypeOK
<1>3. balance' = [a \in Addresses |-> balance[a] + dist[a]] BY DEF mint_settle
<1>4. balance' \in [Addresses -> Nat] BY <1>1, <1>2, <1>3
<1>5. /\ Sum(balance', N) = Sum(balance, N) + Sum(dist, N)
      /\ Sum(balance, N) \in Int /\ Sum(dist, N) \in Int
  <2>1. IntegerTo(balance, N) /\ IntegerTo(dist, N) BY <1>1, <1>2 DEF IntegerTo, Addresses
  <2>2. \A i \in 1..N : balance'[i] = balance[i] + dist[i] BY <1>3 DEF Addresses
  <2> QED BY <2>1, <2>2, SumAdd, PrefixSumsIs
<1>6. supply' = supply + Sum(dist, N) /\ honest'.supply = supply' /\ honest'.leftover = Leftover
  BY DEF mint_settle, Recorded, Leftover
<1>7. minted' = honest'.minted BY DEF mint_settle, Recorded
<1>8. minted' \in BOOLEAN BY Zenon DEF mint_settle
<1>9. ~pending /\ Leftover = honest.leftover BY DEF mint_settle, NothingLaundered
<1>10. TypeOK'
  <2>1. supply' \in Int BY <1>5, <1>6 DEF TypeOK
  <2>2. distribution' \in [Addresses -> Nat] BY <1>1 DEF mint_settle
  <2> QED BY <1>4, <1>8, <2>1, <2>2 DEF TypeOK, mint_settle
<1>11. Sealed' /\ Untampered' BY <1>6, <1>7, <1>9 DEF Sealed, Untampered, Leftover, mint_settle
<1>12. SupplyIsSum' BY <1>5, <1>6 DEF SupplyIsSum, mint_settle, TypeOK
<1>13. \A a \in Addresses : balance'[a] >= distribution'[a]
  BY <1>1, <1>2, <1>3 DEF mint_settle
<1>14. LockupHeld' BY <1>13 DEF LockupHeld
<1>15. NothingLaundered' BY <1>6, <1>7, <1>9 DEF NothingLaundered, Leftover, mint_settle
<1>16. honest'.leftover \in Nat BY <1>6, <1>9
<1> QED BY <1>10, <1>11, <1>12, <1>14, <1>15, <1>16

\* record_absorbed_leftover keeps the invariant: it changes a counter only.
LEMMA LeftoverStep ==
  ASSUME TokenInv, NEW n \in Int, record_absorbed_leftover(n)
  PROVE  TokenInv'
<1> USE DEF TokenInv, slotVars, sealVars, gateVars
<1>1. n \in Nat /\ leftover' = n BY DEF record_absorbed_leftover
<1>2. Leftover' = n BY <1>1 DEF Leftover, Absent
<1>3. honest'.supply = supply /\ honest'.minted = minted /\ honest'.leftover = n
  BY <1>1 DEF record_absorbed_leftover, Recorded, Absent
<1>4. ~pending /\ ~minted BY DEF record_absorbed_leftover
<1>5. TypeOK' BY <1>1 DEF TypeOK, record_absorbed_leftover
<1>6. Sealed' /\ Untampered'
  BY <1>2, <1>3, <1>4 DEF Sealed, Untampered, record_absorbed_leftover
<1>7. SupplyIsSum' BY DEF SupplyIsSum, record_absorbed_leftover
<1>8. LockupHeld' BY <1>4 DEF LockupHeld, record_absorbed_leftover
<1>9. NothingLaundered' BY <1>2, <1>3, <1>4 DEF NothingLaundered, record_absorbed_leftover
<1> QED BY <1>1, <1>3, <1>5, <1>6, <1>7, <1>8, <1>9

\* settle_trade keeps the invariant: fractions move through the funnel, the legs are payable.
LEMMA TradeStep ==
  ASSUME TokenInv, NEW buyer \in Addresses, NEW seller \in Addresses, NEW n \in Int,
         NEW gross \in Int, settle_trade(buyer, seller, n, gross)
  PROVE  TokenInv'
<1> USE AddressAssumption DEF TokenInv, slotVars, sealVars, gateVars
<1>1. n \in Nat /\ n <= balance[seller] BY DEF settle_trade, Movable
<1>2. balance \in [Addresses -> Nat] /\ usdc \in [Addresses -> Nat] BY DEF TypeOK
<1>3. balance' \in [Addresses -> Nat] /\ Sum(balance', N) = Sum(balance, N)
  BY <1>1, <1>2, MovedKeepsSum, SMTT(20) DEF settle_trade
<1>4. usdc' \in [Addresses -> Nat] BY <1>2, LegsPayable DEF settle_trade
<1>5. TypeOK' BY <1>3, <1>4 DEF TypeOK, settle_trade
<1>6. Sealed' /\ Untampered' BY DEF Sealed, Untampered, Leftover, settle_trade
<1>7. SupplyIsSum' BY <1>3 DEF SupplyIsSum, settle_trade
<1>8. LockupHeld'
  <2>1. \A a \in Addresses :
          balance'[a] >= balance[a] \/ (a = seller /\ balance'[a] >= balance[a] - n)
    BY <1>1, <1>2 DEF settle_trade, Moved
  <2> QED BY <1>1, <1>3, <2>1, FunnelKeepsFloor DEF settle_trade
<1>9. NothingLaundered' BY DEF NothingLaundered, Leftover, settle_trade
<1>10. honest'.leftover \in Nat BY DEF settle_trade
<1> QED BY <1>5, <1>6, <1>7, <1>8, <1>9, <1>10

\* upgrade keeps the invariant: it seals the token over a snapshot of the slots.
LEMMA UpgradeStep ==
  ASSUME TokenInv, NEW c \in BOOLEAN, upgrade(c)
  PROVE  TokenInv'
<1> USE DEF TokenInv, tokenVars, slotVars, gateVars
<1>1. TypeOK'
  <2>1. pending' \in BOOLEAN /\ canonical' \in BOOLEAN BY Zenon DEF upgrade
  <2> QED BY <2>1 DEF TypeOK, upgrade
<1>2. Sealed'
  <2>1. CASE pending BY <2>1 DEF Sealed, upgrade
  <2>2. CASE ~pending
    <3>1. snapshot' = Snapshot BY <2>2 DEF upgrade
    <3>2. Snapshot.minted = honest.minted BY <2>2 DEF Snapshot, NothingLaundered
    <3>3. Snapshot.supply = honest.supply /\ Snapshot.digest = <<"bound", honest.leftover>>
      BY <2>2 DEF Snapshot, NothingLaundered, config_digest
    <3>4. Snapshot.artistUntil \in Nat /\ Snapshot.artistUntil >= ArtistLockup
          /\ Snapshot.treasuryUntil \in Nat /\ Snapshot.treasuryUntil >= TreasuryLockup
      BY <2>2 DEF Snapshot, NothingLaundered, TypeOK
    <3> QED BY <3>1, <3>2, <3>3, <3>4 DEF Sealed, upgrade
  <2> QED BY <2>1, <2>2
<1>3. Untampered' BY DEF Untampered, Leftover, upgrade
<1>4. SupplyIsSum' BY DEF SupplyIsSum, upgrade
<1>5. LockupHeld' BY DEF LockupHeld, Locked, upgrade
<1>6. NothingLaundered' BY DEF NothingLaundered, upgrade
<1>7. honest'.leftover \in Nat BY DEF upgrade
<1> QED BY <1>1, <1>2, <1>3, <1>4, <1>5, <1>6, <1>7

\* migrate keeps the invariant: it lifts the seal only over slots equal to the snapshot.
LEMMA MigrateStep ==
  ASSUME TokenInv, migrate
  PROVE  TokenInv'
<1> USE DEF TokenInv, tokenVars, slotVars, gateVars
<1>1. TypeOK'
  <2>1. pending' \in BOOLEAN BY Zenon DEF migrate
  <2> QED BY <2>1 DEF TypeOK, migrate
<1>2. Sealed' /\ Untampered' BY DEF Sealed, Untampered, Leftover, migrate
<1>3. SupplyIsSum' BY DEF SupplyIsSum, migrate
<1>4. LockupHeld' BY DEF LockupHeld, Locked, migrate
<1>5. NothingLaundered'
  <2>1. minted = honest.minted BY DEF migrate, Sealed
  <2>2. supply = honest.supply BY DEF migrate, Sealed
  <2>3. config = "bound" /\ Leftover = honest.leftover BY DEF migrate, Sealed, config_digest
  <2>4. artistUntil >= ArtistLockup /\ treasuryUntil >= TreasuryLockup
    BY AmountAssumption DEF migrate, Sealed, TypeOK
  <2> QED BY <2>1, <2>2, <2>3, <2>4 DEF NothingLaundered, Leftover, migrate
<1>6. honest'.leftover \in Nat BY DEF migrate
<1> QED BY <1>1, <1>2, <1>3, <1>4, <1>5, <1>6

\* The interim code can change slots only under the seal, which keeps the invariant.
LEMMA InterimStep ==
  ASSUME TokenInv, interimWrites
  PROVE  TokenInv'
<1> USE BoundsAssumption DEF TokenInv, sealVars, gateVars
<1>1. pending /\ pending' /\ tampers' # 0 BY DEF interimWrites, Sealed, TypeOK
<1>2. TypeOK'
  <2>1. minted' \in BOOLEAN BY Zenon DEF interimWrites, TypeOK
  <2>2. balance' \in [Addresses -> Nat] BY DEF interimWrites, TypeOK
  <2>3. supply' \in Int BY DEF interimWrites, TypeOK
  <2>4. leftover' \in Nat \cup {Absent}
    <3>1. Leftover \in Nat BY DEF TypeOK, Leftover
    <3> QED BY <3>1 DEF interimWrites, TypeOK
  <2>5. artistUntil' \in Nat /\ treasuryUntil' \in Nat BY DEF interimWrites, TypeOK
  <2>6. config' \in {"bound", "repointed"} BY DEF interimWrites, TypeOK
  <2>7. tampers' \in 0..MaxTampers BY DEF interimWrites, TypeOK
  <2> QED BY <2>1, <2>2, <2>3, <2>4, <2>5, <2>6, <2>7 DEF TypeOK, interimWrites
<1>3. Sealed' BY <1>1 DEF Sealed, interimWrites
<1>4. Untampered' /\ SupplyIsSum' /\ LockupHeld' /\ NothingLaundered'
  BY <1>1 DEF Untampered, SupplyIsSum, LockupHeld, NothingLaundered
<1>5. honest'.leftover \in Nat BY DEF interimWrites
<1> QED BY <1>2, <1>3, <1>4, <1>5

\* Gate changes, freezes and the clock leave balances and slots alone.
LEMMA GateStep ==
  ASSUME TokenInv, Compliance \/ tick
  PROVE  TokenInv'
<1> USE BoundsAssumption DEF tokenVars, slotVars, sealVars
<1>0. /\ KycSubjects \subseteq Addresses /\ FreezeSubjects \subseteq Addresses
      /\ allowed \subseteq Addresses /\ frozen \subseteq Addresses /\ now \in 0..MaxTime
  BY AddressAssumption DEF TokenInv, TypeOK
<1> DEFINE Rest == UNCHANGED <<tokenVars, slotVars, sealVars, usdc>>
           Gates == /\ allowed' \subseteq Addresses /\ frozen' \subseteq Addresses
                    /\ now' \in 0..MaxTime /\ now' >= now
<1>1. ASSUME NEW a \in KycSubjects, kycAdd(a) \/ kycRemove(a) PROVE Gates /\ Rest
  BY <1>0, <1>1 DEF kycAdd, kycRemove
<1>2. ASSUME NEW a \in FreezeSubjects, freeze(a) \/ unfreeze(a) PROVE Gates /\ Rest
  BY <1>0, <1>2 DEF freeze, unfreeze
<1>3. Gates /\ Rest
  <2>1. CASE set_kyc_allowlist
    <3>1. allowed' \subseteq Addresses BY <1>0, <2>1, Zenon DEF set_kyc_allowlist
    <3> QED BY <1>0, <2>1, <3>1 DEF set_kyc_allowlist
  <2>2. CASE set_freeze_set
    <3>1. frozen' \subseteq Addresses BY <1>0, <2>2, Zenon DEF set_freeze_set
    <3> QED BY <1>0, <2>2, <3>1 DEF set_freeze_set
  <2>3. CASE tick BY <1>0, <2>3 DEF tick, gateVars
  <2> QED BY <1>1, <1>2, <2>1, <2>2, <2>3 DEF Compliance
<1>4. TypeOK' BY <1>3 DEF TokenInv, TypeOK
<1> QED BY <1>3, <1>4, SlotsUnchanged

\* Every step of the token keeps the invariant.
LEMMA TokenStep == TokenInv /\ [Next]_vars => TokenInv'
<1> SUFFICES ASSUME TokenInv, [Next]_vars PROVE TokenInv' OBVIOUS
<1> USE AmountAssumption
<1>1. CASE Holder BY <1>1, TransferStep, BurnStep DEF Holder
<1>2. CASE Minter BY <1>2, MintStep, LeftoverStep DEF Minter
<1>3. CASE Admin BY <1>3, UpgradeStep DEF Admin
<1>4. CASE migrate BY <1>4, MigrateStep
<1>5. CASE interimWrites BY <1>5, InterimStep
<1>6. CASE Compliance \/ tick BY <1>6, GateStep
<1>7. CASE \E buyer, seller \in Addresses, n, gross \in Int :
             settle_trade(buyer, seller, n, gross)
  BY <1>7, TradeStep
<1>8. CASE UNCHANGED vars
  <2>1. UNCHANGED <<tokenVars, slotVars, sealVars, gateVars, now, usdc>> BY <1>8 DEF vars
  <2>2. TypeOK' BY <2>1 DEF TokenInv, TypeOK, tokenVars, slotVars, sealVars, gateVars
  <2>3. now' >= now BY <2>1 DEF TokenInv, TypeOK
  <2> QED BY <2>1, <2>2, <2>3, SlotsUnchanged
<1> QED BY <1>1, <1>2, <1>3, <1>4, <1>5, <1>6, <1>7, <1>8 DEF Next, TokenNext

\* Every reachable state of the token satisfies the inductive invariant.
THEOREM TokenInvariant == Spec => []TokenInv
<1> QED BY TokenInit, TokenStep, PTL DEF Spec

\* The token's arithmetic never leaves its types: nobody is overdrawn, in fractions or USDC.
THEOREM TokenTypeCorrect == Spec => []TypeOK
<1>1. TokenInv => TypeOK BY DEF TokenInv
<1> QED BY <1>1, TokenInvariant, PTL

\* The total supply is the sum of the holders' balances.
THEOREM TokenSupply == Spec => []SupplyIsSum
<1>1. TokenInv => SupplyIsSum BY DEF TokenInv
<1> QED BY <1>1, TokenInvariant, PTL

\* No sequence of calls brings a locked position below its floor.
THEOREM TokenLockup == Spec => []LockupHeld
<1>1. TokenInv => LockupHeld BY DEF TokenInv
<1> QED BY <1>1, TokenInvariant, PTL

\* No sequence of upgrades, interim writes and migrations launders a changed slot.
THEOREM TokenNothingLaundered == Spec => []NothingLaundered
<1>1. TokenInv => NothingLaundered BY DEF TokenInv
<1> QED BY <1>1, TokenInvariant, PTL

\* What the funnel and the seal allow a step of this code to do to a balance.
LEMMA GatesStep ==
  ASSUME TokenInv, Next, canonical, minted, NEW a \in Addresses
  PROVE  /\ balance'[a] > balance[a] => a \in allowed
         /\ balance'[a] # balance[a] => a \notin frozen /\ ~pending
<1> USE DEF TokenInv
<1>0. balance \in [Addresses -> Nat] BY DEF TypeOK
<1>1. CASE balance' = balance BY <1>0, <1>1
<1>2. ASSUME NEW from \in Addresses, NEW to \in Addresses, NEW n \in Int,
             guard_movement(from, {to}, n), Movable(from, n),
             balance' = Moved(balance, from, to, n)
      PROVE  /\ balance'[a] > balance[a] => a \in allowed
             /\ balance'[a] # balance[a] => a \notin frozen /\ ~pending
  <2>1. a \notin {from, to} => balance'[a] = balance[a] BY <1>0, <1>2 DEF Moved
  <2>2. balance'[a] > balance[a] => a = to BY <1>0, <1>2 DEF Moved, Movable
  <2> QED BY <1>0, <1>2, <2>1, <2>2 DEF guard_movement
<1>3. CASE Holder
  <2>1. CASE \E from, to \in Addresses, n \in Amounts : transfer(from, to, n)
    BY <2>1, <1>2, AmountAssumption DEF transfer
  <2>2. CASE \E from \in Addresses, n \in Amounts : burn(from, n)
    <3>1. PICK from \in Addresses, n \in Amounts : burn(from, n) BY <2>2
    <3>2. n \in Int BY AmountAssumption
    <3> QED BY <1>0, <3>1, <3>2 DEF burn, Movable, guard_movement
  <2> QED BY <1>3, <2>1, <2>2 DEF Holder
<1>4. CASE Minter
  BY <1>1, <1>4 DEF Minter, mint_settle, record_absorbed_leftover
<1>5. CASE \E buyer, seller \in Addresses, n, gross \in Int :
             settle_trade(buyer, seller, n, gross)
  BY <1>5, <1>2 DEF settle_trade
<1>6. CASE Admin \/ migrate \/ Compliance \/ tick
  BY <1>1, <1>6 DEF Admin, upgrade, migrate, Compliance, kycAdd, kycRemove, freeze, unfreeze,
     set_kyc_allowlist, set_freeze_set, tick, tokenVars
<1>7. CASE interimWrites BY <1>7 DEF interimWrites
<1> QED BY <1>3, <1>4, <1>5, <1>6, <1>7 DEF Next, TokenNext

\* Balances move only through the gates: after the distribution nobody off the allowlist gains,
\* nobody frozen gains or loses, and nothing moves under the seal.
THEOREM TokenGates == Spec => GatesRespected
<1>1. TokenInv /\ [Next]_vars =>
        [(canonical /\ minted) =>
           \A a \in Addresses :
             /\ balance'[a] > balance[a] => a \in allowed
             /\ balance'[a] # balance[a] => a \notin frozen /\ ~pending]_vars
  BY GatesStep
<1> QED BY <1>1, TokenInvariant, PTL DEF Spec, GatesRespected

-----------------------------------------------------------------------------
(***************************************************************************)
(* The settler.  To the token it is one of the callers Next allows, so all *)
(* of the above holds of the composition.                                  *)
(***************************************************************************)
\* Every step of the composition is a step of the token or leaves it as it is.
LEMMA SettlerCallsToken == [SNext]_mvars => [Next]_vars
<1> SUFFICES ASSUME [SNext]_mvars PROVE [Next]_vars OBVIOUS
<1>1. CASE TokenNext BY <1>1 DEF Next
<1>2. ASSUME NEW i \in 1..M, signSeller(i) \/ signBuyer(i) PROVE UNCHANGED vars
  BY <1>2 DEF signSeller, signBuyer
<1>3. ASSUME NEW i \in 1..M, NEW buyer \in Addresses, NEW seller \in Addresses,
             accept_quote(i, buyer, seller)
      PROVE  Next
  <2>1. Terms[i].count \in Int /\ Terms[i].gross \in Int BY TermsAssumption
  <2> QED BY <1>3, <2>1 DEF accept_quote, Next
<1>4. CASE UNCHANGED mvars BY <1>4 DEF mvars
<1> QED BY <1>1, <1>2, <1>3, <1>4 DEF SNext

\* The composition implements the token's specification.
THEOREM SettlerImplementsToken == SSpec => Spec
<1>1. SInit => Init BY DEF SInit
<1> QED BY <1>1, SettlerCallsToken, PTL DEF SSpec, Spec

\* The markers are exactly the keys traded on.
Marked ==
  /\ executed \in [1..M -> Nat]
  /\ \A i \in 1..M : executed[i] > 0 => Terms[i].key \in settled

\* The inductive invariant of the composition.
SettlerInv == TokenInv /\ Marked /\ SettledOnce /\ UsdcExplained

\* A tuple trades only between the buyer and the seller it was signed for: the buyer's auth
\* is the only one that covers the USDC legs.
LEMMA RolesKept ==
  ASSUME NEW i \in 1..M, NEW buyer \in Addresses, NEW seller \in Addresses,
         accept_quote(i, buyer, seller)
  PROVE  buyer = Terms[i].buyer /\ seller = Terms[i].seller
BY DEF accept_quote, Authorized, Spends, settle_trade

\* The legs of a trade change each balance by what the tuple pays it.
LEMMA LegsPay ==
  ASSUME TokenInv, NEW i \in 1..M, NEW buyer \in Addresses, NEW seller \in Addresses,
         accept_quote(i, buyer, seller), NEW a \in Addresses
  PROVE  usdc'[a] = usdc[a] + Paid(i, a)
<1> DEFINE g == Terms[i].gross
           P == PlatformCut(g)
           A == ArtistCut(g)
           S == SellerNet(g)
<1> USE AddressAssumption
<1>1. g \in Int /\ g >= 0 BY TermsAssumption
<1>2. P \in Nat /\ A \in Nat /\ S \in Nat BY <1>1, Cuts
<1>3. S = g - P - A BY DEF SellerNet
<1>4. buyer = Terms[i].buyer /\ seller = Terms[i].seller BY RolesKept
<1>5. usdc \in [Addresses -> Nat] BY DEF TokenInv, TypeOK
<1>6. Payable(buyer, g) /\ usdc' = AfterSeller(buyer, seller, g)
  BY DEF accept_quote, settle_trade
<1>7. AfterPlatform(buyer, g) \in [Addresses -> Nat]
  BY <1>2, <1>5, <1>6, MovedKeepsSum DEF AfterPlatform, Payable
<1>8. AfterArtist(buyer, g) \in [Addresses -> Nat]
  BY <1>2, <1>6, <1>7, MovedKeepsSum DEF AfterArtist, Payable
<1>9. Paid(i, a) = (IF a = Treasury THEN P ELSE 0) + (IF a = ArtistPayout THEN A ELSE 0)
                    + (IF a = seller THEN S ELSE 0) - (IF a = buyer THEN g ELSE 0)
  BY <1>3, <1>4 DEF Paid
<1> DEFINE u1 == AfterPlatform(buyer, g)
           u2 == AfterArtist(buyer, g)
<1>10. u1 \in [Addresses -> Nat] /\ u2 \in [Addresses -> Nat] BY <1>7, <1>8
<1>11. u1 = Moved(usdc, buyer, Treasury, P) /\ u2 = Moved(u1, buyer, ArtistPayout, A)
       /\ usdc' = Moved(u2, buyer, seller, S)
  BY <1>6 DEF AfterPlatform, AfterArtist, AfterSeller
<1> HIDE DEF g, P, A, S, u1, u2
<1>12. u1[a] = usdc[a] + (IF a = Treasury THEN P ELSE 0) - (IF a = buyer THEN P ELSE 0)
  BY <1>2, <1>5, <1>11 DEF Moved
<1>13. u2[a] = u1[a] + (IF a = ArtistPayout THEN A ELSE 0) - (IF a = buyer THEN A ELSE 0)
  BY <1>2, <1>10, <1>11 DEF Moved
<1>14. usdc'[a] = u2[a] + (IF a = seller THEN S ELSE 0) - (IF a = buyer THEN S ELSE 0)
  <2>1. buyer # seller BY <1>4, TermsAssumption
  <2>2. usdc' = [u2 EXCEPT ![buyer] = @ - S, ![seller] = @ + S] BY <2>1, <1>11 DEF Moved
  <2>3. CASE a = buyer BY <2>1, <2>2, <2>3, <1>2, <1>10
  <2>4. CASE a = seller BY <2>1, <2>2, <2>4, <1>2, <1>10
  <2>5. CASE a # buyer /\ a # seller BY <2>2, <2>5, <1>2, <1>10
  <2> QED BY <2>3, <2>4, <2>5
<1>15. usdc[a] \in Nat BY <1>5
<1>16. g = P + A + S BY <1>1, <1>2, <1>3
<1>17. usdc'[a] = usdc[a] + (IF a = Treasury THEN P ELSE 0) + (IF a = ArtistPayout THEN A ELSE 0)
                  + (IF a = seller THEN S ELSE 0) - (IF a = buyer THEN P + A + S ELSE 0)
  BY <1>2, <1>12, <1>13, <1>14, <1>15
<1> QED BY <1>2, <1>9, <1>15, <1>16, <1>17

\* What a tuple pays an address is an integer.
LEMMA PaidIsInt ==
  ASSUME NEW i \in 1..M, NEW a \in Addresses
  PROVE  Paid(i, a) \in Int
<1> DEFINE g == Terms[i].gross
           P == PlatformCut(g)
           A == ArtistCut(g)
<1>1. g \in Int /\ g >= 0 BY TermsAssumption
<1>2. P \in Int /\ A \in Int BY <1>1, Cuts
<1>3. Paid(i, a) = (IF a = Treasury THEN P ELSE 0) + (IF a = ArtistPayout THEN A ELSE 0)
                   + (IF a = Terms[i].seller THEN g - P - A ELSE 0)
                   - (IF a = Terms[i].buyer THEN g ELSE 0)
  BY Zenon DEF Paid
<1> HIDE DEF g, P, A
<1> QED BY <1>1, <1>2, <1>3

\* Initially no quote is settled and every balance is the initial one.
LEMMA SettlerInit == SInit => SettlerInv
<1> SUFFICES ASSUME SInit PROVE SettlerInv OBVIOUS
<1>1. TokenInv BY TokenInit DEF SInit
<1>2. Marked /\ SettledOnce BY DEF SInit, Marked, SettledOnce
<1>3. UsdcExplained
  <2> SUFFICES ASSUME NEW a \in Addresses
               PROVE  usdc[a] = InitialUsdc[a] + Sum([i \in 1..M |-> executed[i] * Paid(i, a)], M)
    BY DEF UsdcExplained
  <2> DEFINE f == [i \in 1..M |-> executed[i] * Paid(i, a)]
  <2>0. \A i \in 1..M : Paid(i, a) \in Int BY PaidIsInt
  <2>1. \A i \in 1..M : f[i] = 0 BY <2>0 DEF SInit
  <2>2. Sum(f, M) = 0
    <3> HIDE DEF f
    <3> QED BY <2>1, SumZero, TermsAssumption
  <2> QED BY <2>2, AmountAssumption DEF SInit, Init
<1> QED BY <1>1, <1>2, <1>3 DEF SettlerInv

\* accept_quote marks the quote settled with the trade that moves the money.
LEMMA AcceptStep ==
  ASSUME SettlerInv, TokenInv', NEW i \in 1..M, NEW buyer \in Addresses,
         NEW seller \in Addresses, accept_quote(i, buyer, seller)
  PROVE  SettlerInv'
<1> USE DEF SettlerInv
<1>1. executed' = [executed EXCEPT ![i] = @ + 1] /\ settled' = settled \cup {Terms[i].key}
      /\ Terms[i].key \notin settled
  BY DEF accept_quote
<1>2. executed[i] = 0 BY <1>1 DEF Marked
<1>3. Marked' BY <1>1 DEF Marked
<1>4. \A j \in 1..M : Terms[j].key = Terms[i].key => executed[j] = 0 BY <1>1 DEF Marked
<1>5. SettledOnce' BY <1>1, <1>2, <1>4 DEF SettledOnce, Marked
<1>6. UsdcExplained'
  <2> SUFFICES ASSUME NEW a \in Addresses
               PROVE  usdc'[a] = InitialUsdc[a]
                                 + Sum([j \in 1..M |-> executed'[j] * Paid(j, a)], M)
    BY DEF UsdcExplained, Paid, PlatformCut, ArtistCut
  <2> DEFINE f == [j \in 1..M |-> executed[j] * Paid(j, a)]
             h == [j \in 1..M |-> executed'[j] * Paid(j, a)]
  <2>1. \A j \in 1..M : Paid(j, a) \in Int BY PaidIsInt
  <2>2. IntegerTo(f, M) /\ IntegerTo(h, M)
    <3>1. ASSUME NEW j \in 1..M PROVE f[j] \in Int /\ h[j] \in Int
      <4>1. executed[j] \in Int /\ executed'[j] \in Int BY <1>3 DEF Marked
      <4> QED BY <2>1, <4>1
    <3> QED BY <3>1 DEF IntegerTo
  <2>3. \A j \in 1..M : j # i => h[j] = f[j] BY <1>1 DEF Marked
  <2>4. f[i] = 0 /\ h[i] = Paid(i, a) BY <1>1, <1>2, <2>1 DEF Marked
  <2>5. usdc[a] = InitialUsdc[a] + Sum(f, M) BY DEF UsdcExplained
  <2>6. usdc'[a] = usdc[a] + Paid(i, a) BY LegsPay
  <2> HIDE DEF f, h
  <2>7. Sum(h, M) = Sum(f, M) + h[i] - f[i] BY <2>2, <2>3, SumUpdate, TermsAssumption
  <2>8. Sum(f, M) \in Int BY <2>2, PrefixSumsIs, TermsAssumption
  <2>9. InitialUsdc[a] \in Nat /\ Paid(i, a) \in Int BY <2>1, AmountAssumption
  <2>10. usdc'[a] = InitialUsdc[a] + Sum(h, M) BY <2>4, <2>5, <2>6, <2>7, <2>8, <2>9
  <2> QED BY <2>10 DEF h
<1> QED BY <1>3, <1>5, <1>6

\* Only a trade moves USDC.
LEMMA TokenMovesNoUsdc == TokenNext => UNCHANGED usdc
BY DEF TokenNext, Holder, transfer, burn, Minter, mint_settle, record_absorbed_leftover, Admin,
   upgrade, migrate, interimWrites, Compliance, kycAdd, kycRemove, freeze, unfreeze,
   set_kyc_allowlist, set_freeze_set, tick

\* Every step of the composition keeps the settler's invariant.
LEMMA SettlerStep == SettlerInv /\ [SNext]_mvars => SettlerInv'
<1> SUFFICES ASSUME SettlerInv, [SNext]_mvars PROVE SettlerInv' OBVIOUS
<1>1. TokenInv' BY SettlerCallsToken, TokenStep DEF SettlerInv
<1>2. CASE UNCHANGED <<usdc, settled, executed>>
  BY <1>1, <1>2 DEF SettlerInv, Marked, SettledOnce, UsdcExplained, Paid, PlatformCut, ArtistCut
<1>3. CASE TokenNext /\ UNCHANGED settlerVars
  BY <1>2, <1>3, TokenMovesNoUsdc DEF settlerVars
<1>4. CASE \E i \in 1..M : signSeller(i) \/ signBuyer(i)
  BY <1>2, <1>4 DEF signSeller, signBuyer, vars
<1>5. CASE \E i \in 1..M, buyer, seller \in Addresses : accept_quote(i, buyer, seller)
  BY <1>1, <1>5, AcceptStep
<1>6. CASE UNCHANGED mvars BY <1>2, <1>6 DEF mvars, vars, settlerVars
<1> QED BY <1>3, <1>4, <1>5, <1>6 DEF SNext

\* A signed quote settles at most once, under one of the terms it was signed with.
THEOREM SettlerOnce == SSpec => []SettledOnce
<1>1. SettlerInv => SettledOnce BY DEF SettlerInv
<1> QED BY <1>1, SettlerInit, SettlerStep, PTL DEF SSpec

\* Every USDC balance is explained by the trades executed.
THEOREM SettlerUsdc == SSpec => []UsdcExplained
<1>1. SettlerInv => UsdcExplained BY DEF SettlerInv
<1> QED BY <1>1, SettlerInit, SettlerStep, PTL DEF SSpec

-----------------------------------------------------------------------------
(***************************************************************************)
(* KYC intake: for any keys, documents, requests, sweeps and faults.       *)
(***************************************************************************)
\* Types, by what the actions leave alone together; those of the sweep's runs included.
StoreTyped ==
  redis \in [Keys -> {"none", "pending", "done"}] /\ owner \in [Keys -> 0..MaxRequests]
RequestsTyped ==
  /\ pc \in [Requests -> Finished \cup {"new", "check", "upload", "commit", "cleanup",
                                     "complete"}]
  /\ keyOf \in [Requests -> Keys] /\ sent \in [Requests -> [Docs -> {"todo", "up", "err"}]]
RowsTyped ==
  /\ kyc \in {"not_submitted", "pending_review", "whitelisted", "frozen"}
  /\ submission \in [Keys -> {"none", "pending_review", "approved", "rejected"}]
  /\ latest \in Keys \cup {"none"} /\ supersedes \in [Keys -> Keys \cup {"none"}]
  /\ docs \in [Objects -> 0..MaxRequests]
BucketTyped ==
  blob \in [Objects -> 0..MaxRequests] /\ old \subseteq {o \in Objects : blob[o] # 0}
SweepTyped ==
  sweep \in [Sweepers -> [step : {"idle", "listed", "deleting"}, targets : SUBSET Objects]]
HistoryTyped == unsafe \in BOOLEAN /\ faults \in 0..MaxFaults

KycTyped == StoreTyped /\ RequestsTyped /\ RowsTyped /\ BucketTyped /\ SweepTyped

\* A submission and its documents' rows are there together.
SubmissionRows ==
  \A k \in Keys : \E r \in 0..MaxRequests :
    (r = 0 <=> submission[k] = "none") /\ \A d \in Docs : docs[<<k, d>>] = r

\* A request has uploads only while it runs, and all of them once it commits.
StepOf ==
  /\ \A r \in Requests : pc[r] \in {"new", "check", "done", "failed"} => sent[r] = Fresh
  /\ \A r \in Requests : pc[r] \in {"commit", "complete"} => Uploaded(r) = Docs

\* Whoever wrote an object has begun, and is over when the object is old.
Writers ==
  /\ \A o \in Objects : blob[o] # 0 => pc[blob[o]] # "new"
  /\ \A o \in old : pc[blob[o]] \in Finished

\* At most one submission is under review, without counting them.
OneAtATime ==
  /\ \A k, l \in Keys :
       submission[k] = "pending_review" /\ submission[l] = "pending_review" => k = l
  /\ kyc = "pending_review" <=> \E k \in Keys : submission[k] = "pending_review"

\* One sweep runs, what it looks at is old, and what it is about to delete is in no row.
SweepsOld ==
  /\ \A s \in Sweepers : sweep[s].targets \subseteq old
  /\ \A s \in Sweepers : sweep[s] # NoSweep => Alone(s)
  /\ \A s \in Sweepers :
       sweep[s].step = "deleting" => \A o \in sweep[s].targets : docs[o] = 0

\* An upload that is up is in the bucket, whoever else runs under the same key.
UploadsKept ==
  \A r \in Requests : \A d \in Docs : sent[r][d] = "up" => blob[<<keyOf[r], d>>] = r

\* A row holds the data key of the object's writer, which has nothing left to clean up.
RowsFinal ==
  \A o \in Objects :
    docs[o] # 0 => blob[o] = docs[o] /\ pc[docs[o]] \in Finished \cup {"complete"}

\* What a submission supersedes is another one, and rejected.
PriorRejected ==
  \A k \in Keys :
    supersedes[k] # "none" => supersedes[k] # k /\ submission[supersedes[k]] = "rejected"

\* The inductive invariant.  DocumentsReadable is not inductive alone: no request and no sweep
\* may be about to delete what a row names.
KycBase == KycTyped /\ SubmissionRows /\ StepOf /\ Writers /\ OneAtATime
KycSafe == SweepsOld /\ UploadsKept /\ RowsFinal /\ PriorRejected
KycInv  == HistoryTyped /\ KycBase /\ (unsafe \/ KycSafe)

\* What a request commits is in the bucket, and no sweep looks at it.
LEMMA CommittedObjects ==
  ASSUME KycBase, KycSafe, NEW r \in Requests, pc[r] = "commit"
  PROVE  \A o \in Objects : o[1] = keyOf[r] => blob[o] = r /\ o \notin old
<1>1. SUFFICES ASSUME NEW d \in Docs
               PROVE  blob[<<keyOf[r], d>>] = r /\ <<keyOf[r], d>> \notin old
  BY DEF Objects
<1>2. sent[r][d] = "up" BY DEF KycBase, StepOf, Uploaded
<1> QED BY <1>2 DEF KycSafe, KycBase, UploadsKept, Writers, Finished

\* Its key has no row yet: a row's objects are of a request that is over.
LEMMA FirstCommit ==
  ASSUME KycBase, KycSafe, NEW r \in Requests, pc[r] = "commit"
  PROVE  submission[keyOf[r]] = "none"
<1>1. PICK d \in Docs : TRUE BY KycIntakeAssumption
<1>2. r # 0 /\ keyOf[r] \in Keys /\ <<keyOf[r], d>> \in Objects
  BY KycIntakeAssumption DEF KycBase, KycTyped, RequestsTyped, Requests, Objects
<1>3. blob[<<keyOf[r], d>>] = r BY <1>2, CommittedObjects
<1>4. docs[<<keyOf[r], d>>] = 0 BY <1>2, <1>3 DEF KycSafe, RowsFinal, Finished
<1> QED BY <1>2, <1>4 DEF KycBase, SubmissionRows

\* What Insert writes.
LEMMA InsertIs ==
  ASSUME KycBase, NEW r \in Requests, pc[r] = "commit", Insert(r)
  PROVE  /\ kyc' = "pending_review" /\ keyOf[r] \in Keys
         /\ submission' = [submission EXCEPT ![keyOf[r]] = "pending_review"]
         /\ supersedes' = [supersedes EXCEPT ![keyOf[r]] = Prior(keyOf[r])]
         /\ latest' = keyOf[r] /\ Prior(keyOf[r]) \in Keys \cup {"none"}
         /\ docs' = [o \in Objects |-> IF o[1] = keyOf[r] THEN r ELSE docs[o]]
         /\ \A l \in Keys : \A d \in Docs :
              docs'[<<l, d>>] = IF l = keyOf[r] THEN r ELSE docs[<<l, d>>]
<1>1. Uploaded(r) = Docs /\ keyOf[r] \in Keys BY DEF KycBase, KycTyped, RequestsTyped, StepOf
<1>2. docs' = [o \in Objects |-> IF o[1] = keyOf[r] THEN r ELSE docs[o]]
  BY <1>1 DEF Insert, Objects
<1>3. Prior(keyOf[r]) \in Keys \cup {"none"} BY DEF Prior, KycBase, KycTyped, RowsTyped
<1> QED BY <1>1, <1>2, <1>3 DEF Insert, Objects

\* What is enough for one sweep to be alone, its targets old and without rows.
LEMMA OneSweep ==
  ASSUME NEW s \in Sweepers, \A t \in Sweepers \ {s} : sweep'[t] = NoSweep,
         sweep'[s].targets \subseteq old',
         sweep'[s].step = "deleting" => \A o \in sweep'[s].targets : docs'[o] = 0
  PROVE  SweepsOld'
<1>1. \A t \in Sweepers : sweep'[t].targets \subseteq old'
  <2>1. NoSweep.targets = {} BY DEF NoSweep
  <2> QED BY <2>1
<1>2. \A t \in Sweepers : sweep'[t] # NoSweep => t = s OBVIOUS
<1>3. \A t \in Sweepers : sweep'[t].step = "deleting" => t = s
  <2>1. NoSweep.step # "deleting" BY DEF NoSweep
  <2> QED BY <2>1
<1> QED BY <1>1, <1>2, <1>3 DEF SweepsOld, Alone

\* A lost answer of a commit, or a second sweep, is not forgotten.
LEMMA HistoryStep == HistoryTyped /\ [KycNext]_kycVars => HistoryTyped' /\ (unsafe => unsafe')
<1> SUFFICES ASSUME HistoryTyped, [KycNext]_kycVars
             PROVE  HistoryTyped' /\ (unsafe => unsafe')
  OBVIOUS
<1>1. faults' \in 0..MaxFaults /\ (unsafe' = unsafe \/ unsafe' = TRUE)
  <2> USE KycIntakeAssumption DEF HistoryTyped
  <2>1. CASE Fault \/ UNCHANGED faultVars
    BY <2>1 DEF Fault, faultVars
  <2>2. CASE \E r \in Requests : commit(r)
    BY <2>2 DEF commit, Fault, faultVars
  <2>3. CASE \E s \in Sweepers : listObjectsOlderThan(s)
    BY <2>3 DEF listObjectsOlderThan, faultVars
  <2> QED
    BY <2>1, <2>2, <2>3, ZenonT(30)
    DEF KycNext, Submit, Sweep, kycVars, faultVars, begin, assertResubmitAllowed, settle, fail,
        complete, upload, cleanup, crash, expire, review, age, compare, delete, sweepCrash
<1>2. unsafe' \in BOOLEAN BY <1>1, Zenon DEF HistoryTyped
<1> QED BY <1>1, <1>2 DEF HistoryTyped

\* Every step keeps the part of the invariant that needs no exception.
LEMMA KycBaseStep == KycBase /\ [KycNext]_kycVars => KycBase'
<1> SUFFICES ASSUME KycBase, [KycNext]_kycVars PROVE KycBase'
  OBVIOUS
<1> USE KycIntakeAssumption
    DEF KycBase, KycTyped, Finished, storeVars, requestVars, dbVars, bucketVars, faultVars
<1>1. CASE \E r \in Requests : begin(r)
  <2>0. PICK r \in Requests, x \in {"check", "done", "failed"} :
          /\ pc[r] = "new" /\ pc' = [pc EXCEPT ![r] = x]
          /\ UNCHANGED <<keyOf, sent, docs, blob, old>>
          /\ \/ /\ redis' = [redis EXCEPT ![keyOf[r]] = "pending"]
                /\ owner' = [owner EXCEPT ![keyOf[r]] = r]
             \/ UNCHANGED <<redis, owner>>
    BY <1>1 DEF begin, Goto
  <2>1. StoreTyped'
    <3>1. keyOf[r] \in Keys /\ r \in 0..MaxRequests BY DEF RequestsTyped, Requests
    <3> QED BY <2>0, <3>1 DEF StoreTyped
  <2>2. RequestsTyped'
    BY <2>0 DEF RequestsTyped, Fresh, BucketTyped, Requests
  <2>3. StepOf'
    BY <2>0 DEF StepOf, Uploaded, Fresh, RequestsTyped, BucketTyped, Requests
  <2>4. Writers'
    BY <2>0 DEF Writers, RequestsTyped, BucketTyped, Requests
  <2>5. (RowsTyped /\ BucketTyped /\ SweepTyped /\ SubmissionRows /\ OneAtATime)'
    BY <1>1 DEF begin, Goto, RowsTyped, BucketTyped, SweepTyped, SubmissionRows, OneAtATime
  <2> QED BY <2>1, <2>2, <2>3, <2>4, <2>5
<1>2. CASE \E r \in Requests : assertResubmitAllowed(r)
  <2>1. RequestsTyped'
    BY <1>2 DEF assertResubmitAllowed, Goto, RequestsTyped, BucketTyped, Requests, Fresh
  <2>2. StepOf'
    BY <1>2 DEF assertResubmitAllowed, Goto, RequestsTyped, BucketTyped, Requests, StepOf,
           Uploaded, Fresh
  <2>3. Writers'
    BY <1>2 DEF assertResubmitAllowed, Goto, RequestsTyped, BucketTyped, Requests, Writers
  <2>4. (StoreTyped /\ RowsTyped /\ BucketTyped /\ SweepTyped /\ SubmissionRows /\ OneAtATime)'
    BY <1>2 DEF assertResubmitAllowed, Goto, StoreTyped, RowsTyped, BucketTyped, SweepTyped,
           SubmissionRows, OneAtATime
  <2> QED BY <2>1, <2>2, <2>3, <2>4
<1>3. CASE \E r \in Requests : settle(r)
  <2>1. RequestsTyped'
    BY <1>3 DEF settle, Settled, Goto, RequestsTyped, BucketTyped, Requests, Fresh
  <2>2. StepOf'
    BY <1>3 DEF settle, Settled, Goto, RequestsTyped, BucketTyped, Requests, StepOf, Uploaded,
           Fresh
  <2>3. Writers'
    BY <1>3 DEF settle, Settled, Goto, RequestsTyped, BucketTyped, Requests, Writers
  <2>4. (StoreTyped /\ RowsTyped /\ BucketTyped /\ SweepTyped /\ SubmissionRows /\ OneAtATime)'
    BY <1>3 DEF settle, Settled, Goto, StoreTyped, RowsTyped, BucketTyped, SweepTyped,
           SubmissionRows, OneAtATime
  <2> QED BY <2>1, <2>2, <2>3, <2>4
<1>4. CASE \E r \in Requests : commit(r)
  <2>0. PICK r \in Requests, x \in {"cleanup", "complete"} :
          /\ UNCHANGED <<redis, owner, keyOf, sent, blob, old, sweep>> /\ pc[r] = "commit"
          /\ pc' = [pc EXCEPT ![r] = x]
          /\ \/ UNCHANGED dbVars
             \/ Insert(r) /\ kyc = "not_submitted" /\ (unsafe' \/ x = "complete")
    BY <1>4 DEF commit, Fault, Goto
  <2>1. RequestsTyped'
    BY <2>0 DEF RequestsTyped, Fresh, BucketTyped, Requests
  <2>2. RowsTyped'
    <3>1. CASE UNCHANGED dbVars BY <2>0, <3>1 DEF dbVars, RowsTyped
    <3>2. CASE Insert(r) /\ kyc = "not_submitted"
      BY <2>0, <3>2, InsertIs DEF RowsTyped, Objects, Requests
    <3> QED BY <2>0, <3>1, <3>2
  <2>3. SubmissionRows'
    <3>1. CASE UNCHANGED dbVars BY <2>0, <3>1 DEF dbVars, SubmissionRows
    <3>2. CASE Insert(r)
      <4>1. SUFFICES ASSUME NEW l \in Keys
                     PROVE  \E q \in 0..MaxRequests : /\ q = 0 <=> submission'[l] = "none"
                                                      /\ \A d \in Docs : docs'[<<l, d>>] = q
        BY DEF SubmissionRows
      <4>2. CASE l = keyOf[r]
        <5>1. /\ submission'[l] # "none" /\ r # 0 /\ r \in 0..MaxRequests
              /\ \A d \in Docs : docs'[<<l, d>>] = r
          BY <2>0, <3>2, <4>2, InsertIs DEF RowsTyped, Requests
        <5> QED BY <5>1
      <4>3. CASE l # keyOf[r]
        BY <2>0, <3>2, <4>3, InsertIs, SMTT(20) DEF SubmissionRows, RowsTyped
      <4> QED BY <4>2, <4>3
    <3> QED BY <2>0, <3>1, <3>2
  <2>4. StepOf'
    BY <2>0 DEF StepOf, Uploaded, Fresh, RequestsTyped, BucketTyped, Requests
  <2>5. Writers'
    BY <2>0 DEF Writers, RequestsTyped, BucketTyped, Requests
  <2>6. OneAtATime'
    <3>1. CASE UNCHANGED dbVars BY <2>0, <3>1 DEF dbVars, OneAtATime
    <3>2. CASE Insert(r) /\ kyc = "not_submitted"
      BY <2>0, <3>2, InsertIs DEF OneAtATime, RowsTyped, Objects, Requests
    <3> QED BY <2>0, <3>1, <3>2
  <2>7. (StoreTyped /\ BucketTyped /\ SweepTyped)'
    BY <1>4 DEF commit, Fault, StoreTyped, BucketTyped, SweepTyped
  <2> QED BY <2>1, <2>2, <2>3, <2>4, <2>5, <2>6, <2>7
<1>5. CASE \E r \in Requests : fail(r)
  <2>0. PICK r \in Requests, s \in Finished :
          /\ pc' = [pc EXCEPT ![r] = s] /\ sent' = [sent EXCEPT ![r] = Fresh] /\ pc[r] # "new"
          /\ UNCHANGED <<keyOf, kyc, submission, latest, supersedes, docs, blob, old, sweep>>
    BY <1>5 DEF fail, Mine, End, Goto
  <2>1. StoreTyped'
    BY <1>5 DEF fail, Mine, End, Goto, RequestsTyped, BucketTyped, Requests, StoreTyped
  <2>2. RequestsTyped'
    BY <2>0 DEF RequestsTyped, Fresh, BucketTyped, Requests
  <2>3. StepOf'
    BY <2>0 DEF StepOf, Uploaded, Fresh, RequestsTyped, BucketTyped, Requests
  <2>4. Writers'
    BY <2>0 DEF Writers, RequestsTyped, BucketTyped, Requests
  <2>5. (RowsTyped /\ BucketTyped /\ SweepTyped /\ SubmissionRows /\ OneAtATime)'
    BY <1>5 DEF fail, Mine, End, Goto, RowsTyped, BucketTyped, SweepTyped, SubmissionRows,
           OneAtATime
  <2> QED BY <2>1, <2>2, <2>3, <2>4, <2>5
<1>6. CASE \E r \in Requests : complete(r)
  <2>0. PICK r \in Requests, s \in Finished :
          /\ pc' = [pc EXCEPT ![r] = s] /\ sent' = [sent EXCEPT ![r] = Fresh] /\ pc[r] # "new"
          /\ UNCHANGED <<keyOf, kyc, submission, latest, supersedes, docs, blob, old, sweep>>
    BY <1>6 DEF complete, Mine, End, Fault, Goto
  <2>1. StoreTyped'
    BY <1>6, ZenonT(30) DEF complete, Mine, End, Fault, Goto, RequestsTyped, BucketTyped,
           Requests, StoreTyped
  <2>2. RequestsTyped'
    BY <2>0 DEF RequestsTyped, Fresh, BucketTyped, Requests
  <2>3. StepOf'
    BY <2>0 DEF StepOf, Uploaded, Fresh, RequestsTyped, BucketTyped, Requests
  <2>4. Writers'
    BY <2>0 DEF Writers, RequestsTyped, BucketTyped, Requests
  <2>5. (RowsTyped /\ BucketTyped /\ SweepTyped /\ SubmissionRows /\ OneAtATime)'
    BY <1>6 DEF complete, Mine, End, Fault, Goto, RowsTyped, BucketTyped, SweepTyped,
           SubmissionRows, OneAtATime
  <2> QED BY <2>1, <2>2, <2>3, <2>4, <2>5
<1>7. CASE \E r \in Requests : \E d \in Docs : upload(r, d)
  <2>0. PICK r \in Requests, d \in Docs, o \in Objects, x \in {"up", "err"} :
          /\ pc[r] = "upload" /\ sent[r][d] = "todo"
          /\ UNCHANGED <<pc, keyOf, old, docs, sweep>> /\ o = <<keyOf[r], d>>
          /\ sent' = [sent EXCEPT ![r][d] = x]
          /\ \/ blob[o] = 0 /\ blob' = [blob EXCEPT ![o] = r]
             \/ blob' = blob /\ x = "err"
    BY <1>7, ZenonT(30) DEF upload, Fault, RequestsTyped, Objects
  <2>1. RequestsTyped'
    BY <2>0 DEF RequestsTyped, Fresh, BucketTyped, Requests
  <2>2. BucketTyped'
    <3>1. r \in 0..MaxRequests /\ r # 0 BY DEF Requests
    <3>2. blob' \in [Objects -> 0..MaxRequests] BY <2>0, <3>1 DEF BucketTyped
    <3>3. \A q \in Objects : blob[q] # 0 => blob'[q] # 0 BY <2>0, <3>1 DEF BucketTyped
    <3> QED BY <2>0, <3>2, <3>3 DEF BucketTyped
  <2>3. StepOf'
    BY <2>0 DEF StepOf, Uploaded, Fresh, RequestsTyped, BucketTyped, Requests
  <2>4. Writers'
    BY <2>0 DEF Writers, RequestsTyped, BucketTyped, Requests
  <2>5. (StoreTyped /\ RowsTyped /\ SweepTyped /\ SubmissionRows /\ OneAtATime)'
    BY <1>7 DEF upload, Fault, StoreTyped, RowsTyped, SweepTyped, SubmissionRows, OneAtATime
  <2> QED BY <2>1, <2>2, <2>3, <2>4, <2>5
<1>8. CASE \E r \in Requests : \E d \in Docs : cleanup(r, d)
  <2>0. PICK r \in Requests, d \in Docs, o \in Objects :
          /\ pc[r] = "cleanup" /\ sent[r][d] = "up" /\ UNCHANGED <<pc, keyOf, docs, sweep>>
          /\ sent' = [sent EXCEPT ![r][d] = "todo"] /\ o = <<keyOf[r], d>>
          /\ \/ /\ blob' = [blob EXCEPT ![o] = 0]
                /\ old' = old \ {o}
             \/ UNCHANGED <<blob, old>>
    <3>1. PICK r \in Requests, d \in Docs : cleanup(r, d) BY <1>8
    <3>2. <<keyOf[r], d>> \in Objects BY DEF RequestsTyped, Objects
    <3> QED BY <3>1, <3>2 DEF cleanup, Fault
  <2>1. RequestsTyped'
    BY <2>0 DEF RequestsTyped, Fresh, BucketTyped, Requests
  <2>2. BucketTyped'
    <3>1. blob' \in [Objects -> 0..MaxRequests] BY <2>0 DEF BucketTyped
    <3>2. \A q \in Objects : q # o => blob'[q] = blob[q] BY <2>0 DEF BucketTyped
    <3> QED BY <2>0, <3>1, <3>2 DEF BucketTyped
  <2>3. StepOf'
    BY <2>0 DEF StepOf, Uploaded, Fresh, RequestsTyped, BucketTyped, Requests
  <2>4. Writers'
    BY <2>0 DEF Writers, RequestsTyped, BucketTyped, Requests
  <2>5. (StoreTyped /\ RowsTyped /\ SweepTyped /\ SubmissionRows /\ OneAtATime)'
    BY <1>8 DEF cleanup, Fault, StoreTyped, RowsTyped, SweepTyped, SubmissionRows, OneAtATime
  <2> QED BY <2>1, <2>2, <2>3, <2>4, <2>5
<1>9. CASE \E r \in Requests : crash(r)
  <2>0. PICK r \in Requests, s \in Finished :
          /\ pc' = [pc EXCEPT ![r] = s] /\ sent' = [sent EXCEPT ![r] = Fresh] /\ pc[r] # "new"
          /\ UNCHANGED <<keyOf, kyc, submission, latest, supersedes, docs, blob, old, sweep>>
    BY <1>9 DEF crash, Running, End, Fault, Goto
  <2>1. RequestsTyped'
    BY <2>0 DEF RequestsTyped, Fresh, BucketTyped, Requests
  <2>2. StepOf'
    BY <2>0 DEF StepOf, Uploaded, Fresh, RequestsTyped, BucketTyped, Requests
  <2>3. Writers'
    BY <2>0 DEF Writers, RequestsTyped, BucketTyped, Requests
  <2>4. (StoreTyped /\ RowsTyped /\ BucketTyped /\ SweepTyped /\ SubmissionRows /\ OneAtATime)'
    BY <1>9 DEF crash, Running, End, Fault, Goto, StoreTyped, RowsTyped, BucketTyped, SweepTyped,
           SubmissionRows, OneAtATime
  <2> QED BY <2>1, <2>2, <2>3, <2>4
<1>10. CASE \E k \in Keys : expire(k)
  <2>1. StoreTyped'
    BY <1>10 DEF expire, RequestsTyped, BucketTyped, Requests, StoreTyped
  <2>2. (RequestsTyped /\ RowsTyped /\ BucketTyped /\ SweepTyped /\ SubmissionRows /\ StepOf
        /\ Writers /\ OneAtATime)'
    BY <1>10 DEF expire, RequestsTyped, RowsTyped, BucketTyped, SweepTyped, SubmissionRows,
           StepOf, Writers, OneAtATime, Uploaded, Fresh
  <2> QED BY <2>1, <2>2
<1>11. CASE \E k \in Keys : review(k)
  <2>1. RowsTyped'
    BY <1>11, ZenonT(30) DEF review, RequestsTyped, BucketTyped, Requests, RowsTyped
  <2>2. SubmissionRows'
    <3>1. docs' = docs /\ \A l \in Keys : submission'[l] = "none" <=> submission[l] = "none"
      BY <1>11 DEF review, RowsTyped
    <3> QED BY <3>1 DEF SubmissionRows
  <2>3. OneAtATime'
    BY <1>11, ZenonT(30) DEF review, RequestsTyped, BucketTyped, Requests, OneAtATime, RowsTyped
  <2>4. (StoreTyped /\ RequestsTyped /\ BucketTyped /\ SweepTyped /\ StepOf /\ Writers)'
    BY <1>11 DEF review, StoreTyped, RequestsTyped, BucketTyped, SweepTyped, StepOf, Writers,
           Uploaded, Fresh
  <2> QED BY <2>1, <2>2, <2>3, <2>4
<1>12. CASE \E o \in Objects : age(o)
  <2>1. BucketTyped'
    BY <1>12 DEF age, Running, RequestsTyped, BucketTyped, Requests
  <2>2. Writers'
    BY <1>12 DEF age, Running, RequestsTyped, BucketTyped, Requests, Writers
  <2>3. (StoreTyped /\ RequestsTyped /\ RowsTyped /\ SweepTyped /\ SubmissionRows /\ StepOf
        /\ OneAtATime)'
    <3>1. UNCHANGED <<redis, owner, pc, keyOf, sent, kyc, submission, latest, supersedes, docs,
          sweep>>
      BY <1>12 DEF age
    <3> QED BY <3>1 DEF StoreTyped, RequestsTyped, RowsTyped, SweepTyped, SubmissionRows, StepOf,
          OneAtATime, Uploaded, Fresh
  <2> QED BY <2>1, <2>2, <2>3
<1>13. CASE \E s \in Sweepers : listObjectsOlderThan(s)
  <2>1. SweepTyped'
    BY <1>13 DEF listObjectsOlderThan, SetSweep, RequestsTyped, BucketTyped, Requests, SweepTyped
  <2>2. (StoreTyped /\ RequestsTyped /\ RowsTyped /\ BucketTyped /\ SubmissionRows /\ StepOf
        /\ Writers /\ OneAtATime)'
    BY <1>13 DEF listObjectsOlderThan, SetSweep, StoreTyped, RequestsTyped, RowsTyped,
           BucketTyped, SubmissionRows, StepOf, Writers, OneAtATime, Uploaded, Fresh
  <2> QED BY <2>1, <2>2
<1>14. CASE \E s \in Sweepers : compare(s)
  <2>1. SweepTyped'
    BY <1>14 DEF compare, SetSweep, RequestsTyped, BucketTyped, Requests, SweepTyped
  <2>2. (StoreTyped /\ RequestsTyped /\ RowsTyped /\ BucketTyped /\ SubmissionRows /\ StepOf
        /\ Writers /\ OneAtATime)'
    BY <1>14 DEF compare, SetSweep, StoreTyped, RequestsTyped, RowsTyped, BucketTyped,
           SubmissionRows, StepOf, Writers, OneAtATime, Uploaded, Fresh
  <2> QED BY <2>1, <2>2
<1>15. CASE \E s \in Sweepers, o \in Objects : delete(s, o)
  <2>0. PICK s \in Sweepers, o \in Objects, x \in {"idle", "deleting"} :
          /\ sweep[s].step = "deleting" /\ o \in sweep[s].targets
          /\ UNCHANGED <<pc, keyOf, sent, docs>>
          /\ \/ blob' = [blob EXCEPT ![o] = 0] /\ old' = old \ {o}
             \/ UNCHANGED <<blob, old>>
          /\ x = "idle" => sweep[s].targets \ {o} = {}
          /\ sweep' = [sweep EXCEPT ![s] = [step |-> x, targets |-> sweep[s].targets \ {o}]]
    BY <1>15 DEF delete, SetSweep, Fault
  <2>1. BucketTyped'
    BY <2>0 DEF BucketTyped, RequestsTyped, Requests
  <2>2. SweepTyped'
    BY <2>0 DEF SweepTyped, BucketTyped, RequestsTyped, Requests
  <2>3. Writers'
    BY <2>0 DEF Writers, RequestsTyped, BucketTyped, Requests
  <2>4. (StoreTyped /\ RequestsTyped /\ RowsTyped /\ SubmissionRows /\ StepOf /\ OneAtATime)'
    BY <1>15 DEF delete, SetSweep, Fault, StoreTyped, RequestsTyped, RowsTyped, SubmissionRows,
           StepOf, OneAtATime, Uploaded, Fresh
  <2> QED BY <2>1, <2>2, <2>3, <2>4
<1>16. CASE \E s \in Sweepers : sweepCrash(s)
  <2>1. SweepTyped'
    BY <1>16 DEF sweepCrash, SetSweep, Fault, RequestsTyped, BucketTyped, Requests, SweepTyped
  <2>2. (StoreTyped /\ RequestsTyped /\ RowsTyped /\ BucketTyped /\ SubmissionRows /\ StepOf
        /\ Writers /\ OneAtATime)'
    <3>1. UNCHANGED <<redis, owner, pc, keyOf, sent, kyc, submission, latest, supersedes, docs,
          blob, old>>
      BY <1>16 DEF sweepCrash
    <3> QED BY <3>1 DEF StoreTyped, RequestsTyped, RowsTyped, BucketTyped, SubmissionRows,
          StepOf, Writers, OneAtATime, Uploaded, Fresh
  <2> QED BY <2>1, <2>2
<1>17. CASE UNCHANGED kycVars
  BY <1>17 DEF kycVars, StoreTyped, RequestsTyped, RowsTyped, BucketTyped, SweepTyped,
         SubmissionRows, StepOf, Writers, OneAtATime, Uploaded, Fresh
<1> QED BY <1>1, <1>2, <1>3, <1>4, <1>5, <1>6, <1>7, <1>8, <1>9, <1>10, <1>11, <1>12, <1>13,
      <1>14, <1>15, <1>16, <1>17 DEF KycNext, Submit, Sweep

\* Every step keeps the other part, until a commit's answer is lost or two sweeps run.
LEMMA KycSafeStep == KycBase /\ KycSafe /\ [KycNext]_kycVars /\ ~unsafe' => KycSafe'
<1> SUFFICES ASSUME KycBase, KycSafe, [KycNext]_kycVars, ~unsafe' PROVE KycSafe'
  OBVIOUS
<1> USE KycIntakeAssumption
    DEF KycBase, KycTyped, KycSafe, Finished, storeVars, requestVars, dbVars, bucketVars,
    faultVars
<1>1. CASE \E r \in Requests : begin(r)
  <2>0. PICK r \in Requests, x \in {"check", "done", "failed"} :
          /\ pc[r] = "new" /\ pc' = [pc EXCEPT ![r] = x]
          /\ UNCHANGED <<keyOf, sent, docs, blob, old>>
          /\ \/ /\ redis' = [redis EXCEPT ![keyOf[r]] = "pending"]
                /\ owner' = [owner EXCEPT ![keyOf[r]] = r]
             \/ UNCHANGED <<redis, owner>>
    BY <1>1 DEF begin, Goto
  <2>1. RowsFinal'
    BY <2>0 DEF RowsFinal, Writers, StepOf, SweepsOld, UploadsKept, RequestsTyped, BucketTyped,
           Requests
  <2>2. (SweepsOld /\ UploadsKept /\ PriorRejected)'
    BY <1>1 DEF begin, Goto, SweepsOld, UploadsKept, PriorRejected, Alone, NoSweep
  <2> QED BY <2>1, <2>2
<1>2. CASE \E r \in Requests : assertResubmitAllowed(r)
  <2>1. RowsFinal'
    BY <1>2 DEF assertResubmitAllowed, Goto, RequestsTyped, BucketTyped, Requests, RowsFinal,
           Writers, StepOf, SweepsOld, UploadsKept
  <2>2. (SweepsOld /\ UploadsKept /\ PriorRejected)'
    BY <1>2 DEF assertResubmitAllowed, Goto, SweepsOld, UploadsKept, PriorRejected, Alone, NoSweep
  <2> QED BY <2>1, <2>2
<1>3. CASE \E r \in Requests : settle(r)
  <2>1. RowsFinal'
    BY <1>3 DEF settle, Settled, Goto, RequestsTyped, BucketTyped, Requests, RowsFinal, Writers,
           StepOf, SweepsOld, UploadsKept
  <2>2. (SweepsOld /\ UploadsKept /\ PriorRejected)'
    BY <1>3 DEF settle, Settled, Goto, SweepsOld, UploadsKept, PriorRejected, Alone, NoSweep
  <2> QED BY <2>1, <2>2
<1>4. CASE \E r \in Requests : commit(r)
  <2>0. PICK r \in Requests, x \in {"cleanup", "complete"} :
          /\ UNCHANGED <<redis, owner, keyOf, sent, blob, old, sweep>> /\ pc[r] = "commit"
          /\ pc' = [pc EXCEPT ![r] = x]
          /\ \/ UNCHANGED dbVars
             \/ Insert(r) /\ kyc = "not_submitted" /\ (unsafe' \/ x = "complete")
    BY <1>4 DEF commit, Fault, Goto
  <2>1. SweepsOld'
    <3>1. CASE UNCHANGED dbVars BY <2>0, <3>1 DEF dbVars, SweepsOld, Alone, SweepTyped,
          BucketTyped
    <3>2. CASE Insert(r) /\ x = "complete"
      BY <2>0, <3>2, InsertIs, CommittedObjects DEF SweepsOld, Alone, SweepTyped, BucketTyped
    <3> QED BY <2>0, <3>1, <3>2
  <2>2. RowsFinal'
    <3>1. CASE UNCHANGED dbVars BY <2>0, <3>1 DEF dbVars, RowsFinal, RequestsTyped, RowsTyped
    <3>2. CASE Insert(r) /\ x = "complete"
      <4>1. SUFFICES ASSUME NEW o \in Objects, docs'[o] # 0
                     PROVE  blob[o] = docs'[o] /\ pc'[docs'[o]] \in Finished \cup {"complete"}
        BY <2>0 DEF RowsFinal
      <4>2. pc'[r] = "complete" BY <2>0, <3>2 DEF RequestsTyped
      <4>3. CASE o[1] = keyOf[r]
        BY <2>0, <3>2, <4>2, <4>3, InsertIs, CommittedObjects
      <4>4. CASE o[1] # keyOf[r]
        <5>1. docs'[o] = docs[o] BY <2>0, <3>2, <4>4, InsertIs
        <5> QED BY <2>0, <4>1, <4>2, <5>1 DEF RowsFinal, RequestsTyped
      <4> QED BY <4>3, <4>4
    <3> QED BY <2>0, <3>1, <3>2
  <2>3. PriorRejected'
    <3>1. CASE UNCHANGED dbVars BY <2>0, <3>1 DEF dbVars, PriorRejected
    <3>2. CASE Insert(r)
      <4>1. submission[keyOf[r]] = "none" BY <2>0, FirstCommit
      <4> QED BY <2>0, <3>2, <4>1, InsertIs DEF PriorRejected, Prior, RowsTyped
    <3> QED BY <2>0, <3>1, <3>2
  <2>4. UploadsKept'
    BY <1>4 DEF commit, Fault, UploadsKept
  <2> QED BY <2>1, <2>2, <2>3, <2>4
<1>5. CASE \E r \in Requests : fail(r)
  <2>0. PICK r \in Requests, s \in Finished :
          /\ pc' = [pc EXCEPT ![r] = s] /\ sent' = [sent EXCEPT ![r] = Fresh] /\ pc[r] # "new"
          /\ UNCHANGED <<keyOf, kyc, submission, latest, supersedes, docs, blob, old, sweep>>
    BY <1>5 DEF fail, Mine, End, Goto
  <2>1. UploadsKept'
    <3>1. \A q \in Requests, d \in Docs : sent'[q][d] = "up" => sent[q][d] = "up"
      BY <2>0 DEF Fresh, RequestsTyped
    <3> QED BY <2>0, <3>1 DEF UploadsKept
  <2>2. RowsFinal'
    BY <2>0 DEF RowsFinal, Writers, StepOf, SweepsOld, UploadsKept, RequestsTyped, BucketTyped,
           Requests
  <2>3. (SweepsOld /\ PriorRejected)'
    BY <1>5 DEF fail, Mine, End, Goto, SweepsOld, PriorRejected, Alone, NoSweep
  <2> QED BY <2>1, <2>2, <2>3
<1>6. CASE \E r \in Requests : complete(r)
  <2>0. PICK r \in Requests, s \in Finished :
          /\ pc' = [pc EXCEPT ![r] = s] /\ sent' = [sent EXCEPT ![r] = Fresh] /\ pc[r] # "new"
          /\ UNCHANGED <<keyOf, kyc, submission, latest, supersedes, docs, blob, old, sweep>>
    BY <1>6 DEF complete, Mine, End, Fault, Goto
  <2>1. UploadsKept'
    <3>1. \A q \in Requests, d \in Docs : sent'[q][d] = "up" => sent[q][d] = "up"
      BY <2>0 DEF Fresh, RequestsTyped
    <3> QED BY <2>0, <3>1 DEF UploadsKept
  <2>2. RowsFinal'
    BY <2>0 DEF RowsFinal, Writers, StepOf, SweepsOld, UploadsKept, RequestsTyped, BucketTyped,
           Requests
  <2>3. (SweepsOld /\ PriorRejected)'
    BY <1>6 DEF complete, Mine, End, Fault, Goto, SweepsOld, PriorRejected, Alone, NoSweep
  <2> QED BY <2>1, <2>2, <2>3
<1>7. CASE \E r \in Requests : \E d \in Docs : upload(r, d)
  <2>0. PICK r \in Requests, d \in Docs, o \in Objects, x \in {"up", "err"} :
          /\ pc[r] = "upload" /\ sent[r][d] = "todo"
          /\ UNCHANGED <<pc, keyOf, old, docs, sweep>> /\ o = <<keyOf[r], d>>
          /\ sent' = [sent EXCEPT ![r][d] = x]
          /\ \/ blob[o] = 0 /\ blob' = [blob EXCEPT ![o] = r]
             \/ blob' = blob /\ x = "err"
    BY <1>7, ZenonT(30) DEF upload, Fault, RequestsTyped, Objects
  <2>1. UploadsKept'
    <3>1. SUFFICES ASSUME NEW q \in Requests, NEW e \in Docs, sent'[q][e] = "up"
                   PROVE  blob'[<<keyOf[q], e>>] = q
      BY <2>0 DEF UploadsKept
    <3>2. <<keyOf[q], e>> \in Objects BY DEF RequestsTyped, Objects
    <3>3. CASE q = r /\ e = d
      BY <2>0, <3>1, <3>2, <3>3 DEF RequestsTyped, BucketTyped
    <3>4. CASE ~(q = r /\ e = d)
      <4>1. sent[q][e] = "up" BY <2>0, <3>1, <3>4 DEF RequestsTyped
      <4>2. blob[<<keyOf[q], e>>] = q /\ q # 0 BY <4>1 DEF UploadsKept, Requests
      <4> QED BY <2>0, <3>2, <4>2 DEF BucketTyped
    <3> QED BY <3>3, <3>4
  <2>2. RowsFinal'
    BY <2>0 DEF RowsFinal, Writers, StepOf, SweepsOld, UploadsKept, RequestsTyped, BucketTyped,
           Requests
  <2>3. (SweepsOld /\ PriorRejected)'
    BY <1>7 DEF upload, Fault, SweepsOld, PriorRejected, Alone, NoSweep
  <2> QED BY <2>1, <2>2, <2>3
<1>8. CASE \E r \in Requests : \E d \in Docs : cleanup(r, d)
  <2>0. PICK r \in Requests, d \in Docs, o \in Objects :
          /\ pc[r] = "cleanup" /\ sent[r][d] = "up" /\ UNCHANGED <<pc, keyOf, docs, sweep>>
          /\ sent' = [sent EXCEPT ![r][d] = "todo"] /\ o = <<keyOf[r], d>>
          /\ \/ /\ blob' = [blob EXCEPT ![o] = 0]
                /\ old' = old \ {o}
             \/ UNCHANGED <<blob, old>>
    <3>1. PICK r \in Requests, d \in Docs : cleanup(r, d) BY <1>8
    <3>2. <<keyOf[r], d>> \in Objects BY DEF RequestsTyped, Objects
    <3> QED BY <3>1, <3>2 DEF cleanup, Fault
  <2>1. SweepsOld'
    <3>1. blob[o] = r /\ pc[r] \notin Finished BY <2>0 DEF UploadsKept
    <3>2. o \notin old BY <3>1 DEF Writers
    <3> QED BY <2>0, <3>2 DEF SweepsOld, Alone
  <2>2. UploadsKept'
    <3>1. SUFFICES ASSUME NEW q \in Requests, NEW e \in Docs, sent'[q][e] = "up"
                   PROVE  blob'[<<keyOf[q], e>>] = q
      BY <2>0 DEF UploadsKept
    <3>2. <<keyOf[q], e>> \in Objects BY DEF RequestsTyped, Objects
    <3>3. sent[q][e] = "up" /\ ~(q = r /\ e = d) BY <2>0, <3>1 DEF RequestsTyped
    <3>4. blob[<<keyOf[q], e>>] = q /\ blob[o] = r BY <2>0, <3>3 DEF UploadsKept
    <3>5. <<keyOf[q], e>> # o
      <4>1. <<keyOf[q], e>> = o => q = r /\ e = d BY <2>0, <3>4
      <4> QED BY <3>3, <4>1
    <3> QED BY <2>0, <3>2, <3>4, <3>5 DEF BucketTyped
  <2>3. RowsFinal'
    BY <2>0 DEF RowsFinal, Writers, StepOf, SweepsOld, UploadsKept, RequestsTyped, BucketTyped,
           Requests
  <2>4. PriorRejected'
    BY <1>8 DEF cleanup, Fault, PriorRejected
  <2> QED BY <2>1, <2>2, <2>3, <2>4
<1>9. CASE \E r \in Requests : crash(r)
  <2>0. PICK r \in Requests, s \in Finished :
          /\ pc' = [pc EXCEPT ![r] = s] /\ sent' = [sent EXCEPT ![r] = Fresh] /\ pc[r] # "new"
          /\ UNCHANGED <<keyOf, kyc, submission, latest, supersedes, docs, blob, old, sweep>>
    BY <1>9 DEF crash, Running, End, Fault, Goto
  <2>1. UploadsKept'
    <3>1. \A q \in Requests, d \in Docs : sent'[q][d] = "up" => sent[q][d] = "up"
      BY <2>0 DEF Fresh, RequestsTyped
    <3> QED BY <2>0, <3>1 DEF UploadsKept
  <2>2. RowsFinal'
    BY <2>0 DEF RowsFinal, Writers, StepOf, SweepsOld, UploadsKept, RequestsTyped, BucketTyped,
           Requests
  <2>3. (SweepsOld /\ PriorRejected)'
    BY <1>9 DEF crash, Running, End, Fault, Goto, SweepsOld, PriorRejected, Alone, NoSweep
  <2> QED BY <2>1, <2>2, <2>3
<1>10. CASE \E k \in Keys : expire(k)
  <2>1. (SweepsOld /\ UploadsKept /\ RowsFinal /\ PriorRejected)'
    BY <1>10 DEF expire, SweepsOld, UploadsKept, RowsFinal, PriorRejected, Alone, NoSweep
  <2> QED BY <2>1
<1>11. CASE \E k \in Keys : review(k)
  <2>1. PriorRejected'
    BY <1>11 DEF review, RequestsTyped, BucketTyped, Requests, PriorRejected, RowsTyped
  <2>2. (SweepsOld /\ UploadsKept /\ RowsFinal)'
    BY <1>11 DEF review, SweepsOld, UploadsKept, RowsFinal, Alone, NoSweep
  <2> QED BY <2>1, <2>2
<1>12. CASE \E o \in Objects : age(o)
  <2>1. SweepsOld'
    BY <1>12 DEF age, Running, RequestsTyped, BucketTyped, Requests, SweepsOld, Alone, NoSweep,
           SweepTyped, RowsTyped, Writers, StepOf, UploadsKept, RowsFinal
  <2>2. (UploadsKept /\ RowsFinal /\ PriorRejected)'
    BY <1>12 DEF age, Running, UploadsKept, RowsFinal, PriorRejected
  <2> QED BY <2>1, <2>2
<1>13. CASE \E s \in Sweepers : listObjectsOlderThan(s)
  <2>1. SweepsOld'
    <3>1. PICK s \in Sweepers :
            /\ Alone(s) /\ sweep' = [sweep EXCEPT ![s] = [step |-> "listed", targets |-> old]]
            /\ UNCHANGED <<old, docs>>
      BY <1>13 DEF listObjectsOlderThan, SetSweep
    <3>2. \A t \in Sweepers \ {s} : sweep'[t] = NoSweep
      BY <3>1 DEF Alone, SweepTyped
    <3>3. sweep'[s].targets = old /\ sweep'[s].step = "listed" BY <3>1 DEF SweepTyped
    <3> QED BY <3>1, <3>2, <3>3, OneSweep
  <2>2. (UploadsKept /\ RowsFinal /\ PriorRejected)'
    BY <1>13 DEF listObjectsOlderThan, SetSweep, UploadsKept, RowsFinal, PriorRejected
  <2> QED BY <2>1, <2>2
<1>14. CASE \E s \in Sweepers : compare(s)
  <2>1. SweepsOld'
    <3>1. PICK s \in Sweepers, x \in {"idle", "deleting"} :
            /\ sweep[s].step = "listed" /\ UNCHANGED <<old, docs>>
            /\ sweep' = [sweep EXCEPT ![s] =
                 [step |-> x, targets |-> {o \in sweep[s].targets : docs[o] = 0}]]
      BY <1>14 DEF compare, SetSweep
    <3>2. sweep[s] # NoSweep BY <3>1 DEF NoSweep
    <3>3. \A t \in Sweepers \ {s} : sweep'[t] = NoSweep
      BY <3>1, <3>2 DEF SweepsOld, Alone, SweepTyped
    <3>4. sweep'[s].targets = {o \in sweep[s].targets : docs[o] = 0} BY <3>1 DEF SweepTyped
    <3>5. sweep'[s].targets \subseteq old' BY <3>1, <3>4 DEF SweepsOld
    <3> QED BY <3>1, <3>3, <3>4, <3>5, OneSweep
  <2>2. (UploadsKept /\ RowsFinal /\ PriorRejected)'
    BY <1>14 DEF compare, SetSweep, UploadsKept, RowsFinal, PriorRejected
  <2> QED BY <2>1, <2>2
<1>15. CASE \E s \in Sweepers, o \in Objects : delete(s, o)
  <2>0. PICK s \in Sweepers, o \in Objects, x \in {"idle", "deleting"} :
          /\ sweep[s].step = "deleting" /\ o \in sweep[s].targets
          /\ UNCHANGED <<pc, keyOf, sent, docs>>
          /\ \/ blob' = [blob EXCEPT ![o] = 0] /\ old' = old \ {o}
             \/ UNCHANGED <<blob, old>>
          /\ x = "idle" => sweep[s].targets \ {o} = {}
          /\ sweep' = [sweep EXCEPT ![s] = [step |-> x, targets |-> sweep[s].targets \ {o}]]
    BY <1>15 DEF delete, SetSweep, Fault
  <2>1. SweepsOld'
    <3>1. sweep[s] # NoSweep BY <2>0 DEF NoSweep
    <3>2. \A t \in Sweepers \ {s} : sweep'[t] = NoSweep
      BY <2>0, <3>1 DEF SweepsOld, Alone, SweepTyped
    <3>3. sweep'[s].targets = sweep[s].targets \ {o} BY <2>0 DEF SweepTyped
    <3>4. sweep'[s].targets \subseteq old' BY <2>0, <3>3 DEF SweepsOld
    <3>5. \A q \in sweep'[s].targets : docs'[q] = 0 BY <2>0, <3>3 DEF SweepsOld
    <3> QED BY <3>2, <3>4, <3>5, OneSweep
  <2>2. UploadsKept'
    <3>1. o \in old /\ pc[blob[o]] \in Finished BY <2>0 DEF SweepsOld, Writers
    <3>2. SUFFICES ASSUME NEW q \in Requests, NEW e \in Docs, sent[q][e] = "up"
                   PROVE  blob'[<<keyOf[q], e>>] = q
      BY <2>0 DEF UploadsKept
    <3>3. <<keyOf[q], e>> \in Objects BY DEF RequestsTyped, Objects
    <3>4. blob[<<keyOf[q], e>>] = q BY <3>2 DEF UploadsKept
    <3>5. pc[q] \notin Finished
      <4>1. sent[q] # Fresh BY <3>2 DEF Fresh
      <4> QED BY <4>1 DEF StepOf
    <3>6. <<keyOf[q], e>> # o BY <3>1, <3>4, <3>5
    <3> QED BY <2>0, <3>3, <3>4, <3>6 DEF BucketTyped
  <2>3. RowsFinal'
    BY <2>0 DEF RowsFinal, Writers, StepOf, SweepsOld, UploadsKept, RequestsTyped, BucketTyped,
           Requests
  <2>4. PriorRejected'
    BY <1>15 DEF delete, SetSweep, Fault, PriorRejected
  <2> QED BY <2>1, <2>2, <2>3, <2>4
<1>16. CASE \E s \in Sweepers : sweepCrash(s)
  <2>1. SweepsOld'
    <3>1. PICK s \in Sweepers :
            /\ sweep[s] # NoSweep /\ sweep' = [sweep EXCEPT ![s] = NoSweep]
            /\ UNCHANGED <<old, docs>>
      BY <1>16 DEF sweepCrash, SetSweep, NoSweep
    <3>2. \A t \in Sweepers : sweep'[t] = NoSweep
      BY <3>1 DEF SweepsOld, Alone, SweepTyped
    <3> QED BY <3>2, OneSweep DEF NoSweep
  <2>2. (UploadsKept /\ RowsFinal /\ PriorRejected)'
    BY <1>16 DEF sweepCrash, SetSweep, Fault, UploadsKept, RowsFinal, PriorRejected
  <2> QED BY <2>1, <2>2
<1>17. CASE UNCHANGED kycVars
  BY <1>17 DEF kycVars, SweepsOld, UploadsKept, RowsFinal, PriorRejected, Alone, NoSweep
<1> QED BY <1>1, <1>2, <1>3, <1>4, <1>5, <1>6, <1>7, <1>8, <1>9, <1>10, <1>11, <1>12, <1>13,
      <1>14, <1>15, <1>16, <1>17 DEF KycNext, Submit, Sweep

\* Nothing is submitted, uploaded or swept yet.
LEMMA KycInitInv == KycInit => KycInv
<1> SUFFICES ASSUME KycInit PROVE KycInv OBVIOUS
<1> USE KycIntakeAssumption DEF KycInit
<1>1. StoreTyped BY DEF StoreTyped
<1>2. RequestsTyped BY DEF RequestsTyped, Fresh
<1>3. RowsTyped BY DEF RowsTyped
<1>4. BucketTyped BY DEF BucketTyped
<1>5. SweepTyped BY DEF SweepTyped, NoSweep
<1>6. HistoryTyped
  <2>1. unsafe = FALSE /\ faults \in 0..MaxFaults OBVIOUS
  <2>2. unsafe \in BOOLEAN BY <2>1, Zenon
  <2> QED BY <2>1, <2>2 DEF HistoryTyped
<1>7. SubmissionRows BY DEF SubmissionRows, Objects
<1>8. StepOf BY DEF StepOf
<1>9. Writers BY DEF Writers
<1>10. OneAtATime BY DEF OneAtATime
<1>11. SweepsOld BY DEF SweepsOld, NoSweep
<1>12. UploadsKept BY DEF UploadsKept, Fresh
<1>13. RowsFinal BY DEF RowsFinal
<1>14. PriorRejected BY DEF PriorRejected
<1> QED
  BY <1>1, <1>2, <1>3, <1>4, <1>5, <1>6, <1>7, <1>8, <1>9, <1>10, <1>11, <1>12, <1>13, <1>14
  DEF KycInv, KycBase, KycTyped, KycSafe

\* The inductive invariant holds in every reachable state.
THEOREM KycInvariance == KycSpec => []KycInv
<1>1. ASSUME KycInv, [KycNext]_kycVars PROVE KycInv'
  <2>1. KycBase' BY <1>1, KycBaseStep DEF KycInv
  <2>2. HistoryTyped' /\ (unsafe => unsafe') BY <1>1, HistoryStep DEF KycInv
  <2> QED BY <1>1, <2>1, <2>2, KycSafeStep DEF KycInv
<1> QED BY <1>1, KycInitInv, PTL DEF KycSpec

\* commit's compare-and-set of the status: however many requests pass the advisory check, the
\* user's submissions form one line, with at most the last of them under review.
THEOREM OneSubmissionUnderReview == KycSpec => []OneUnderReview
<1>1. KycInv => OneUnderReview
  <2> SUFFICES ASSUME KycInv PROVE OneUnderReview OBVIOUS
  <2>1. KycTypeOK
    BY DEF KycInv, KycBase, KycTyped, SubmissionRows, KycTypeOK, StoreTyped, RequestsTyped,
           RowsTyped, BucketTyped, SweepTyped, HistoryTyped
  <2>2. OnePending
    <3> DEFINE P == {k \in Keys : submission[k] = "pending_review"}
    <3>1. OneAtATime BY DEF KycInv, KycBase
    <3>2. CASE P = {}
      BY <3>1, <3>2, FS_EmptySet DEF OneAtATime, OnePending
    <3>3. CASE P # {}
      <4>1. PICK k \in Keys : P = {k} BY <3>1, <3>3 DEF OneAtATime
      <4>2. Cardinality(P) = 1 BY <4>1, FS_Singleton
      <4> QED BY <3>1, <4>2 DEF OneAtATime, OnePending
    <3> QED BY <3>2, <3>3
  <2>3. SupersedesRejected BY DEF KycInv, KycSafe, PriorRejected, SupersedesRejected
  <2> QED BY <2>1, <2>2, <2>3 DEF OneUnderReview
<1> QED BY <1>1, KycInvariance, PTL

\* Upload first, commit then, delete what was uploaded on failure, sweep what is old: no row
\* names an object that is gone or that its data key does not decrypt.
THEOREM DocumentsStayReadable == KycSpec => []DocumentsReadable
<1>1. KycInv => DocumentsReadable BY DEF KycInv, KycSafe, RowsFinal, DocumentsReadable
<1> QED BY <1>1, KycInvariance, PTL
============================================================================
