---------------------------- MODULE FractionToken ----------------------------
(***************************************************************************)
(* One artwork's fraction token (contracts/tove-fraction-token) with the   *)
(* two gates it reads on every movement, the KYC allowlist and the         *)
(* emergency freeze set, and the seal that an upgrade puts on it.          *)
(*                                                                         *)
(* An action is the successful run of an entry point; a refused call       *)
(* stutters.  Signatures and the allowances of transfer_from and burn_from *)
(* only decide whether a call is refused, so the model leaves them open:   *)
(* transfer and burn stand for both forms.                                 *)
(***************************************************************************)
EXTENDS Sums

CONSTANTS
  N,                                    \* addresses are 1..N
  Artist, ArtistPayout, Treasury,       \* the addresses bound by the constructor
  ArtistRetention, TreasuryRetention,
  ArtistLockup, TreasuryLockup,         \* when the two lockups end
  Leftovers, Distributions, Amounts,    \* arguments callers try
  KycSubjects, FreezeSubjects,          \* addresses the compliance admins act on
  InitialUsdc,                          \* USDC each address starts with
  MaxTime,                              \* bound: ledger time
  MaxTampers                            \* bound: state changes by an interim executable

Addresses == 1..N

ASSUME AddressAssumption ==
  /\ N \in Nat
  /\ Artist \in Addresses /\ ArtistPayout \in Addresses /\ Treasury \in Addresses
  /\ KycSubjects \subseteq Addresses /\ FreezeSubjects \subseteq Addresses

ASSUME AmountAssumption ==
  /\ ArtistRetention \in Nat /\ TreasuryRetention \in Nat
  /\ ArtistLockup \in Nat /\ TreasuryLockup \in Nat
  /\ Leftovers \subseteq Int /\ Amounts \subseteq Int
  /\ Distributions \subseteq [Addresses -> Int]
  /\ InitialUsdc \in [Addresses -> Nat]

ASSUME BoundsAssumption == MaxTime \in Nat /\ MaxTampers \in Nat

VARIABLES
  now,                          \* ledger timestamp
  balance, supply,              \* OZ Base
  minted,                       \* DataKey::MintDone
  leftover,                     \* DataKey::ArtistAbsorbedLeftover, Absent before
  artistUntil, treasuryUntil,   \* DataKey::ArtistLockupUntil, TreasuryLockupUntil
  config,                       \* the other write-once slots: "bound" as the constructor did
  canonical,                    \* the executable is this one, not an interim build
  pending, snapshot,            \* DataKey::MigrationPending, InvariantSnapshot
  allowed, frozen,              \* the gating contracts' sets
  usdc,                         \* balances in the USDC token
  distribution,                 \* history: what mint_settle gave out
  honest,                       \* history: supply, mint flag, leftover as this code left them
  tampers                       \* history: state changes by an interim executable

tokenVars == <<balance, supply, minted, leftover, honest, distribution>>
slotVars  == <<artistUntil, treasuryUntil, config, tampers>>
sealVars  == <<canonical, pending, snapshot>>
gateVars  == <<allowed, frozen>>
vars == <<now, tokenVars, slotVars, sealVars, gateVars, usdc>>

Absent     == -1
Leftover   == IF leftover = Absent THEN 0 ELSE leftover
NoSnapshot == [supply |-> 0, artistUntil |-> 0, treasuryUntil |-> 0, minted |-> FALSE,
               digest |-> <<"none", 0>>]

\* __constructor
Init ==
  /\ now = 0
  /\ balance = [a \in Addresses |-> 0] /\ supply = 0
  /\ minted = FALSE /\ leftover = Absent
  /\ artistUntil = ArtistLockup /\ treasuryUntil = TreasuryLockup
  /\ config = "bound"
  /\ canonical = TRUE /\ pending = FALSE /\ snapshot = NoSnapshot
  /\ allowed = {} /\ frozen = {}
  /\ usdc = InitialUsdc
  /\ distribution = [a \in Addresses |-> 0]
  /\ honest = [supply |-> 0, minted |-> FALSE, leftover |-> 0]
  /\ tampers = 0

\* The supply, the mint flag and the leftover as the step leaves them.
Recorded ==
  honest' = [supply |-> supply', minted |-> minted',
             leftover |-> IF leftover' = Absent THEN 0 ELSE leftover']

-----------------------------------------------------------------------------
(***************************************************************************)
(* The compliance funnel of every movement.                                *)
(***************************************************************************)
\* Fault: the leftover the artist absorbed does not raise the floor.
Fault_Floor(a) ==
  CASE a = Artist /\ now < artistUntil -> ArtistRetention
    [] a = Treasury /\ a # Artist /\ now < treasuryUntil -> TreasuryRetention
    [] OTHER -> 0

\* An address that is both artist and treasury has the artist's floor only.
Floor(a) ==
  CASE a = Artist /\ now < artistUntil -> ArtistRetention + Leftover
    [] a = Treasury /\ a # Artist /\ now < treasuryUntil -> TreasuryRetention
    [] OTHER -> 0

Locked(a) ==
  (a = Artist /\ now < artistUntil) \/ (a = Treasury /\ a # Artist /\ now < treasuryUntil)

check_lockup_floor(from, amount) == Locked(from) => balance[from] - amount >= Floor(from)

\* Fault: the freeze is checked for the sender only.
Fault_guard_movement(from, tos, amount) ==
  /\ ~pending
  /\ from \notin frozen
  /\ tos \subseteq allowed
  /\ check_lockup_floor(from, amount)

\* tos holds the recipient, if the movement has one.
guard_movement(from, tos, amount) ==
  /\ ~pending
  /\ (tos \cup {from}) \cap frozen = {}
  /\ tos \subseteq allowed
  /\ check_lockup_floor(from, amount)

\* OZ Base::update between two holders.
Movable(from, amount) == 0 <= amount /\ amount <= balance[from]

Moved(bal, from, to, amount) ==
  IF from = to THEN bal ELSE [bal EXCEPT ![from] = @ - amount, ![to] = @ + amount]

transfer(from, to, amount) ==
  /\ canonical
  /\ guard_movement(from, {to}, amount)
  /\ Movable(from, amount)
  /\ balance' = Moved(balance, from, to, amount)
  /\ UNCHANGED <<now, supply, minted, leftover, distribution, honest, slotVars, sealVars,
                 gateVars, usdc>>

\* Fault: the supply slot is left as it was.
Fault_burn(from, amount) ==
  /\ canonical
  /\ guard_movement(from, {}, amount)
  /\ Movable(from, amount)
  /\ balance' = [balance EXCEPT ![from] = @ - amount]
  /\ UNCHANGED <<now, supply, minted, leftover, distribution, honest, slotVars, sealVars,
                 gateVars, usdc>>

burn(from, amount) ==
  /\ canonical
  /\ guard_movement(from, {}, amount)
  /\ Movable(from, amount)
  /\ balance' = [balance EXCEPT ![from] = @ - amount]
  /\ supply' = supply - amount
  /\ UNCHANGED <<minted, leftover>> /\ Recorded
  /\ UNCHANGED <<now, distribution, slotVars, sealVars, gateVars, usdc>>

-----------------------------------------------------------------------------
(***************************************************************************)
(* The one-shot distribution.  dist[a] is the sum of the amounts the       *)
(* recipients vector holds for a, 0 when it does not name a.               *)
(***************************************************************************)
mint_settle(dist) ==
  /\ canonical /\ ~pending
  /\ ~minted
  /\ \A a \in Addresses : dist[a] >= 0
  /\ \E a \in Addresses : dist[a] > 0
  /\ balance' = [a \in Addresses |-> balance[a] + dist[a]]
  /\ supply' = supply + Sum(dist, N)
  /\ minted' = TRUE /\ distribution' = dist
  /\ UNCHANGED leftover /\ Recorded
  /\ UNCHANGED <<now, slotVars, sealVars, gateVars, usdc>>

record_absorbed_leftover(amount) ==
  /\ canonical /\ ~pending
  /\ ~minted
  /\ leftover = Absent
  /\ amount >= 0
  /\ leftover' = amount
  /\ UNCHANGED <<supply, minted>> /\ Recorded
  /\ UNCHANGED <<now, balance, distribution, slotVars, sealVars, gateVars, usdc>>

-----------------------------------------------------------------------------
(***************************************************************************)
(* Settlement of a secondary trade: the fraction leg through the funnel,   *)
(* then up to three USDC legs, each a transfer from the buyer.             *)
(***************************************************************************)
ROYALTY_BPS      == 150
PLATFORM_FEE_BPS == 150

PlatformCut(gross) == (gross * PLATFORM_FEE_BPS) \div 10000
ArtistCut(gross)   == (gross * ROYALTY_BPS) \div 10000

\* Fault: the royalty is paid on top of the price instead of out of it.
Fault_SellerNet(gross) == gross - PlatformCut(gross)

SellerNet(gross) == gross - PlatformCut(gross) - ArtistCut(gross)

AfterPlatform(buyer, gross) == Moved(usdc, buyer, Treasury, PlatformCut(gross))
AfterArtist(buyer, gross)   ==
  Moved(AfterPlatform(buyer, gross), buyer, ArtistPayout, ArtistCut(gross))
AfterSeller(buyer, seller, gross) ==
  Moved(AfterArtist(buyer, gross), buyer, seller, SellerNet(gross))

\* Every leg finds what it needs when its turn comes.
Payable(buyer, gross) ==
  /\ usdc[buyer] >= PlatformCut(gross)
  /\ AfterPlatform(buyer, gross)[buyer] >= ArtistCut(gross)
  /\ AfterArtist(buyer, gross)[buyer] >= SellerNet(gross)

settle_trade(buyer, seller, count, gross) ==
  /\ canonical
  /\ count > 0 /\ gross >= 0 /\ buyer # seller
  /\ guard_movement(seller, {buyer}, count)
  /\ Movable(seller, count)
  /\ balance' = Moved(balance, seller, buyer, count)
  /\ Payable(buyer, gross)
  /\ usdc' = AfterSeller(buyer, seller, gross)
  /\ UNCHANGED <<now, supply, minted, leftover, distribution, honest, slotVars, sealVars,
                 gateVars>>

-----------------------------------------------------------------------------
(***************************************************************************)
(* Upgrade and migrate.  Between the two an interim executable may have    *)
(* run: it can write the token's slots, but not the seal or the snapshot,  *)
(* and it exposes an upgrade of its own (the recovery path).               *)
(***************************************************************************)
config_digest == <<config, Leftover>>

Snapshot == [supply |-> supply, artistUntil |-> artistUntil, treasuryUntil |-> treasuryUntil,
             minted |-> minted, digest |-> config_digest]

\* Fault: every upgrade records the state it finds as the baseline.
Fault_upgrade(toCanonical) ==
  /\ pending' = TRUE /\ snapshot' = Snapshot
  /\ canonical' = toCanonical
  /\ UNCHANGED <<now, tokenVars, slotVars, gateVars, usdc>>

upgrade(toCanonical) ==
  /\ pending' = TRUE
  /\ snapshot' = IF pending THEN snapshot ELSE Snapshot
  /\ canonical' = toCanonical
  /\ UNCHANGED <<now, tokenVars, slotVars, gateVars, usdc>>

\* Without a pending upgrade migrate changes nothing.
migrate ==
  /\ canonical /\ pending
  /\ supply = snapshot.supply
  /\ artistUntil >= snapshot.artistUntil
  /\ treasuryUntil >= snapshot.treasuryUntil
  /\ minted = snapshot.minted
  /\ config_digest = snapshot.digest
  /\ pending' = FALSE /\ snapshot' = NoSnapshot
  /\ UNCHANGED <<now, tokenVars, slotVars, canonical, gateVars, usdc>>

\* The interim build writes one slot.
interimWrites ==
  /\ ~canonical /\ tampers < MaxTampers
  /\ tampers' = tampers + 1
  /\ \/ /\ \E a \in Addresses, d \in {-1, 1} :
             balance[a] + d >= 0 /\ balance' = [balance EXCEPT ![a] = @ + d]
        /\ UNCHANGED <<supply, minted, leftover, artistUntil, treasuryUntil, config>>
     \/ /\ supply' = supply + 1
        /\ UNCHANGED <<balance, minted, leftover, artistUntil, treasuryUntil, config>>
     \/ /\ minted' = ~minted
        /\ UNCHANGED <<balance, supply, leftover, artistUntil, treasuryUntil, config>>
     \/ /\ leftover' \in {Absent, Leftover + 1}
        /\ UNCHANGED <<balance, supply, minted, artistUntil, treasuryUntil, config>>
     \/ /\ artistUntil' \in {0, artistUntil + 1}
        /\ UNCHANGED <<balance, supply, minted, leftover, treasuryUntil, config>>
     \/ /\ treasuryUntil' \in {0, treasuryUntil + 1}
        /\ UNCHANGED <<balance, supply, minted, leftover, artistUntil, config>>
     \/ /\ config' = "repointed"
        /\ UNCHANGED <<balance, supply, minted, leftover, artistUntil, treasuryUntil>>
  /\ UNCHANGED <<now, distribution, honest, sealVars, gateVars, usdc>>

-----------------------------------------------------------------------------
(***************************************************************************)
(* The gating contracts, and their replacement by other ones.              *)
(***************************************************************************)
kycAdd(a) ==
  /\ allowed' = allowed \cup {a}
  /\ UNCHANGED <<now, tokenVars, slotVars, sealVars, frozen, usdc>>

kycRemove(a) ==
  /\ allowed' = allowed \ {a}
  /\ UNCHANGED <<now, tokenVars, slotVars, sealVars, frozen, usdc>>

freeze(a) ==
  /\ frozen' = frozen \cup {a}
  /\ UNCHANGED <<now, tokenVars, slotVars, sealVars, allowed, usdc>>

unfreeze(a) ==
  /\ frozen' = frozen \ {a}
  /\ UNCHANGED <<now, tokenVars, slotVars, sealVars, allowed, usdc>>

set_kyc_allowlist ==
  /\ canonical
  /\ allowed' \in SUBSET KycSubjects
  /\ UNCHANGED <<now, tokenVars, slotVars, sealVars, frozen, usdc>>

set_freeze_set ==
  /\ canonical
  /\ frozen' \in SUBSET FreezeSubjects
  /\ UNCHANGED <<now, tokenVars, slotVars, sealVars, allowed, usdc>>

tick ==
  /\ now < MaxTime
  /\ now' = now + 1
  /\ UNCHANGED <<tokenVars, slotVars, sealVars, gateVars, usdc>>

Holder ==
  \/ \E from, to \in Addresses, n \in Amounts : transfer(from, to, n)
  \/ \E from \in Addresses, n \in Amounts : burn(from, n)
Minter ==
  \/ \E dist \in Distributions : mint_settle(dist)
  \/ \E n \in Leftovers : record_absorbed_leftover(n)
Admin == \E c \in BOOLEAN : upgrade(c)
Compliance ==
  \/ \E a \in KycSubjects : kycAdd(a) \/ kycRemove(a)
  \/ \E a \in FreezeSubjects : freeze(a) \/ unfreeze(a)
  \/ set_kyc_allowlist \/ set_freeze_set

\* Everything but the marketplace.
TokenNext == Holder \/ Minter \/ Admin \/ migrate \/ interimWrites \/ Compliance \/ tick

\* The token trusts its settler, so alone it must bear any trade the settler may ask for.
Next ==
  \/ TokenNext
  \/ \E buyer, seller \in Addresses, n, gross \in Int : settle_trade(buyer, seller, n, gross)

Spec == Init /\ [][Next]_vars

-----------------------------------------------------------------------------
\* Types.  No movement, burn or payment leg overdraws a holder.
TypeOK ==
  /\ now \in 0..MaxTime
  /\ balance \in [Addresses -> Nat] /\ supply \in Int
  /\ minted \in BOOLEAN /\ leftover \in Nat \cup {Absent}
  /\ artistUntil \in Nat /\ treasuryUntil \in Nat /\ config \in {"bound", "repointed"}
  /\ canonical \in BOOLEAN /\ pending \in BOOLEAN
  /\ allowed \subseteq Addresses /\ frozen \subseteq Addresses
  /\ usdc \in [Addresses -> Nat]
  /\ distribution \in [Addresses -> Nat]
  /\ tampers \in 0..MaxTampers

\* The supply every holder's share is computed from is the sum of what the holders have,
\* whichever of the entry points moved, minted or burned.
SupplyIsSum == tampers = 0 => supply = Sum(balance, N)

\* The lockup pins a position: until the artist's (the treasury's) lockup ends, no transfer,
\* burn, allowance, settled trade or upgrade brings it below the retention and the absorbed
\* leftover, or below what the distribution gave, if that was less.
LockupHeld ==
  (tampers = 0 /\ minted) =>
    \A a \in {Artist, Treasury} :
      Locked(a) => balance[a] >= (IF a = Artist THEN ArtistRetention + honest.leftover
                                                ELSE TreasuryRetention)
                   \/ balance[a] >= distribution[a]

\* "corruption ... can NEVER pass this gate": outside the seal, the supply, the mint flag,
\* the leftover and the write-once slots are what this code made them and no lockup was cut
\* short, whatever interim executables ran and however often the token was upgraded.
NothingLaundered ==
  ~pending =>
    /\ supply = honest.supply /\ minted = honest.minted /\ Leftover = honest.leftover
    /\ artistUntil >= ArtistLockup /\ treasuryUntil >= TreasuryLockup
    /\ config = "bound"

\* After the distribution an address gains fractions only while it is on the allowlist, and a
\* frozen one neither gains nor loses any, along every path of this code.
GatesRespected ==
  [][(canonical /\ minted) =>
       \A a \in Addresses :
         /\ balance'[a] > balance[a] => a \in allowed
         /\ balance'[a] # balance[a] => a \notin frozen /\ ~pending]_vars
=============================================================================
