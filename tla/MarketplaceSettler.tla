------------------------- MODULE MarketplaceSettler -------------------------
(***************************************************************************)
(* The settler of secondary trades (contracts/tove-marketplace-settler) on *)
(* one artwork's fraction token.  Terms(i) is a tuple the parties may sign *)
(* (rfq, quote, artwork, count, gross); key is its (rfq, quote) pair, and  *)
(* two tuples may share a key.  A signature binds the tuple, not the role  *)
(* of the signer: only the buyer's covers the USDC transfers.              *)
(***************************************************************************)
EXTENDS FractionToken

CONSTANTS
  M,        \* tuples are 1..M
  Terms,    \* [key, artwork, buyer, seller, count, gross] of each
  Artworks  \* artworks the factory has deployed a token for (this token is theirs)

ASSUME TermsAssumption ==
  /\ M \in Nat
  /\ \A i \in 1..M :
       /\ Terms[i].buyer \in Addresses /\ Terms[i].seller \in Addresses
       /\ Terms[i].buyer # Terms[i].seller
       /\ Terms[i].count \in Nat \ {0} /\ Terms[i].gross \in Nat \ {0}

VARIABLES
  sellerSigned, buyerSigned,  \* tuples their seller, their buyer has signed
  settled,                    \* DataKey::Settled(rfq, quote)
  executed                    \* history: trades made on each tuple

settlerVars == <<sellerSigned, buyerSigned, settled, executed>>
mvars == <<vars, settlerVars>>

SInit ==
  /\ Init
  /\ sellerSigned = {} /\ buyerSigned = {} /\ settled = {}
  /\ executed = [i \in 1..M |-> 0]

signSeller(i) ==
  /\ sellerSigned' = sellerSigned \cup {i}
  /\ UNCHANGED <<vars, buyerSigned, settled, executed>>

signBuyer(i) ==
  /\ buyerSigned' = buyerSigned \cup {i}
  /\ UNCHANGED <<vars, sellerSigned, settled, executed>>

\* a.require_auth_for_args on tuple i.
Authorized(i, a) ==
  \/ a = Terms[i].seller /\ i \in sellerSigned
  \/ a = Terms[i].buyer /\ i \in buyerSigned

\* a's signature covers the USDC legs of tuple i.
Spends(i, a) == a = Terms[i].buyer /\ i \in buyerSigned

\* Fault: the one-shot guard is missing.
Fault_accept_quote(i, buyer, seller) ==
  /\ Terms[i].artwork \in Artworks
  /\ Authorized(i, buyer) /\ Authorized(i, seller)
  /\ settled' = settled \cup {Terms[i].key}
  /\ settle_trade(buyer, seller, Terms[i].count, Terms[i].gross)
  /\ Spends(i, buyer)
  /\ executed[i] < 2 /\ executed' = [executed EXCEPT ![i] = @ + 1]
  /\ UNCHANGED <<sellerSigned, buyerSigned>>

\* Permissionless: anyone may call it with any addresses as buyer and seller.
accept_quote(i, buyer, seller) ==
  /\ Terms[i].key \notin settled
  /\ Terms[i].artwork \in Artworks
  /\ Authorized(i, buyer) /\ Authorized(i, seller)
  /\ settled' = settled \cup {Terms[i].key}
  /\ settle_trade(buyer, seller, Terms[i].count, Terms[i].gross)
  /\ Spends(i, buyer)
  /\ executed' = [executed EXCEPT ![i] = @ + 1]
  /\ UNCHANGED <<sellerSigned, buyerSigned>>

SNext ==
  \/ TokenNext /\ UNCHANGED settlerVars
  \/ \E i \in 1..M : signSeller(i) \/ signBuyer(i)
  \/ \E i \in 1..M, buyer, seller \in Addresses : accept_quote(i, buyer, seller)

SSpec == SInit /\ [][SNext]_mvars

-----------------------------------------------------------------------------
\* However often and by whomever a signed quote is relayed, it settles at most once, and a
\* quote signed under two different terms settles under one of them.
SettledOnce ==
  \A i, j \in 1..M :
    /\ executed[i] <= 1
    /\ (i # j /\ Terms[i].key = Terms[j].key) => executed[i] = 0 \/ executed[j] = 0

\* What tuple i pays to a when its buyer buys and its seller sells.
Paid(i, a) ==
  LET g == Terms[i].gross
  IN  (IF a = Treasury THEN PlatformCut(g) ELSE 0)
    + (IF a = ArtistPayout THEN ArtistCut(g) ELSE 0)
    + (IF a = Terms[i].seller THEN g - PlatformCut(g) - ArtistCut(g) ELSE 0)
    - (IF a = Terms[i].buyer THEN g ELSE 0)

\* Every USDC balance is explained by the trades its owner agreed to: the buyer paid the gross
\* price and not a stroop more, treasury and artist got their floored cuts, the seller the
\* rest, and no signature was used in the other role.
UsdcExplained ==
  \A a \in Addresses :
    usdc[a] = InitialUsdc[a] + Sum([i \in 1..M |-> executed[i] * Paid(i, a)], M)
=============================================================================
