# Tove Heritage, specified in TLA+

Tove Heritage sells fractions of artworks.  An artwork is *fractionalized* (a token contract is
deployed for it), an *offering* collects sealed bids in USDC into an escrow contract on Stellar
(Soroban), clears them at one uniform price, mints the fractions to the winners and refunds
everybody else; afterwards holders trade through requests for quotes (RFQs).  Rust contracts
(`src/apps/contracts`) move the money; a NestJS API (`src/apps/api`) keeps the rows, relays the
collectors' passkey-signed transactions and drives the multi-step protocols through BullMQ
queues and reconcile sweeps.  This project models the parts in which several actors, retries
and faults meet, and states what must hold of them.

## 1. Inventory

| component | state | operations | talks to | what makes it correct |
|---|---|---|---|---|
| **Offering escrow contract** `tove-offering-escrow` | status, bound token, bids, idempotency keys, escrow total, USDC | `bind_token`, `submit_bid`, `cancel_bid`, `close_offering`, `cancel_offering`, `close_and_settle` | USDC, fraction token | money conserved, keys used once, supply minted once, terminal states final |
| **Clearing** `offerings/clearing.ts` | none (pure) | `computeClearing`, `assertClearingInvariants`, `toAllocationMap` | settle request and worker | marginal price, float sold exactly, pro-rata with first-come dust, accepted by belt and contract |
| **Settlement** `offerings/settle` and its request, adapter, repository | `offerings.status`, failure stamp, audit, queue | request (gates, latch, enqueue), worker, sweep, redrive | database, queue, contract | the database records what the chain settled; a latched settlement ends once no bid is in flight |
| **Bid and cancel relay** `offerings/bids`, `relayer` | `offering_bids.status`, two queues | submit, cancel, both workers | database, queues, contract | a row says where its money is, whatever confirmation was lost |
| **Fraction token** `tove-fraction-token`, **allowlist**, **freeze** | balances, lockups, gates, migration seal | transfers, burn, `mint_settle`, `settle_trade`, leftover, upgrade, migrate, setters | allowlist, freeze set, USDC | supply, lockup floor and gates on every path; an upgrade launders nothing |
| **Marketplace settler** `tove-marketplace-settler` | settled quotes | `accept_quote` | token, USDC | a quote settles once, delivery against payment |
| **Quote settlement** `marketplace/settlement` | `rfqs`, `rfq_quotes`, `secondary_trades`, queue | accept, settle worker, abandon sweep | database, settler | the three tables match the chain; the pending latch is freed |
| **Quotes** `marketplace/quotes` | `rfq_quotes` of a holder | submit, authorize | balance on chain | no holder promises more than it holds |
| **RFQs and fan-out** `marketplace/rfqs` | `rfqs`, notifications, idempotency store | create, fan-out worker, sweep | Redis, queue | a key is one RFQ; every holder is told, once audited |
| **Fractionalization** `fractionalization`, `backoffice-artworks.service.ts`, fraction factory | `artworks.status`, `fraction_contracts` | request, deploy worker, sweep, `deploy` | factory | the rows say what is deployed, with which amounts |
| **Planning, approval, escrow deployment** `backoffice-offerings`, `offerings/deploy` | offering, approvals, `escrow_deploy_status` | create, approve, deploy worker, three sweeps | factory contract | the escrow pays whom the quorum attested to |
| **Wallet rotation and export** `wallets/rotation`, `wallets/export` | drain, items, custody records | initiate, submit, status with repair, cancel | relayer, balances | a completed drain moved what it lists; what landed is found by a status poll |
| **KYC intake** `kyc`, storage bucket, sweep | submissions, documents, blobs, idempotency store | submit with uploads, cleanup, sweep | bucket, database | recorded documents stay readable, orphans are swept |
| **KYC allowlist sync** `kyc-allowlist`, backoffice | mirror table, batch items | batch, retry, mirror upsert | allowlist contract | the mirror is the contract's set |
| **Wallet provisioning, smart wallet, verifiers, registry anchor** | wallet rows; signatures; hashes | bind, deploy, verify, anchor | — | local |
| **Auth, users, files, artworks, artists, submissions, timeline** | a table each | CRUD | — | local |
| **Web and backoffice front ends** | none authoritative | — | API | — |

Hard in this system: HTTP handlers that check, await and then write; workers that retry a
transaction whose confirmation was lost; crashes between a commit and an enqueue; stalled jobs
that BullMQ runs again; signatures and envelopes that expire while a job waits; Redis sentinels
that expire under a slow handler; irreversible steps on chain recorded off chain; sweeps that
overtake the worker they repair.  `PROJECT.json` lists each hazard at its line.

## 2. Modules

| module | models | extends or used by |
|---|---|---|
| `Sums` | sums over `1..n` as a recursive function | everything proved that adds |
| `OfferingEscrow` | the escrow contract | `MCOfferingEscrow`; instantiated by `ClearingBook` |
| `Auction` | what an offering promises: stake, withdraw, close, sell or call off; no code of its own | refined by `OfferingEscrow` |
| `Clearing` | the clearing algorithm and its belt, as operators | `ClearingBook`, `MCOfferingSettlement` |
| `ClearingBook` | a book as bids join and leave it, with the reference definitions | |
| `OfferingSettlement` | one offering across API, database, queue, worker and contract | `MCOfferingSettlement` gives it the algorithm |
| `BidRelay` | one collector's bids and cancels: handlers, workers, network, clock | |
| `FractionToken` | the token, its two gates, the upgrade seal | `MarketplaceSettler` |
| `MarketplaceSettler` | `accept_quote` composed with the token | `MCMarketplaceSettler` |
| `QuoteSettlement` | accept, settle worker, abandon sweep, ledger, for one RFQ | |
| `QuoteBook` | one holder's concurrent submits and authorizations | |
| `RfqBook` | RFQ creation behind the idempotency store; the fan-out | |
| `Fractionalization` | request, worker, factory and sweep for one artwork | `OfferingDeploy` |
| `OfferingDeploy` | planning, quorum, escrow deployment, composed with the fractionalization | |
| `WalletDrain` | rotation and export of one wallet | |
| `KycIntake` | one collector's submissions, the bucket, the sweep | |
| `SumsProofs` | lemmas on sums over `1..n` and over finite sets | the proofs that add |
| `OfferingEscrowProofs` | theorems about `OfferingEscrow`, then `OfferingDeploy` with `Fractionalization` | |
| `OfferingSettlementProofs` | theorems about `OfferingSettlement`, then `WalletDrain` | |
| `MarketplaceProofs` | theorems about `FractionToken`, `MarketplaceSettler`, then `KycIntake` | |
| `BidProofs` | theorems about `BidRelay`, then `ClearingBook` with `Clearing` | |
| `QuoteSettlementProofs`, `QuoteBookProofs`, `RfqBookProofs` | theorems about the module they are named after | |

In all of them a database transaction, and a Soroban call, is one step: a call that reverts is
a stuttering step.  A handler or worker is split wherever it awaits something another actor can
change.  A `Fault_` operator next to a definition is a plausible slip in that piece of code.  Where
two components are proved in one module, the definitions of one carry a prefix (`DeploySpec`,
`DrainSpec`, `KycSpec`, `ClearSpec`).

**OfferingEscrow.**  The variables are the contract's storage keys, the two token ledgers and
the history variables `donated` and `settlement`; guards are the `require_*` checks in their
order.  `close_and_settle` ranges over every price and allocation vector, not only those the API
computes: the contract must defend itself.  USDC is external and modelled as balances.  An i128
overflow panics, so it is a stutter.  TTL extension, events and getters are left out.  `Sale`
instantiates `Auction` with what the contract's state amounts to: a stake is the escrow of the
bidder's active bids, the earnings are what treasury and artist got, and bids, keys, the token
binding and donated USDC have no counterpart.

**Clearing, ClearingBook.**  A book is a function from chain ids to bids.  The code sorts it and
walks through it; here the sort is its order, `Before`, and a walk that has come to bid `i` has met
`UpTo(i)`, so a running total is a sum over that set.  `computeClearing` is the composition of the
code's passes: crossing, partition at the price, shares, dust, refunds, fee.  In `ClearingBook` bids
that pass `assertBiddable` join the book and cancelled ones leave it, with `created` chosen freely
(the row's clock and the chain's numbering are different clocks); the configured ceiling per bid
only narrows `MaxStroops`.  It instantiates `OfferingEscrow` over the book to ask what the contract
does with the result.

**OfferingSettlement.**  Check and write of a bid or cancel request, gates and latch of the
settle request, and each awaiting segment of the worker are actions.  A single bid's relay is
reduced to what it may conclude, in any order with what the network does: a confirmation is right,
an error proves nothing, so `casFailed` may meet a bid that landed (or will, `submitLands`), and
`casCancelFailedBackToEscrowed` a bid whose signed cancel (`cancels`) landed or will.  `BidRelay` says
when they do.  `insertSubmitted` and `casCanceling` test the bid row and not
the offering, so a request can commit after the latch; the history variable `late` records that
one has, and the properties that rest on a frozen book say `~late`.  `ReleasedNeverWins` does not: no
fractions are allocated to a bid that was refunded or whose row gave the slot back, whatever the
relay got wrong and whichever request came late.  `Clearable` stands for the
gates and the belt, which `BeltAccepts` shows to agree.

**BidRelay.**  Both workers run the same steps with opposite consequences, so one set of
actions, selected by `kind`, serves both.  An envelope is `fresh`, then `lapsed` (it can no longer
be applied), then `expired` (the passkey signature is past its ledger).  `rerun` records that a
row's job was retried or recovered; `dropped` that a crash left a row without a job for good.  A
cancel's retries are spaced so that about three attempts land past the expiry of its signature
(`offering-bids.service.ts:383`): `LateAttempts` counts them, and `CancelNeverStuck` holds unless the job
was dropped or an RPC error hit each of them.

**FractionToken, MarketplaceSettler.**  One token with addresses `1..N`.  Allowances and
signatures only decide whether a token call is refused, so `transfer` and `burn` stand for both
forms.  Between `upgrade` and `migrate` an interim executable may write any slot but the seal.
The settler adds the tuples a quote is signed under; a signature binds the tuple and not the role.

**QuoteSettlement.**  The accept handler's reads (`resolveContext`) and its transaction are
separate; the worker's steps are self-heal, USDC check, submit, poll, confirm, persist; `apply` is
the ledger.  The age of a buyer's signature has the three values the code tells apart.  `blind`
records that a trade was failed on an `is_settled` answer that was missing or could be overtaken.

**QuoteBook.**  A request's reads and its locked transaction are separate, anything happens in
between.  `spent` and `exposed` record that fractions left the wallet under a live (authorized)
quote: no check of the code can cover what happens after it.

**RfqBook.**  `begin`, `gates`, `insertOpen`, `complete` are the request; `expire` ends a sentinel
under a slow handler.  Fan-out workers resolve recipients, then insert, latch and audit at once.

**Fractionalization, OfferingDeploy.**  The chain is the factory's registry and one transaction
of the relayer account; the poll is shorter than the transaction's time bounds.  The escrow's
address is a function of the offering, so a retry adopts what it finds by WASM hash.  `live` is what
the offering's `fraction_contracts` row says now; `drift` edits its plan or its artist by hand, which
is what the belts of the worker are there for.  A plan is a model value, and `SameFloat` says which
plans have the same public float: the belt compares that sum and not what it is made of.

**WalletDrain.**  One parent row, one item per token; requests carry the copy of the items they
loaded (`mem`; of a submit's copy only what it reads later, `Copied`).  A status poll loads rows, reads
balances, confirms the drained items in a transaction each and finalizes in another; it may fail at
each of these awaits.  The repair has only the live balance to go by, and `spent` records that a
holding left in some other way; `added` records that an initiate in flight put an item into a drain that
had just been completed.

**KycIntake.**  An object is identified with the request that uploaded it, whose data key alone
decrypts it.  `unsafe` records that a commit's answer was lost or that a stalled sweep ran beside
itself.  The review of a submission is no code of this repository, and external.

## 3. Runs

| run | expect | shows |
|---|---|---|
| `escrow_contract` | pass | the contract backs every bid, mints once, can pay every settlement it validates, and implements an auction |
| `clearing` | pass | price, amounts, fairness of the dust; belt and contract accept every clearing |
| `settlement` | pass | the database follows the chain, with the chain's receipts unless a request came late; released bids win nothing; a settlement ends once no bid is in flight or the chain settled |
| `bid_relay` | pass | confirmations are believed rightly, errors rightly in a job's only run; no cancel stays stuck unless its job is dropped or every late attempt errs |
| `marketplace` | pass | supply, lockups and gates on every path, migration, single settlement, every USDC balance explained |
| `quote_settlement` | pass | the tables agree with each other and the chain, moved money stays tracked, the latch is freed |
| `quote_double_settle` | violation | one RFQ can settle twice (section 5) |
| `quote_book` | pass | one open quote per RFQ, nothing promised or authorized beyond the holding |
| `rfq_book` | pass | one RFQ per key, all holders told, one audit, every RFQ fanned out |
| `offering_deploy` | pass | rows match the artwork and the chain, the escrow pays the artist attested to and sells the planned float, both sweeps keep their promise |
| `wallet_drain` | pass | the rows of a drain are true, and a status poll that does not fail finds what a crash hid |
| `kyc_intake` | pass | documents stay readable, one review at a time, orphans are swept |

Every property of a passing run has a mutant that breaks it.  Several invariants are named
conjunctions (`TablesAgree`, `PromisesCovered`, `RetriesLeaveOne`, `RecordsTrue`, `DrainSound`,
`OneUnderReview`, `SettledExactly`, `ClearedAsDefined`); their parts are defined, with a comment
each, right above them.

**Bounds**, and why they are enough:

* *escrow_contract*: two symmetric bidders, three keys, three bids, supply 4 with one retained
  and one leftover fraction: exact sale, oversale, undersale, losing and partial bids, invalid
  prices and allocations.
* *clearing*: four bids ever, two prices (the ends of the band), three counts, two times, float 4:
  ties, dust, exact and late crossings, tiers of one to four bids, gaps left by cancelled ones.
* *settlement*: three bids on a float of two, one waiting job besides the running one, two faults:
  the first loses a confirmation, the second hits the retry.
* *bid_relay*: three rows, two escrow and four cancel attempts (one before the
  signature expires, three past it, as in the code), three RPC errors (enough for every late attempt,
  the case the liveness exempts), one stall, two crashes (one more than `maxStalledCount`).
* *marketplace*: four addresses, so that the artist, its payout address, the treasury and a
  collector are distinct; retention 1 each, lockups ending at time 1, a leftover of 1, one interim
  write; two tuples of one quote with gross 66 and 67, the last without and the first with fees.
* *quote_settlement*: two quotes, two trades, two attempts, one stall, two USDC, one fault.  A
  second trade needs the first one to have ended, which is the interesting order.
* *quote_book*: two RFQs, counts 1 and 2, two quotes, balance up to 2, two requests at once.
* *rfq_book*: two requests over two keys (the same or not), two workers, one holder, ceiling 1, two
  rows, one queued job, two faults.
* *offering_deploy*: two plans and a third one an edit can bring about, which has the float of the first;
  two rows (a failed attempt and its successor), two attempts, two
  admins with threshold 2, two payout addresses, two workers, two jobs, one fault.
* *wallet_drain*: one token, held or not, two submit requests, two builds of the item, one event (a
  fault or an outside transfer).  An instance with two tokens, one request and one build (214,736
  states) satisfies the same invariant; the proof covers all of them.
* *kyc_intake*: two keys, two documents, two requests, two sweepers, one fault.

**Deadlock** is not checked: a settled offering, a finished job, a full book and an exhausted
bound are legitimate ends.

**Fairness.**  Workers run (BullMQ redelivers), sweeps are repeatable jobs, the network applies
or drops what it holds, time passes.  `KycIntake` assumes that a request which has begun runs, and
that some sweep does.  Users, admins, crashes and errors owe nothing.  Two parts of the system owe
nothing either, and the properties say so:

* The relay of a bid: its job can be lost or used up, and there is no reconciler for bids (the note at
  `offering-bid-escrow.processor.ts:22`).  `countInflight` then holds up the settlement, so
  `SettlementEnds` promises the end of a latched settlement only if from some point on no bid is in
  flight; once the contract has settled, it promises the end without that.
* The front end's polling of a drain: `useWalletRotation.ts` does not poll after a submit error, and
  stops at a failed item, after six polls without progress or after ten minutes; no sweep looks at
  drains.  `RotationRecovered` is therefore about a poll that has begun: unless it fails, what landed
  is no longer lost at its end.  Until somebody polls, it stays lost.

## 4. Proofs

All theorems hold for every value of the constants the named assumptions allow.  What the
assumptions add to the types of the constants: sets that are counted or summed over are finite
(`Bidders`, `Admins`), sets something is chosen from are not empty (`Artists`, `Docs`, `Tokens`), the
threshold of a quorum is between 2 and the number of admins, and a null is not a value (`Null` is no
artist, `"none"` no key).  Every invariant below was checked by TLC on its run before it was
proved, and the inductive ones say what the requests, workers and transactions under way are
about to do; the properties themselves only speak of the rows.

`OfferingEscrowProofs`: `Invariance` is `Spec => []Inv`, with `Inv` the conjunction of `TypeOK`,
`EscrowBacked`, `OneBidPerKey`, `TerminalHoldsNothing`, `BidderMadeWhole` and two strengthenings.
`EscrowBacked` alone is not inductive: that a settlement leaves exactly `donated` behind needs the
shape of recorded bids (`BidShape`), and the bidders' balances need that nothing is minted before
the settlement (`NothingMinted`).  From it follow the named theorems, `BeltIsRedundant` (the
contract's claim that its belt holds by construction) and the action properties
`RecordedBidsStay` and `TerminalStays`.  `SettlementIsExact` (`SettledExactly`) adds sums over the
holders to sums over the bids: the allocations are grouped by bidder, and nobody is paid before
the settlement (`NothingPaid`).

`EscrowIsAuction` is the refinement `Spec => ImplementsAuction`, one lemma per call (`SubmitIsStake`,
`CancelIsWithdrawal`, `CloseIsClose`, `CancelIsCallOff`, `SettleIsSale`, and `OthersAreNone` for those
the auction does not see).  Outside the settlement a stake moves against its wallet because
`BidderMadeWhole` holds before and after the call (`StakeMirrorsWallet`); in it, every bidder's escrow
splits into refund and payment (`BidderSplit`), and the float and the earnings are `SettledExactly`.
The auction is what a bidder relies on: it implies `BidderMadeWhole` and `TerminalHoldsNothing`, which
are therefore theorems and no longer properties of the run.

Its second part is about `OfferingDeploy`: `DeployInvariance` carries `RecordsAreTrue` and
`EscrowIsAttested`.  A worker about to latch a deploy, and a transaction that has succeeded, must
find the contract on chain (`FracLatch`, `EscrowLatch`), a row once inserted keeps its plan
(`RefersToRows`), one row is active and the artwork says so (`OneActive`), and whatever got past
the belts holds the attested artist and the planned float (`ArgsAttested`), which a quorum has seen
(`Claimed`).

`OfferingSettlementProofs`, for any clearing (`Clear` is an arbitrary operator), any number of bids,
jobs and faults: `Invariance` carries `TypeCorrect`, `ChainFirst` and `ReleasedBidsNeverWin` for the
code as it is; the strengthening is `Phase` (an attempt exists only for a subscribed offering, and
adopts only what the contract settled) and `Rows`.  The latter traces a winner back: what is planned,
sent or executed was cleared from escrowed rows, and no such row becomes failed
(`ClearedRows`), a row is canceled only after its refund (`RowHistory`), and the contract sells only
to bids it holds (`OutcomeHeld`).  `BookInvariance`, `Spec => [](late \/
BookInv)`, carries `ReceiptsAgree` and `BookIsClosed`: from the in-flight check on no row is in
flight (`Frozen`), and plan, pending transaction and outcome are the clearing of one book
(`Agreed`).  The exception `late` cannot be dropped, see section 5.

Its second part is about `WalletDrain`, for any tokens, requests, builds and events:
`DrainInvariance` carries `DrainRowsAreTrue`.  The confirm of a request and the repair write what
their copies say, so every copy of an item must be of a build whose amount the chain agrees with
(`OneAmount`: one function from builds to amounts explains items, copies, transaction and
ledger), no copy is ahead of its item (`Numbered`), a snapshot is still held or has been moved
(`SnapshotsHeld`), and hence what the poll found drained was moved (`DrainedMoved`).  All steps but
the build are shown to be of one form (`DrainStep`), whose effect on the invariant is argued once.

`BidProofs`, for any number of rows, attempts, stalls and crashes: `TypeCorrect`,
`CanceledIsRefunded`, `EscrowedIsPaidFor`, `OneRunSound`.  A live job owns the newest row
(`JobOwnsRow`), before a job's only run sends there is no transaction, and when it gives up none
can still be applied (`FirstRun`, `Verdicts`): every wrong verdict needs a second run.

Its second part is about the clearing, for every band, float, cap and book: `ClearingIsAsDefined`,
`TierIsSharedFairly`, `BeltAlwaysAccepts` and `ContractAlwaysAccepts`.  The invariant (`ClearInv`) says
that what `assertBiddable` checked holds of every bid in the book and that the clearing is the
book's; the rest is about the algorithm.  The order is strict and total, so a walk has a last bid
and the places in it are 1, 2, ... without gaps (`OrderIsStrict`, `LastBid`, `Places`).  Hence the walk
stops, at the highest price the float sells out at (`WalkStops`, `PriceIs`), which leaves the tier
between 1 and its own demand (`TierIs`).  The floors of the shares miss that by less than the number
of bids in the tier (`BaseIs`), so the dust goes round once, nobody gets more than it asked for, and
the float is sold (`SharesAre`, `AllocIs`).  That proceeds fit an i128 rests on `RangeAssumption`:
`MaxBids * MaxStroops <= MaxI128`, which the code's 2^96-1 and 2^127-1 satisfy for any cap below 2^31.

`MarketplaceProofs`, for any addresses, amounts, distributions and lockups: `TokenInvariant` carries
`TokenTypeCorrect`, `TokenSupply`, `TokenLockup` and `TokenNothingLaundered`; the strengthening relates
the sealed snapshot and the history variables to the slots while the seal is on.  `TokenGates` is
the action property.  `SettlerImplementsToken` is a refinement: every behaviour of the composed
system is one of the token alone, so the four invariants hold of it too.  `SettlerOnce` and
`SettlerUsdc` rest on an invariant that relates the settled keys and the
balances to the trades executed.

Its last part is about `KycIntake`: `KycInvariance` carries `OneSubmissionUnderReview` and
`DocumentsStayReadable`.  A submission and its document rows come and go together, and an upload
belongs to a request that still runs (`KycBase`); unless `unsafe`, no cleanup and no sweep may be
about to delete what a row names: what a sweep looks at is old and unnamed (`SweepsOld`), an
upload stays until its request ends (`UploadsKept`), a named object's writer is done (`RowsFinal`).

`QuoteSettlementProofs`, for any quotes, trades, attempts, stalls and faults: `TablesAlwaysAgree` and
`SettlementStaysTracked`.  The latter is about the moment a trade is failed: there the worker must
have read `is_settled` with nothing of it still out (`Informed`, `Unsent`), the sweep must be past
the horizon (`Overdue`), and a transaction that may still land belongs to a trade that is watched
or was failed blindly (`Watched`).

`QuoteBookProofs`, for any balances and any number of concurrent requests: `PromisesAreCovered` and
`SignaturesAreCovered`.  A handler compares with the balance of its own earlier read, so the read
must still bound the balance (`ReadsHold`), and a fresh id must carry no mark of an older quote
(`Unused`).

`RfqBookProofs`, for any keys, requests, workers, holders and faults: `RetriesAlwaysLeaveOne` and
`HoldersAlwaysNotified`.  What a request is or will be answered is the row of its key (`Answered`,
`Unique`), and a run knows all who had won at the creation (`Working`).

The arithmetic rests on `SumsProofs`: pointwise equality and order, change at one index, addition,
scaling, disjoint unions and counting, for the recursive sum over `1..n` and for the fold over a
finite set, and that the two agree.  Its inductions
go through the least element of a set of naturals, since the library's induction rules take
operators.

Every safety property of a passing run is thus a theorem.  Only model-checked: liveness
(`SettlementEnds`, `CancelNeverStuck`, `LatchFreed`, `FannedOut`, `TokenRecorded`, `EscrowResolved`,
`RotationRecovered`, `OrphansSwept`), which is beyond the prover.

## 5. What the models showed

*One RFQ can settle twice* (run `quote_double_settle`).  `accept` reads the RFQ and the quote as open
before its transaction and re-reads only the pending latch inside it.  A handler that read both
before another trade settled the RFQ, and commits after that trade released the latch, settles a
second quote.  `settle-persistence.service.ts:33` says the atomic flip is there to prevent it.

Further observations, each a behaviour of a model here (the exceptions in its properties are
named) or, where so marked, noted on reading:

* Escrow: once closed, a book short of the float can neither settle nor refund; the API closes
  only a book it has just found subscribed, but a cancel that lands first takes it below.
  `cancel_offering` accepts a closed offering with an empty book, an edge `storage.rs:44` does not list.
* Settlement: after a late cancel an adopted attempt recomputes from a changed book, and its
  receipts differ from the chain's (`late`).  `AlreadySettled` at simulation is terminal, so a retry
  overtaken by its predecessor's transaction stamps a settled offering failed, although
  `OfferingNotOpen` at the same point of `close_offering` is retryable for exactly this race.
* Relay: `expired` on a retry proves only that this attempt sent nothing; a bid whose money is
  held can be failed, a refunded one re-opened (`rerun`).  The settlement then refunds the one with
  the losers, and reverts on the other, which stamps it failed; neither gets fractions
  (`ReleasedNeverWins`).  A crash between commit and enqueue, or RPC errors in every late attempt of a
  cancel, strand a row, and `countInflight` then holds up the offering.
* Quotes: a trade can be failed while its transaction is still out (`blind`).
* Fractionalization: `fraction-contract.entity.ts:48` calls its amounts those "actually sent on-chain";
  after a failed attempt whose transaction landed, the adopting row carries other ones (the
  exception in `AmountsMatch`).  A lost enqueue or exhausted attempts without a token leave the row
  `deploying`, since the sweep repairs only what is on chain.  On reading: an adopting retry
  computes a later lockup date than the chain's.
* Deployment: a failed escrow deployment keeps its approvals, and the expiry sweep does not
  re-check the TTL in its transaction.  `assertPublicFloatMatches` compares one sum: an edit of
  supply and retentions that leaves it as it was passes the belt, and the escrow is built with it.
* Drains: an item that landed and was recorded failed stays so until somebody asks for the status, which
  the front end does not do after a submit error.  A holding spent by other means looks like a landed
  transfer, so a custody record may name a transfer that was never made; an export's initiate in flight can leave a pending item on
  an exported wallet; builds of one round share a sequence; tokens arriving in mid-rotation leave
  it `submitting`; the cross-feature guards and the cancel check are separate from the write.  With two
  tokens, an initiate still in flight stores a pending item in a drain that a concurrent submit or
  poll has just completed: `upsertItemBuild` (`wallet-rotation.repository.ts:63`) does not look at the
  parent (`added`).
* KYC intake: after a commit whose answer was lost, cleanup deletes blobs that rows name
  (`unsafe`); a crash between upload and commit makes a retry under the same key fail until the
  daily sweep has run past the grace window.
* KYC allowlist sync (on reading): the mirror is upserted after the whole batch, outside the lock
  of the account, so the comment at `kyc-allowlist-state.repository.ts:23` fails for two concurrent
  batches; pending items are never reconciled, and a retry is a no-op that leaves the mirror wrong.
* On reading: the API encodes eight constructor arguments where the escrow takes nine; no API code
  calls `bind_token`, `cancel_offering` or the token's `record_absorbed_leftover`.

## 6. Not modelled, and plan

The models cover the protocols of the API and the contracts; by lines that is a small share of
the repository, most of which is front end, DTOs, CRUD and reads.

* Front ends, auth, users, files, artists, submissions, timeline: no protocol of their own.
* Smart wallets, verifiers, the registry anchor: cryptography and append-only stores.
* Within modelled components: prepare endpoints, previews, reads, events, audit rows (except where
  a property is about them), TTLs, role administration, revocation of an approval, the
  idempotency store's mismatch check.
* Wallet provisioning: deterministic deployment and adoption as in `OfferingDeploy`.

Next: `KycAllowlistSync` (two concurrent batches, the mirror, the retry); several collectors in
`BidRelay`.
