------------------------- MODULE OfferingSettlement -------------------------
(***************************************************************************)
(* The settlement of one offering across the API, its database, the settle *)
(* queue and the escrow contract: bid and cancel requests in flight, the   *)
(* admin's settle request, the settle worker with its self-healing read of *)
(* the chain, lost confirmations, crashes, and the reconcile sweep.        *)
(*                                                                         *)
(* A handler that awaits is split at the awaits where other actors can     *)
(* interleave.  The clearing is the constant operator Clear (see Clearing) *)
(* and the relay of a single bid or cancel transaction is reduced to its   *)
(* outcome (see BidRelay).                                                 *)
(***************************************************************************)
EXTENDS Integers, FiniteSets

CONSTANTS
  Bids,                   \* the bids that may be made on the offering
  Clearable(_),           \* computeClearing and its belt accept the book
  Clear(_),               \* the clearing of a book: [price, alloc]
  MaxJobs,                \* bound: settle jobs waiting in the queue
  MaxFaults               \* bound: crashes, RPC failures and lost confirmations

ASSUME BoundsAssumption == MaxJobs \in Nat \ {0} /\ MaxFaults \in Nat

ASSUME FiniteAssumption == IsFiniteSet(Bids)

\* No settlement.
Nothing == [price |-> 0, alloc |-> <<>>]

\* Winners are bids of the book that was cleared, and the price is one.
ASSUME ClearAssumption ==
  \A S \in SUBSET Bids : Clearable(S) => /\ DOMAIN Clear(S).alloc \subseteq S
                                         /\ Clear(S) # Nothing

VARIABLES
  windowOpen,    \* now() < window_close_at
  offering,      \* offerings.status: "opened", "subscribed", "settled"
  settleFailed,  \* offerings.settle_failed_at is not null
  row,           \* offering_bids.status per bid, "none" before the insert
  receipt,       \* offering_clearing_audit: what the database says was settled
  req,           \* HTTP requests past their check: "none", "submit", "cancel"
  late,          \* history: some request committed its row after the latch
  settleReq,     \* the admin's request past its gates: "none", "fresh", "redrive"
  jobs,          \* settle jobs waiting
  pc, book, plan, adopted,   \* the settle worker: position, bids listed, clearing, adopted
  escrow,        \* the contract's status
  active,        \* bids whose escrow the contract holds
  refunded,      \* bids cancel_bid refunded
  outcome,       \* what close_and_settle settled on chain
  cancels,       \* bids whose signed cancel_bid may be with the network
  closeTx,       \* a close_offering transaction is with the network
  settleTx,      \* the close_and_settle transaction with the network, or Nothing
  faults         \* faults so far

vars == <<windowOpen, offering, settleFailed, row, receipt, req, late, settleReq, jobs, pc,
          book, plan, adopted, escrow, active, refunded, outcome, cancels, closeTx, settleTx,
          faults>>

requestVars == <<req, late, settleReq>>
dbVars      == <<offering, settleFailed, row, receipt>>
workerVars  == <<pc, book, plan, adopted>>
chainVars   == <<escrow, active, refunded, outcome>>
networkVars == <<cancels, closeTx, settleTx>>

RowStatuses == {"none", "submitted", "escrowed", "canceling", "canceled", "failed", "won", "lost"}
WorkerSteps == {"idle", "read", "close", "closing", "book", "list", "settle", "simulate",
                "polling", "persist"}

RowsIn(S)    == {b \in Bids : row[b] \in S}
Escrowed     == RowsIn({"escrowed"})
Inflight     == RowsIn({"submitted", "canceling"})
Winners(c)   == DOMAIN c.alloc

Init ==
  /\ windowOpen = TRUE
  /\ offering = "opened" /\ settleFailed = FALSE
  /\ row = [b \in Bids |-> "none"]
  /\ receipt = Nothing
  /\ req = [b \in Bids |-> "none"] /\ late = FALSE /\ settleReq = "none"
  /\ jobs = 0
  /\ pc = "idle" /\ book = {} /\ plan = Nothing /\ adopted = FALSE
  /\ escrow = "Open" /\ active = {} /\ refunded = {} /\ outcome = Nothing
  /\ cancels = {} /\ closeTx = FALSE /\ settleTx = Nothing
  /\ faults = 0

closeWindow ==
  /\ windowOpen
  /\ windowOpen' = FALSE
  /\ UNCHANGED <<dbVars, requestVars, jobs, workerVars, chainVars, networkVars, faults>>

-----------------------------------------------------------------------------
(***************************************************************************)
(* Bid and cancel requests.  The offering's status is read by the check,   *)
(* the row is written later, and the write tests only the row.             *)
(***************************************************************************)
CommitsLate == late' = (late \/ offering # "opened")

assertBiddable(b) ==
  /\ offering = "opened" /\ windowOpen
  /\ row[b] = "none" /\ req[b] = "none"
  /\ req' = [req EXCEPT ![b] = "submit"]
  /\ UNCHANGED <<windowOpen, dbVars, late, settleReq, jobs, workerVars, chainVars, networkVars,
                 faults>>

insertSubmitted(b) ==
  /\ req[b] = "submit"
  /\ CommitsLate
  /\ req' = [req EXCEPT ![b] = "none"]
  /\ row' = [row EXCEPT ![b] = "submitted"]
  /\ UNCHANGED <<windowOpen, offering, settleFailed, receipt, settleReq, jobs, workerVars,
                 chainVars, networkVars, faults>>

assertCancelable(b) ==
  /\ offering = "opened"
  /\ row[b] = "escrowed" /\ req[b] = "none"
  /\ req' = [req EXCEPT ![b] = "cancel"]
  /\ UNCHANGED <<windowOpen, dbVars, late, settleReq, jobs, workerVars, chainVars, networkVars,
                 faults>>

\* The compare-and-set wins only on an escrowed row; a request that loses it is refused.
casCanceling(b) ==
  /\ req[b] = "cancel"
  /\ CommitsLate
  /\ req' = [req EXCEPT ![b] = "none"]
  /\ \/ /\ row[b] = "escrowed"
        /\ row' = [row EXCEPT ![b] = "canceling"]
        /\ cancels' = cancels \cup {b}
     \/ row[b] # "escrowed" /\ UNCHANGED <<row, cancels>>
  /\ UNCHANGED <<windowOpen, offering, settleFailed, receipt, settleReq, jobs, workerVars,
                 chainVars, closeTx, settleTx, faults>>

\* A signed submit_bid lands.  A row that failed does not exclude it: a transaction of an earlier
\* attempt, whose answer was lost, may be out when a retry finds its signature expired.
submitLands(b) ==
  /\ row[b] \in {"submitted", "failed"} /\ b \notin active
  /\ escrow = "Open"
  /\ active' = active \cup {b}
  /\ UNCHANGED <<windowOpen, dbVars, requestVars, jobs, workerVars, escrow, refunded, outcome,
                 networkVars, faults>>

\* The escrow worker saw it land.
casEscrowed(b) ==
  /\ row[b] = "submitted" /\ b \in active
  /\ row' = [row EXCEPT ![b] = "escrowed"]
  /\ UNCHANGED <<windowOpen, offering, settleFailed, receipt, requestVars, jobs, workerVars,
                 chainVars, networkVars, faults>>

\* The escrow worker had an error it takes to mean that no funds moved.  It does not ask the
\* contract: a retry may be wrong about it (BidRelay says when).
casFailed(b) ==
  /\ row[b] = "submitted"
  /\ row' = [row EXCEPT ![b] = "failed"]
  /\ UNCHANGED <<windowOpen, offering, settleFailed, receipt, requestVars, jobs, workerVars,
                 chainVars, networkVars, faults>>

\* A signed cancel_bid lands, whatever has become of the row since.
cancelLands(b) ==
  /\ b \in cancels /\ b \in active
  /\ escrow = "Open"
  /\ active' = active \ {b}
  /\ refunded' = refunded \cup {b}
  /\ UNCHANGED <<windowOpen, dbVars, requestVars, jobs, workerVars, escrow, outcome,
                 networkVars, faults>>

\* Fault: the worker takes any answer to a cancel for its confirmation.
Fault_casCanceled(b) ==
  /\ row[b] = "canceling"
  /\ row' = [row EXCEPT ![b] = "canceled"]
  /\ UNCHANGED <<windowOpen, offering, settleFailed, receipt, requestVars, jobs, workerVars,
                 chainVars, networkVars, faults>>

\* The cancel worker saw it land.
casCanceled(b) ==
  /\ row[b] = "canceling" /\ b \in refunded
  /\ row' = [row EXCEPT ![b] = "canceled"]
  /\ UNCHANGED <<windowOpen, offering, settleFailed, receipt, requestVars, jobs, workerVars,
                 chainVars, networkVars, faults>>

\* The cancel worker had an error it takes to mean that no refund moved; it may be wrong too.
casCancelFailedBackToEscrowed(b) ==
  /\ row[b] = "canceling"
  /\ row' = [row EXCEPT ![b] = "escrowed"]
  /\ UNCHANGED <<windowOpen, offering, settleFailed, receipt, requestVars, jobs, workerVars,
                 chainVars, networkVars, faults>>

-----------------------------------------------------------------------------
(***************************************************************************)
(* The admin's settle request: gates on what it read, then the latch.      *)
(***************************************************************************)
settleGates ==
  /\ settleReq = "none"
  /\ \/ offering = "opened" /\ ~windowOpen /\ settleReq' = "fresh"
     \/ offering = "subscribed" /\ settleFailed /\ settleReq' = "redrive"
  /\ Inflight = {}
  /\ Clearable(Escrowed)
  /\ UNCHANGED <<windowOpen, dbVars, req, late, jobs, workerVars, chainVars, networkVars, faults>>

Enqueued == jobs' = jobs \/ (jobs < MaxJobs /\ jobs' = jobs + 1)

casSubscribed ==
  /\ settleReq = "fresh"
  /\ settleReq' = "none"
  /\ \/ /\ offering = "opened" /\ ~windowOpen
        /\ offering' = "subscribed"
        /\ Enqueued
     \/ /\ ~(offering = "opened" /\ ~windowOpen)
        /\ UNCHANGED <<offering, jobs>>
  /\ UNCHANGED <<windowOpen, settleFailed, row, receipt, req, late, workerVars, chainVars,
                 networkVars, faults>>

\* setSettleFailureStamp(null): reclaim a terminally failed settlement.
reclaim ==
  /\ settleReq = "redrive"
  /\ settleReq' = "none"
  /\ \/ /\ offering = "subscribed" /\ settleFailed
        /\ settleFailed' = FALSE
        /\ Enqueued
     \/ /\ ~(offering = "subscribed" /\ settleFailed)
        /\ UNCHANGED <<settleFailed, jobs>>
  /\ UNCHANGED <<windowOpen, offering, row, receipt, req, late, workerVars, chainVars,
                 networkVars, faults>>

\* Fault: the sweep picks the stamped rows.
Fault_reconcile ==
  /\ offering = "subscribed" /\ settleFailed
  /\ jobs < MaxJobs
  /\ jobs' = jobs + 1
  /\ UNCHANGED <<windowOpen, dbVars, requestVars, workerVars, chainVars, networkVars, faults>>

\* The sweep over stale unstamped subscribed rows, however many jobs are already queued.
reconcile ==
  /\ offering = "subscribed" /\ ~settleFailed
  /\ jobs < MaxJobs
  /\ jobs' = jobs + 1
  /\ UNCHANGED <<windowOpen, dbVars, requestVars, workerVars, chainVars, networkVars, faults>>

-----------------------------------------------------------------------------
(***************************************************************************)
(* The settle worker (concurrency 1).  A retryable error, a crash or a     *)
(* stall ends the attempt: the job goes back to the queue, or is dropped   *)
(* when its attempts are used up.                                          *)
(***************************************************************************)
Goto(step) == pc' = step /\ UNCHANGED <<book, plan, adopted>>
Done       == pc' = "idle" /\ book' = {} /\ plan' = Nothing /\ adopted' = FALSE
Requeued   == Done /\ Enqueued

\* fail(): the terminal stamp, only on a row that is still subscribed.
Stamped ==
  /\ settleFailed' = (settleFailed \/ offering = "subscribed")
  /\ UNCHANGED <<offering, row, receipt>>

takeJob ==
  /\ pc = "idle" /\ jobs > 0
  /\ jobs' = jobs - 1
  /\ IF offering = "subscribed" THEN Goto("read") ELSE Done
  /\ UNCHANGED <<windowOpen, dbVars, requestVars, chainVars, networkVars, faults>>

\* Self-heal first: the contract's status decides where the attempt starts.
readStatus ==
  /\ pc = "read"
  /\ \/ escrow = "Settled" /\ pc' = "list" /\ adopted' = TRUE /\ UNCHANGED <<book, plan>>
     \/ escrow = "Open" /\ Goto("close")
     \/ escrow = "Closed" /\ Goto("book")
  /\ UNCHANGED <<windowOpen, dbVars, requestVars, jobs, chainVars, networkVars, faults>>

\* close_offering: simulated against the current status (OfferingNotOpen is retryable), sent,
\* polled until it is seen to have closed the offering.
closeOffering ==
  /\ pc = "close"
  /\ \/ escrow = "Open" /\ ~closeTx /\ closeTx' = TRUE /\ Goto("closing") /\ UNCHANGED jobs
     \/ (escrow # "Open" \/ closeTx) /\ Requeued /\ UNCHANGED closeTx
  /\ UNCHANGED <<windowOpen, dbVars, requestVars, chainVars, cancels, settleTx, faults>>

closeConfirmed ==
  /\ pc = "closing" /\ escrow # "Open" /\ ~closeTx
  /\ Goto("book")
  /\ UNCHANGED <<windowOpen, dbVars, requestVars, jobs, chainVars, networkVars, faults>>

assertBookFinal ==
  /\ pc = "book"
  /\ \/ Inflight = {} /\ Goto("list") /\ UNCHANGED jobs
     \/ Inflight # {} /\ Requeued
  /\ UNCHANGED <<windowOpen, dbVars, requestVars, chainVars, networkVars, faults>>

\* listBidsForClearing, computeClearing, assertClearingInvariants.
computeClearing ==
  /\ pc = "list"
  /\ \/ /\ Clearable(Escrowed)
        /\ book' = Escrowed /\ plan' = Clear(Escrowed)
        /\ pc' = IF adopted THEN "persist" ELSE "settle"
        /\ UNCHANGED <<adopted, dbVars>>
     \/ /\ ~Clearable(Escrowed)
        /\ Stamped /\ Done
  /\ UNCHANGED <<windowOpen, requestVars, jobs, chainVars, networkVars, faults>>

\* What the contract requires of the arguments when it runs them.
Settleable(c) == escrow = "Closed" /\ Winners(c) \subseteq active

\* closeAndSettle, first half: adopt if the contract is settled.
closeAndSettle ==
  /\ pc = "settle"
  /\ \/ escrow = "Settled" /\ pc' = "persist" /\ adopted' = TRUE /\ UNCHANGED <<book, plan>>
     \/ escrow # "Settled" /\ Goto("simulate")
  /\ UNCHANGED <<windowOpen, dbVars, requestVars, jobs, chainVars, networkVars, faults>>

\* Second half: any revert in simulation is terminal, AlreadySettled too; a transaction of an
\* earlier attempt that is still pending makes the send fail, which is retryable.
simulateAndSend ==
  /\ pc = "simulate"
  /\ \/ /\ Settleable(plan) /\ settleTx = Nothing
        /\ settleTx' = plan /\ Goto("polling")
        /\ UNCHANGED <<jobs, dbVars>>
     \/ /\ Settleable(plan) /\ settleTx # Nothing
        /\ Requeued
        /\ UNCHANGED <<settleTx, dbVars>>
     \/ /\ ~Settleable(plan)
        /\ Stamped /\ Done
        /\ UNCHANGED <<settleTx, jobs>>
  /\ UNCHANGED <<windowOpen, requestVars, chainVars, cancels, closeTx, faults>>

\* The adapter's other terminal errors: fee above the cap, a foreign auth entry, a resource
\* limit, an unbound token.  The operator can repair what caused them.
refused ==
  /\ pc \in {"close", "simulate"} /\ faults < MaxFaults
  /\ faults' = faults + 1
  /\ Stamped /\ Done
  /\ UNCHANGED <<windowOpen, requestVars, jobs, chainVars, networkVars>>

settleConfirmed ==
  /\ pc = "polling" /\ escrow = "Settled" /\ settleTx = Nothing
  /\ Goto("persist")
  /\ UNCHANGED <<windowOpen, dbVars, requestVars, jobs, chainVars, networkVars, faults>>

\* The persist transaction: compare-and-set settled, flip the winners and the losers, write
\* the receipts; a winner that is not escrowed or a count that does not add up rolls it back.
Consistent == Winners(plan) \subseteq Escrowed /\ Cardinality(Escrowed) = Cardinality(book)

\* Fault: the winner's update misses its id, so the whole book is flipped to won.
Fault_persist ==
  /\ pc = "persist" /\ offering = "subscribed"
  /\ offering' = "settled" /\ settleFailed' = FALSE
  /\ row' = [b \in Bids |-> IF row[b] = "escrowed" THEN "won" ELSE row[b]]
  /\ receipt' = plan
  /\ Done
  /\ UNCHANGED <<windowOpen, requestVars, jobs, chainVars, networkVars, faults>>

persist ==
  /\ pc = "persist"
  /\ \/ /\ offering = "subscribed" /\ Consistent
        /\ offering' = "settled" /\ settleFailed' = FALSE
        /\ row' = [b \in Bids |-> IF b \in Winners(plan) THEN "won"
                                  ELSE IF row[b] = "escrowed" THEN "lost" ELSE row[b]]
        /\ receipt' = plan
     \/ offering = "subscribed" /\ ~Consistent /\ Stamped
     \/ offering # "subscribed" /\ UNCHANGED dbVars
  /\ Done
  /\ UNCHANGED <<windowOpen, requestVars, jobs, chainVars, networkVars, faults>>

\* Fault: a poll that runs into its deadline counts as a confirmation.
Fault_pollTimeout ==
  /\ \/ pc = "closing" /\ ~closeTx /\ escrow = "Open" /\ Requeued
     \/ pc = "polling" /\ settleTx = Nothing /\ escrow # "Settled"
        /\ Goto("persist") /\ UNCHANGED jobs
  /\ UNCHANGED <<windowOpen, dbVars, requestVars, chainVars, networkVars, faults>>

\* A crash, an RPC error or a poll timeout anywhere in the attempt.
interrupted ==
  /\ pc # "idle" /\ faults < MaxFaults
  /\ faults' = faults + 1
  /\ Requeued
  /\ UNCHANGED <<windowOpen, dbVars, requestVars, chainVars, networkVars>>

\* The poll for a transaction the network no longer holds runs into its deadline.
pollTimeout ==
  /\ \/ pc = "closing" /\ ~closeTx /\ escrow = "Open"
     \/ pc = "polling" /\ settleTx = Nothing /\ escrow # "Settled"
  /\ Requeued
  /\ UNCHANGED <<windowOpen, dbVars, requestVars, chainVars, networkVars, faults>>

-----------------------------------------------------------------------------
(***************************************************************************)
(* The network: a transaction it holds is applied, or expires.             *)
(***************************************************************************)
closeApplied ==
  /\ closeTx
  /\ closeTx' = FALSE
  /\ escrow' = IF escrow = "Open" THEN "Closed" ELSE escrow
  /\ UNCHANGED <<windowOpen, dbVars, requestVars, jobs, workerVars, active, refunded, outcome,
                 cancels, settleTx, faults>>

settleApplied ==
  /\ settleTx # Nothing
  /\ settleTx' = Nothing
  /\ \/ /\ Settleable(settleTx)
        /\ escrow' = "Settled" /\ active' = {} /\ outcome' = settleTx
     \/ /\ ~Settleable(settleTx)
        /\ UNCHANGED <<escrow, active, outcome>>
  /\ UNCHANGED <<windowOpen, dbVars, requestVars, jobs, workerVars, refunded, cancels, closeTx,
                 faults>>

expired ==
  /\ faults < MaxFaults /\ faults' = faults + 1
  /\ \/ closeTx /\ closeTx' = FALSE /\ UNCHANGED settleTx
     \/ settleTx # Nothing /\ settleTx' = Nothing /\ UNCHANGED closeTx
  /\ UNCHANGED <<windowOpen, dbVars, requestVars, jobs, workerVars, chainVars, cancels>>

Request(b) == assertBiddable(b) \/ insertSubmitted(b) \/ assertCancelable(b) \/ casCanceling(b)
Relay(b)   == \/ submitLands(b) \/ casEscrowed(b) \/ casFailed(b)
              \/ cancelLands(b) \/ casCanceled(b) \/ casCancelFailedBackToEscrowed(b)
Admin      == settleGates \/ casSubscribed \/ reclaim
Worker     == \/ takeJob \/ readStatus \/ closeOffering \/ closeConfirmed \/ assertBookFinal
              \/ computeClearing \/ closeAndSettle \/ simulateAndSend
              \/ settleConfirmed \/ pollTimeout \/ persist
Network    == closeApplied \/ settleApplied

Next ==
  \/ closeWindow
  \/ \E b \in Bids : Request(b) \/ Relay(b)
  \/ Admin \/ reconcile
  \/ Worker \/ interrupted \/ refused
  \/ Network \/ expired

Spec == Init /\ [][Next]_vars

\* The settle worker runs, the network settles what it holds, the sweep is a repeatable job.
\* Users, the admin and faults owe nothing, and the relay of a bid does not either: its job may be
\* lost or used up, and no reconciler looks at bids.
Fairness == WF_vars(Worker) /\ WF_vars(Network) /\ WF_vars(reconcile)

FairSpec == Spec /\ Fairness

-----------------------------------------------------------------------------
Clearings == {Clear(S) : S \in {T \in SUBSET Bids : Clearable(T)}}

\* Types.  A receipt, a plan and the contract's outcome are always some clearing of bids.
TypeOK ==
  /\ windowOpen \in BOOLEAN
  /\ offering \in {"opened", "subscribed", "settled"} /\ settleFailed \in BOOLEAN
  /\ row \in [Bids -> RowStatuses]
  /\ receipt \in Clearings \cup {Nothing}
  /\ req \in [Bids -> {"none", "submit", "cancel"}]
  /\ late \in BOOLEAN /\ settleReq \in {"none", "fresh", "redrive"}
  /\ jobs \in 0..MaxJobs
  /\ pc \in WorkerSteps /\ book \in SUBSET Bids /\ adopted \in BOOLEAN
  /\ plan \in Clearings \cup {Nothing}
  /\ escrow \in {"Open", "Closed", "Settled"}
  /\ active \in SUBSET Bids /\ refunded \in SUBSET Bids
  /\ outcome \in Clearings \cup {Nothing}
  /\ cancels \in SUBSET Bids /\ closeTx \in BOOLEAN /\ settleTx \in Clearings \cup {Nothing}
  /\ faults \in 0..MaxFaults

\* persist runs only after the chain is known to have settled, whatever was lost, retried or
\* adopted on the way: the database never announces a settlement that did not happen.
SettledOnChainFirst == offering = "settled" => escrow = "Settled"

\* If no request committed after the latch, the receipts are the settlement: recomputing the
\* clearing in an adopted attempt gives what close_and_settle executed, and exactly its winners
\* are marked won (the comment in process(): on the adopt path "the recompute equals what
\* actually settled").
ReceiptsMatchChain ==
  offering = "settled" /\ ~late =>
    /\ receipt = outcome
    /\ \A b \in Bids : row[b] = "won" <=> b \in Winners(outcome)

\* Then a settled offering has no bid left in a state that promises a later money movement.
SettledBookClosed == offering = "settled" /\ ~late => Inflight = {} /\ Escrowed = {}

\* No fractions for a bid that was refunded, or whose row gave the collector's slot back by then or
\* later: neither a cancel checked before the latch and committed after it, nor a worker's wrong
\* word about a bid or a refund, lets close_and_settle allocate to such a bid.
ReleasedNeverWins ==
  \A b \in Winners(outcome) : b \notin refunded /\ row[b] \notin {"failed", "canceled"}

\* A settlement the contract has executed reaches an end in the database: it is settled, or
\* stamped for the admin to look at.  A latched one does, unless a bid remains in flight (the note
\* on the escrow worker: "a submitted bid can strand", with no reconciler for it).
Ended == offering = "settled" \/ settleFailed

SettlementEnds ==
  /\ escrow = "Settled" ~> Ended
  /\ <>[](Inflight = {}) => (offering = "subscribed" ~> Ended)
=============================================================================
