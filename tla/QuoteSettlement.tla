-------------------------- MODULE QuoteSettlement --------------------------
(***************************************************************************)
(* How an accepted quote of one RFQ is settled: the accept handler (gates, *)
(* then the transaction under the RFQ's advisory lock, then the enqueue),  *)
(* the settle worker with its retries, the sweep over stale pending trades *)
(* and the marketplace settler as the API sees it (is_settled).            *)
(*                                                                         *)
(* Quotes are open and authorized by their sellers at the start; QuoteBook *)
(* models how they get there.  Gross amounts are one unit of USDC.  A      *)
(* trade's buyer signature is fresh (age 0), expired to the relayer, which *)
(* keeps a margin of ledgers (age 1), or past the sweep's horizon, when no *)
(* ledger accepts it any more (age 2).                                     *)
(***************************************************************************)
EXTENDS Integers, FiniteSets

CONSTANTS
  Quotes,       \* the quotes on the RFQ
  MaxTrades,    \* bound: accepts that commit
  MaxAttempts,  \* attempts of a settle job (8)
  MaxStalls,    \* maxStalledCount (1)
  MaxUsdc,      \* bound: the buyer's USDC
  MaxFaults     \* bound: errors, crashes, lost enqueues, moves of the parties

ASSUME BoundsAssumption ==
  /\ MaxTrades \in Nat /\ MaxAttempts \in Nat \ {0} /\ MaxStalls \in Nat
  /\ MaxUsdc \in Nat /\ MaxFaults \in Nat

VARIABLES
  rfq,        \* rfqs.status
  quote,      \* rfq_quotes.status
  lapsed,     \* quotes past valid_until; their seller's signature expires with them
  gated,      \* quotes an accept handler has found acceptable
  trade,      \* secondary_trades.status
  of,         \* the quote of a trade
  age,        \* the age of a trade's buyer signature
  job,        \* the settle job of a trade
  attempts,   \* its attemptsMade
  stalls,     \* how often it was recovered as stalled
  pc,         \* where the worker is
  cur,        \* the trade it works on
  outcome,    \* what the relayer answered
  unread,     \* the worker's is_settled answer is missing or may be overtaken
  sweep,      \* the trade the sweep is about to abandon, or 0
  tx,         \* the accept_quote transaction of a trade, with its result while it is polled
  settled,    \* the contract's settled quotes
  usdc,       \* the buyer's USDC
  sound,      \* quotes whose seller can still deliver
  blind,      \* history: quotes of trades failed on such an answer
  faults

vars == <<rfq, quote, lapsed, gated, trade, of, age, job, attempts, stalls, pc, cur, outcome,
          unread, sweep, tx, settled, usdc, sound, blind, faults>>

bookVars   == <<rfq, quote>>
tradeVars  == <<trade, of, age>>
jobVars    == <<job, attempts, stalls>>
workerVars == <<pc, cur, outcome, unread>>
ledgerVars == <<settled, usdc, sound>>
chainVars  == <<tx, ledgerVars>>

Trades == 1..MaxTrades

Outcomes == {"none", "reverted_seller", "reverted_other", "migration", "expired_seller",
             "expired_buyer", "signature_invalid", "transfer_failed", "unavailable",
             "buyer_usdc"}

Init ==
  /\ rfq = "open" /\ quote = [q \in Quotes |-> "open"] /\ lapsed = {} /\ gated = {}
  /\ trade = [t \in Trades |-> "none"] /\ of = [t \in Trades |-> "none"]
  /\ age = [t \in Trades |-> 0]
  /\ job = [t \in Trades |-> "none"] /\ attempts = [t \in Trades |-> 0]
  /\ stalls = [t \in Trades |-> 0]
  /\ pc = "idle" /\ cur = 0 /\ outcome = "none" /\ unread = FALSE /\ sweep = 0
  /\ tx = [t \in Trades |-> "none"] /\ settled = {} /\ usdc = MaxUsdc /\ sound = Quotes
  /\ blind = {} /\ faults = 0

-----------------------------------------------------------------------------
(***************************************************************************)
(* The buyer's accept.  The gates are read before the transaction, which   *)
(* re-reads only the pending latch.  Any number of handlers may be behind  *)
(* a quote in gated; one that never commits changes nothing, nor does a    *)
(* repeated idempotency key, which replays the stored answer.              *)
(***************************************************************************)
resolveContext(q) ==
  /\ rfq = "open"
  /\ quote[q] = "open" /\ q \notin lapsed
  /\ gated' = gated \cup {q}
  /\ UNCHANGED <<bookVars, lapsed, tradeVars, jobVars, workerVars, sweep, chainVars, blind,
                 faults>>

findPendingByRfq == {t \in Trades : trade[t] = "pending"}

\* The transaction under the advisory lock: the latch check and insertPending.  The job is added
\* after the commit, or lost with Redis or the process.
accept(q) ==
  \E t \in Trades :
    /\ q \in gated
    /\ findPendingByRfq = {}
    /\ trade[t] = "none" /\ \A u \in Trades : u < t => trade[u] # "none"
    /\ trade' = [trade EXCEPT ![t] = "pending"]
    /\ of' = [of EXCEPT ![t] = q]
    /\ \/ job' = [job EXCEPT ![t] = "waiting"] /\ faults' = faults
       \/ job' = [job EXCEPT ![t] = "gone"] /\ faults < MaxFaults /\ faults' = faults + 1
    /\ UNCHANGED <<bookVars, lapsed, gated, age, attempts, stalls, workerVars, sweep, chainVars,
                   blind>>

-----------------------------------------------------------------------------
(***************************************************************************)
(* The two transactions that end a trade.                                  *)
(***************************************************************************)
persistSettled(t) ==
  IF trade[t] = "pending"
  THEN /\ trade' = [trade EXCEPT ![t] = "settled"]
       /\ rfq' = "filled"
       /\ quote' = [q \in Quotes |-> IF quote[q] # "open" THEN quote[q]
                                     ELSE IF q = of[t] THEN "accepted" ELSE "superseded"]
  ELSE UNCHANGED <<trade, rfq, quote>>

failTrade(t, disposition) ==
  IF trade[t] = "pending"
  THEN /\ trade' = [trade EXCEPT ![t] = "failed"]
       /\ quote' = IF disposition = "expire" /\ quote[of[t]] = "open"
                   THEN [quote EXCEPT ![of[t]] = "expired"] ELSE quote
       /\ rfq' = rfq
  ELSE UNCHANGED <<trade, rfq, quote>>

classifySettleFailure(o) ==
  CASE o \in {"reverted_seller", "expired_seller"} -> "expire"
    [] o \in {"migration", "unavailable"} -> "retry"
    [] OTHER -> "keepOpen"

-----------------------------------------------------------------------------
(***************************************************************************)
(* The settle worker (concurrency 1).                                      *)
(***************************************************************************)
\* Only the attempt that sent a transaction can ask for its result.
WorkerIdle ==
  /\ pc' = "idle" /\ cur' = 0 /\ outcome' = "none" /\ unread' = FALSE
  /\ tx' = [tx EXCEPT ![cur] = IF @ = "sent" THEN "sent" ELSE "none"]

\* The job is over and its counters with it, or it waits to be run again.
RemoveJob ==
  /\ job' = [job EXCEPT ![cur] = "gone"]
  /\ attempts' = [attempts EXCEPT ![cur] = 0] /\ stalls' = [stalls EXCEPT ![cur] = 0]
  /\ WorkerIdle

RequeueJob ==
  /\ job' = [job EXCEPT ![cur] = "waiting"]
  /\ WorkerIdle

\* A thrown error: BullMQ counts the attempt and runs the job again later, or gives up.
RetryJob ==
  IF attempts[cur] + 1 < MaxAttempts
  THEN RequeueJob /\ attempts' = [attempts EXCEPT ![cur] = @ + 1] /\ stalls' = stalls
  ELSE RemoveJob

\* The job is taken and the trade loaded.  The first attempt skips the self-heal read; so does
\* the run of a recovered job, whose attemptsMade did not change.
process(t) ==
  /\ pc = "idle" /\ job[t] = "waiting"
  /\ IF trade[t] # "pending"
     THEN /\ job' = [job EXCEPT ![t] = "gone"]
          /\ UNCHANGED workerVars
     ELSE /\ job' = [job EXCEPT ![t] = "active"]
          /\ pc' = IF attempts[t] > 0 THEN "heal" ELSE "precheck"
          /\ cur' = t /\ outcome' = "none"
          /\ unread' = (stalls[t] > 0)
  /\ UNCHANGED <<bookVars, lapsed, gated, tradeVars, attempts, stalls, sweep, chainVars, blind,
                 faults>>

selfHeal ==
  /\ pc = "heal"
  /\ pc' = IF of[cur] \in settled THEN "persist" ELSE "precheck"
  /\ unread' = (tx[cur] = "sent")
  /\ UNCHANGED <<bookVars, lapsed, gated, tradeVars, jobVars, cur, outcome, sweep, chainVars,
                 blind, faults>>

\* The buyer-USDC pre-check fails the trade itself.  A failing read counts as enough.
precheckUsdc ==
  /\ pc = "precheck"
  /\ \/ usdc > 0 /\ pc' = "submit" /\ outcome' = outcome /\ faults' = faults
     \/ usdc = 0 /\ pc' = "fail" /\ outcome' = "buyer_usdc" /\ faults' = faults
     \/ faults < MaxFaults /\ faults' = faults + 1 /\ pc' = "submit" /\ outcome' = outcome
  /\ UNCHANGED <<bookVars, lapsed, gated, tradeVars, jobVars, cur, unread, sweep, chainVars,
                 blind>>

\* The ledger rejects the transaction of a trade of quote q.
Reverts(q) == q \in settled \/ usdc = 0 \/ q \notin sound

\* Expiry check, enforcing re-simulation and send.
submitSignedAcceptQuote ==
  /\ pc = "submit"
  /\ LET q == of[cur]
         Answer(o) == pc' = "confirm" /\ outcome' = o /\ UNCHANGED tx
     IN \/ q \in lapsed /\ Answer("expired_seller")
        \/ q \notin lapsed /\ age[cur] > 0 /\ Answer("expired_buyer")
        \/ /\ q \notin lapsed /\ age[cur] = 0
           /\ \/ q \notin sound /\ Answer("reverted_seller")
              \/ Reverts(q) /\ Answer("reverted_other")
              \/ ~Reverts(q) /\ \E o \in {"migration", "signature_invalid", "transfer_failed",
                                         "unavailable"} : Answer(o)
              \/ /\ ~Reverts(q)
                 /\ tx' = [tx EXCEPT ![cur] = "sent"]
                 /\ pc' = "poll" /\ outcome' = "none"
  /\ UNCHANGED <<bookVars, lapsed, gated, tradeVars, jobVars, cur, unread, sweep, settled, usdc,
                 sound, blind, faults>>

\* A transaction that is not found at the deadline passes for a success.
Fault_poll ==
  /\ pc = "poll"
  /\ \/ tx[cur] = "reverted" /\ pc' = "confirm" /\ outcome' = "transfer_failed"
     \/ tx[cur] # "reverted" /\ pc' = "persist" /\ outcome' = outcome
  /\ UNCHANGED <<bookVars, lapsed, gated, tradeVars, jobVars, cur, unread, sweep, chainVars,
                 blind, faults>>

\* The poll ends with the transaction's result, or at its deadline.
poll ==
  /\ pc = "poll"
  /\ \/ tx[cur] = "ok" /\ pc' = "persist" /\ outcome' = outcome
     \/ tx[cur] = "reverted" /\ pc' = "confirm" /\ outcome' = "transfer_failed"
     \/ pc' = "confirm" /\ outcome' = "unavailable"
  /\ UNCHANGED <<bookVars, lapsed, gated, tradeVars, jobVars, cur, unread, sweep, chainVars,
                 blind, faults>>

\* The answer is classified without the fresh read.
Fault_confirm ==
  /\ pc = "confirm"
  /\ IF classifySettleFailure(outcome) = "retry"
     THEN RetryJob
     ELSE /\ pc' = "fail" /\ unread' = (tx[cur] = "sent")
          /\ UNCHANGED <<cur, outcome, jobVars, tx>>
  /\ UNCHANGED <<bookVars, lapsed, gated, tradeVars, sweep, ledgerVars, blind, faults>>

\* The fresh is_settled read before any terminal decision, and the classification.
confirm ==
  /\ pc = "confirm"
  /\ IF of[cur] \in settled
     THEN /\ pc' = "persist" /\ UNCHANGED <<cur, outcome, unread, jobVars, tx>>
     ELSE IF classifySettleFailure(outcome) = "retry"
     THEN RetryJob
     ELSE /\ pc' = "fail" /\ unread' = (tx[cur] = "sent")
          /\ UNCHANGED <<cur, outcome, jobVars, tx>>
  /\ UNCHANGED <<bookVars, lapsed, gated, tradeVars, sweep, ledgerVars, blind, faults>>

settle ==
  /\ pc = "persist"
  /\ persistSettled(cur)
  /\ RemoveJob
  /\ UNCHANGED <<lapsed, gated, of, age, sweep, ledgerVars, blind, faults>>

terminalFail ==
  /\ pc = "fail"
  /\ failTrade(cur, classifySettleFailure(outcome))
  /\ RemoveJob
  /\ blind' = IF unread /\ trade[cur] = "pending" THEN blind \cup {of[cur]} ELSE blind
  /\ UNCHANGED <<lapsed, gated, of, age, sweep, ledgerVars, faults>>

\* An RPC or database error is thrown anywhere in the attempt.
attemptThrows ==
  /\ pc # "idle" /\ faults < MaxFaults
  /\ faults' = faults + 1
  /\ RetryJob
  /\ UNCHANGED <<bookVars, lapsed, gated, tradeVars, sweep, ledgerVars, blind>>

\* The worker dies.  The stalled job is run again, attemptsMade unchanged, or given up.
crash ==
  /\ pc # "idle" /\ faults < MaxFaults
  /\ faults' = faults + 1
  /\ IF stalls[cur] < MaxStalls
     THEN RequeueJob /\ stalls' = [stalls EXCEPT ![cur] = @ + 1] /\ attempts' = attempts
     ELSE RemoveJob
  /\ UNCHANGED <<bookVars, lapsed, gated, tradeVars, sweep, ledgerVars, blind>>

-----------------------------------------------------------------------------
(***************************************************************************)
(* The sweep over stale pending trades (concurrency 1).                    *)
(***************************************************************************)
adopt(t) ==
  /\ sweep = 0 /\ trade[t] = "pending" /\ of[t] \in settled
  /\ persistSettled(t)
  /\ UNCHANGED <<lapsed, gated, of, age, jobVars, workerVars, sweep, chainVars, blind, faults>>

\* The sweep only adopts.
Fault_findAbandoned(t) ==
  /\ sweep = 0 /\ trade[t] = "pending" /\ of[t] \notin settled
  /\ age[t] > 2
  /\ sweep' = t
  /\ UNCHANGED <<bookVars, lapsed, gated, tradeVars, jobVars, workerVars, chainVars, blind,
                 faults>>

\* is_settled answers FALSE and the trade is past the horizon ...
findAbandoned(t) ==
  /\ sweep = 0 /\ trade[t] = "pending" /\ of[t] \notin settled
  /\ age[t] = 2
  /\ sweep' = t
  /\ UNCHANGED <<bookVars, lapsed, gated, tradeVars, jobVars, workerVars, chainVars, blind,
                 faults>>

\* ... and it is failed.
abandon ==
  /\ sweep # 0
  /\ failTrade(sweep, "keepOpen")
  /\ sweep' = 0
  /\ UNCHANGED <<lapsed, gated, of, age, jobVars, workerVars, chainVars, blind, faults>>

-----------------------------------------------------------------------------
(***************************************************************************)
(* The ledger, the clock and the parties.                                  *)
(***************************************************************************)
\* A sent transaction is applied, rejected by the contracts, or dropped at its time bound.
apply(t) ==
  /\ tx[t] = "sent"
  /\ \/ /\ ~Reverts(of[t]) /\ age[t] < 2
        /\ tx' = [tx EXCEPT ![t] = IF cur = t /\ pc = "poll" THEN "ok" ELSE "none"]
        /\ settled' = settled \cup {of[t]}
        /\ usdc' = usdc - 1
     \/ /\ Reverts(of[t]) \/ age[t] > 0 \/ of[t] \in lapsed
        /\ tx' = [tx EXCEPT ![t] = IF cur = t /\ pc = "poll" THEN "reverted" ELSE "none"]
        /\ UNCHANGED <<settled, usdc>>
     \/ tx' = [tx EXCEPT ![t] = "none"] /\ UNCHANGED <<settled, usdc>>
  /\ UNCHANGED <<bookVars, lapsed, gated, tradeVars, jobVars, workerVars, sweep, sound, blind,
                 faults>>

grow(t) ==
  /\ age[t] < 2
  /\ trade[t] = "pending" \/ tx[t] = "sent"
  /\ age' = [age EXCEPT ![t] = @ + 1]
  /\ UNCHANGED <<bookVars, lapsed, gated, trade, of, jobVars, workerVars, sweep, chainVars,
                 blind,
                 faults>>

lapse(q) ==
  /\ q \notin lapsed
  /\ lapsed' = lapsed \cup {q}
  /\ faults < MaxFaults /\ faults' = faults + 1
  /\ UNCHANGED <<bookVars, gated, tradeVars, jobVars, workerVars, sweep, chainVars, blind>>

\* Part of the seller's next submit.
reapLapsed(q) ==
  /\ q \in lapsed /\ quote[q] = "open"
  /\ quote' = [quote EXCEPT ![q] = "expired"]
  /\ UNCHANGED <<rfq, lapsed, gated, tradeVars, jobVars, workerVars, sweep, chainVars, blind,
                 faults>>

\* The buyer spends USDC, a seller moves fractions or is frozen.
drift ==
  /\ \/ usdc > 0 /\ usdc' = usdc - 1 /\ sound' = sound
     \/ usdc' = usdc /\ \E q \in sound : sound' = sound \ {q}
  /\ faults < MaxFaults /\ faults' = faults + 1
  /\ UNCHANGED <<bookVars, lapsed, gated, tradeVars, jobVars, workerVars, sweep, tx, settled,
                 blind>>

Worker == \/ \E t \in Trades : process(t)
          \/ selfHeal \/ precheckUsdc \/ submitSignedAcceptQuote \/ poll \/ confirm
          \/ settle \/ terminalFail

Next ==
  \/ \E q \in Quotes : resolveContext(q) \/ accept(q) \/ lapse(q) \/ reapLapsed(q)
  \/ \E t \in Trades : adopt(t) \/ findAbandoned(t) \/ apply(t) \/ grow(t)
  \/ Worker \/ attemptThrows \/ crash \/ abandon \/ drift

Spec == Init /\ [][Next]_vars

\* The worker and the repeatable sweep run, the ledger closes, time passes.
Fairness ==
  /\ WF_vars(Worker) /\ WF_vars(abandon)
  /\ \A t \in Trades : /\ WF_vars(adopt(t)) /\ WF_vars(findAbandoned(t)) /\ WF_vars(grow(t))
                        /\ WF_vars(apply(t))

FairSpec == Spec /\ Fairness

-----------------------------------------------------------------------------
\* Types; the worker is busy exactly with an active job, and every trade is of a quote.
TypeOK ==
  /\ rfq \in {"open", "filled"}
  /\ quote \in [Quotes -> {"open", "accepted", "expired", "superseded"}]
  /\ lapsed \subseteq Quotes /\ gated \subseteq Quotes
  /\ trade \in [Trades -> {"none", "pending", "settled", "failed"}]
  /\ of \in [Trades -> Quotes \cup {"none"}]
  /\ \A t \in Trades : trade[t] # "none" => of[t] \in Quotes
  /\ age \in [Trades -> 0..2]
  /\ job \in [Trades -> {"none", "waiting", "active", "gone"}]
  /\ attempts \in [Trades -> 0..(MaxAttempts - 1)] /\ stalls \in [Trades -> 0..MaxStalls]
  /\ pc \in {"idle", "heal", "precheck", "submit", "poll", "confirm", "persist", "fail"}
  /\ cur \in 0..MaxTrades /\ (pc # "idle" => cur \in Trades /\ job[cur] = "active")
  /\ outcome \in Outcomes /\ unread \in BOOLEAN
  /\ sweep \in 0..MaxTrades
  /\ tx \in [Trades -> {"none", "sent", "ok", "reverted"}]
  /\ settled \subseteq Quotes /\ usdc \in 0..MaxUsdc /\ sound \subseteq Quotes
  /\ blind \subseteq Quotes /\ faults \in 0..MaxFaults

\* At most one accept of an RFQ is pending, whichever handlers and sweeps race for the latch.
OnePending == Cardinality({t \in Trades : trade[t] = "pending"}) <= 1

\* What the database records as settled is settled on chain, and the three tables agree: the RFQ
\* is filled exactly when one of its trades has settled, a quote is accepted only by such a trade.
RecordMatches ==
  /\ \A t \in Trades : trade[t] = "settled" => of[t] \in settled
  /\ rfq = "filled" <=> \E t \in Trades : trade[t] = "settled"
  /\ \A q \in Quotes : quote[q] = "accepted" =>
       \E t \in Trades : trade[t] = "settled" /\ of[t] = q

\* What the three tables say of the RFQ is consistent and true of the chain.
TablesAgree == TypeOK /\ OnePending /\ RecordMatches

\* Money that has moved is not lost sight of: the quote has a trade that is settled or will be
\* looked at again, unless a trade of it was failed while the worker had not read is_settled or a
\* transaction was still out.
Tracked(q) == \E t \in Trades : of[t] = q /\ trade[t] \in {"pending", "settled"}

SettlementTracked == \A q \in settled \ blind : Tracked(q)

\* One RFQ is settled by one quote: the atomic flip of persistSettled is meant to keep a second
\* accept from slipping past the ACCEPT_RFQ_NOT_OPEN gate.
NeverDoubleSettled == Cardinality(settled) <= 1

\* The RFQ's pending latch is freed again and again: by the worker or, though the job be lost or
\* exhausted, by the sweep.
LatchFreed == []<>(findPendingByRfq = {})
=============================================================================
