------------------------------ MODULE BidRelay ------------------------------
(***************************************************************************)
(* The relay of one collector's signed bids and cancels on one offering:   *)
(* the request handler (row, then job), the escrow and the cancel worker   *)
(* with their retries and their classification of errors, and the network. *)
(*                                                                         *)
(* A row holds the collector's only slot while it is submitted, escrowed   *)
(* or canceling, so the live job is always about the newest row, cur.  All *)
(* attempts of a job send the envelope that was signed at prepare time:    *)
(* they share its sequence number (at most one is ever applied), its time  *)
(* bounds, after which it is not applied any more (sig "lapsed"), and the  *)
(* much later expiry of the passkey signature (sig "expired").             *)
(***************************************************************************)
EXTENDS Integers

CONSTANTS
  MaxRows,          \* bound: bids the collector makes
  EscrowAttempts,   \* attempts of an escrow job (5)
  CancelAttempts,   \* attempts of a cancel job (12)
  LateFrom,         \* the backoff puts cancel attempts from this one past the expiry
  MaxStalls,        \* maxStalledCount
  MaxBlips,         \* bound: RPC errors
  MaxCrashes        \* bound: crashes of a worker or of a request handler, failed enqueues

ASSUME BoundsAssumption ==
  /\ MaxRows \in Nat \ {0}
  /\ EscrowAttempts \in Nat \ {0} /\ CancelAttempts \in Nat \ {0} /\ LateFrom \in Nat
  /\ MaxStalls \in Nat /\ MaxBlips \in Nat /\ MaxCrashes \in Nat

VARIABLES
  row,       \* offering_bids.status
  cur,       \* the newest row
  request,   \* a request between its commit and its enqueue
  kind,      \* the live job
  step,      \* where the live job is: "idle" when there is none
  attempts,  \* attemptsMade of the live job
  stalls,    \* how often it was recovered as stalled
  rerun,     \* per row: a job about it was started more than once
  sig,       \* the age of its envelope: "fresh", "lapsed", "expired"
  open,      \* the contract and the offering take bids and cancels
  tx,        \* the submit_bid transaction of each row
  refund,    \* the cancel_bid transaction of each row
  blips, crashes,
  dropped    \* history: a crash left a row without the job that was to resolve it

vars == <<row, cur, request, kind, step, attempts, stalls, rerun, sig, open, tx, refund,
          blips, crashes, dropped>>

jobVars    == <<kind, step, attempts, stalls, rerun>>
chainVars  == <<open, tx, refund>>
faultVars  == <<blips, crashes, dropped>>

Rows     == 1..MaxRows
Slot     == {"submitted", "escrowed", "canceling"}
TxStates == {"none", "pending", "landed", "reverted", "lapsed"}
Active   == {"verify", "simulate", "send", "poll", "won", "lost"}

\* The contract holds the escrow of row r.
Held(r) == tx[r] = "landed" /\ refund[r] # "landed"

Init ==
  /\ row = [r \in Rows |-> "none"] /\ cur = 0
  /\ request = "none"
  /\ kind = "none" /\ step = "idle" /\ attempts = 0 /\ stalls = 0
  /\ rerun = [r \in Rows |-> FALSE]
  /\ sig = "fresh"
  /\ open = TRUE
  /\ tx = [r \in Rows |-> "none"] /\ refund = [r \in Rows |-> "none"]
  /\ blips = 0 /\ crashes = 0 /\ dropped = FALSE

-----------------------------------------------------------------------------
(***************************************************************************)
(* The request handlers.                                                   *)
(***************************************************************************)
\* The partial unique index over the active statuses.
SlotFree == \A r \in Rows : row[r] \notin Slot

submit ==
  /\ open /\ request = "none"
  /\ SlotFree /\ cur < MaxRows
  /\ cur' = cur + 1
  /\ row' = [row EXCEPT ![cur + 1] = "submitted"]
  /\ request' = "submit" /\ sig' = "fresh"
  /\ UNCHANGED <<jobVars, chainVars, faultVars>>

cancel ==
  /\ open /\ request = "none"
  /\ cur > 0 /\ row[cur] = "escrowed"
  /\ row' = [row EXCEPT ![cur] = "canceling"]
  /\ request' = "cancel" /\ sig' = "fresh"
  /\ refund' = [refund EXCEPT ![cur] = IF @ \in {"reverted", "lapsed"} THEN "none" ELSE @]
  /\ UNCHANGED <<cur, jobVars, open, tx, faultVars>>

enqueue ==
  /\ request # "none"
  /\ request' = "none"
  /\ kind' = request /\ step' = "queued" /\ attempts' = 0 /\ stalls' = 0
  /\ UNCHANGED <<row, cur, rerun, sig, chainVars, faultVars>>

\* The queue refuses the job: a bid stays submitted, a cancel is reverted.
enqueueFails ==
  /\ request # "none" /\ crashes < MaxCrashes
  /\ crashes' = crashes + 1
  /\ request' = "none"
  /\ row' = IF request = "cancel" THEN [row EXCEPT ![cur] = "escrowed"] ELSE row
  /\ UNCHANGED <<cur, jobVars, sig, chainVars, blips, dropped>>

\* The API dies after the commit, or the revert fails as well.
handlerCrash ==
  /\ request # "none" /\ crashes < MaxCrashes
  /\ crashes' = crashes + 1 /\ dropped' = TRUE
  /\ request' = "none"
  /\ UNCHANGED <<row, cur, jobVars, sig, chainVars, blips>>

-----------------------------------------------------------------------------
(***************************************************************************)
(* The escrow worker (kind "submit") and the cancel worker (kind           *)
(* "cancel"), which run the same steps.                                    *)
(***************************************************************************)
Expected == IF kind = "submit" THEN "submitted" ELSE "canceling"
Attempts == IF kind = "submit" THEN EscrowAttempts ELSE CancelAttempts
Tx       == IF kind = "submit" THEN tx[cur] ELSE refund[cur]

SetTx(v) ==
  IF kind = "submit" THEN tx' = [tx EXCEPT ![cur] = v] /\ UNCHANGED <<open, refund>>
                     ELSE refund' = [refund EXCEPT ![cur] = v] /\ UNCHANGED <<open, tx>>

Goto(s) == step' = s /\ UNCHANGED <<kind, attempts, stalls, rerun>>
End     == kind' = "none" /\ step' = "idle" /\ attempts' = 0 /\ stalls' = 0 /\ UNCHANGED rerun

\* A rethrown error: BullMQ backs off, or gives the job up.
Retry ==
  \/ /\ attempts + 1 < Attempts
     /\ attempts' = attempts + 1 /\ step' = "queued" /\ UNCHANGED <<kind, stalls, rerun>>
  \/ attempts + 1 >= Attempts /\ End

\* isProvablyNoFundsMoved, isProvablyRefundNotSent: what a worker concludes from an error.
\* Fault: an expired signature is not taken as proof.
Fault_Provable(reason) ==
  \/ reason \in {"signature_invalid", "transfer_failed"}
  \/ reason = "simulation_failed" /\ attempts = 0

Provable(reason) ==
  \/ reason \in {"signature_invalid", "expired", "transfer_failed"}
  \/ reason = "simulation_failed" /\ attempts = 0

Throw(reason) == IF Provable(reason) THEN Goto("lost") ELSE Retry

takeJob ==
  /\ step = "queued"
  /\ (kind = "cancel" /\ attempts >= LateFrom) => sig = "expired"
  /\ IF row[cur] = Expected
     THEN /\ step' = "verify"
          /\ rerun' = [rerun EXCEPT ![cur] = @ \/ attempts > 0 \/ stalls > 0]
          /\ UNCHANGED <<kind, attempts, stalls>>
     ELSE End
  /\ UNCHANGED <<row, cur, request, sig, chainVars, faultVars>>

\* The passkey assertion was verified when it was submitted; here its expiry is checked again.
verify ==
  /\ step = "verify"
  /\ IF sig = "expired" THEN Throw("expired") ELSE Goto("simulate")
  /\ UNCHANGED <<row, cur, request, sig, chainVars, faultVars>>

\* The contract refuses a bid whose key it has seen and a cancel of a bid that is not active;
\* it refuses both when it is closed, and a bid the wallet cannot pay.  A fee above the cap is
\* found before the first send, the fee of an envelope being the same each time.
simulate ==
  /\ step = "simulate"
  /\ \/ open /\ Tx # "landed" /\ Goto("send")
     \/ open /\ Tx = "none" /\ Throw("signature_invalid")
     \/ (~open \/ Tx = "landed" \/ kind = "submit") /\ Throw("simulation_failed")
  /\ UNCHANGED <<row, cur, request, sig, chainVars, faultVars>>

\* Fault: the acceptance of the transaction is taken for its success.
Fault_send ==
  /\ step = "send"
  /\ sig = "fresh" /\ Tx = "none"
  /\ SetTx("pending") /\ Goto("won")
  /\ UNCHANGED <<row, cur, request, sig, faultVars>>

\* sendTransaction: accepted, or accepted with the answer lost; a duplicate; throttled or out
\* of sequence; rejected.
send ==
  /\ step = "send"
  /\ \/ /\ sig = "fresh" /\ Tx \in {"none", "pending"}
        /\ SetTx("pending")
        /\ Goto("poll") \/ Retry
     \/ /\ Tx \in {"landed", "reverted"}
        /\ Goto("poll") /\ UNCHANGED chainVars
     \/ Throw("unavailable") /\ UNCHANGED chainVars
     \/ /\ sig # "fresh" \/ Tx = "none"
        /\ Throw("transfer_failed") /\ UNCHANGED chainVars
  /\ UNCHANGED <<row, cur, request, sig, faultVars>>

\* Fault: a confirmation that times out is taken for a failed transfer.
Fault_poll ==
  /\ step = "poll"
  /\ \/ Tx = "landed" /\ Goto("won")
     \/ Tx # "landed" /\ Throw("transfer_failed")
  /\ UNCHANGED <<row, cur, request, sig, chainVars, faultVars>>

poll ==
  /\ step = "poll"
  /\ \/ Tx = "landed" /\ Goto("won")
     \/ Tx = "reverted" /\ Throw("transfer_failed")
     \/ Tx \notin {"landed", "reverted"} /\ Throw("unavailable")
  /\ UNCHANGED <<row, cur, request, sig, chainVars, faultVars>>

\* The compare-and-sets that end a job.
Latch(s) == row' = IF row[cur] = Expected THEN [row EXCEPT ![cur] = s] ELSE row

\* casEscrowed, casCanceled.
latchWon ==
  /\ step = "won"
  /\ Latch(IF kind = "submit" THEN "escrowed" ELSE "canceled")
  /\ End
  /\ UNCHANGED <<cur, request, sig, chainVars, faultVars>>

\* casFailed frees the slot, casCancelFailedBackToEscrowed keeps it.
\* Fault: a cancel that did not happen is latched canceled.
Fault_latchLost ==
  /\ step = "lost"
  /\ Latch(IF kind = "submit" THEN "failed" ELSE "canceled")
  /\ End
  /\ UNCHANGED <<cur, request, sig, chainVars, faultVars>>

latchLost ==
  /\ step = "lost"
  /\ Latch(IF kind = "submit" THEN "failed" ELSE "escrowed")
  /\ End
  /\ UNCHANGED <<cur, request, sig, chainVars, faultVars>>

\* An RPC call times out: a plain Error, never provable.
blip ==
  /\ step \in {"verify", "simulate", "send", "poll"} /\ blips < MaxBlips
  /\ blips' = blips + 1
  /\ Throw("error")
  /\ UNCHANGED <<row, cur, request, sig, chainVars, crashes, dropped>>

\* The worker dies: the job is recovered as stalled, its attemptsMade as before, or given up for
\* having stalled too often.
crash ==
  /\ step \in Active /\ crashes < MaxCrashes
  /\ crashes' = crashes + 1
  /\ \/ stalls < MaxStalls /\ step' = "queued" /\ stalls' = stalls + 1
        /\ UNCHANGED <<kind, attempts, rerun, dropped>>
     \/ stalls >= MaxStalls /\ End /\ dropped' = TRUE
  /\ UNCHANGED <<row, cur, request, sig, chainVars, blips>>

-----------------------------------------------------------------------------
(***************************************************************************)
(* The network, the clock, and the settle worker closing the offering.     *)
(***************************************************************************)
submitApplied(r) ==
  /\ tx[r] = "pending"
  /\ tx' = [tx EXCEPT ![r] = IF open THEN "landed" ELSE "reverted"]
  /\ UNCHANGED <<row, cur, request, jobVars, sig, open, refund, faultVars>>

cancelApplied(r) ==
  /\ refund[r] = "pending"
  /\ refund' = [refund EXCEPT ![r] = IF open THEN "landed" ELSE "reverted"]
  /\ UNCHANGED <<row, cur, request, jobVars, sig, open, tx, faultVars>>

Lapsed(t) == [r \in Rows |-> IF t[r] = "pending" THEN "lapsed" ELSE t[r]]

timePasses ==
  /\ \/ sig = "fresh" /\ sig' = "lapsed" /\ tx' = Lapsed(tx) /\ refund' = Lapsed(refund)
     \/ sig = "lapsed" /\ sig' = "expired" /\ UNCHANGED <<tx, refund>>
  /\ UNCHANGED <<row, cur, request, jobVars, open, faultVars>>

closes ==
  /\ open
  /\ open' = FALSE
  /\ UNCHANGED <<row, cur, request, jobVars, sig, tx, refund, faultVars>>

Worker  == takeJob \/ verify \/ simulate \/ send \/ poll \/ latchWon \/ latchLost
Network == \E r \in Rows : submitApplied(r) \/ cancelApplied(r)

Next ==
  \/ submit \/ cancel \/ enqueue \/ enqueueFails \/ handlerCrash
  \/ Worker \/ blip \/ crash
  \/ Network \/ timePasses \/ closes

Spec == Init /\ [][Next]_vars

\* A request that runs reaches its enqueue, workers run, time passes.
FairSpec == Spec /\ WF_vars(enqueue) /\ WF_vars(Worker) /\ WF_vars(timePasses)

-----------------------------------------------------------------------------
\* Types.  Every row, envelope and queue counter stays within what the code can produce.
TypeOK ==
  /\ row \in [Rows -> Slot \cup {"none", "canceled", "failed"}] /\ cur \in 0..MaxRows
  /\ request \in {"none", "submit", "cancel"} /\ kind \in {"none", "submit", "cancel"}
  /\ step \in Active \cup {"idle", "queued"}
  /\ attempts \in Nat /\ stalls \in 0..MaxStalls
  /\ rerun \in [Rows -> BOOLEAN]
  /\ sig \in {"fresh", "lapsed", "expired"}
  /\ open \in BOOLEAN /\ tx \in [Rows -> TxStates] /\ refund \in [Rows -> TxStates]
  /\ blips \in 0..MaxBlips /\ crashes \in 0..MaxCrashes /\ dropped \in BOOLEAN

\* The cancel worker latches canceled only after the refund: a row that gives its slot back
\* as canceled is never one whose money is still in the contract.
CanceledMeansRefunded == \A r \in Rows : row[r] = "canceled" => refund[r] = "landed"

\* A bid is escrowed, and so counts in the clearing, only if its money once reached the
\* contract.
EscrowedWasFunded == \A r \in Rows : row[r] \in {"escrowed", "canceling"} => tx[r] = "landed"

\* A worker that runs a job once classifies every error soundly: a row is failed with its
\* money in the contract, or escrowed with its money refunded, only after a job was retried
\* or rerun.
OneRunIsSound ==
  \A r \in Rows :
    ~rerun[r] => /\ (row[r] = "failed") => ~Held(r)
                 /\ (row[r] = "escrowed") => Held(r)

\* Every cancel is eventually resolved: the retry budget outlasts the signature, and one attempt
\* that then gets an answer finds it expired ("no row stays stuck without a reconciler").  A lost
\* confirmation, a worker that dies and is recovered, and fewer RPC errors than there are such
\* attempts do not prevent it; a dropped job and an error in every one of them do.
LateAttempts == CancelAttempts - LateFrom

CancelNeverStuck ==
  \A r \in Rows : row[r] = "canceling" ~> (row[r] # "canceling" \/ dropped \/ blips >= LateAttempts)
=============================================================================
