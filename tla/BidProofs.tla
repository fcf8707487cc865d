------------------------------ MODULE BidProofs ------------------------------
(***************************************************************************)
(* Proofs about bids.  Their relay (BidRelay), for any number of rows,     *)
(* attempts, stalls, RPC errors and crashes; and their clearing            *)
(* (ClearingBook), for every band, float, cap and book of escrowed bids.   *)
(***************************************************************************)
EXTENDS BidRelay, ClearingBook, SumsProofs

\* What a transaction that will never be applied looks like.
Dead == {"none", "reverted", "lapsed"}

\* A live job, and a request not yet enqueued, are about the newest row, which still has the
\* status the job expects; there is never both a job and a request.
JobOwnsRow ==
  /\ (kind = "none") <=> (step = "idle")
  /\ kind # "none" => request = "none" /\ cur > 0 /\ row[cur] = Expected
  /\ request # "none" =>
       cur > 0 /\ row[cur] = IF request = "submit" THEN "submitted" ELSE "canceling"

\* Rows not made yet have no transaction, and rows never escrowed have no cancel transaction.
Unsent ==
  \A r \in Rows :
    /\ r > cur => row[r] = "none"
    /\ row[r] = "none" => tx[r] = "none"
    /\ row[r] \in {"none", "submitted", "failed"} => refund[r] = "none"

\* A worker believes only a transaction that was applied.
WonLanded == step = "won" => Tx = "landed"

\* Until a job's only run sends, its transaction does not exist; when that run gives up, the
\* transaction can no longer be applied.
FirstRun ==
  /\ request = "submit" => tx[cur] = "none"
  /\ request = "cancel" /\ ~rerun[cur] => refund[cur] = "none"
  /\ kind # "none" /\ ~rerun[cur] /\ step \in {"queued", "verify", "simulate", "send"}
       /\ (step = "queued" => attempts = 0 /\ stalls = 0)
     => Tx = "none"
  /\ step = "lost" /\ ~rerun[cur] => Tx \in Dead

\* A verdict reached on a job's only run stays right: what it gave up on stays unapplied.
Verdicts ==
  \A r \in Rows :
    ~rerun[r] => /\ row[r] = "failed" => tx[r] \in Dead
                 /\ row[r] = "escrowed" => refund[r] \in Dead

Inv ==
  /\ TypeOK /\ JobOwnsRow /\ Unsent /\ WonLanded /\ FirstRun /\ Verdicts
  /\ CanceledMeansRefunded /\ EscrowedWasFunded

\* Before any request nothing is sent and no verdict is given.
LEMMA InitInv == Init => Inv
<1>1. Init => open \in BOOLEAN /\ dropped \in BOOLEAN
  BY Zenon DEF Init
<1> QED
  BY <1>1, BoundsAssumption DEF Init, Inv, TypeOK, JobOwnsRow, Unsent, WonLanded, FirstRun,
         Verdicts, CanceledMeansRefunded, EscrowedWasFunded, Rows, Slot, Active, TxStates

\* Every step of a handler, a worker, the network or the clock preserves the invariant.  A
\* landed transaction stays landed; only send makes one pending, and it runs for a row that
\* is still submitted or canceling; and takeJob marks the row before a second run.
LEMMA NextInv == Inv /\ [Next]_vars => Inv'
<1> SUFFICES ASSUME Inv, [Next]_vars PROVE Inv'
  OBVIOUS
<1> USE BoundsAssumption
<1> USE DEF Inv, Rows, Slot, Active, TxStates, Dead, Expected, Attempts, Tx,
            jobVars, chainVars, faultVars
<1>1. CASE submit
  <2>1. TypeOK'
    BY <1>1 DEF submit, SlotFree, TypeOK, JobOwnsRow
  <2>2. JobOwnsRow'
    BY <1>1 DEF submit, SlotFree, TypeOK, JobOwnsRow
  <2>3. Unsent'
    BY <1>1 DEF submit, SlotFree, TypeOK, JobOwnsRow, Unsent
  <2>4. WonLanded'
    BY <1>1 DEF submit, SlotFree, TypeOK, JobOwnsRow, WonLanded
  <2>5. FirstRun'
    BY <1>1 DEF submit, SlotFree, TypeOK, JobOwnsRow, Unsent, FirstRun, Verdicts
  <2>6. Verdicts'
    BY <1>1 DEF submit, SlotFree, TypeOK, JobOwnsRow, Unsent, FirstRun, Verdicts
  <2>7. CanceledMeansRefunded'
    BY <1>1 DEF submit, SlotFree, TypeOK, JobOwnsRow, WonLanded, CanceledMeansRefunded
  <2>8. EscrowedWasFunded'
    BY <1>1 DEF submit, SlotFree, TypeOK, JobOwnsRow, WonLanded, EscrowedWasFunded
  <2> QED BY <2>1, <2>2, <2>3, <2>4, <2>5, <2>6, <2>7, <2>8
<1>2. CASE cancel
  <2>1. TypeOK'
    BY <1>2 DEF cancel, TypeOK, JobOwnsRow
  <2>2. JobOwnsRow'
    BY <1>2 DEF cancel, TypeOK, JobOwnsRow
  <2>3. Unsent'
    BY <1>2 DEF cancel, TypeOK, JobOwnsRow, Unsent
  <2>4. WonLanded'
    BY <1>2 DEF cancel, TypeOK, JobOwnsRow, WonLanded
  <2>5. FirstRun'
    BY <1>2 DEF cancel, TypeOK, JobOwnsRow, Unsent, FirstRun, Verdicts
  <2>6. Verdicts'
    BY <1>2 DEF cancel, TypeOK, JobOwnsRow, Unsent, FirstRun, Verdicts
  <2>7. CanceledMeansRefunded'
    BY <1>2 DEF cancel, TypeOK, JobOwnsRow, WonLanded, CanceledMeansRefunded
  <2>8. EscrowedWasFunded'
    BY <1>2 DEF cancel, TypeOK, JobOwnsRow, WonLanded, EscrowedWasFunded
  <2> QED BY <2>1, <2>2, <2>3, <2>4, <2>5, <2>6, <2>7, <2>8
<1>3. CASE enqueue
  <2>1. TypeOK'
    BY <1>3 DEF enqueue, TypeOK, JobOwnsRow
  <2>2. JobOwnsRow'
    BY <1>3 DEF enqueue, TypeOK, JobOwnsRow
  <2>3. Unsent' /\ Verdicts' /\ CanceledMeansRefunded' /\ EscrowedWasFunded'
    BY <1>3 DEF enqueue, Unsent, Verdicts, CanceledMeansRefunded, EscrowedWasFunded
  <2>4. WonLanded'
    BY <1>3 DEF enqueue, TypeOK, JobOwnsRow, WonLanded
  <2>5. FirstRun'
    BY <1>3 DEF enqueue, TypeOK, JobOwnsRow, Unsent, FirstRun, Verdicts
  <2> QED BY <2>1, <2>2, <2>3, <2>4, <2>5
<1>4. CASE enqueueFails
  <2>1. TypeOK'
    BY <1>4 DEF enqueueFails, TypeOK, JobOwnsRow
  <2>2. JobOwnsRow'
    BY <1>4 DEF enqueueFails, TypeOK, JobOwnsRow
  <2>3. Unsent'
    BY <1>4 DEF enqueueFails, TypeOK, JobOwnsRow, Unsent
  <2>4. WonLanded'
    BY <1>4 DEF enqueueFails, TypeOK, JobOwnsRow, WonLanded
  <2>5. FirstRun'
    BY <1>4 DEF enqueueFails, TypeOK, JobOwnsRow, Unsent, FirstRun, Verdicts
  <2>6. Verdicts'
    BY <1>4 DEF enqueueFails, TypeOK, JobOwnsRow, Unsent, FirstRun, Verdicts
  <2>7. CanceledMeansRefunded'
    BY <1>4 DEF enqueueFails, TypeOK, JobOwnsRow, WonLanded, CanceledMeansRefunded
  <2>8. EscrowedWasFunded'
    BY <1>4 DEF enqueueFails, TypeOK, JobOwnsRow, WonLanded, EscrowedWasFunded
  <2> QED BY <2>1, <2>2, <2>3, <2>4, <2>5, <2>6, <2>7, <2>8
<1>5. CASE handlerCrash
  <2>1. TypeOK'
    BY <1>5 DEF handlerCrash, TypeOK, JobOwnsRow
  <2>2. JobOwnsRow'
    BY <1>5 DEF handlerCrash, TypeOK, JobOwnsRow
  <2>3. Unsent' /\ Verdicts' /\ CanceledMeansRefunded' /\ EscrowedWasFunded'
    BY <1>5 DEF handlerCrash, Unsent, Verdicts, CanceledMeansRefunded, EscrowedWasFunded
  <2>4. WonLanded'
    BY <1>5 DEF handlerCrash, TypeOK, JobOwnsRow, WonLanded
  <2>5. FirstRun'
    BY <1>5 DEF handlerCrash, TypeOK, JobOwnsRow, Unsent, FirstRun, Verdicts
  <2> QED BY <2>1, <2>2, <2>3, <2>4, <2>5
<1>6. CASE takeJob
  <2>1. TypeOK'
    <3>1. rerun' \in [Rows -> BOOLEAN]
      BY <1>6, Zenon DEF takeJob, End, TypeOK
    <3> QED BY <1>6, <3>1 DEF takeJob, End, TypeOK
  <2>2. JobOwnsRow'
    BY <1>6 DEF takeJob, End, TypeOK, JobOwnsRow
  <2>3. Unsent'
    BY <1>6 DEF takeJob, End, TypeOK, JobOwnsRow, Unsent
  <2>4. WonLanded'
    BY <1>6 DEF takeJob, End, TypeOK, JobOwnsRow, WonLanded
  <2>5. FirstRun'
    <3>1. step = "queued" /\ step' = "verify" /\ kind' = kind
      BY <1>6 DEF takeJob, JobOwnsRow
    <3>2. rerun' = [rerun EXCEPT ![cur] = @ \/ attempts > 0 \/ stalls > 0] /\ cur \in Rows
      BY <1>6 DEF takeJob, TypeOK, JobOwnsRow
    <3>3. rerun'[cur] = (rerun[cur] \/ attempts > 0 \/ stalls > 0)
      BY <3>2, Zenon DEF TypeOK
    <3>4. ~(attempts > 0) /\ ~(stalls > 0) => attempts = 0 /\ stalls = 0
      BY DEF TypeOK
    <3> QED BY <1>6, <3>1, <3>3, <3>4 DEF takeJob, TypeOK, JobOwnsRow, FirstRun
  <2>6. Verdicts'
    BY <1>6 DEF takeJob, End, TypeOK, JobOwnsRow, Unsent, FirstRun, Verdicts
  <2>7. CanceledMeansRefunded'
    BY <1>6 DEF takeJob, End, TypeOK, JobOwnsRow, WonLanded, CanceledMeansRefunded
  <2>8. EscrowedWasFunded'
    BY <1>6 DEF takeJob, End, TypeOK, JobOwnsRow, WonLanded, EscrowedWasFunded
  <2> QED BY <2>1, <2>2, <2>3, <2>4, <2>5, <2>6, <2>7, <2>8
<1>7. CASE verify
  <2>1. TypeOK'
    BY <1>7 DEF verify, Throw, Provable, Goto, Retry, End, TypeOK, JobOwnsRow
  <2>2. JobOwnsRow'
    BY <1>7 DEF verify, Throw, Provable, Goto, Retry, End, TypeOK, JobOwnsRow
  <2>3. Unsent' /\ Verdicts' /\ CanceledMeansRefunded' /\ EscrowedWasFunded'
    BY <1>7 DEF verify, Throw, Provable, Goto, Retry, End, Unsent, Verdicts,
           CanceledMeansRefunded, EscrowedWasFunded
  <2>4. WonLanded'
    BY <1>7 DEF verify, Throw, Provable, Goto, Retry, End, TypeOK, JobOwnsRow, WonLanded
  <2>5. FirstRun'
    BY <1>7 DEF verify, Throw, Provable, Goto, Retry, End, TypeOK, JobOwnsRow, Unsent,
           FirstRun, Verdicts
  <2> QED BY <2>1, <2>2, <2>3, <2>4, <2>5
<1>8. CASE simulate
  <2>1. TypeOK'
    BY <1>8 DEF simulate, Throw, Provable, Goto, Retry, End, TypeOK, JobOwnsRow
  <2>2. JobOwnsRow'
    BY <1>8 DEF simulate, Throw, Provable, Goto, Retry, End, TypeOK, JobOwnsRow
  <2>3. Unsent' /\ Verdicts' /\ CanceledMeansRefunded' /\ EscrowedWasFunded'
    BY <1>8 DEF simulate, Throw, Provable, Goto, Retry, End, Unsent, Verdicts,
           CanceledMeansRefunded, EscrowedWasFunded
  <2>4. WonLanded'
    BY <1>8 DEF simulate, Throw, Provable, Goto, Retry, End, TypeOK, JobOwnsRow, WonLanded
  <2>5. FirstRun'
    BY <1>8 DEF simulate, Throw, Provable, Goto, Retry, End, TypeOK, JobOwnsRow, Unsent,
           FirstRun, Verdicts
  <2> QED BY <2>1, <2>2, <2>3, <2>4, <2>5
<1>9. CASE send
  <2>1. TypeOK'
    BY <1>9, SMTT(20) DEF send, SetTx, Throw, Provable, Goto, Retry, End, TypeOK, JobOwnsRow
  <2>2. JobOwnsRow'
    BY <1>9 DEF send, SetTx, Throw, Provable, Goto, Retry, End, TypeOK, JobOwnsRow
  <2>3. Unsent'
    BY <1>9 DEF send, SetTx, Throw, Provable, Goto, Retry, End, TypeOK, JobOwnsRow, Unsent
  <2>4. WonLanded'
    BY <1>9 DEF send, SetTx, Throw, Provable, Goto, Retry, End, TypeOK, JobOwnsRow,
           WonLanded
  <2>5. FirstRun'
    BY <1>9 DEF send, SetTx, Throw, Provable, Goto, Retry, End, TypeOK, JobOwnsRow, Unsent,
           FirstRun, Verdicts
  <2>6. Verdicts'
    BY <1>9 DEF send, SetTx, Throw, Provable, Goto, Retry, End, TypeOK, JobOwnsRow, Unsent,
           FirstRun, Verdicts
  <2>7. CanceledMeansRefunded'
    BY <1>9 DEF send, SetTx, Throw, Provable, Goto, Retry, End, TypeOK, JobOwnsRow,
           WonLanded, CanceledMeansRefunded
  <2>8. EscrowedWasFunded'
    BY <1>9 DEF send, SetTx, Throw, Provable, Goto, Retry, End, TypeOK, JobOwnsRow,
           WonLanded, EscrowedWasFunded
  <2> QED BY <2>1, <2>2, <2>3, <2>4, <2>5, <2>6, <2>7, <2>8
<1>10. CASE poll
  <2>1. TypeOK'
    BY <1>10 DEF poll, Throw, Provable, Goto, Retry, End, TypeOK, JobOwnsRow
  <2>2. JobOwnsRow'
    BY <1>10 DEF poll, Throw, Provable, Goto, Retry, End, TypeOK, JobOwnsRow
  <2>3. Unsent' /\ Verdicts' /\ CanceledMeansRefunded' /\ EscrowedWasFunded'
    BY <1>10 DEF poll, Throw, Provable, Goto, Retry, End, Unsent, Verdicts,
           CanceledMeansRefunded, EscrowedWasFunded
  <2>4. WonLanded'
    BY <1>10 DEF poll, Throw, Provable, Goto, Retry, End, TypeOK, JobOwnsRow, WonLanded
  <2>5. FirstRun'
    BY <1>10 DEF poll, Throw, Provable, Goto, Retry, End, TypeOK, JobOwnsRow, Unsent,
           FirstRun, Verdicts
  <2> QED BY <2>1, <2>2, <2>3, <2>4, <2>5
<1>11. CASE latchWon
  <2>1. TypeOK'
    BY <1>11 DEF latchWon, Latch, End, TypeOK, JobOwnsRow
  <2>2. JobOwnsRow'
    BY <1>11 DEF latchWon, Latch, End, TypeOK, JobOwnsRow
  <2>3. Unsent'
    BY <1>11 DEF latchWon, Latch, End, TypeOK, JobOwnsRow, Unsent
  <2>4. WonLanded'
    BY <1>11 DEF latchWon, Latch, End, TypeOK, JobOwnsRow, WonLanded
  <2>5. FirstRun'
    BY <1>11 DEF latchWon, Latch, End, TypeOK, JobOwnsRow, Unsent, FirstRun, Verdicts
  <2>6. Verdicts'
    BY <1>11 DEF latchWon, Latch, End, TypeOK, JobOwnsRow, Unsent, FirstRun, Verdicts
  <2>7. CanceledMeansRefunded'
    BY <1>11 DEF latchWon, Latch, End, TypeOK, JobOwnsRow, WonLanded, CanceledMeansRefunded
  <2>8. EscrowedWasFunded'
    BY <1>11 DEF latchWon, Latch, End, TypeOK, JobOwnsRow, WonLanded, EscrowedWasFunded
  <2> QED BY <2>1, <2>2, <2>3, <2>4, <2>5, <2>6, <2>7, <2>8
<1>12. CASE latchLost
  <2>1. TypeOK'
    BY <1>12 DEF latchLost, Latch, End, TypeOK, JobOwnsRow
  <2>2. JobOwnsRow'
    BY <1>12 DEF latchLost, Latch, End, TypeOK, JobOwnsRow
  <2>3. Unsent'
    BY <1>12 DEF latchLost, Latch, End, TypeOK, JobOwnsRow, Unsent
  <2>4. WonLanded'
    BY <1>12 DEF latchLost, Latch, End, TypeOK, JobOwnsRow, WonLanded
  <2>5. FirstRun'
    BY <1>12 DEF latchLost, Latch, End, TypeOK, JobOwnsRow, Unsent, FirstRun, Verdicts
  <2>6. Verdicts'
    BY <1>12 DEF latchLost, Latch, End, TypeOK, JobOwnsRow, Unsent, FirstRun, Verdicts
  <2>7. CanceledMeansRefunded'
    BY <1>12 DEF latchLost, Latch, End, TypeOK, JobOwnsRow, WonLanded, CanceledMeansRefunded
  <2>8. EscrowedWasFunded'
    BY <1>12 DEF latchLost, Latch, End, TypeOK, JobOwnsRow, WonLanded, EscrowedWasFunded
  <2> QED BY <2>1, <2>2, <2>3, <2>4, <2>5, <2>6, <2>7, <2>8
<1>13. CASE blip
  <2>1. TypeOK'
    BY <1>13 DEF blip, Throw, Provable, Goto, Retry, End, TypeOK, JobOwnsRow
  <2>2. JobOwnsRow'
    BY <1>13 DEF blip, Throw, Provable, Goto, Retry, End, TypeOK, JobOwnsRow
  <2>3. Unsent' /\ Verdicts' /\ CanceledMeansRefunded' /\ EscrowedWasFunded'
    BY <1>13 DEF blip, Throw, Provable, Goto, Retry, End, Unsent, Verdicts,
           CanceledMeansRefunded, EscrowedWasFunded
  <2>4. WonLanded'
    BY <1>13 DEF blip, Throw, Provable, Goto, Retry, End, TypeOK, JobOwnsRow, WonLanded
  <2>5. FirstRun'
    BY <1>13 DEF blip, Throw, Provable, Goto, Retry, End, TypeOK, JobOwnsRow, Unsent,
           FirstRun, Verdicts
  <2> QED BY <2>1, <2>2, <2>3, <2>4, <2>5
<1>14. CASE crash
  <2>1. TypeOK'
    <3>1. dropped' \in BOOLEAN
      BY <1>14, Zenon DEF crash, TypeOK
    <3> QED BY <1>14, <3>1 DEF crash, End, TypeOK, JobOwnsRow
  <2>2. JobOwnsRow'
    BY <1>14 DEF crash, End, TypeOK, JobOwnsRow
  <2>3. Unsent' /\ Verdicts' /\ CanceledMeansRefunded' /\ EscrowedWasFunded'
    BY <1>14 DEF crash, End, Unsent, Verdicts, CanceledMeansRefunded, EscrowedWasFunded
  <2>4. WonLanded'
    BY <1>14 DEF crash, End, TypeOK, JobOwnsRow, WonLanded
  <2>5. FirstRun'
    BY <1>14 DEF crash, End, TypeOK, JobOwnsRow, Unsent, FirstRun, Verdicts
  <2> QED BY <2>1, <2>2, <2>3, <2>4, <2>5
<1>15. CASE Network
  <2>1. TypeOK'
    BY <1>15, ZenonT(30) DEF Network, submitApplied, cancelApplied, TypeOK, JobOwnsRow
  <2>2. JobOwnsRow'
    BY <1>15 DEF Network, submitApplied, cancelApplied, TypeOK, JobOwnsRow
  <2>3. Unsent'
    BY <1>15 DEF Network, submitApplied, cancelApplied, TypeOK, JobOwnsRow, Unsent
  <2>4. WonLanded'
    BY <1>15 DEF Network, submitApplied, cancelApplied, TypeOK, JobOwnsRow, WonLanded
  <2>5. FirstRun'
    BY <1>15 DEF Network, submitApplied, cancelApplied, TypeOK, JobOwnsRow, Unsent,
           FirstRun, Verdicts
  <2>6. Verdicts'
    BY <1>15 DEF Network, submitApplied, cancelApplied, TypeOK, JobOwnsRow, Unsent,
           FirstRun, Verdicts
  <2>7. CanceledMeansRefunded'
    BY <1>15 DEF Network, submitApplied, cancelApplied, TypeOK, JobOwnsRow, WonLanded,
           CanceledMeansRefunded
  <2>8. EscrowedWasFunded'
    BY <1>15 DEF Network, submitApplied, cancelApplied, TypeOK, JobOwnsRow, WonLanded,
           EscrowedWasFunded
  <2> QED BY <2>1, <2>2, <2>3, <2>4, <2>5, <2>6, <2>7, <2>8
<1>16. CASE timePasses
  <2>1. TypeOK'
    BY <1>16 DEF timePasses, Lapsed, TypeOK, JobOwnsRow
  <2>2. JobOwnsRow'
    BY <1>16 DEF timePasses, Lapsed, TypeOK, JobOwnsRow
  <2>3. Unsent'
    BY <1>16 DEF timePasses, Lapsed, TypeOK, JobOwnsRow, Unsent
  <2>4. WonLanded'
    BY <1>16 DEF timePasses, Lapsed, TypeOK, JobOwnsRow, WonLanded
  <2>5. FirstRun'
    BY <1>16 DEF timePasses, Lapsed, TypeOK, JobOwnsRow, Unsent, FirstRun, Verdicts
  <2>6. Verdicts'
    BY <1>16 DEF timePasses, Lapsed, TypeOK, JobOwnsRow, Unsent, FirstRun, Verdicts
  <2>7. CanceledMeansRefunded'
    BY <1>16 DEF timePasses, Lapsed, TypeOK, JobOwnsRow, WonLanded, CanceledMeansRefunded
  <2>8. EscrowedWasFunded'
    BY <1>16 DEF timePasses, Lapsed, TypeOK, JobOwnsRow, WonLanded, EscrowedWasFunded
  <2> QED BY <2>1, <2>2, <2>3, <2>4, <2>5, <2>6, <2>7, <2>8
<1>17. CASE closes
  <2>1. TypeOK'
    BY <1>17 DEF closes, TypeOK, JobOwnsRow
  <2>2. JobOwnsRow'
    BY <1>17 DEF closes, TypeOK, JobOwnsRow
  <2>3. Unsent' /\ Verdicts' /\ CanceledMeansRefunded' /\ EscrowedWasFunded'
    BY <1>17 DEF closes, Unsent, Verdicts, CanceledMeansRefunded, EscrowedWasFunded
  <2>4. WonLanded'
    BY <1>17 DEF closes, TypeOK, JobOwnsRow, WonLanded
  <2>5. FirstRun'
    BY <1>17 DEF closes, TypeOK, JobOwnsRow, Unsent, FirstRun, Verdicts
  <2> QED BY <2>1, <2>2, <2>3, <2>4, <2>5
<1>18. CASE UNCHANGED vars
  BY <1>18 DEF vars, TypeOK, JobOwnsRow, Unsent, WonLanded, FirstRun, Verdicts,
         CanceledMeansRefunded, EscrowedWasFunded
<1> QED BY <1>1, <1>2, <1>3, <1>4, <1>5, <1>6, <1>7, <1>8, <1>9, <1>10, <1>11,
         <1>12, <1>13, <1>14, <1>15, <1>16, <1>17, <1>18 DEF Next, Worker

\* The inductive invariant holds throughout, whatever is lost, retried or rerun.
THEOREM Invariance == Spec => []Inv
BY InitInv, NextInv, PTL DEF Spec

\* The tables, the queue and the envelopes are well typed.
THEOREM TypeCorrect == Spec => []TypeOK
<1>1. Inv => TypeOK
  BY DEF Inv
<1> QED BY <1>1, Invariance, PTL

\* casCanceled never frees the slot of a bid whose money is still in the contract.
THEOREM CanceledIsRefunded == Spec => []CanceledMeansRefunded
<1>1. Inv => CanceledMeansRefunded
  BY DEF Inv
<1> QED BY <1>1, Invariance, PTL

\* casEscrowed never counts a bid whose money never reached the contract.
THEOREM EscrowedIsPaidFor == Spec => []EscrowedWasFunded
<1>1. Inv => EscrowedWasFunded
  BY DEF Inv
<1> QED BY <1>1, Invariance, PTL

\* isProvablyNoFundsMoved and isProvablyRefundNotSent are sound on a job's only run.
THEOREM OneRunSound == Spec => []OneRunIsSound
<1>1. Inv => OneRunIsSound
  BY DEF Inv, OneRunIsSound, Verdicts, Held, Dead, EscrowedWasFunded
<1> QED BY <1>1, Invariance, PTL

-----------------------------------------------------------------------------
(***************************************************************************)
(* The clearing of the book.                                               *)
(***************************************************************************)
\* A book of well-formed bids, as computeClearing is given.
IsBook(b) ==
  /\ IsFiniteSet(DOMAIN b)
  /\ \A i \in DOMAIN b : /\ i \in Int /\ b[i].price \in Nat /\ b[i].count \in Nat \ {0}
                         /\ b[i].created \in Int

\* The sort order is a strict order that leaves no ties.
LEMMA OrderIsStrict ==
  ASSUME NEW b, IsBook(b), NEW i \in DOMAIN b, NEW j \in DOMAIN b
  PROVE  /\ ~ Before(b, i, i)
         /\ Before(b, i, j) => ~ Before(b, j, i)
         /\ i # j => Before(b, i, j) \/ Before(b, j, i)
         /\ \A k \in DOMAIN b : Before(b, i, j) /\ Before(b, j, k) => Before(b, i, k)
BY DEF IsBook, Before

\* The walk through a non-empty set of bids has a last bid.
LEMMA LastBid ==
  ASSUME NEW b, IsBook(b), NEW S \in SUBSET DOMAIN b, S # {}
  PROVE  \E i \in S : UpTo(b, S, i) = S
<1> DEFINE T == {s \in SUBSET S : s # {} /\ ~ \E i \in s : \A j \in s : j = i \/ Before(b, j, i)}
<1>1. ASSUME T # {} PROVE FALSE
  <2>1. PICK s \in T : \A x \in s : s \ {x} \notin T
    <3>1. T \subseteq SUBSET S /\ IsFiniteSet(S) BY FS_Subset DEF IsBook
    <3> HIDE DEF T
    <3> QED BY <3>1, <1>1, SmallestSubset
  <2>2. PICK x \in s : TRUE OBVIOUS
  <2>3. s \ {x} # {} BY <2>2
  <2>4. PICK i \in s \ {x} : \A j \in s \ {x} : j = i \/ Before(b, j, i) BY <2>1, <2>2, <2>3
  <2>5. CASE Before(b, x, i)
    <3>1. \A j \in s : j = i \/ Before(b, j, i) BY <2>4, <2>5
    <3> QED BY <3>1
  <2>6. CASE ~ Before(b, x, i)
    <3>1. x \in DOMAIN b /\ i \in DOMAIN b /\ i # x /\ s \subseteq DOMAIN b BY <2>2, <2>4
    <3>2. Before(b, i, x) BY <2>6, <3>1, OrderIsStrict
    <3>3. \A j \in s : j = x \/ Before(b, j, x) BY <2>4, <3>1, <3>2, OrderIsStrict
    <3> QED BY <2>2, <3>3
  <2> QED BY <2>5, <2>6
<1>2. PICK i \in S : \A j \in S : j = i \/ Before(b, j, i) BY <1>1
<1> QED BY <1>2 DEF UpTo

\* ... and a first one.
LEMMA FirstBid ==
  ASSUME NEW b, IsBook(b), NEW S \in SUBSET DOMAIN b, S # {}
  PROVE  \E i \in S : \A j \in S : j = i \/ Before(b, i, j)
<1> DEFINE T == {s \in SUBSET S : s # {} /\ ~ \E i \in s : \A j \in s : j = i \/ Before(b, i, j)}
<1>1. ASSUME T # {} PROVE FALSE
  <2>1. PICK s \in T : \A x \in s : s \ {x} \notin T
    <3>1. T \subseteq SUBSET S /\ IsFiniteSet(S) BY FS_Subset DEF IsBook
    <3> HIDE DEF T
    <3> QED BY <3>1, <1>1, SmallestSubset
  <2>2. PICK x \in s : TRUE OBVIOUS
  <2>3. s \ {x} # {} BY <2>2
  <2>4. PICK i \in s \ {x} : \A j \in s \ {x} : j = i \/ Before(b, i, j) BY <2>1, <2>2, <2>3
  <2>5. CASE Before(b, i, x)
    <3>1. \A j \in s : j = i \/ Before(b, i, j) BY <2>4, <2>5
    <3> QED BY <3>1
  <2>6. CASE ~ Before(b, i, x)
    <3>1. x \in DOMAIN b /\ i \in DOMAIN b /\ i # x /\ s \subseteq DOMAIN b BY <2>2, <2>4
    <3>2. Before(b, x, i) BY <2>6, <3>1, OrderIsStrict
    <3>3. \A j \in s : j = x \/ Before(b, x, j) BY <2>4, <3>1, <3>2, OrderIsStrict
    <3> QED BY <2>2, <3>3
  <2> QED BY <2>5, <2>6
<1> QED BY <1>1

\* The places in the walk are 1, 2, ... without gaps: the bids that come first d times
\* are d bids.
LEMMA Places ==
  ASSUME NEW b, IsBook(b), NEW S \in SUBSET DOMAIN b
  PROVE  /\ \A i \in S : Cardinality(UpTo(b, S, i)) \in 1..Cardinality(S)
         /\ \A i, j \in S : Before(b, i, j) =>
              Cardinality(UpTo(b, S, i)) < Cardinality(UpTo(b, S, j))
         /\ \A d \in 0..Cardinality(S) :
              Cardinality({i \in S : Cardinality(UpTo(b, S, i)) <= d}) = d
<1> DEFINE n     == Cardinality(S)
           place == [i \in S |-> Cardinality(UpTo(b, S, i))]
<1>1. IsFiniteSet(S) /\ n \in Nat BY FS_Subset, FS_CardinalityType DEF IsBook
<1>2. ASSUME NEW i \in S
      PROVE  /\ UpTo(b, S, i) \in SUBSET S /\ i \in UpTo(b, S, i)
             /\ IsFiniteSet(UpTo(b, S, i)) /\ place[i] \in 1..n
  <2>1. UpTo(b, S, i) \in SUBSET S /\ i \in UpTo(b, S, i) BY DEF UpTo
  <2>2. IsFiniteSet(UpTo(b, S, i)) /\ place[i] <= n BY <1>1, <2>1, FS_Subset
  <2>3. place[i] \in Nat /\ place[i] # 0 BY <2>1, <2>2, FS_CardinalityType, FS_EmptySet
  <2> QED BY <1>1, <2>1, <2>2, <2>3
<1>3. ASSUME NEW i \in S, NEW j \in S, Before(b, i, j) PROVE place[i] < place[j]
  <2>1. UpTo(b, S, i) \in SUBSET UpTo(b, S, j) BY <1>3, OrderIsStrict DEF UpTo
  <2>2. j \in UpTo(b, S, j) /\ j \notin UpTo(b, S, i) BY <1>3, OrderIsStrict DEF UpTo
  <2>3. IsFiniteSet(UpTo(b, S, j)) BY <1>2
  <2>4. place[i] <= place[j] /\ place[i] # place[j] BY <2>1, <2>2, <2>3, FS_Subset
  <2> QED BY <1>2, <2>4
<1> HIDE DEF place
<1>4. place \in Injection(S, 1..n)
  <2>1. place \in [S -> 1..n] BY <1>2 DEF place
  <2>2. ASSUME NEW i \in S, NEW j \in S, i # j PROVE place[i] # place[j]
    <3>1. Before(b, i, j) \/ Before(b, j, i) BY <2>2, OrderIsStrict
    <3> QED BY <1>2, <1>3, <3>1
  <2> QED BY <2>1, <2>2 DEF Injection, IsInjective
<1>5. IsFiniteSet(1..n) /\ Cardinality(1..n) = n BY <1>1, FS_Interval
<1>6. place \in Surjection(S, 1..n) BY <1>4, <1>5, FS_Injection
<1>7. ASSUME NEW d \in 0..n PROVE Cardinality({i \in S : place[i] <= d}) = d
  <2> DEFINE F == {i \in S : place[i] <= d}
             f == [i \in F |-> place[i]]
  <2>1. f \in [F -> 1..d] BY <1>2, <1>1
  <2>2. \A i, j \in F : f[i] = f[j] => i = j BY <1>4 DEF Injection, IsInjective
  <2>3. \A k \in 1..d : \E i \in F : f[i] = k BY <1>1, <1>6 DEF Surjection
  <2> HIDE DEF f
  <2>4. f \in Injection(F, 1..d) /\ f \in Surjection(F, 1..d)
    BY <2>1, <2>2, <2>3 DEF Injection, IsInjective, Surjection
  <2>5. IsFiniteSet(1..d) /\ Cardinality(1..d) = d BY <1>1, FS_Interval
  <2>6. Cardinality(F) = Cardinality(1..d) BY <2>4, <2>5, FS_Injection
  <2> QED BY <2>5, <2>6
<1> QED BY <1>2, <1>3, <1>7 DEF place

CountOf(b)    == [i \in DOMAIN b |-> b[i].count]
AtLeast(b, p) == {i \in DOMAIN b : b[i].price >= p}

\* Demand is the sum of the counts: positive for a non-empty set of bids, larger for a larger
\* set, and the sum of the demands of two disjoint sets.
LEMMA DemandIs ==
  ASSUME NEW b, IsBook(b), NEW S \in SUBSET DOMAIN b
  PROVE  /\ IsFiniteSet(S) /\ IntegerOn(CountOf(b), S)
         /\ Demand(b, S) = SetSum(CountOf(b), S)
         /\ Demand(b, S) \in Nat
         /\ S = {} => Demand(b, S) = 0
         /\ S # {} => Demand(b, S) > 0
         /\ \A R \in SUBSET S : Demand(b, R) <= Demand(b, S)
         /\ \A P, Q \in SUBSET S : S = P \cup Q /\ P \cap Q = {} =>
              Demand(b, S) = Demand(b, P) + Demand(b, Q)
<1> DEFINE C == CountOf(b)
<1>1. ASSUME NEW R \in SUBSET S
      PROVE  /\ IsFiniteSet(R) /\ IntegerOn(C, R) /\ Demand(b, R) = SetSum(C, R)
             /\ \A i \in R : C[i] \in Nat \ {0}
  <2> DEFINE f == [i \in R |-> b[i].count]
  <2>1. IsFiniteSet(R) BY FS_Subset DEF IsBook
  <2>2. \A i \in R : C[i] \in Nat \ {0} /\ f[i] = C[i] BY DEF IsBook, CountOf
  <2>3. DOMAIN f = R OBVIOUS
  <2> HIDE DEF f, C
  <2>4. IntegerOn(f, R) /\ IntegerOn(C, R) BY <2>2 DEF IntegerOn
  <2>5. SumFunction(f) = SetSum(f, R) BY <2>1, <2>3, <2>4, SumFunctionIs
  <2>6. SetSum(f, R) = SetSum(C, R) BY <2>1, <2>2, <2>4, SetSumExt
  <2> QED BY <2>1, <2>2, <2>4, <2>5, <2>6 DEF Demand, f
<1> HIDE DEF C
<1>2. Demand(b, S) \in Nat /\ \A R \in SUBSET S : Demand(b, R) <= Demand(b, S)
  BY <1>1, SetSumMonotone
<1>3. S = {} => Demand(b, S) = 0 BY <1>1, SetSumStep
<1>4. S # {} => Demand(b, S) > 0
  <2> SUFFICES ASSUME NEW x \in S PROVE Demand(b, S) > 0 OBVIOUS
  <2>1. Demand(b, S) = C[x] + SetSum(C, S \ {x}) BY <1>1, SetSumStep
  <2>2. SetSum(C, S \ {x}) \in Nat BY <1>1, SetSumMonotone
  <2> QED BY <1>1, <2>1, <2>2
<1>5. ASSUME NEW P \in SUBSET S, NEW Q \in SUBSET S, S = P \cup Q, P \cap Q = {}
      PROVE  Demand(b, S) = Demand(b, P) + Demand(b, Q)
  BY <1>1, <1>5, SetSumUnion
<1> QED BY <1>1, <1>2, <1>3, <1>4, <1>5 DEF C

\* The walk stops: in a book whose demand covers the float there is a bid that brings the
\* cumulative demand to it, and Crossing is such a bid.
LEMMA WalkStops ==
  ASSUME NEW b, IsBook(b), NEW float \in Nat \ {0}, TotalDemand(b) >= float
  PROVE  LET c == Crossing(b, float)
         IN  /\ c \in DOMAIN b
             /\ Demand(b, UpTo(b, DOMAIN b, c) \ {c}) < float
             /\ Demand(b, UpTo(b, DOMAIN b, c)) >= float
<1> DEFINE D      == DOMAIN b
           Met(i) == UpTo(b, D, i)
           G      == {i \in D : Demand(b, Met(i)) >= float}
<1>1. \A i \in D : Met(i) \in SUBSET D /\ i \in Met(i) BY DEF UpTo
<1>2. D # {} /\ Demand(b, D) >= float
  <2>1. Demand(b, D) >= float BY DEF TotalDemand
  <2>2. D = {} => Demand(b, D) = 0 BY DemandIs
  <2> QED BY <2>1, <2>2
<1>3. G # {}
  <2>1. PICK i \in D : Met(i) = D BY <1>2, LastBid
  <2> QED BY <1>2, <2>1
<1>4. PICK c \in G : \A j \in G : j = c \/ Before(b, c, j) BY <1>3, FirstBid
<1>5. Demand(b, Met(c) \ {c}) < float
  <2> DEFINE R == Met(c) \ {c}
  <2>1. R \in SUBSET D BY <1>1
  <2>2. CASE R = {}
    <3>1. Demand(b, R) = 0 BY <2>1, <2>2, DemandIs
    <3> QED BY <3>1
  <2>3. CASE R # {}
    <3>1. PICK k \in R : UpTo(b, R, k) = R BY <2>1, <2>3, LastBid
    <3>2. k \in D /\ c \in D /\ Before(b, k, c) BY <2>1, <3>1 DEF UpTo
    <3>3. \A j \in D : Before(b, j, k) => Before(b, j, c) /\ j # c BY <3>2, OrderIsStrict
    <3>4. Met(k) = R BY <3>1, <3>2, <3>3 DEF UpTo
    <3>5. k \notin G BY <1>4, <3>2, OrderIsStrict
    <3>6. Demand(b, R) \in Nat BY <2>1, DemandIs
    <3>7. ~ (Demand(b, R) >= float) BY <3>2, <3>4, <3>5
    <3> QED BY <3>6, <3>7
  <2> QED BY <2>2, <2>3
<1>6. c \in DOMAIN b /\ Demand(b, Met(c) \ {c}) < float /\ Demand(b, Met(c)) >= float
  BY <1>5
<1> QED BY <1>6 DEF Crossing

\* The price of the bid the walk stops at is the highest one the float sells out at.
LEMMA PriceIs ==
  ASSUME NEW b, IsBook(b), NEW float \in Nat \ {0}, TotalDemand(b) >= float
  PROVE  LET c == Crossing(b, float)
             P == b[c].price
         IN  /\ c \in DOMAIN b /\ P \in Nat
             /\ Demand(b, AtLeast(b, P)) >= float
             /\ Demand(b, Above(b, P)) < float
             /\ \A p \in Int : p > P => Demand(b, AtLeast(b, p)) < float
<1> DEFINE c == Crossing(b, float)
           P == b[c].price
           M == UpTo(b, DOMAIN b, c)
<1>1. c \in DOMAIN b /\ Demand(b, M \ {c}) < float /\ Demand(b, M) >= float BY WalkStops
<1> HIDE DEF c
<1>2. P \in Nat /\ \A i \in DOMAIN b : b[i].price \in Nat BY <1>1 DEF IsBook
<1>3. M \in SUBSET AtLeast(b, P) /\ AtLeast(b, P) \in SUBSET DOMAIN b
  BY <1>1, <1>2 DEF UpTo, Before, AtLeast
<1>4. ASSUME NEW p \in Int, p > P PROVE AtLeast(b, p) \in SUBSET (M \ {c})
  BY <1>1, <1>2, <1>4 DEF UpTo, Before, AtLeast
<1>5. M \ {c} \in SUBSET DOMAIN b BY DEF UpTo
<1>6. Demand(b, AtLeast(b, P)) >= float
  <2>1. Demand(b, M) <= Demand(b, AtLeast(b, P)) BY <1>3, DemandIs
  <2>2. Demand(b, M) \in Nat /\ Demand(b, AtLeast(b, P)) \in Nat BY <1>3, DemandIs
  <2> QED BY <1>1, <2>1, <2>2
<1>7. ASSUME NEW p \in Int, p > P PROVE Demand(b, AtLeast(b, p)) < float
  <2>1. AtLeast(b, p) \in SUBSET (M \ {c}) BY <1>4, <1>7
  <2>2. Demand(b, AtLeast(b, p)) <= Demand(b, M \ {c}) BY <1>5, <2>1, DemandIs
  <2>3. Demand(b, AtLeast(b, p)) \in Nat /\ Demand(b, M \ {c}) \in Nat
    BY <1>5, <2>1, DemandIs
  <2> QED BY <1>1, <2>2, <2>3
<1>8. Above(b, P) = AtLeast(b, P + 1) BY <1>2 DEF Above, AtLeast
<1>9. Demand(b, Above(b, P)) < float BY <1>2, <1>7, <1>8
<1> QED BY <1>1, <1>2, <1>6, <1>7, <1>9 DEF c

\* What a quotient says of the product it comes from.
LEMMA Quotient ==
  ASSUME NEW a \in Nat, NEW t \in Nat \ {0}
  PROVE  /\ a \div t \in Nat
         /\ t * (a \div t) <= a
         /\ a < t * (a \div t) + t
BY SMT

\* The laws of products that the solver does not find by itself.
LEMMA Distribute ==
  ASSUME NEW a \in Int, NEW c \in Int, NEW d \in Int
  PROVE  /\ a * c \in Int /\ a * c = c * a
         /\ a * (c + d) = a * c + a * d
         /\ (a - 1) * c = a * c - c
BY SMT

\* Products with a common factor are ordered as what it multiplies.
LEMMA Product ==
  ASSUME NEW a \in Int, NEW c \in Int, NEW t \in Nat
  PROVE  /\ a <= c => t * a <= t * c
         /\ t > 0 /\ t * a <= t * c => a <= c
         /\ t > 0 /\ t * a < t * c => a < c
<1>1. ASSUME a <= c PROVE t * a <= t * c
  <2>1. c - a \in Nat /\ t * (c - a) \in Nat BY <1>1
  <2>2. t * (c - a) = t * c - t * a BY SMT
  <2>3. t * a \in Int /\ t * c \in Int OBVIOUS
  <2> QED BY <2>1, <2>2, <2>3
<1>2. ASSUME a > c PROVE t * a >= t * c + t
  <2>1. a - c - 1 \in Nat /\ t * (a - c - 1) \in Nat BY <1>2
  <2>2. t * (a - c - 1) = t * a - t * c - t BY SMT
  <2>3. t * a \in Int /\ t * c \in Int OBVIOUS
  <2> QED BY <2>1, <2>2, <2>3
<1>3. ASSUME a >= c PROVE t * a >= t * c
  <2>1. a - c \in Nat /\ t * (a - c) \in Nat BY <1>3
  <2>2. t * (a - c) = t * a - t * c BY SMT
  <2>3. t * a \in Int /\ t * c \in Int OBVIOUS
  <2> QED BY <2>1, <2>2, <2>3
<1>4. t * a \in Int /\ t * c \in Int OBVIOUS
<1> QED BY <1>1, <1>2, <1>3, <1>4

\* The floors of the shares: each at most the bid's count, together at most the remaining
\* fractions, and fewer than the bids short of them.
LEMMA BaseIs ==
  ASSUME NEW b, IsBook(b), NEW tier \in SUBSET DOMAIN b, tier # {},
         NEW R \in 1..Demand(b, tier)
  PROVE  LET base == Base(b, tier, R)
             T    == Demand(b, tier)
         IN  /\ \A i \in tier : /\ base[i] \in 0..b[i].count
                                /\ T * base[i] <= b[i].count * R
                                /\ b[i].count * R < T * base[i] + T
                                /\ R < T => base[i] < b[i].count
             /\ SumFunction(base) = SetSum(base, tier)
             /\ R - SumFunction(base) \in 0..(Cardinality(tier) - 1)
             /\ R = T => SumFunction(base) = R
<1> DEFINE base == Base(b, tier, R)
           T    == Demand(b, tier)
           C    == CountOf(b)
           n    == Cardinality(tier)
<1>1. /\ IsFiniteSet(tier) /\ IntegerOn(C, tier) /\ T = SetSum(C, tier)
      /\ T \in Nat \ {0} /\ R \in Nat \ {0} /\ R <= T
  BY DemandIs
<1>2. n \in Nat \ {0} BY <1>1, FS_CardinalityType, FS_EmptySet
<1>3. ASSUME NEW i \in tier
      PROVE  /\ C[i] = b[i].count /\ C[i] \in Nat \ {0} /\ C[i] * R \in Nat
             /\ base[i] = (C[i] * R) \div T
  BY <1>1 DEF IsBook, CountOf, Base
<1>4. DOMAIN base = tier BY DEF Base
<1> HIDE DEF base, T, C
<1>5. ASSUME NEW i \in tier
      PROVE  /\ base[i] \in Nat /\ T * base[i] \in Nat /\ C[i] * R \in Nat
             /\ T * base[i] <= C[i] * R /\ C[i] * R < T * base[i] + T
  <2>1. base[i] \in Nat /\ T * base[i] <= C[i] * R /\ C[i] * R < T * base[i] + T
    BY <1>1, <1>3, Quotient
  <2> QED BY <1>1, <1>3, <2>1
<1>6. ASSUME NEW i \in tier
      PROVE  /\ base[i] <= C[i]
             /\ R < T => base[i] < C[i]
             /\ R = T => base[i] = C[i]
  <2>1. C[i] * R <= C[i] * T BY <1>1, <1>3, Product
  <2>2. R < T => C[i] * R < C[i] * T
    <3> SUFFICES ASSUME R < T PROVE C[i] * R < C[i] * T OBVIOUS
    <3>1. R + 1 <= T BY <1>1
    <3>2. C[i] * (R + 1) <= C[i] * T BY <1>1, <1>3, <3>1, Product
    <3>3. C[i] * (R + 1) = C[i] * R + C[i] * 1 /\ C[i] * 1 = C[i]
      <4>1. C[i] * 1 = C[i] BY <1>3
      <4> QED BY <1>1, <1>3, <4>1, Distribute
    <3>4. C[i] * R \in Int /\ C[i] * T \in Int BY <1>1, <1>3
    <3> QED BY <1>3, <3>2, <3>3, <3>4
  <2>3. C[i] * T = T * C[i] BY <1>1, <1>3, SMT
  <2>4. T * C[i] \in Nat BY <1>1, <1>3
  <2>5. T * base[i] <= T * C[i] BY <1>5, <2>1, <2>3, <2>4
  <2>6. base[i] <= C[i] BY <1>1, <1>3, <1>5, <2>5, Product
  <2>7. ASSUME R < T PROVE base[i] < C[i]
    <3>1. T * base[i] < T * C[i] BY <1>5, <2>2, <2>3, <2>4, <2>7
    <3> QED BY <1>1, <1>3, <1>5, <3>1, Product
  <2>8. ASSUME R = T PROVE base[i] = C[i]
    <3>1. T * C[i] < T * base[i] + T BY <1>5, <2>3, <2>8
    <3>2. T * base[i] + T = T * (base[i] + 1) BY <1>1, <1>5, SMT
    <3>3. C[i] < base[i] + 1 BY <1>1, <1>3, <1>5, <3>1, <3>2, Product
    <3> QED BY <1>3, <1>5, <2>6, <3>3
  <2> QED BY <2>6, <2>7, <2>8
<1>7. IntegerOn(base, tier) BY <1>5 DEF IntegerOn
<1>8. SumFunction(base) = SetSum(base, tier) BY <1>1, <1>4, <1>7, SumFunctionIs
<1> DEFINE B == SetSum(base, tier)
           f == [i \in tier |-> T * base[i]]
           g == [i \in tier |-> R * C[i]]
           h == [i \in tier |-> T * base[i] + (T - 1)]
           one == [i \in tier |-> 1]
           top == [i \in tier |-> (T - 1) * one[i]]
<1>9. B \in Nat BY <1>1, <1>5, SetSumMonotone
<1>10. /\ IntegerOn(f, tier) /\ IntegerOn(g, tier) /\ IntegerOn(h, tier)
       /\ IntegerOn(one, tier) /\ IntegerOn(top, tier)
  BY <1>1, <1>3, <1>5 DEF IntegerOn
<1>11. ASSUME NEW i \in tier
       PROVE  /\ f[i] = T * base[i] /\ g[i] = R * C[i] /\ one[i] = 1 /\ h[i] = f[i] + top[i]
              /\ top[i] = (T - 1) * one[i] /\ f[i] <= g[i] /\ g[i] <= h[i]
  <2>1. R * C[i] = C[i] * R BY <1>1, <1>3, SMT
  <2>2. (T - 1) * 1 = T - 1 BY <1>1
  <2> QED BY <1>1, <1>3, <1>5, <2>1, <2>2
<1> HIDE DEF f, g, h, one, top
<1>12. SetSum(f, tier) = T * B /\ SetSum(g, tier) = R * T
  <2>1. SetSum(f, tier) = T * B
    <3>1. T \in Int /\ \A i \in tier : f[i] = T * base[i] BY <1>1, <1>11
    <3>2. IsFiniteSet(tier) /\ IntegerOn(base, tier) BY <1>1, <1>7
    <3> QED BY <3>1, <3>2, SetSumScale
  <2>2. SetSum(g, tier) = R * SetSum(C, tier)
    <3>1. R \in Int /\ \A i \in tier : g[i] = R * C[i] BY <1>1, <1>11
    <3>2. IsFiniteSet(tier) /\ IntegerOn(C, tier) BY <1>1
    <3> QED BY <3>1, <3>2, SetSumScale
  <2> QED BY <1>1, <2>1, <2>2
<1>13. SetSum(one, tier) = n /\ SetSum(top, tier) = (T - 1) * n
  <2>1. SetSum(one, tier) = n BY <1>1, <1>11, SetSumCount
  <2>2. SetSum(top, tier) = (T - 1) * SetSum(one, tier)
    <3>1. T - 1 \in Int BY <1>1
    <3> QED BY <1>1, <1>10, <1>11, <3>1, SetSumScale
  <2> QED BY <2>1, <2>2
<1>14. SetSum(h, tier) = T * B + (T - 1) * n
  BY <1>1, <1>10, <1>11, <1>12, <1>13, SetSumAdd
<1>15. T * B <= R * T /\ R * T <= T * B + (T - 1) * n
  BY <1>1, <1>10, <1>11, <1>12, <1>14, SetSumLess
<1>16. R * T = T * R BY <1>1, SMT
<1>17. B <= R BY <1>1, <1>9, <1>15, <1>16, Product
<1>18. R - B < n
  <2>1. (T - 1) * n = T * n - n BY <1>1, <1>2, SMT
  <2>2. T * (B + n) = T * B + T * n BY <1>1, <1>2, <1>9, SMT
  <2>3. T * B \in Int /\ T * n \in Int /\ T * R \in Int BY <1>1, <1>2, <1>9
  <2>4. T * R < T * (B + n) BY <1>2, <1>15, <1>16, <2>1, <2>2, <2>3
  <2>5. R < B + n BY <1>1, <1>2, <1>9, <2>4, Product
  <2> QED BY <1>1, <1>2, <1>9, <2>5
<1>19. R = T => B = R BY <1>1, <1>6, <1>7, SetSumExt
<1>20. R - B \in 0..(n - 1)
  <2> HIDE DEF B, n
  <2> QED BY <1>1, <1>2, <1>9, <1>17, <1>18
<1>21. R = T => SumFunction(base) = R BY <1>8, <1>19
<1>22. R - SumFunction(base) \in 0..(n - 1) BY <1>8, <1>20
<1>23. \A i \in tier : base[i] \in 0..C[i]
  <2> SUFFICES ASSUME NEW i \in tier PROVE base[i] \in 0..C[i] OBVIOUS
  <2>1. base[i] \in Nat /\ C[i] \in Nat /\ base[i] <= C[i] BY <1>3, <1>5, <1>6
  <2> QED BY <2>1
<1> QED BY <1>3, <1>5, <1>6, <1>8, <1>21, <1>22, <1>23 DEF base, T

\* The shares of the tier are the floors and one more for the first bids: none is more than
\* its bid asked for, and together they are what remained.
LEMMA SharesAre ==
  ASSUME NEW b, IsBook(b), NEW tier \in SUBSET DOMAIN b, tier # {},
         NEW R \in 1..Demand(b, tier)
  PROVE  LET share == TierAllocation(b, tier, R)
             base  == Base(b, tier, R)
             dust  == R - SumFunction(base)
         IN  /\ \A i \in tier : /\ share[i] \in 0..b[i].count
                                /\ share[i] = base[i] + IF Cardinality(UpTo(b, tier, i)) <= dust
                                                        THEN 1 ELSE 0
             /\ IntegerOn(share, tier)
             /\ SetSum(share, tier) = R
<1> DEFINE share == TierAllocation(b, tier, R)
           base  == Base(b, tier, R)
           dust  == R - SumFunction(base)
           T     == Demand(b, tier)
           n     == Cardinality(tier)
           first == {i \in tier : Cardinality(UpTo(b, tier, i)) <= dust}
           more  == [i \in tier |-> IF i \in first THEN 1 ELSE 0]
<1>1. IsFiniteSet(tier) /\ T \in Nat \ {0} /\ R \in Nat \ {0} /\ R <= T
  BY DemandIs
<1>2. n \in Nat \ {0} BY <1>1, FS_CardinalityType, FS_EmptySet
<1>3. \A i \in tier : share[i] = base[i] + more[i]
  BY DEF TierAllocation
<1>4. /\ \A i \in tier : /\ base[i] \in 0..b[i].count
                         /\ R < T => base[i] < b[i].count
      /\ SumFunction(base) = SetSum(base, tier)
      /\ dust \in 0..(n - 1)
      /\ R = T => SumFunction(base) = R
  BY BaseIs
<1> HIDE DEF share, base, n, T
<1>5. Cardinality(first) = dust BY <1>2, <1>4, Places DEF n
<1>6. \A i \in tier : more[i] \in {0, 1} OBVIOUS
<1>7. first \in SUBSET tier /\ \A i \in first : more[i] = 1 OBVIOUS
<1>8. \A i \in tier \ first : more[i] = 0 OBVIOUS
<1>9. \A i \in tier : b[i].count \in Nat BY DEF IsBook
<1>10. IntegerOn(base, tier) /\ IntegerOn(more, tier) /\ IntegerOn(share, tier)
  BY <1>3, <1>4, <1>6, <1>9 DEF IntegerOn
<1> HIDE DEF more
<1>11. SetSum(more, tier) = dust
  <2> HIDE DEF first
  <2>1. SetSum(more, tier) = SetSum(more, first) BY <1>1, <1>7, <1>8, <1>10, SetSumSubset
  <2>2. IsFiniteSet(first) BY <1>1, <1>7, FS_Subset
  <2>3. SetSum(more, first) = Cardinality(first) BY <1>7, <2>2, SetSumCount
  <2> QED BY <1>5, <2>1, <2>3
<1>12. SetSum(share, tier) = R
  <2>1. SetSum(share, tier) = SetSum(base, tier) + SetSum(more, tier)
    BY <1>1, <1>3, <1>10, SetSumAdd
  <2>2. SetSum(base, tier) \in Int BY <1>1, <1>10, SetSumStep
  <2> QED BY <1>1, <1>4, <1>11, <2>1, <2>2
<1>13. ASSUME NEW i \in tier PROVE share[i] \in 0..b[i].count
  <2>1. CASE R < T
    <3>1. base[i] \in Nat /\ base[i] < b[i].count BY <1>4, <2>1
    <3> QED BY <1>3, <1>6, <1>9, <3>1
  <2>2. CASE R = T
    <3>1. dust = 0 BY <1>1, <1>4, <2>2
    <3>2. i \notin first
      <4>1. Cardinality(UpTo(b, tier, i)) \in 1..Cardinality(tier) BY Places
      <4>2. Cardinality(tier) \in Nat BY <1>2 DEF n
      <4> HIDE DEF dust
      <4> QED BY <3>1, <4>1, <4>2
    <3>3. more[i] = 0 BY <1>8, <3>2
    <3> QED BY <1>3, <1>4, <1>9, <3>3
  <2> QED BY <1>1, <2>1, <2>2
<1>14. \A i \in tier : share[i] = base[i] + IF Cardinality(UpTo(b, tier, i)) <= dust
                                          THEN 1 ELSE 0
  BY <1>3 DEF more
<1> QED BY <1>10, <1>12, <1>13, <1>14 DEF share, base

\* What the bids of a book are allocated at price P.
AllocAt(b, P, float) ==
  LET share == TierAllocation(b, AtP(b, P), float - Demand(b, Above(b, P)))
  IN  [i \in DOMAIN b |-> CASE b[i].price > P -> b[i].count
                            [] b[i].price = P -> share[i]
                            [] b[i].price < P -> 0]

\* P clears the book: the demand above it falls short of the float, with the demand at P it
\* does not.
Clears(b, P, float) ==
  /\ P \in Nat /\ float \in Nat \ {0}
  /\ Demand(b, Above(b, P)) < float /\ float <= Demand(b, AtLeast(b, P))

\* Between the bids above P and the float there is something left for the tier, and no more
\* than the tier asks for.
LEMMA TierIs ==
  ASSUME NEW b, IsBook(b), NEW P, NEW float, Clears(b, P, float)
  PROVE  /\ AtP(b, P) \in SUBSET DOMAIN b /\ AtP(b, P) # {}
         /\ Above(b, P) \in SUBSET DOMAIN b
         /\ AtLeast(b, P) = Above(b, P) \cup AtP(b, P) /\ Above(b, P) \cap AtP(b, P) = {}
         /\ Demand(b, AtLeast(b, P)) = Demand(b, Above(b, P)) + Demand(b, AtP(b, P))
         /\ Demand(b, Above(b, P)) \in Nat /\ Demand(b, AtP(b, P)) \in Nat
         /\ float - Demand(b, Above(b, P)) \in 1..Demand(b, AtP(b, P))
<1> DEFINE U == Above(b, P)
           E == AtP(b, P)
           A == AtLeast(b, P)
<1>1. U \in SUBSET DOMAIN b /\ E \in SUBSET DOMAIN b /\ A \in SUBSET DOMAIN b
  BY DEF Above, AtP, AtLeast
<1>2. A = U \cup E /\ U \cap E = {}
  BY DEF IsBook, Clears, Above, AtP, AtLeast
<1>3. U \in SUBSET A /\ E \in SUBSET A BY <1>2
<1>4. Demand(b, A) = Demand(b, U) + Demand(b, E) BY <1>1, <1>2, <1>3, DemandIs
<1>5. Demand(b, U) \in Nat /\ Demand(b, E) \in Nat BY <1>1, DemandIs
<1>6. float - Demand(b, U) \in 1..Demand(b, E)
  BY <1>4, <1>5 DEF Clears
<1>7. E # {}
  <2>1. Demand(b, E) # 0 BY <1>5, <1>6
  <2> QED BY <1>1, <2>1, DemandIs
<1> QED BY <1>1, <1>2, <1>4, <1>5, <1>6, <1>7

\* The float is allocated exactly, nobody gets more than it asked for.
LEMMA AllocIs ==
  ASSUME NEW b, IsBook(b), NEW P, NEW float, Clears(b, P, float)
  PROVE  LET A     == AllocAt(b, P, float)
             share == TierAllocation(b, AtP(b, P), float - Demand(b, Above(b, P)))
         IN  /\ DOMAIN A = DOMAIN b
             /\ \A i \in DOMAIN b :
                  /\ A[i] \in 0..b[i].count
                  /\ b[i].price > P => A[i] = b[i].count
                  /\ b[i].price = P => A[i] = share[i]
                  /\ b[i].price < P => A[i] = 0
             /\ IntegerOn(A, DOMAIN b)
             /\ SetSum(A, DOMAIN b) = float
<1> DEFINE U     == Above(b, P)
           E     == AtP(b, P)
           R     == float - Demand(b, U)
           share == TierAllocation(b, E, R)
           A     == AllocAt(b, P, float)
           D     == DOMAIN b
           C     == CountOf(b)
<1>1. /\ E \in SUBSET D /\ E # {} /\ U \in SUBSET D /\ U \cap E = {}
      /\ Demand(b, U) \in Nat /\ R \in 1..Demand(b, E)
  BY TierIs
<1>2. /\ \A i \in E : share[i] \in 0..b[i].count
      /\ IntegerOn(share, E) /\ SetSum(share, E) = R
  BY <1>1, SharesAre
<1>3. \A i \in D : b[i].price \in Nat /\ b[i].count \in Nat /\ P \in Nat
  BY DEF IsBook, Clears
<1>4. DOMAIN A = D BY DEF AllocAt
<1>5. ASSUME NEW i \in D
      PROVE  /\ b[i].price > P => A[i] = b[i].count /\ i \in U
             /\ b[i].price = P => A[i] = share[i] /\ i \in E
             /\ b[i].price < P => A[i] = 0 /\ i \notin U \cup E
             /\ i \in U => A[i] = b[i].count
             /\ i \in E => A[i] = share[i]
             /\ i \notin U \cup E => A[i] = 0
  BY <1>3 DEF AllocAt, Above, AtP
<1> HIDE DEF share, A
<1>6. ASSUME NEW i \in D PROVE A[i] \in 0..b[i].count
  BY <1>2, <1>3, <1>5
<1>7. IntegerOn(A, D) BY <1>3, <1>6 DEF IntegerOn
<1>8. IsFiniteSet(D) /\ IsFiniteSet(U \cup E) /\ IsFiniteSet(U) /\ IsFiniteSet(E)
  BY <1>1, FS_Subset DEF IsBook
<1>9. SetSum(A, D) = SetSum(A, U \cup E)
  <2>1. U \cup E \in SUBSET D /\ \A i \in D \ (U \cup E) : A[i] = 0 BY <1>1, <1>5
  <2> HIDE DEF U, E, D
  <2> QED BY <1>7, <1>8, <2>1, SetSumSubset
<1>10. IntegerOn(A, U \cup E) /\ IntegerOn(A, U) /\ IntegerOn(A, E)
  BY <1>1, <1>7 DEF IntegerOn
<1>11. SetSum(A, U \cup E) = SetSum(A, U) + SetSum(A, E)
  <2> HIDE DEF U, E
  <2> QED BY <1>1, <1>8, <1>10, SetSumUnion
<1>12. SetSum(A, U) = Demand(b, U)
  <2>1. \A i \in U : A[i] = C[i] BY <1>1, <1>5 DEF CountOf
  <2>2. IntegerOn(C, U) /\ Demand(b, U) = SetSum(C, U) BY <1>1, DemandIs
  <2> QED BY <1>8, <2>1, <2>2, SetSumExt
<1>13. SetSum(A, E) = R
  <2>1. \A i \in E : A[i] = share[i] BY <1>1, <1>5
  <2> QED BY <1>2, <1>8, <2>1, SetSumExt
<1>14. SetSum(A, D) = float
  <2>1. float \in Int BY DEF Clears
  <2> QED BY <1>1, <1>9, <1>11, <1>12, <1>13, <2>1
<1> QED BY <1>4, <1>5, <1>6, <1>7, <1>14 DEF A, share

\* The winners are the bids that are allocated something.
LEMMA WinnersAre ==
  ASSUME NEW b, IsBook(b), NEW P, NEW float, Clears(b, P, float)
  PROVE  LET W == Winners(b, P, float)
             A == AllocAt(b, P, float)
         IN  /\ DOMAIN W \subseteq DOMAIN b
             /\ \A i \in DOMAIN b : i \in DOMAIN W <=> A[i] > 0
             /\ \A i \in DOMAIN W : W[i] = Winner(b[i], P, A[i])
             /\ \A i \in DOMAIN W : b[i].price >= P
             /\ \E i \in DOMAIN W : b[i].price = P
<1> DEFINE U     == Above(b, P)
           E     == AtP(b, P)
           R     == float - Demand(b, U)
           share == TierAllocation(b, E, R)
           A     == AllocAt(b, P, float)
           W     == Winners(b, P, float)
<1>1. /\ E \in SUBSET DOMAIN b /\ E # {} /\ U \in SUBSET DOMAIN b /\ U \cap E = {}
      /\ Demand(b, U) \in Nat /\ R \in 1..Demand(b, E)
  BY TierIs
<1>2. \A i \in DOMAIN b : /\ b[i].price \in Nat /\ P \in Nat /\ b[i].count \in Nat \ {0}
                          /\ i \in U <=> b[i].price > P
                          /\ i \in E <=> b[i].price = P
  BY DEF IsBook, Clears, Above, AtP
<1>3. \A i \in DOMAIN b : /\ A[i] \in Int
                          /\ b[i].price > P => A[i] = b[i].count
                          /\ b[i].price = P => A[i] = share[i]
                          /\ b[i].price < P => A[i] = 0
  BY AllocIs DEF IntegerOn
<1>4. W = [i \in U \cup {j \in E : share[j] > 0} |->
             Winner(b[i], P, IF i \in U THEN b[i].count ELSE share[i])]
  BY DEF Winners
<1> HIDE DEF share, A, U, E
<1>5. /\ DOMAIN W \subseteq DOMAIN b
      /\ \A i \in DOMAIN b : i \in DOMAIN W <=> A[i] > 0
  <2>1. DOMAIN W = U \cup {j \in E : share[j] > 0} BY <1>4
  <2>2. ASSUME NEW i \in DOMAIN b PROVE i \in DOMAIN W <=> A[i] > 0
    <3> HIDE DEF W
    <3> QED BY <1>2, <1>3, <2>1
  <2>3. DOMAIN W \subseteq DOMAIN b
    <3> HIDE DEF W
    <3> QED BY <1>1, <2>1
  <2> QED BY <2>2, <2>3
<1>6. ASSUME NEW i \in DOMAIN W
      PROVE  W[i] = Winner(b[i], P, A[i]) /\ b[i].price >= P
  <2>1. /\ i \in DOMAIN b /\ (i \in U \/ i \in E)
        /\ W[i] = Winner(b[i], P, IF i \in U THEN b[i].count ELSE share[i])
    BY <1>1, <1>4, <1>6
  <2> HIDE DEF W
  <2>2. CASE i \in U BY <1>1, <1>2, <1>3, <2>1, <2>2
  <2>3. CASE i \notin U BY <1>1, <1>2, <1>3, <2>1, <2>3
  <2> QED BY <2>2, <2>3
<1>7. \E i \in DOMAIN W : b[i].price = P
  <2>1. ASSUME \A i \in E : A[i] <= 0 PROVE FALSE
    <3>1. \A i \in E : share[i] \in Nat /\ share[i] = A[i]
      <4>1. \A i \in E : share[i] \in 0..b[i].count BY <1>1, SharesAre DEF share
      <4> QED BY <1>1, <1>2, <1>3, <4>1
    <3>2. \A i \in E : share[i] = 0 BY <2>1, <3>1
    <3>3. IsFiniteSet(E) /\ IntegerOn(share, E) /\ SetSum(share, E) = R
      BY <1>1, DemandIs, SharesAre DEF share
    <3>4. SetSum(share, E) = SetSum(share, {})
      <4>1. {} \in SUBSET E OBVIOUS
      <4> QED BY <3>2, <3>3, <4>1, SetSumSubset
    <3>5. SetSum(share, {}) = 0 BY <3>3, SetSumStep
    <3> QED BY <1>1, <3>3, <3>4, <3>5
  <2>2. PICK i \in E : A[i] > 0 BY <1>1, <1>3, <2>1
  <2> QED BY <1>1, <1>2, <1>5, <2>2
<1> QED BY <1>5, <1>6, <1>7 DEF A

\* The inductive invariant of the book: the checks made when a bid is submitted hold of every
\* bid in it, and the clearing is the clearing of it.
ClearInv ==
  /\ IsBook(book)
  /\ bidSeq \in 0..MaxIds
  /\ DOMAIN book \subseteq 1..bidSeq
  /\ Cardinality(DOMAIN book) <= MaxBids
  /\ \A i \in DOMAIN book : /\ LowPrice <= book[i].price /\ book[i].price <= HighPrice
                            /\ EscrowOf(book[i]) <= MaxStroops
  /\ clearing = computeClearing(book, Float)

\* The invariant holds of the empty book ...
LEMMA ClearInvInit == ClearInit => ClearInv
<1> SUFFICES ASSUME ClearInit PROVE ClearInv OBVIOUS
<1> USE DEF ClearInit
<1>1. DOMAIN book = {} /\ bidSeq = 0 OBVIOUS
<1>2. IsBook(book) /\ Cardinality(DOMAIN book) = 0 BY <1>1, FS_EmptySet DEF IsBook
<1> QED BY <1>1, <1>2, RangeAssumption DEF ClearInv

\* ... and a submission or a cancel preserves it.
LEMMA ClearInvNext == ClearInv /\ [ClearNext]_clearVars => ClearInv'
<1> SUFFICES ASSUME ClearInv, [ClearNext]_clearVars PROVE ClearInv' OBVIOUS
<1>0. /\ bidSeq \in Int /\ MaxBids \in Nat /\ MaxIds \in Nat
      /\ IsFiniteSet(DOMAIN book) /\ Cardinality(DOMAIN book) \in Nat
      /\ \A i \in DOMAIN book : i \in Int /\ i <= bidSeq
  BY RangeAssumption, FS_CardinalityType DEF ClearInv, IsBook
<1>1. ASSUME NEW p \in Prices, NEW c \in Counts, NEW t \in Times, escrowed(p, c, t)
      PROVE  ClearInv'
  <2> DEFINE D == DOMAIN book
             new == bidSeq + 1
  <2>1. /\ p \in Int /\ c \in Int /\ t \in Int /\ LowPrice \in Nat \ {0}
        /\ LowPrice <= p /\ p <= HighPrice /\ c > 0 /\ p * c <= MaxStroops
        /\ Cardinality(D) < MaxBids /\ bidSeq < MaxIds /\ bidSeq' = new
        /\ clearing' = computeClearing(book', Float)
    BY <1>1, BidAssumption, OfferingAssumption DEF escrowed, biddable
  <2>2. /\ DOMAIN book' = D \cup {new} /\ new \notin D
        /\ \A i \in D : book'[i] = book[i]
        /\ book'[new] = [price |-> p, count |-> c, created |-> t]
    BY <1>0, <1>1 DEF escrowed
  <2>3. p \in Nat /\ c \in Nat \ {0} BY <2>1
  <2>4. IsFiniteSet(DOMAIN book') /\ Cardinality(DOMAIN book') <= MaxBids
    <3>1. IsFiniteSet(D \cup {new}) /\ Cardinality(D \cup {new}) = Cardinality(D) + 1
      BY <1>0, <2>2, FS_AddElement
    <3> QED BY <1>0, <2>1, <2>2, <3>1
  <2>5. \A i \in DOMAIN book' :
          /\ i \in Int /\ i \in 1..new
          /\ book'[i].price \in Nat /\ book'[i].count \in Nat \ {0} /\ book'[i].created \in Int
          /\ LowPrice <= book'[i].price /\ book'[i].price <= HighPrice
          /\ EscrowOf(book'[i]) <= MaxStroops
    <3> SUFFICES ASSUME NEW i \in DOMAIN book'
                 PROVE /\ i \in 1..new
                       /\ book'[i].price \in Nat /\ book'[i].count \in Nat \ {0}
                       /\ book'[i].created \in Int
                       /\ LowPrice <= book'[i].price /\ book'[i].price <= HighPrice
                       /\ EscrowOf(book'[i]) <= MaxStroops
      OBVIOUS
    <3>1. CASE i = new
      <4>1. i \in 1..new BY <1>0, <3>1 DEF ClearInv
      <4> QED BY <2>1, <2>2, <2>3, <3>1, <4>1 DEF EscrowOf
    <3>2. CASE i # new
      <4>1. i \in D /\ book'[i] = book[i] BY <2>2, <3>2
      <4>2. i \in 1..bidSeq BY <4>1 DEF ClearInv
      <4>3. i \in 1..new BY <1>0, <4>2
      <4> QED BY <4>1, <4>3 DEF ClearInv, IsBook
    <3> QED BY <3>1, <3>2
  <2>6. IsBook(book') BY <2>4, <2>5 DEF IsBook
  <2>7. bidSeq' \in 0..MaxIds /\ DOMAIN book' \subseteq 1..bidSeq'
    BY <1>0, <2>1, <2>5 DEF ClearInv
  <2> QED BY <2>1, <2>4, <2>5, <2>6, <2>7 DEF ClearInv
<1>2. ASSUME NEW k \in DOMAIN book, canceled(k) PROVE ClearInv'
  <2>1. /\ DOMAIN book' = DOMAIN book \ {k} /\ bidSeq' = bidSeq
        /\ \A i \in DOMAIN book' : i \in DOMAIN book /\ book'[i] = book[i]
        /\ clearing' = computeClearing(book', Float)
    BY <1>2 DEF canceled, Restrict
  <2>2. /\ IsFiniteSet(DOMAIN book') /\ Cardinality(DOMAIN book') <= Cardinality(DOMAIN book)
        /\ Cardinality(DOMAIN book') \in Nat
    BY <1>0, <2>1, FS_Subset, FS_CardinalityType
  <2>3. Cardinality(DOMAIN book') <= MaxBids BY <1>0, <2>2 DEF ClearInv
  <2> QED BY <2>1, <2>2, <2>3 DEF ClearInv, IsBook
<1>3. ASSUME UNCHANGED clearVars PROVE ClearInv'
  BY <1>3 DEF ClearInv, clearVars, IsBook
<1> QED BY <1>1, <1>2, <1>3 DEF ClearNext

\* What assertBiddable checked of each bid stays true of the book it is cleared in.
LEMMA BookIsSound == ClearSpec => []ClearInv
BY ClearInvInit, ClearInvNext, PTL DEF ClearSpec

\* What is recorded of the book: nothing when it is undersubscribed, and otherwise its
\* clearing at the highest price the float sells out at.
LEMMA ClearingIs ==
  ASSUME ClearInv
  PROVE  /\ TotalDemand(book) < Float => clearing = Undersubscribed(book)
         /\ ~(TotalDemand(book) < Float) =>
              /\ clearing = Cleared(book, clearing.price, Float)
              /\ Clears(book, clearing.price, Float)
              /\ \E c \in DOMAIN book : book[c].price = clearing.price
              /\ \A p \in Int : p > clearing.price => Demand(book, AtLeast(book, p)) < Float
<1>1. IsBook(book) /\ Float \in Nat \ {0} /\ clearing = computeClearing(book, Float)
  BY OfferingAssumption DEF ClearInv
<1>2. ~ Malformed(book, Float) BY <1>1 DEF IsBook, Malformed
<1>3. TotalDemand(book) \in Nat BY <1>1, DemandIs DEF TotalDemand
<1>4. ASSUME ~(TotalDemand(book) < Float)
      PROVE  LET P == clearing.price
             IN  /\ clearing = Cleared(book, P, Float) /\ Clears(book, P, Float)
                 /\ \E c \in DOMAIN book : book[c].price = P
                 /\ \A p \in Int : p > P => Demand(book, AtLeast(book, p)) < Float
  <2> DEFINE c == Crossing(book, Float)
             P == book[c].price
  <2>1. /\ c \in DOMAIN book /\ P \in Nat
        /\ Demand(book, AtLeast(book, P)) >= Float
        /\ Demand(book, Above(book, P)) < Float
        /\ \A p \in Int : p > P => Demand(book, AtLeast(book, p)) < Float
    BY <1>1, <1>3, <1>4, PriceIs
  <2>2. clearing = Cleared(book, P, Float) BY <1>1, <1>2, <1>4 DEF computeClearing
  <2>3. clearing.price = P BY <2>2 DEF Cleared
  <2>4. Demand(book, AtLeast(book, P)) \in Nat
    <3>1. AtLeast(book, P) \in SUBSET DOMAIN book BY DEF AtLeast
    <3> QED BY <1>1, <3>1, DemandIs
  <2> HIDE DEF c
  <2>5. Clears(book, P, Float) BY <1>1, <2>1, <2>4 DEF Clears
  <2> QED BY <2>1, <2>2, <2>3, <2>5
<1>5. TotalDemand(book) < Float => clearing = Undersubscribed(book)
  BY <1>1, <1>2 DEF computeClearing
<1> QED BY <1>4, <1>5

\* What toAllocationMap hands to the contract is the allocation at the clearing price.
LEMMA AllocatedIs ==
  ASSUME ClearInv, clearing.subscribed
  PROVE  LET P == clearing.price
             A == AllocAt(book, P, Float)
         IN  /\ ~(TotalDemand(book) < Float)
             /\ clearing.winners = Winners(book, P, Float)
             /\ clearing.snapshot = book
             /\ \A i \in DOMAIN book : Allocated(i) = A[i]
             /\ \A i : i \notin DOMAIN book => Allocated(i) = 0
<1> DEFINE P == clearing.price
           A == AllocAt(book, P, Float)
<1>1. ~(TotalDemand(book) < Float)
  <2>1. ~ Undersubscribed(book).subscribed BY DEF Undersubscribed
  <2> QED BY <2>1, ClearingIs
<1>2. clearing = Cleared(book, P, Float) /\ Clears(book, P, Float) /\ IsBook(book)
  BY <1>1, ClearingIs DEF ClearInv
<1>3. clearing.winners = Winners(book, P, Float) /\ clearing.snapshot = book
  BY <1>2 DEF Cleared
<1> DEFINE W == Winners(book, P, Float)
<1>4. /\ DOMAIN W \subseteq DOMAIN book
      /\ \A i \in DOMAIN book : i \in DOMAIN W <=> A[i] > 0
      /\ \A i \in DOMAIN W : W[i] = Winner(book[i], P, A[i])
  BY <1>2, WinnersAre
<1>5. \A i \in DOMAIN book : A[i] \in Int /\ A[i] >= 0
  <2>1. \A i \in DOMAIN book : A[i] \in 0..book[i].count BY <1>2, AllocIs
  <2> QED BY <2>1
<1> HIDE DEF W, A, P
<1>6. ASSUME NEW i PROVE Allocated(i) = IF i \in DOMAIN W THEN W[i].allocated ELSE 0
  <2>1. clearing.winners = W BY <1>3 DEF W
  <2>2. toAllocationMap(clearing) = [k \in DOMAIN W |-> W[k].allocated]
    BY <2>1 DEF toAllocationMap
  <2> QED BY <2>2 DEF Allocated
<1>7. \A i \in DOMAIN W : W[i].allocated = A[i] BY <1>4 DEF Winner
<1>8. \A i \in DOMAIN book : Allocated(i) = A[i] BY <1>4, <1>5, <1>6, <1>7
<1>9. \A i : i \notin DOMAIN book => Allocated(i) = 0 BY <1>4, <1>6
<1> QED BY <1>1, <1>3, <1>8, <1>9 DEF A, P

\* computeClearing's walk finds the price of the reference definition.
LEMMA PriceMarginal == ClearInv => PriceIsMarginal
<1> SUFFICES ASSUME ClearInv PROVE PriceIsMarginal OBVIOUS
<1> DEFINE prices == {book[i].price : i \in DOMAIN book}
           clears == {p \in prices : DemandAt(p) >= Float}
           P      == clearing.price
<1>0. IsBook(book) /\ Float \in Nat BY OfferingAssumption DEF ClearInv
<1>1. ASSUME NEW p \in prices
      PROVE  /\ p \in Int /\ DemandAt(p) = Demand(book, AtLeast(book, p))
             /\ DemandAt(p) \in Nat /\ DemandAt(p) <= TotalDemand(book)
  <2>1. AtLeast(book, p) \in SUBSET DOMAIN book /\ DOMAIN book \in SUBSET DOMAIN book
    BY DEF AtLeast
  <2>2. DemandAt(p) = Demand(book, AtLeast(book, p)) BY DEF DemandAt, AtLeast
  <2>3. /\ Demand(book, AtLeast(book, p)) \in Nat
        /\ Demand(book, AtLeast(book, p)) <= Demand(book, DOMAIN book)
    BY <1>0, <2>1, DemandIs
  <2>4. p \in Int BY <1>0 DEF IsBook
  <2> QED BY <2>2, <2>3, <2>4 DEF TotalDemand
<1>2. TotalDemand(book) \in Nat BY <1>0, DemandIs DEF TotalDemand
<1>3. CASE TotalDemand(book) < Float
  <2>1. clears = {} BY <1>0, <1>1, <1>2, <1>3
  <2>2. ~clearing.subscribed /\ clearing.winners = <<>>
    BY <1>3, ClearingIs DEF Undersubscribed
  <2> QED BY <2>1, <2>2 DEF PriceIsMarginal
<1>4. CASE ~(TotalDemand(book) < Float)
  <2>1. /\ clearing = Cleared(book, P, Float) /\ Clears(book, P, Float)
        /\ P \in prices
        /\ \A p \in Int : p > P => Demand(book, AtLeast(book, p)) < Float
    BY <1>4, ClearingIs
  <2>2. clearing.subscribed
    <3>1. Cleared(book, P, Float).subscribed BY DEF Cleared
    <3> QED BY <2>1, <3>1
  <2> HIDE DEF prices
  <2>3. P \in clears BY <1>0, <1>1, <2>1 DEF Clears
  <2>4. ASSUME NEW p \in clears PROVE p <= P
    <3>1. p \in prices /\ DemandAt(p) >= Float OBVIOUS
    <3>2. p \in Int /\ P \in Int BY <1>1, <2>1, <3>1
    <3>3. ~(p > P) BY <1>0, <1>1, <2>1, <3>1, <3>2
    <3> QED BY <3>2, <3>3
  <2>5. clears # {} BY <2>3
  <2> QED BY <2>2, <2>3, <2>4, <2>5 DEF PriceIsMarginal, prices
<1> QED BY <1>3, <1>4

\* What toAllocationMap hands over is the float, and nobody's share exceeds its bid.
LEMMA FloatSold == ClearInv => FloatExactlySold
<1> SUFFICES ASSUME ClearInv, clearing.subscribed
             PROVE  /\ SumFunction([i \in DOMAIN book |-> Allocated(i)]) = Float
                    /\ \A i \in DOMAIN book :
                         /\ book[i].price > clearing.price => Allocated(i) = book[i].count
                         /\ book[i].price < clearing.price => Allocated(i) = 0
                         /\ Allocated(i) <= book[i].count
  BY DEF FloatExactlySold
<1> DEFINE P == clearing.price
           A == AllocAt(book, P, Float)
           f == [i \in DOMAIN book |-> Allocated(i)]
<1>1. IsBook(book) /\ Clears(book, P, Float) /\ \A i \in DOMAIN book : Allocated(i) = A[i]
  BY AllocatedIs, ClearingIs DEF ClearInv
<1>2. /\ \A i \in DOMAIN book : /\ A[i] \in 0..book[i].count
                                /\ book[i].price > P => A[i] = book[i].count
                                /\ book[i].price < P => A[i] = 0
      /\ IntegerOn(A, DOMAIN book) /\ SetSum(A, DOMAIN book) = Float
  BY <1>1, AllocIs
<1>3. ASSUME NEW i \in DOMAIN book
      PROVE  /\ book[i].price > P => Allocated(i) = book[i].count
             /\ book[i].price < P => Allocated(i) = 0
             /\ Allocated(i) <= book[i].count
  <2>1. book[i].count \in Nat BY <1>1 DEF IsBook
  <2> QED BY <1>1, <1>2, <2>1
<1>4. DOMAIN f = DOMAIN book /\ \A i \in DOMAIN book : f[i] = A[i] BY <1>1
<1>5. IsFiniteSet(DOMAIN book) BY <1>1 DEF IsBook
<1> HIDE DEF f, A
<1>6. IntegerOn(f, DOMAIN book) BY <1>2, <1>4 DEF IntegerOn
<1>7. SumFunction(f) = SetSum(f, DOMAIN book) BY <1>4, <1>5, <1>6, SumFunctionIs
<1>8. SetSum(f, DOMAIN book) = SetSum(A, DOMAIN book) BY <1>2, <1>4, <1>5, SetSumExt
<1>9. SumFunction(f) = Float BY <1>2, <1>7, <1>8
<1> QED BY <1>3, <1>9 DEF f

\* The clearing of every book is the one of the reference definition: computeClearing's price
\* is the highest one the float sells out at, and what it allocates is the float.
THEOREM ClearingIsAsDefined == ClearSpec => []ClearedAsDefined
<1>1. ClearInv => ClearedAsDefined BY PriceMarginal, FloatSold DEF ClearedAsDefined
<1> QED BY <1>1, BookIsSound, PTL

\* Of two bids at the clearing price the earlier one is never the worse off, and nobody is
\* further from its pro-rata share than one fraction.
THEOREM TierIsSharedFairly == ClearSpec => []ProRataFair
<1>1. ASSUME ClearInv, clearing.subscribed PROVE ProRataFair
  <2> DEFINE P     == clearing.price
             tier  == AtP(book, P)
             T     == Demand(book, tier)
             R     == Float - Demand(book, Above(book, P))
             base  == Base(book, tier, R)
             dust  == R - SumFunction(base)
             n     == Cardinality(tier)
             place(i) == Cardinality(UpTo(book, tier, i))
             over(i)  == Allocated(i) * T - book[i].count * R
             earlier(i, j) == \/ book[i].created < book[j].created
                              \/ book[i].created = book[j].created /\ i < j
  <2>1. /\ IsBook(book) /\ Clears(book, P, Float)
        /\ \A i \in DOMAIN book : Allocated(i) = AllocAt(book, P, Float)[i]
    BY <1>1, AllocatedIs, ClearingIs DEF ClearInv
  <2>2. /\ tier \in SUBSET DOMAIN book /\ tier # {} /\ R \in 1..T
        /\ Demand(book, AtLeast(book, P)) = Demand(book, Above(book, P)) + T
        /\ Demand(book, Above(book, P)) \in Nat /\ T \in Nat
    BY <2>1, TierIs
  <2>3. ASSUME NEW i \in tier
        PROVE  Allocated(i) = base[i] + IF place(i) <= dust THEN 1 ELSE 0
    <3>1. i \in DOMAIN book /\ book[i].price = P BY DEF AtP
    <3>2. Allocated(i) = TierAllocation(book, tier, R)[i] BY <2>1, <3>1, AllocIs
    <3> QED BY <2>1, <2>2, <3>2, SharesAre
  <2>4. /\ dust \in 0..(n - 1)
        /\ \A i \in tier : /\ base[i] \in 0..book[i].count /\ T * base[i] <= book[i].count * R
                           /\ book[i].count * R < T * base[i] + T
    BY <2>1, <2>2, BaseIs
  <2>5. \A i \in tier : /\ i \in DOMAIN book /\ i \in Int /\ book[i].price = P
                        /\ book[i].price \in Int /\ book[i].created \in Int
                        /\ book[i].count \in Nat
    BY <2>1 DEF IsBook, AtP
  <2>6. /\ \A i \in tier : place(i) \in 1..n
        /\ \A i, j \in tier : Before(book, i, j) => place(i) < place(j)
        /\ Cardinality({i \in tier : place(i) <= dust}) = dust
    <3>1. dust \in 0..n
      <4>1. n \in Nat BY <2>1, <2>2, DemandIs, FS_CardinalityType
      <4> HIDE DEF dust, n
      <4> QED BY <2>4, <4>1
    <3> HIDE DEF dust, tier
    <3> QED BY <2>1, <2>2, <3>1, Places
  <2> HIDE DEF tier, T, R, base, dust
  <2>7. R \in Nat /\ dust \in Int /\ n \in Nat BY <2>2, <2>4, <2>1, DemandIs, FS_CardinalityType
  <2>8. ASSUME NEW i \in tier
        PROVE  /\ - T < over(i) /\ over(i) <= T
               /\ over(i) > 0 <=> place(i) <= dust
    <3>1. base[i] \in Int /\ T * base[i] \in Int /\ book[i].count * R \in Int
      BY <2>2, <2>4, <2>5, <2>7
    <3>2. base[i] * T = T * base[i] /\ (base[i] + 1) * T = T * base[i] + T
      <4>1. base[i] * T = T * base[i] BY <2>2, <3>1, Distribute
      <4>2. (base[i] + 1) * T = T * (base[i] + 1) /\ T * 1 = T BY <2>2, <3>1, Distribute
      <4>3. T * (base[i] + 1) = T * base[i] + T * 1 BY <2>2, <3>1, Distribute
      <4> QED BY <4>1, <4>2, <4>3
    <3>3. CASE place(i) <= dust
      <4>1. Allocated(i) = base[i] + 1 BY <2>3, <3>3
      <4>2. over(i) = (base[i] + 1) * T - book[i].count * R BY <4>1
      <4> HIDE DEF over, place
      <4>3. over(i) = T * base[i] + T - book[i].count * R BY <2>2, <3>1, <3>2, <4>2
      <4> QED BY <2>2, <2>4, <3>1, <3>3, <4>3
    <3>4. CASE ~ (place(i) <= dust)
      <4>1. Allocated(i) = base[i] BY <2>3, <3>1, <3>4
      <4>2. over(i) = T * base[i] - book[i].count * R BY <3>2, <4>1
      <4> HIDE DEF over, place
      <4> QED BY <2>2, <2>4, <3>1, <3>4, <4>2
    <3> QED BY <3>3, <3>4
  <2>9. ASSUME NEW i \in tier, over(i) > 0, NEW j \in tier, earlier(j, i) PROVE over(j) > 0
    <3>1. Before(book, j, i) BY <2>5, <2>9 DEF Before
    <3>2. place(j) < place(i) /\ place(i) <= dust BY <2>6, <2>8, <2>9, <3>1
    <3>3. place(i) \in Int /\ place(j) \in Int BY <2>6
    <3> HIDE DEF place, over
    <3>4. place(j) <= dust BY <2>7, <3>2, <3>3
    <3> QED BY <2>8, <3>4
  <2>10. \E j \in tier : over(j) <= 0
    <3>1. {i \in tier : place(i) <= dust} # tier
      <4>1. dust < n BY <2>4, <2>7
      <4> HIDE DEF place
      <4> QED BY <2>6, <2>7, <4>1
    <3>2. PICK j \in tier : ~ (place(j) <= dust) BY <3>1
    <3>3. ~ (over(j) > 0) BY <2>8, <3>2
    <3>4. over(j) \in Int
      <4>1. Allocated(j) \in Int BY <2>3, <2>4, <3>2
      <4> QED BY <2>2, <2>5, <2>7, <4>1
    <3> HIDE DEF over
    <3> QED BY <3>3, <3>4
  <2>11. Tier = tier BY DEF Tier, AtP, tier
  <2>12. Float - DemandAt(P) + T = R
    <3>1. DemandAt(P) = Demand(book, AtLeast(book, P)) BY DEF DemandAt, AtLeast
    <3> QED BY <2>1, <2>2, <3>1 DEF R, Clears
  <2> QED BY <2>8, <2>9, <2>10, <2>11, <2>12 DEF ProRataFair, T
<1>2. ClearInv => ProRataFair BY <1>1 DEF ProRataFair
<1> QED BY <1>2, BookIsSound, PTL

\* What a winner pays is no more than its escrow.
LEMMA WinnerPays ==
  ASSUME ClearInv, clearing.subscribed, NEW i \in DOMAIN book
  PROVE  LET P == clearing.price
             A == AllocAt(book, P, Float)
         IN  /\ A[i] \in Nat /\ A[i] <= book[i].count
             /\ P * A[i] \in Nat /\ P * A[i] <= EscrowOf(book[i])
             /\ EscrowOf(book[i]) \in Nat /\ EscrowOf(book[i]) <= MaxStroops
             /\ A[i] > 0 => P <= book[i].price
<1> DEFINE P == clearing.price
           A == AllocAt(book, P, Float)
           e == book[i]
<1>1. IsBook(book) /\ Clears(book, P, Float) BY AllocatedIs, ClearingIs DEF ClearInv
<1>2. e.price \in Nat /\ e.count \in Nat /\ EscrowOf(e) <= MaxStroops /\ P \in Nat
  BY <1>1 DEF IsBook, Clears, ClearInv
<1>3. A[i] \in 0..e.count /\ (e.price < P => A[i] = 0) BY <1>1, AllocIs
<1> HIDE DEF A, P, e
<1>4. A[i] \in Nat /\ A[i] <= e.count /\ (A[i] > 0 => P <= e.price) BY <1>2, <1>3
<1>5. P * A[i] \in Nat /\ EscrowOf(e) \in Nat BY <1>2, <1>4 DEF EscrowOf
<1>6. P * A[i] <= EscrowOf(e)
  <2>1. CASE A[i] = 0
    <3>1. P * A[i] = 0 BY <1>2, <2>1
    <3> QED BY <1>5, <3>1
  <2>2. CASE A[i] > 0
    <3>1. P * A[i] <= P * e.count BY <1>2, <1>4, Product
    <3>2. e.count * P <= e.count * e.price BY <1>2, <1>4, <2>2, Product
    <3>3. /\ P * e.count = e.count * P /\ e.count * e.price = e.price * e.count
          /\ P * e.count \in Int /\ e.price * e.count \in Int
      BY <1>2, Distribute
    <3> QED BY <1>5, <3>1, <3>2, <3>3 DEF EscrowOf
  <2> QED BY <1>4, <2>1, <2>2
<1> QED BY <1>2, <1>4, <1>5, <1>6 DEF A, P, e

\* The winners' allocations add up to the float, and what they pay fits the contract's
\* integers.
LEMMA PaidIs ==
  ASSUME ClearInv, clearing.subscribed
  PROVE  LET W == clearing.winners
             P == clearing.price
         IN  /\ SumFunction([i \in DOMAIN W |-> W[i].allocated]) = Float
             /\ SumFunction([i \in DOMAIN W |-> P * W[i].allocated]) = P * Float
             /\ P * Float <= MaxI128
<1> DEFINE W    == clearing.winners
           P    == clearing.price
           A    == AllocAt(book, P, Float)
           D    == DOMAIN book
           got  == [i \in DOMAIN W |-> W[i].allocated]
           paid == [i \in DOMAIN W |-> P * W[i].allocated]
           one  == [i \in D |-> 1]
           top  == [i \in D |-> MaxStroops * one[i]]
           pay  == [i \in D |-> P * A[i]]
<1>1. /\ IsBook(book) /\ Clears(book, P, Float) /\ W = Winners(book, P, Float)
      /\ IsFiniteSet(D)
  BY AllocatedIs, ClearingIs DEF ClearInv, IsBook
<1>2. /\ DOMAIN W \subseteq D /\ \A i \in D : i \in DOMAIN W <=> A[i] > 0
      /\ \A i \in DOMAIN W : W[i].allocated = A[i]
  <2>1. \A i \in DOMAIN W : W[i] = Winner(book[i], P, A[i]) BY <1>1, WinnersAre
  <2>2. DOMAIN W \subseteq D /\ \A i \in D : i \in DOMAIN W <=> A[i] > 0
    BY <1>1, WinnersAre
  <2> HIDE DEF W, A
  <2>3. \A i \in DOMAIN W : W[i].allocated = A[i] BY <2>1 DEF Winner
  <2> QED BY <2>2, <2>3
<1>3. /\ P \in Nat /\ IntegerOn(A, D) /\ SetSum(A, D) = Float
  BY <1>1, AllocIs DEF Clears
<1>4. \A i \in D : A[i] \in Nat /\ P * A[i] \in Nat /\ P * A[i] <= MaxStroops
  <2> SUFFICES ASSUME NEW i \in D
               PROVE  A[i] \in Nat /\ P * A[i] \in Nat /\ P * A[i] <= MaxStroops
    OBVIOUS
  <2>1. /\ A[i] \in Nat /\ P * A[i] \in Nat /\ P * A[i] <= EscrowOf(book[i])
        /\ EscrowOf(book[i]) \in Nat /\ EscrowOf(book[i]) <= MaxStroops
    BY WinnerPays
  <2> HIDE DEF A, P
  <2> QED BY <2>1, RangeAssumption
<1> HIDE DEF W, A, P
<1>5. /\ DOMAIN got = DOMAIN W /\ DOMAIN paid = DOMAIN W
      /\ \A i \in DOMAIN W : got[i] = A[i] /\ paid[i] = P * A[i]
      /\ \A i \in D : one[i] = 1 /\ top[i] = MaxStroops * one[i] /\ pay[i] = P * A[i]
      /\ \A i \in D : top[i] = MaxStroops
  BY <1>2, RangeAssumption
<1> HIDE DEF got, paid, one, top, pay, D
<1>6. /\ IsFiniteSet(DOMAIN W) /\ DOMAIN W \in SUBSET D
      /\ IntegerOn(A, DOMAIN W) /\ IntegerOn(got, DOMAIN W) /\ IntegerOn(paid, DOMAIN W)
      /\ IntegerOn(one, D) /\ IntegerOn(top, D) /\ IntegerOn(pay, D)
  BY <1>1, <1>2, <1>4, <1>5, RangeAssumption, FS_Subset DEF IntegerOn
<1>7. SetSum(A, DOMAIN W) = Float
  <2>1. \A i \in D \ DOMAIN W : A[i] = 0 BY <1>2, <1>4
  <2> QED BY <1>1, <1>3, <1>6, <2>1, SetSumSubset
<1>8. SumFunction(got) = Float
  <2>1. SumFunction(got) = SetSum(got, DOMAIN W) BY <1>5, <1>6, SumFunctionIs
  <2>2. SetSum(got, DOMAIN W) = SetSum(A, DOMAIN W) BY <1>5, <1>6, SetSumExt
  <2> QED BY <1>7, <2>1, <2>2
<1>9. SumFunction(paid) = P * Float
  <2>1. SumFunction(paid) = SetSum(paid, DOMAIN W) BY <1>5, <1>6, SumFunctionIs
  <2>2. SetSum(paid, DOMAIN W) = P * SetSum(A, DOMAIN W)
    BY <1>3, <1>5, <1>6, SetSumScale
  <2> QED BY <1>7, <2>1, <2>2
<1>10. P * Float <= MaxI128
  <2>1. SetSum(pay, D) = P * SetSum(A, D) BY <1>1, <1>3, <1>5, SetSumScale
  <2>2. SetSum(pay, D) <= SetSum(top, D) BY <1>1, <1>4, <1>5, <1>6, SetSumLess
  <2>3. SetSum(one, D) = Cardinality(D) BY <1>1, <1>5, SetSumCount
  <2>4. SetSum(top, D) = MaxStroops * SetSum(one, D)
    BY <1>1, <1>5, <1>6, RangeAssumption, SetSumScale
  <2>5. /\ Cardinality(D) \in Int /\ Cardinality(D) <= MaxBids /\ MaxStroops \in Nat
        /\ MaxBids \in Nat /\ MaxI128 \in Nat /\ MaxBids * MaxStroops <= MaxI128
    BY <1>1, FS_CardinalityType, RangeAssumption DEF ClearInv, D
  <2>6. MaxStroops * Cardinality(D) <= MaxStroops * MaxBids BY <2>5, Product
  <2>7. /\ MaxStroops * MaxBids = MaxBids * MaxStroops
        /\ MaxStroops * MaxBids \in Int /\ MaxStroops * Cardinality(D) \in Int
    BY <2>5, Distribute
  <2>8. P * Float \in Int BY <1>3, OfferingAssumption
  <2>9. P * Float <= MaxStroops * Cardinality(D) BY <1>3, <2>1, <2>2, <2>3, <2>4
  <2> QED BY <2>5, <2>6, <2>7, <2>8, <2>9
<1> QED BY <1>8, <1>9, <1>10 DEF W, P, got, paid

\* What the record of a cleared book says.
LEMMA ClearedIs ==
  ASSUME ClearInv, clearing.subscribed
  PROVE  LET P    == clearing.price
             paid == Proceeds(clearing.winners, P)
         IN  /\ IsBook(book) /\ Clears(book, P, Float)
             /\ clearing.winners = Winners(book, P, Float) /\ clearing.snapshot = book
             /\ clearing.proceeds = paid /\ clearing.fee = Fee(paid)
             /\ clearing.net = paid - Fee(paid)
<1> DEFINE P == clearing.price
<1>1. /\ IsBook(book) /\ Clears(book, P, Float) /\ clearing = Cleared(book, P, Float)
      /\ clearing.winners = Winners(book, P, Float)
  BY AllocatedIs, ClearingIs DEF ClearInv
<1>2. LET paid == Proceeds(Winners(book, P, Float), P)
      IN  /\ Cleared(book, P, Float).snapshot = book
          /\ Cleared(book, P, Float).proceeds = paid
          /\ Cleared(book, P, Float).fee = Fee(paid)
          /\ Cleared(book, P, Float).net = paid - Fee(paid)
  BY DEF Cleared
<1> HIDE DEF P
<1> QED BY <1>1, <1>2 DEF P

\* The money checks of assertClearingInvariants pass.
LEMMA MoneyBeltHolds ==
  ASSUME ClearInv, clearing.subscribed
  PROVE  MoneyBelt(clearing, Float, LowPrice, HighPrice)
<1> DEFINE W    == clearing.winners
           P    == clearing.price
           A    == AllocAt(book, P, Float)
<1>1. /\ IsBook(book) /\ Clears(book, P, Float) /\ W = Winners(book, P, Float)
      /\ clearing.fee = Fee(Proceeds(W, P))
      /\ clearing.net = Proceeds(W, P) - Fee(Proceeds(W, P))
  BY ClearedIs
<1>2. /\ SumFunction([i \in DOMAIN W |-> W[i].allocated]) = Float
      /\ Proceeds(W, P) <= MaxI128
  BY PaidIs DEF Proceeds
<1>3. /\ DOMAIN W \subseteq DOMAIN book
      /\ \A i \in DOMAIN book : i \in DOMAIN W <=> A[i] > 0
      /\ \A i \in DOMAIN W : W[i] = Winner(book[i], P, A[i])
      /\ \E i \in DOMAIN W : book[i].price = P
  BY <1>1, WinnersAre
<1>4. P > 0 /\ P <= MaxStroops /\ LowPrice <= P /\ P <= HighPrice
  BY <1>1, <1>3, OfferingAssumption, RangeAssumption DEF ClearInv, Clears
<1>5. ASSUME NEW i \in DOMAIN W PROVE W[i].allocated > 0 /\ W[i].refund >= 0
  <2>1. /\ i \in DOMAIN book /\ A[i] > 0 /\ P * A[i] \in Nat
        /\ P * A[i] <= EscrowOf(book[i]) /\ EscrowOf(book[i]) \in Nat
    BY <1>3, WinnerPays
  <2>2. /\ W[i].allocated = A[i] /\ W[i].refund = EscrowOf(book[i]) - P * A[i]
    <3> HIDE DEF W, A, P
    <3> QED BY <1>3 DEF Winner, Refund
  <2> HIDE DEF W, A, P
  <2> QED BY <2>1, <2>2
<1> QED BY <1>1, <1>2, <1>4, <1>5 DEF MoneyBelt, Proceeds, Fee

\* Its price checks pass: P is a winner's price and no loser bid above it.
LEMMA OptimalityBeltHolds ==
  ASSUME ClearInv, clearing.subscribed
  PROVE  OptimalityBelt(clearing)
<1> DEFINE W == clearing.winners
           P == clearing.price
           A == AllocAt(book, P, Float)
<1>1. /\ IsBook(book) /\ Clears(book, P, Float) /\ W = Winners(book, P, Float)
      /\ clearing.snapshot = book
  BY ClearedIs
<1>2. /\ DOMAIN W \subseteq DOMAIN book
      /\ \A i \in DOMAIN book : i \in DOMAIN W <=> A[i] > 0
      /\ \A i \in DOMAIN W : W[i] = Winner(book[i], P, A[i])
      /\ \A i \in DOMAIN W : book[i].price >= P
      /\ \E i \in DOMAIN W : book[i].price = P
  BY <1>1, WinnersAre
<1>3. \A i \in DOMAIN book : /\ book[i].price > P => A[i] = book[i].count
                             /\ book[i].price \in Nat /\ book[i].count \in Nat \ {0}
                             /\ P \in Nat
  BY <1>1, AllocIs DEF IsBook, Clears
<1> HIDE DEF W, A, P
<1>4. \A i \in DOMAIN W : W[i].price = book[i].price BY <1>2 DEF Winner
<1>5. \A i \in DOMAIN book \ DOMAIN W : book[i].price <= P BY <1>2, <1>3
<1> QED BY <1>1, <1>2, <1>4, <1>5 DEF OptimalityBelt, W, P

\* Its own sort of the tier and its own division of the shares give the same winners.
LEMMA ProRataBeltHolds ==
  ASSUME ClearInv, clearing.subscribed
  PROVE  ProRataBelt(clearing, Float)
<1> DEFINE W     == clearing.winners
           P     == clearing.price
           tier  == AtP(book, P)
           T     == Demand(book, tier)
           R     == Float - Demand(book, Above(book, P))
           base  == Base(book, tier, R)
           dust  == R - SumFunction(base)
           n     == Cardinality(tier)
           alloc(i) == IF i \in DOMAIN W THEN W[i].allocated ELSE 0
           earlier(i, j) == \/ book[i].created < book[j].created
                            \/ book[i].created = book[j].created /\ i < j
           place(i) == Cardinality({j \in tier : earlier(j, i)})
<1>1. /\ IsBook(book) /\ Clears(book, P, Float) /\ clearing.snapshot = book
  BY ClearedIs
<1>2. /\ tier \in SUBSET DOMAIN book /\ tier # {} /\ R \in 1..T /\ T \in Nat
      /\ IsFiniteSet(tier)
  BY <1>1, TierIs, DemandIs
<1>3. dust \in 0..(n - 1) BY <1>1, <1>2, BaseIs
<1>4. n \in Nat BY <1>2, FS_CardinalityType
<1>5. ASSUME NEW i \in DOMAIN book PROVE alloc(i) = AllocAt(book, P, Float)[i]
  <2>1. alloc(i) = Allocated(i)
    <3>1. toAllocationMap(clearing) = [k \in DOMAIN W |-> W[k].allocated]
      BY DEF toAllocationMap
    <3> HIDE DEF W
    <3> QED BY <3>1 DEF Allocated
  <2> QED BY <2>1, AllocatedIs
<1>6. \A i \in tier : /\ i \in DOMAIN book /\ i \in Int /\ book[i].price = P
                      /\ book[i].price \in Int /\ book[i].created \in Int
  BY <1>1 DEF IsBook, AtP
<1>7. ASSUME NEW i \in tier PROVE place(i) = Cardinality(UpTo(book, tier, i)) - 1
  <2> DEFINE U == UpTo(book, tier, i)
  <2>1. U \in SUBSET tier /\ i \in U BY DEF UpTo
  <2>2. IsFiniteSet(U) BY <1>2, <2>1, FS_Subset
  <2>3. {j \in tier : earlier(j, i)} = U \ {i} BY <1>6 DEF UpTo, Before
  <2>4. Cardinality(U \ {i}) = Cardinality(U) - 1 BY <2>1, <2>2, FS_RemoveElement
  <2> QED BY <2>3, <2>4
<1>8. ASSUME NEW i \in tier
      PROVE  alloc(i) = base[i] + IF place(i) < dust THEN 1 ELSE 0
  <2>1. AllocAt(book, P, Float)[i] = TierAllocation(book, tier, R)[i]
    BY <1>1, <1>6, AllocIs
  <2>2. alloc(i) = base[i] + IF Cardinality(UpTo(book, tier, i)) <= dust THEN 1 ELSE 0
    BY <1>1, <1>2, <1>5, <1>6, <2>1, SharesAre
  <2>3. Cardinality(UpTo(book, tier, i)) \in 1..Cardinality(tier) BY <1>1, <1>2, Places
  <2> HIDE DEF dust, base, alloc, place
  <2>4. place(i) < dust <=> Cardinality(UpTo(book, tier, i)) <= dust
    BY <1>3, <1>4, <1>7, <2>3
  <2> QED BY <2>2, <2>4
<1>9. ASSUME NEW i \in Above(book, P) PROVE alloc(i) = book[i].count
  <2>1. i \in DOMAIN book /\ book[i].price > P BY DEF Above
  <2> QED BY <1>1, <1>5, <2>1, AllocIs
<1>10. R \in Int /\ T > 0 /\ 0 < R /\ R <= T BY <1>2
<1>11. 0 <= dust /\ dust < n
  <2> HIDE DEF dust, n
  <2> QED BY <1>3, <1>4
<1> HIDE DEF R, T, base, dust, n, alloc, place, tier
<1> QED
  <2>1. /\ {i \in DOMAIN book : book[i].price > P} = Above(book, P)
        /\ {i \in DOMAIN book : book[i].price = P} = tier
    BY DEF Above, AtP, tier
  <2>2. Float - SumFunction([i \in Above(book, P) |-> book[i].count]) = R BY DEF R, Demand
  <2>3. SumFunction([i \in tier |-> book[i].count]) = T BY DEF T, Demand
  <2>4. [i \in tier |-> (book[i].count * R) \div T] = base BY DEF T, base, Base
  <2>5. R - SumFunction(base) = dust BY DEF dust
  <2> QED
    BY <1>1, <1>8, <1>9, <1>10, <1>11, <2>1, <2>2, <2>3, <2>4, <2>5, SMTT(30)
       DEF ProRataBelt, alloc, place, n

\* The belt re-derives the clearing and always agrees with it: a sound book is never stamped
\* failed, and what it pays fits the contract's integers.
THEOREM BeltAlwaysAccepts == ClearSpec => []BeltAccepts
<1>1. ASSUME ClearInv, clearing.subscribed PROVE BeltAccepts
  BY <1>1, MoneyBeltHolds, OptimalityBeltHolds, ProRataBeltHolds
     DEF BeltAccepts, assertClearingInvariants, ClearInv
<1>2. ClearInv => BeltAccepts BY <1>1 DEF BeltAccepts
<1> QED BY <1>2, BookIsSound, PTL

\* The contract's sums are the sums of this module.
LEMMA ChainSum == ASSUME NEW f, NEW n PROVE Chain!Sum(f, n) = Sum(f, n)
BY DEF Chain!Sum, Chain!PrefixSums, Sum, PrefixSums

\* What the contract computes with for the bid numbered i.
HeldOf(i) == IF i \in DOMAIN book THEN EscrowOf(book[i]) ELSE 0

\* Bid by bid, what the contract would hold, charge and return.
LEMMA HeldIs ==
  ASSUME ClearInv, clearing.subscribed
  PROVE  LET P     == clearing.price
             alloc == [i \in 1..MaxIds |-> Allocated(i)]
         IN  /\ MaxIds \in Nat /\ P \in Nat \ {0}
             /\ DOMAIN book \subseteq 1..MaxIds
             /\ \A i \in 1..MaxIds :
                  /\ Allocated(i) \in Nat /\ alloc[i] = Allocated(i)
                  /\ P * Allocated(i) \in Nat
                  /\ HeldOf(i) \in Nat /\ P * Allocated(i) <= HeldOf(i)
                  /\ Chain!Refund(P, alloc, i) = HeldOf(i) - P * Allocated(i)
                  /\ Chain!ActiveEscrow(i) = HeldOf(i)
                  /\ Allocated(i) # 0 =>
                       /\ i \in DOMAIN book
                       /\ Allocated(i) <= book[i].count /\ P <= book[i].price
<1> DEFINE P     == clearing.price
           A     == AllocAt(book, P, Float)
           alloc == [i \in 1..MaxIds |-> Allocated(i)]
<1>1. MaxIds \in Nat /\ DOMAIN book \subseteq 1..MaxIds
  BY RangeAssumption DEF ClearInv
<1>2. P \in Nat \ {0}
  <2>1. /\ Clears(book, P, Float) /\ \E c \in DOMAIN book : book[c].price = P
    BY AllocatedIs, ClearingIs
  <2> QED BY <2>1, OfferingAssumption DEF ClearInv, Clears
<1>3. ASSUME NEW i \in DOMAIN book
      PROVE  /\ Allocated(i) \in Nat /\ Allocated(i) <= book[i].count
             /\ P * Allocated(i) \in Nat /\ P * Allocated(i) <= HeldOf(i) /\ HeldOf(i) \in Nat
             /\ Allocated(i) > 0 => P <= book[i].price
  <2>1. Allocated(i) = A[i] BY AllocatedIs
  <2>2. HeldOf(i) = EscrowOf(book[i]) BY DEF HeldOf
  <2> QED BY <2>1, <2>2, WinnerPays
<1>4. ASSUME NEW i \in 1..MaxIds, i \notin DOMAIN book
      PROVE  Allocated(i) = 0 /\ HeldOf(i) = 0 /\ P * Allocated(i) = 0
  <2>1. Allocated(i) = 0 BY <1>4, AllocatedIs
  <2>2. P * 0 = 0 BY <1>2
  <2> QED BY <1>4, <2>1, <2>2 DEF HeldOf
<1>5. \A i \in 1..MaxIds : alloc[i] = Allocated(i) OBVIOUS
<1> HIDE DEF P, alloc
<1>6. ASSUME NEW i \in 1..MaxIds
      PROVE  /\ Chain!Refund(P, alloc, i) = HeldOf(i) - P * Allocated(i)
             /\ Chain!ActiveEscrow(i) = HeldOf(i)
  <2>1. CASE i \in DOMAIN book
    BY <1>5, <2>1 DEF Chain!Refund, Chain!ActiveEscrow, HeldOf
  <2>2. CASE i \notin DOMAIN book
    <3>1. HeldOf(i) - P * Allocated(i) = 0 BY <1>4, <2>2
    <3> QED BY <1>4, <2>2, <3>1 DEF Chain!Refund, Chain!ActiveEscrow
  <2> QED BY <2>1, <2>2
<1>7. ASSUME NEW i \in 1..MaxIds
      PROVE  /\ Allocated(i) \in Nat /\ P * Allocated(i) \in Nat
             /\ HeldOf(i) \in Nat /\ P * Allocated(i) <= HeldOf(i)
             /\ Allocated(i) # 0 => /\ i \in DOMAIN book
                                    /\ Allocated(i) <= book[i].count /\ P <= book[i].price
  <2>1. CASE i \in DOMAIN book BY <1>3, <2>1
  <2>2. CASE i \notin DOMAIN book BY <1>4, <2>2
  <2> QED BY <2>1, <2>2
<1> QED BY <1>1, <1>2, <1>5, <1>6, <1>7 DEF P, alloc

\* In total: the escrow held is what is returned and what the winners pay for the float.
LEMMA ChainTotals ==
  ASSUME ClearInv, clearing.subscribed
  PROVE  LET P     == clearing.price
             alloc == [i \in 1..MaxIds |-> Allocated(i)]
         IN  /\ Chain!SumAllocated(alloc) = Float
             /\ Chain!Proceeds(P, alloc) = P * Float
             /\ Chain!SumRefund(P, alloc) \in Int
             /\ Chain!SumEscrow = Chain!SumRefund(P, alloc) + P * Float
<1> DEFINE P      == clearing.price
           n      == MaxIds
           A      == AllocAt(book, P, Float)
           D      == DOMAIN book
           alloc  == [i \in 1..MaxIds |-> Allocated(i)]
           cost   == [i \in 1..MaxIds |-> P * alloc[i]]
           back   == [i \in 1..MaxIds |-> Chain!Refund(P, alloc, i)]
           held   == [i \in 1..MaxIds |-> Chain!ActiveEscrow(i)]
<1>1. /\ Chain!SumAllocated(alloc) = Sum(alloc, n)
      /\ Chain!Proceeds(P, alloc) = Sum(cost, n)
      /\ Chain!SumRefund(P, alloc) = Sum(back, n)
      /\ Chain!SumEscrow = Sum(held, n)
  BY ChainSum DEF Chain!SumAllocated, Chain!Proceeds, Chain!SumRefund, Chain!SumEscrow,
                  Chain!BidIds
<1>2. /\ n \in Nat /\ P \in Nat \ {0} /\ D \subseteq 1..n
      /\ \A i \in 1..n : /\ Allocated(i) \in Nat /\ alloc[i] = Allocated(i)
                         /\ P * Allocated(i) \in Nat /\ HeldOf(i) \in Nat
                         /\ back[i] = HeldOf(i) - P * Allocated(i)
                         /\ held[i] = HeldOf(i)
                         /\ cost[i] = P * Allocated(i)
  BY HeldIs
<1>3. /\ SetSum(A, D) = Float /\ IntegerOn(A, D) /\ IsFiniteSet(D)
      /\ \A i \in D : Allocated(i) = A[i]
      /\ \A i : i \notin D => Allocated(i) = 0
  BY AllocatedIs, ClearingIs, AllocIs DEF ClearInv, IsBook
<1> HIDE DEF P, A, alloc, cost, back, held
<1>4. /\ IntegerTo(alloc, n) /\ IntegerTo(cost, n) /\ IntegerTo(back, n) /\ IntegerTo(held, n)
  BY <1>2 DEF IntegerTo
<1>5. Sum(alloc, n) = Float
  <2>1. Sum(alloc, n) = SetSum(alloc, 1..n) BY <1>2, <1>4, IntervalSum
  <2>2. IsFiniteSet(1..n) /\ IntegerOn(alloc, 1..n) /\ IntegerOn(alloc, D)
    <3>1. IsFiniteSet(1..n) BY <1>2, FS_Interval
    <3> HIDE DEF n, D
    <3> QED BY <1>2, <1>4, <3>1 DEF IntegerOn, IntegerTo
  <2>3. \A i \in (1..n) \ D : alloc[i] = 0 BY <1>2, <1>3
  <2>4. SetSum(alloc, 1..n) = SetSum(alloc, D)
    <3>1. D \in SUBSET (1..n) BY <1>2
    <3>2. IsFiniteSet(1..n) /\ IntegerOn(alloc, 1..n) BY <2>2
    <3> HIDE DEF D, n
    <3> QED BY <2>3, <3>1, <3>2, SetSumSubset, ZenonT(30)
  <2>5. \A i \in D : alloc[i] = A[i] BY <1>2, <1>3
  <2>6. SetSum(alloc, D) = SetSum(A, D) BY <1>3, <2>2, <2>5, SetSumExt
  <2> QED BY <1>3, <2>1, <2>4, <2>6
<1>6. Sum(cost, n) = P * Float
  <2>1. \A i \in 1..n : cost[i] = P * alloc[i] BY <1>2
  <2>2. Sum(cost, n) = P * Sum(alloc, n) BY <1>2, <1>4, <2>1, SumScale
  <2> QED BY <1>5, <2>2
<1>7. Sum(held, n) = Sum(back, n) + Sum(cost, n)
  <2>1. \A i \in 1..n : held[i] = back[i] + cost[i] BY <1>2
  <2> QED BY <1>2, <1>4, <2>1, SumAdd
<1>8. Sum(back, n) \in Int BY <1>2, <1>4, PrefixSumsIs
<1> QED BY <1>1, <1>5, <1>6, <1>7, <1>8 DEF P, alloc

\* The escrow contract takes every clearing of a subscribed book, and pays what the backend
\* recorded: proceeds, fee, net and every winner's refund.
THEOREM ContractAlwaysAccepts == ClearSpec => []ContractAccepts
<1>1. ASSUME ClearInv, clearing.subscribed PROVE ContractAccepts
  <2> DEFINE P     == clearing.price
             W     == clearing.winners
             A     == AllocAt(book, P, Float)
             alloc == [i \in 1..MaxIds |-> Allocated(i)]
             paid  == P * Float
  <2>1. /\ MaxIds \in Nat /\ P \in Nat \ {0} /\ DOMAIN book \subseteq 1..MaxIds
        /\ \A i \in 1..MaxIds :
             /\ Allocated(i) \in Nat /\ alloc[i] = Allocated(i)
             /\ P * Allocated(i) \in Nat
             /\ HeldOf(i) \in Nat /\ P * Allocated(i) <= HeldOf(i)
             /\ Chain!Refund(P, alloc, i) = HeldOf(i) - P * Allocated(i)
             /\ Allocated(i) # 0 =>
                  /\ i \in DOMAIN book
                  /\ Allocated(i) <= book[i].count /\ P <= book[i].price
    BY <1>1, HeldIs
  <2>2. /\ Chain!SumAllocated(alloc) = Float /\ Chain!Proceeds(P, alloc) = paid
        /\ Chain!SumRefund(P, alloc) \in Int
        /\ Chain!SumEscrow = Chain!SumRefund(P, alloc) + paid
    BY <1>1, ChainTotals
  <2>3. /\ clearing.proceeds = Proceeds(W, P) /\ Proceeds(W, P) = paid
        /\ clearing.fee = Fee(paid) /\ clearing.net = paid - Fee(paid)
    <3>1. Proceeds(W, P) = paid BY <1>1, PaidIs DEF Proceeds
    <3> QED BY <1>1, <3>1, ClearedIs
  <2>4. /\ IsBook(book) /\ W = Winners(book, P, Float)
        /\ Clears(book, P, Float) /\ \A i \in DOMAIN book : Allocated(i) = A[i]
    BY <1>1, ClearedIs, AllocatedIs
  <2>5. /\ DOMAIN W \subseteq DOMAIN book
        /\ \A i \in DOMAIN W : W[i] = Winner(book[i], P, A[i])
    BY <2>4, WinnersAre
  <2>6. Fee(paid) \in Int /\ paid \in Int
    <3>1. paid \in Int BY <2>1, OfferingAssumption
    <3> HIDE DEF paid
    <3> QED BY <3>1 DEF Fee, PLATFORM_FEE_BPS
  <2> HIDE DEF P, W, A, alloc, paid
  <2>7. ASSUME NEW i \in DOMAIN W PROVE W[i].refund = Chain!Refund(P, alloc, i)
    <3>1. i \in DOMAIN book /\ i \in 1..MaxIds BY <2>1, <2>5
    <3>2. W[i].refund = EscrowOf(book[i]) - P * A[i] BY <2>5 DEF Winner, Refund
    <3>3. HeldOf(i) = EscrowOf(book[i]) BY <3>1 DEF HeldOf
    <3> QED BY <2>1, <2>4, <3>1, <3>2, <3>3
  <2>8. Chain!PlatformFee(paid) = Fee(paid) /\ Chain!ArtistNet(paid) = paid - Fee(paid)
    BY DEF Chain!PlatformFee, Chain!ArtistNet, Fee, PLATFORM_FEE_BPS, Chain!PLATFORM_FEE_BPS
  <2>9. Chain!Belt(P, alloc)
    <3>1. Chain!Outflow(P, alloc) = Chain!SumRefund(P, alloc) + Fee(paid) + (paid - Fee(paid))
      BY <2>2, <2>8 DEF Chain!Outflow
    <3> QED BY <2>2, <2>6, <3>1 DEF Chain!Belt
  <2>10. ASSUME NEW i \in 1..MaxIds, Allocated(i) # 0
         PROVE  Chain!AllocationValid(P, alloc, i)
    <3>1. i \in DOMAIN book /\ Allocated(i) <= book[i].count /\ P <= book[i].price
      BY <2>1, <2>10
    <3>2. HeldOf(i) = EscrowOf(book[i]) BY <3>1 DEF HeldOf
    <3>3. EscrowOf(book[i]) - P * alloc[i] >= 0 BY <2>1, <3>2
    <3>4. alloc[i] >= 0 /\ alloc[i] <= book[i].count /\ P > 0 BY <2>1, <3>1
    <3> QED BY <3>1, <3>3, <3>4 DEF Chain!AllocationValid, Chain!NoBid
  <2>11. \A i \in 1..MaxIds : Chain!AllocationValid(P, alloc, i)
    <3> SUFFICES ASSUME NEW i \in 1..MaxIds, Allocated(i) = 0
                 PROVE  Chain!AllocationValid(P, alloc, i)
      BY <2>10
    <3>1. alloc[i] = 0 BY <2>1
    <3> QED BY <3>1 DEF Chain!AllocationValid
  <2>12. Chain!MintInvariant(alloc)
    BY <2>2, OfferingAssumption DEF Chain!MintInvariant
  <2>13. Chain!SettleValid(P, alloc)
    <3> DEFINE chainBid == [i \in 1..MaxIds |->
                 IF i \in DOMAIN book
                 THEN [bidder |-> "collector", price |-> book[i].price, count |-> book[i].count,
                       escrow |-> EscrowOf(book[i]), active |-> TRUE]
                 ELSE [bidder |-> IF i <= bidSeq THEN "collector" ELSE "nobody", price |-> 0,
                       count |-> 0, escrow |-> 0, active |-> FALSE]]
    <3>1. \A i \in 1..bidSeq : i \in 1..MaxIds /\ i <= bidSeq
      BY <1>1, <2>1 DEF ClearInv
    <3>2. ASSUME NEW i \in 1..bidSeq PROVE chainBid[i] # Chain!NoBid
      <4>1. chainBid[i].bidder = "collector" BY <3>1
      <4>2. Chain!NoBid.bidder = "nobody" BY DEF Chain!NoBid, Chain!NoBidder
      <4> QED BY <4>1, <4>2
    <3> QED BY <2>11, <2>12, <3>2 DEF Chain!SettleValid, Chain!BidIds
  <2> QED BY <2>2, <2>3, <2>7, <2>8, <2>9, <2>13 DEF ContractAccepts, P, W, alloc
<1>2. ClearInv => ContractAccepts BY <1>1 DEF ContractAccepts
<1> QED BY <1>2, BookIsSound, PTL
=============================================================================
