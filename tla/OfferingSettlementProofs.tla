---------------------- MODULE OfferingSettlementProofs ----------------------
(***************************************************************************)
(* Proofs about OfferingSettlement, for any set of bids, any clearing, any *)
(* number of queued jobs and any number of crashes, lost confirmations and *)
(* RPC errors; and, in the last part, about WalletDrain, for any tokens,   *)
(* requests, builds, faults and transfers by other means.                  *)
(***************************************************************************)
EXTENDS OfferingSettlement, WalletDrain, TLAPS

\* Where an attempt, the contract and the database are relative to each other: there is an
\* attempt only for a subscribed offering, and an attempt persists or adopts only what the
\* contract has settled.
Phase ==
  /\ offering = "opened" => pc = "idle" /\ settleTx = Nothing /\ escrow # "Settled"
  /\ pc # "idle" => offering = "subscribed"
  /\ pc = "persist" \/ adopted => escrow = "Settled"
  /\ escrow = "Settled" => active = {}

\* A bid is inserted once; a row that was escrowed does not go back to before, so that a canceled
\* bid cannot reach the contract again.
Before == {"none", "submitted", "failed"}

RowHistory ==
  \A b \in Bids : /\ req[b] = "submit" => row[b] = "none"
                  /\ b \in cancels \cup refunded => row[b] \notin Before
                  /\ b \in refunded => b \notin active
                  /\ row[b] = "canceled" => b \in refunded

\* The winners of every clearing in sight were escrowed once.
WereEscrowed(c) == \A b \in Winners(c) : row[b] \notin Before
ClearedRows     == WereEscrowed(plan) /\ WereEscrowed(settleTx) /\ WereEscrowed(outcome)

\* What the contract executed, it had the money for.
OutcomeHeld ==
  /\ escrow # "Settled" => outcome = Nothing
  /\ \A b \in Winners(outcome) : b \notin refunded

Rows == RowHistory /\ ClearedRows /\ OutcomeHeld

Inv == TypeOK /\ Phase /\ SettledOnChainFirst /\ Rows

\* From the in-flight check on, the book cannot change any more.
BookFinal == \/ pc \in {"list", "settle", "simulate", "polling", "persist"}
             \/ settleTx # Nothing
             \/ escrow = "Settled"

Frozen == BookFinal => Inflight = {}

\* While the settlement is under way, every clearing in sight is the clearing of the book.
Agreed ==
  offering = "subscribed" =>
    /\ settleTx # Nothing => settleTx = Clear(Escrowed)
    /\ escrow = "Settled" => outcome = Clear(Escrowed)
    /\ pc \in {"settle", "simulate", "polling", "persist"} => plan = Clear(Escrowed)

\* Only persist marks winners.
NoneWon == offering # "settled" => \A b \in Bids : row[b] # "won"

BookInv == Frozen /\ Agreed /\ NoneWon /\ ReceiptsMatchChain /\ SettledBookClosed

\* No settlement has no winners; a clearing's are bids of its book.
LEMMA NothingWins == Winners(Nothing) = {}
BY DEF Winners, Nothing

LEMMA ClearedAreBids ==
  /\ \A c \in Clearings \cup {Nothing} : Winners(c) \subseteq Bids
  /\ \A S \in SUBSET Bids : Clearable(S) => Winners(Clear(S)) \subseteq S
BY ClearAssumption, NothingWins DEF Clearings, Winners

\* Types are preserved: only clearings of books are ever planned, sent, executed or recorded.
LEMMA TypeStep == TypeOK /\ [Next]_vars => TypeOK'
<1> SUFFICES ASSUME TypeOK, [Next]_vars PROVE TypeOK'
  OBVIOUS
<1> USE BoundsAssumption
<1> USE DEF dbVars, requestVars, workerVars, chainVars, networkVars, RowStatuses, WorkerSteps,
            RowsIn, Escrowed, Inflight, Winners
<1>1. CASE closeWindow
  <2>1. windowOpen' \in BOOLEAN
    BY <1>1, Zenon DEF closeWindow, TypeOK
  <2> QED BY <1>1, <2>1 DEF closeWindow, TypeOK
<1>2. ASSUME NEW b \in Bids, assertBiddable(b) PROVE TypeOK'
  BY <1>2 DEF assertBiddable, TypeOK
<1>3. ASSUME NEW b \in Bids, insertSubmitted(b) PROVE TypeOK'
  <2>1. late' \in BOOLEAN
    BY <1>3, Zenon DEF insertSubmitted, CommitsLate, TypeOK
  <2> QED BY <1>3, <2>1 DEF insertSubmitted, CommitsLate, TypeOK
<1>4. ASSUME NEW b \in Bids, assertCancelable(b) PROVE TypeOK'
  BY <1>4 DEF assertCancelable, TypeOK
<1>5. ASSUME NEW b \in Bids, casCanceling(b) PROVE TypeOK'
  <2>1. late' \in BOOLEAN
    BY <1>5, Zenon DEF casCanceling, CommitsLate, TypeOK
  <2> QED BY <1>5, <2>1 DEF casCanceling, CommitsLate, TypeOK
<1>6. ASSUME NEW b \in Bids, submitLands(b) PROVE TypeOK'
  BY <1>6 DEF submitLands, TypeOK
<1>7. ASSUME NEW b \in Bids, casEscrowed(b) PROVE TypeOK'
  BY <1>7 DEF casEscrowed, TypeOK
<1>8. ASSUME NEW b \in Bids, casFailed(b) PROVE TypeOK'
  BY <1>8 DEF casFailed, TypeOK
<1>9. ASSUME NEW b \in Bids, cancelLands(b) PROVE TypeOK'
  BY <1>9 DEF cancelLands, TypeOK
<1>10. ASSUME NEW b \in Bids, casCanceled(b) PROVE TypeOK'
  BY <1>10 DEF casCanceled, TypeOK
<1>11. ASSUME NEW b \in Bids, casCancelFailedBackToEscrowed(b) PROVE TypeOK'
  BY <1>11 DEF casCancelFailedBackToEscrowed, TypeOK
<1>12. CASE settleGates
  BY <1>12 DEF settleGates, TypeOK
<1>13. CASE casSubscribed
  BY <1>13 DEF casSubscribed, Enqueued, TypeOK
<1>14. CASE reclaim
  <2>1. settleFailed' \in BOOLEAN
    BY <1>14, Zenon DEF reclaim, Enqueued, TypeOK
  <2> QED BY <1>14, <2>1 DEF reclaim, Enqueued, TypeOK
<1>15. CASE reconcile
  BY <1>15 DEF reconcile, TypeOK
<1>16. CASE takeJob
  <2>1. adopted' \in BOOLEAN
    BY <1>16, Zenon DEF takeJob, Goto, Done, TypeOK
  <2> QED BY <1>16, <2>1 DEF takeJob, Goto, Done, TypeOK
<1>17. CASE readStatus
  <2>1. adopted' \in BOOLEAN
    BY <1>17, Zenon DEF readStatus, Goto, TypeOK
  <2> QED BY <1>17, <2>1 DEF readStatus, Goto, TypeOK
<1>18. CASE closeOffering
  <2>1. adopted' \in BOOLEAN /\ closeTx' \in BOOLEAN
    BY <1>18, Zenon DEF closeOffering, Goto, Requeued, Done, Enqueued, TypeOK
  <2> QED BY <1>18, <2>1 DEF closeOffering, Goto, Requeued, Done, Enqueued, TypeOK
<1>19. CASE closeConfirmed
  BY <1>19 DEF closeConfirmed, Goto, TypeOK
<1>20. CASE assertBookFinal
  <2>1. adopted' \in BOOLEAN
    BY <1>20, Zenon DEF assertBookFinal, Goto, Requeued, Done, Enqueued, TypeOK
  <2> QED BY <1>20, <2>1 DEF assertBookFinal, Goto, Requeued, Done, Enqueued, TypeOK
<1>21. CASE computeClearing
  <2>1. settleFailed' \in BOOLEAN /\ adopted' \in BOOLEAN
    BY <1>21, Zenon DEF computeClearing, Stamped, Done, TypeOK
  <2> QED BY <1>21, <2>1 DEF computeClearing, Stamped, Done, TypeOK, Clearings
<1>22. CASE closeAndSettle
  <2>1. adopted' \in BOOLEAN
    BY <1>22, Zenon DEF closeAndSettle, Goto, TypeOK
  <2> QED BY <1>22, <2>1 DEF closeAndSettle, Goto, TypeOK
<1>23. CASE simulateAndSend
  <2>1. settleFailed' \in BOOLEAN /\ adopted' \in BOOLEAN
    BY <1>23, Zenon
       DEF simulateAndSend, Settleable, Goto, Requeued, Done, Enqueued, Stamped, TypeOK
  <2> QED BY <1>23, <2>1 DEF simulateAndSend, Settleable, Goto, Requeued, Done, Enqueued,
         Stamped, TypeOK
<1>24. CASE settleConfirmed
  BY <1>24 DEF settleConfirmed, Goto, TypeOK
<1>25. CASE pollTimeout
  <2>1. adopted' \in BOOLEAN
    BY <1>25, Zenon DEF pollTimeout, Requeued, Done, Enqueued, TypeOK
  <2> QED BY <1>25, <2>1 DEF pollTimeout, Requeued, Done, Enqueued, TypeOK
<1>26. CASE persist
  <2>1. settleFailed' \in BOOLEAN /\ adopted' \in BOOLEAN
    BY <1>26, Zenon DEF persist, Consistent, Stamped, Done, TypeOK
  <2> QED BY <1>26, <2>1 DEF persist, Consistent, Stamped, Done, TypeOK
<1>27. CASE interrupted
  <2>1. adopted' \in BOOLEAN
    BY <1>27, Zenon DEF interrupted, Requeued, Done, Enqueued, TypeOK
  <2> QED BY <1>27, <2>1 DEF interrupted, Requeued, Done, Enqueued, TypeOK
<1>28. CASE refused
  <2>1. settleFailed' \in BOOLEAN /\ adopted' \in BOOLEAN
    BY <1>28, Zenon DEF refused, Stamped, Done, TypeOK
  <2> QED BY <1>28, <2>1 DEF refused, Stamped, Done, TypeOK
<1>29. CASE closeApplied
  <2>1. closeTx' \in BOOLEAN
    BY <1>29, Zenon DEF closeApplied, TypeOK
  <2> QED BY <1>29, <2>1 DEF closeApplied, TypeOK
<1>30. CASE settleApplied
  BY <1>30 DEF settleApplied, Settleable, TypeOK
<1>31. CASE expired
  <2>1. closeTx' \in BOOLEAN
    BY <1>31, Zenon DEF expired, TypeOK
  <2> QED BY <1>31, <2>1 DEF expired, TypeOK
<1>32. CASE UNCHANGED vars
  BY <1>32 DEF vars, TypeOK
<1> QED
  BY <1>1, <1>2, <1>3, <1>4, <1>5, <1>6, <1>7, <1>8, <1>9, <1>10, <1>11, <1>12, <1>13,
         <1>14, <1>15, <1>16, <1>17, <1>18, <1>19, <1>20, <1>21, <1>22, <1>23, <1>24, <1>25,
         <1>26, <1>27, <1>28, <1>29, <1>30, <1>31, <1>32 DEF Next, Request, Relay, Admin,
         Worker, Network

\* Initially nothing is settled anywhere.
LEMMA InitInv == Init => Inv /\ BookInv
<1> SUFFICES ASSUME Init PROVE Inv /\ BookInv
  OBVIOUS
<1>1. {windowOpen, settleFailed, late, adopted, closeTx} \subseteq BOOLEAN
  BY Zenon DEF Init
<1>2. TypeOK
  BY <1>1, BoundsAssumption DEF Init, TypeOK, RowStatuses, WorkerSteps
<1> QED
  BY <1>2, NothingWins
     DEF Init, Inv, Phase, SettledOnChainFirst, Rows, RowHistory, ClearedRows, WereEscrowed,
         OutcomeHeld, BookInv, BookFinal, Frozen, Agreed, NoneWon, ReceiptsMatchChain,
         SettledBookClosed, Inflight, Escrowed, RowsIn

\* Every step preserves the relation of attempt, contract and database.
LEMMA NextPhase ==
  ASSUME TypeOK, Phase, SettledOnChainFirst, [Next]_vars
  PROVE  Phase' /\ SettledOnChainFirst'
<1> USE DEF TypeOK, Phase, SettledOnChainFirst, WorkerSteps, dbVars, requestVars, workerVars,
            chainVars, networkVars
<1>1. CASE closeWindow
  BY <1>1 DEF closeWindow
<1>2. ASSUME NEW b \in Bids, assertBiddable(b) PROVE Phase' /\ SettledOnChainFirst'
  BY <1>2 DEF assertBiddable
<1>3. ASSUME NEW b \in Bids, insertSubmitted(b) PROVE Phase' /\ SettledOnChainFirst'
  BY <1>3 DEF insertSubmitted, CommitsLate
<1>4. ASSUME NEW b \in Bids, assertCancelable(b) PROVE Phase' /\ SettledOnChainFirst'
  BY <1>4 DEF assertCancelable
<1>5. ASSUME NEW b \in Bids, casCanceling(b) PROVE Phase' /\ SettledOnChainFirst'
  BY <1>5 DEF casCanceling, CommitsLate
<1>6. ASSUME NEW b \in Bids, submitLands(b) PROVE Phase' /\ SettledOnChainFirst'
  BY <1>6 DEF submitLands
<1>7. ASSUME NEW b \in Bids, casEscrowed(b) PROVE Phase' /\ SettledOnChainFirst'
  BY <1>7 DEF casEscrowed
<1>8. ASSUME NEW b \in Bids, casFailed(b) PROVE Phase' /\ SettledOnChainFirst'
  BY <1>8 DEF casFailed
<1>9. ASSUME NEW b \in Bids, cancelLands(b) PROVE Phase' /\ SettledOnChainFirst'
  BY <1>9 DEF cancelLands
<1>10. ASSUME NEW b \in Bids, casCanceled(b) PROVE Phase' /\ SettledOnChainFirst'
  BY <1>10 DEF casCanceled
<1>11. ASSUME NEW b \in Bids, casCancelFailedBackToEscrowed(b) PROVE Phase' /\ SettledOnChainFirst'
  BY <1>11 DEF casCancelFailedBackToEscrowed
<1>12. CASE settleGates
  BY <1>12 DEF settleGates
<1>13. CASE casSubscribed
  BY <1>13 DEF casSubscribed, Enqueued
<1>14. CASE reclaim
  BY <1>14 DEF reclaim, Enqueued
<1>15. CASE reconcile
  BY <1>15 DEF reconcile
<1>16. CASE takeJob
  BY <1>16 DEF takeJob, Goto, Done
<1>17. CASE readStatus
  BY <1>17 DEF readStatus, Goto
<1>18. CASE closeOffering
  BY <1>18 DEF closeOffering, Goto, Requeued, Done, Enqueued
<1>19. CASE closeConfirmed
  BY <1>19 DEF closeConfirmed, Goto
<1>20. CASE assertBookFinal
  BY <1>20 DEF assertBookFinal, Goto, Requeued, Done, Enqueued
<1>21. CASE computeClearing
  BY <1>21 DEF computeClearing, Stamped, Done
<1>22. CASE closeAndSettle
  BY <1>22 DEF closeAndSettle, Goto
<1>23. CASE simulateAndSend
  BY <1>23 DEF simulateAndSend, Settleable, Goto, Requeued, Done, Enqueued, Stamped
<1>24. CASE settleConfirmed
  BY <1>24 DEF settleConfirmed, Goto
<1>25. CASE pollTimeout
  BY <1>25 DEF pollTimeout, Requeued, Done, Enqueued
<1>26. CASE persist
  BY <1>26 DEF persist, Consistent, Stamped, Done
<1>27. CASE interrupted
  BY <1>27 DEF interrupted, Requeued, Done, Enqueued
<1>28. CASE refused
  BY <1>28 DEF refused, Stamped, Done
<1>29. CASE closeApplied
  BY <1>29 DEF closeApplied
<1>30. CASE settleApplied
  BY <1>30 DEF settleApplied, Settleable
<1>31. CASE expired
  BY <1>31 DEF expired
<1>32. CASE UNCHANGED vars
  BY <1>32 DEF vars
<1> QED
  BY <1>1, <1>2, <1>3, <1>4, <1>5, <1>6, <1>7, <1>8, <1>9, <1>10, <1>11, <1>12, <1>13,
     <1>14, <1>15, <1>16, <1>17, <1>18, <1>19, <1>20, <1>21, <1>22, <1>23, <1>24, <1>25,
     <1>26, <1>27, <1>28, <1>29, <1>30, <1>31, <1>32
     DEF Next, Request, Relay, Admin, Worker, Network

\* A step that leaves the bids alone, on chain and in the database, and plans or sends no clearing
\* but of bids that were escrowed.
LEMMA RowsStay ==
  ASSUME Rows, UNCHANGED <<row, req, active, refunded, cancels, outcome>>,
         WereEscrowed(plan'), WereEscrowed(settleTx'), escrow' # "Settled" => escrow # "Settled"
  PROVE  Rows'
<1>1. RowHistory'
  BY DEF Rows, RowHistory
<1>2. ClearedRows'
  BY DEF Rows, ClearedRows, WereEscrowed, Winners
<1>3. OutcomeHeld'
  BY DEF Rows, OutcomeHeld, Winners
<1> QED
  BY <1>1, <1>2, <1>3 DEF Rows

\* A step of a request or relay that moves a bid along: its row stays escrowed if it was, and the
\* contract gives back only before it settles.
LEMMA RowsMove ==
  ASSUME TypeOK, Rows, RowHistory', UNCHANGED <<plan, settleTx, outcome, escrow>>,
         \A b \in Bids : row[b] \notin Before => row'[b] \notin Before,
         escrow = "Settled" => refunded' = refunded
  PROVE  Rows'
<1>1. /\ Winners(plan) \subseteq Bids /\ Winners(settleTx) \subseteq Bids
      /\ Winners(outcome) \subseteq Bids
  BY ClearedAreBids DEF TypeOK
<1>2. ClearedRows'
  BY <1>1 DEF Rows, ClearedRows, WereEscrowed, Winners
<1>3. OutcomeHeld'
  BY NothingWins DEF Rows, OutcomeHeld, Winners
<1> QED
  BY <1>2, <1>3 DEF Rows

\* Every step preserves what the rows remember.
LEMMA NextRows == ASSUME TypeOK, Rows, [Next]_vars PROVE Rows'
<1>n. WereEscrowed(Nothing)
  BY NothingWins DEF WereEscrowed
<1>w. WereEscrowed(plan) /\ WereEscrowed(settleTx)
  BY DEF Rows, ClearedRows
<1>1. ASSUME NEW b \in Bids, Request(b) PROVE Rows'
  <2>1. RowHistory'
    BY <1>1 DEF Request, assertBiddable, insertSubmitted, assertCancelable, casCanceling, TypeOK,
       RowStatuses, Rows, RowHistory, Before, dbVars, chainVars, networkVars
  <2>2. UNCHANGED <<plan, settleTx, outcome, escrow, refunded>>
    BY <1>1, Zenon DEF Request, assertBiddable, insertSubmitted, assertCancelable, casCanceling,
       workerVars, chainVars, networkVars
  <2>3. \A c \in Bids : row[c] \notin Before => row'[c] \notin Before
    BY <1>1 DEF Request, assertBiddable, insertSubmitted, assertCancelable, casCanceling, TypeOK,
       Rows, RowHistory, Before, dbVars
  <2> QED
    BY <2>1, <2>2, <2>3, RowsMove
<1>2. ASSUME NEW b \in Bids, Relay(b) PROVE Rows'
  <2>1. RowHistory'
    BY <1>2 DEF Relay, submitLands, casEscrowed, casFailed, cancelLands, casCanceled,
       casCancelFailedBackToEscrowed, TypeOK, RowStatuses, Rows, RowHistory, Before, dbVars,
       requestVars, chainVars, networkVars
  <2>2. /\ UNCHANGED <<plan, settleTx, outcome, escrow>>
        /\ escrow = "Settled" => refunded' = refunded
    BY <1>2, Zenon DEF Relay, submitLands, casEscrowed, casFailed, cancelLands, casCanceled,
       casCancelFailedBackToEscrowed, workerVars, chainVars, networkVars
  <2>3. \A c \in Bids : row[c] \notin Before => row'[c] \notin Before
    BY <1>2 DEF Relay, submitLands, casEscrowed, casFailed, cancelLands, casCanceled,
       casCancelFailedBackToEscrowed, TypeOK, Before, dbVars
  <2> QED
    BY <2>1, <2>2, <2>3, RowsMove
<1>3. CASE closeWindow \/ Admin \/ reconcile \/ refused \/ interrupted \/ closeApplied \/ expired
  <2>1. /\ UNCHANGED <<row, req, active, refunded, cancels, outcome>>
        /\ plan' \in {plan, Nothing} /\ settleTx' \in {settleTx, Nothing}
        /\ escrow' # "Settled" => escrow # "Settled"
    BY <1>3 DEF closeWindow, Admin, settleGates, casSubscribed, reclaim, reconcile, refused,
       interrupted, closeApplied, expired, Stamped, Requeued, Done, dbVars, requestVars,
       workerVars, chainVars, networkVars
  <2> QED
    BY <1>n, <1>w, <2>1, RowsStay
<1>4. CASE takeJob \/ readStatus \/ closeOffering \/ closeConfirmed \/ assertBookFinal
           \/ closeAndSettle \/ simulateAndSend \/ settleConfirmed \/ pollTimeout
  <2>1. /\ UNCHANGED <<row, req, active, refunded, cancels, outcome, escrow>>
        /\ plan' \in {plan, Nothing} /\ settleTx' \in {settleTx, Nothing, plan}
    BY <1>4 DEF takeJob, readStatus, closeOffering, closeConfirmed, assertBookFinal,
       closeAndSettle, simulateAndSend, settleConfirmed, pollTimeout, Goto, Requeued, Done,
       Stamped, dbVars, requestVars, workerVars, chainVars, networkVars
  <2> QED
    BY <1>n, <1>w, <2>1, RowsStay
<1>5. CASE computeClearing
  <2>1. /\ UNCHANGED <<row, req, active, refunded, cancels, outcome, escrow, settleTx>>
        /\ plan' = Nothing \/ (Clearable(Escrowed) /\ plan' = Clear(Escrowed))
    BY <1>5 DEF computeClearing, Stamped, Done, dbVars, requestVars, chainVars, networkVars
  <2>2. Clearable(Escrowed) => WereEscrowed(Clear(Escrowed))
    <3>1. Escrowed \in SUBSET Bids /\ \A b \in Escrowed : row[b] = "escrowed"
      BY DEF Escrowed, RowsIn
    <3> QED
      BY <3>1, ClearedAreBids DEF WereEscrowed, Before
  <2> QED
    BY <1>n, <1>w, <2>1, <2>2, RowsStay
<1>6. CASE persist
  <2>1. UNCHANGED <<req, active, refunded, cancels, outcome, escrow, settleTx>> /\ plan' = Nothing
    BY <1>6 DEF persist, Done, requestVars, chainVars, networkVars
  <2>2. /\ Winners(plan) \subseteq Bids /\ Winners(settleTx) \subseteq Bids
        /\ Winners(outcome) \subseteq Bids
    BY ClearedAreBids DEF TypeOK
  <2>3. ASSUME NEW b \in Bids
        PROVE  row'[b] = row[b] \/ (row[b] \notin Before /\ row'[b] \in {"won", "lost"})
    BY <1>6, <1>w, <2>2 DEF persist, Stamped, dbVars, TypeOK, WereEscrowed, Before
  <2>4. RowHistory'
    BY <2>1, <2>3 DEF Rows, RowHistory, Before
  <2>5. ClearedRows'
    <3>1. WereEscrowed(settleTx)' /\ WereEscrowed(outcome)'
      BY <2>1, <2>2, <2>3 DEF Rows, ClearedRows, WereEscrowed, Winners, Before
    <3>2. Winners(plan)' = {}
      BY <2>1, NothingWins DEF Winners
    <3> QED
      BY <3>1, <3>2 DEF ClearedRows, WereEscrowed
  <2>6. OutcomeHeld'
    BY <2>1 DEF Rows, OutcomeHeld, Winners
  <2> QED
    BY <2>4, <2>5, <2>6 DEF Rows
<1>7. CASE settleApplied
  <2>1. UNCHANGED <<row, req, refunded, cancels, plan>> /\ settleTx' = Nothing
    BY <1>7 DEF settleApplied, dbVars, requestVars, workerVars
  <2>2. CASE Settleable(settleTx)
    <3>1. escrow' = "Settled" /\ active' = {} /\ outcome' = settleTx
      BY <1>7, <2>2 DEF settleApplied
    <3>2. RowHistory'
      BY <2>1, <3>1 DEF Rows, RowHistory
    <3>3. ClearedRows'
      BY <1>n, <2>1, <3>1 DEF Rows, ClearedRows, WereEscrowed, Winners
    <3>4. OutcomeHeld'
      <4>1. Winners(settleTx) \subseteq active /\ active \subseteq Bids
        BY <2>2 DEF Settleable, TypeOK
      <4> QED
        BY <2>1, <3>1, <4>1 DEF OutcomeHeld, Rows, RowHistory, Winners
    <3> QED
      BY <3>2, <3>3, <3>4 DEF Rows
  <2>3. CASE ~Settleable(settleTx)
    BY <1>7, <1>n, <1>w, <2>1, <2>3, RowsStay DEF settleApplied
  <2> QED
    BY <2>2, <2>3
<1>8. CASE UNCHANGED vars
  BY <1>8, <1>w, RowsStay DEF vars
<1> QED
  BY <1>1, <1>2, <1>3, <1>4, <1>5, <1>6, <1>7, <1>8 DEF Next, Worker, Network

\* Every step preserves the unconditional part.
LEMMA NextInv == Inv /\ [Next]_vars => Inv'
BY TypeStep, NextPhase, NextRows DEF Inv

\* A commit after the latch is never forgotten.
LEMMA LateStays == [Next]_vars /\ late => late'
<1> SUFFICES ASSUME [Next]_vars, late PROVE late'
  OBVIOUS
<1>1. ASSUME NEW b \in Bids, Request(b) PROVE late'
  BY <1>1, Zenon DEF Request, assertBiddable, insertSubmitted, assertCancelable, casCanceling,
         CommitsLate
<1>2. ASSUME NEW b \in Bids, Relay(b) PROVE late'
  BY <1>2, Zenon DEF Relay, submitLands, casEscrowed, casFailed, cancelLands, casCanceled,
         casCancelFailedBackToEscrowed, requestVars
<1>3. CASE closeWindow \/ Admin \/ reconcile \/ interrupted \/ refused \/ Network \/ expired
  BY <1>3, Zenon DEF closeWindow, Admin, settleGates, casSubscribed, reclaim, reconcile,
         interrupted, refused, Network, closeApplied, settleApplied, expired, requestVars
<1>4. CASE Worker
  BY <1>4, Zenon DEF Worker, takeJob, readStatus, closeOffering, closeConfirmed,
         assertBookFinal, computeClearing, closeAndSettle, simulateAndSend, settleConfirmed,
         pollTimeout, persist, requestVars
<1>5. CASE UNCHANGED vars
  BY <1>5, Zenon DEF vars
<1> QED BY <1>1, <1>2, <1>3, <1>4, <1>5 DEF Next

\* Every step preserves the agreement of plan, contract and receipts until a request commits
\* after the latch: before that, no row changes from the in-flight check to persist.
LEMMA NextBookInv == Inv /\ (late \/ BookInv) /\ [Next]_vars => late' \/ BookInv'
<1> SUFFICES ASSUME Inv, late \/ BookInv, [Next]_vars, ~late' PROVE BookInv'
  OBVIOUS
<1>a. ~late
  BY LateStays
<1>b. BookInv
  BY <1>a
<1> USE <1>b
<1> USE DEF dbVars, requestVars, workerVars, chainVars, networkVars, RowStatuses, WorkerSteps,
            RowsIn, Escrowed, Inflight, Winners
<1>1. CASE closeWindow
  BY <1>1 DEF closeWindow, Inv, BookInv, TypeOK, Phase, SettledOnChainFirst, Frozen,
         BookFinal, Agreed, NoneWon, ReceiptsMatchChain, SettledBookClosed
<1>2. ASSUME NEW b \in Bids, assertBiddable(b) PROVE BookInv'
  BY <1>2 DEF assertBiddable, Inv, BookInv, TypeOK, Phase, SettledOnChainFirst, Frozen,
         BookFinal, Agreed, NoneWon, ReceiptsMatchChain, SettledBookClosed
<1>3. ASSUME NEW b \in Bids, insertSubmitted(b) PROVE BookInv'
  <2>1. offering = "opened"
    BY <1>3, Zenon DEF insertSubmitted, CommitsLate
  <2> QED BY <1>3, <2>1 DEF insertSubmitted, CommitsLate, Inv, BookInv, TypeOK, Phase,
         SettledOnChainFirst, Frozen, BookFinal, Agreed, NoneWon, ReceiptsMatchChain,
         SettledBookClosed
<1>4. ASSUME NEW b \in Bids, assertCancelable(b) PROVE BookInv'
  BY <1>4 DEF assertCancelable, Inv, BookInv, TypeOK, Phase, SettledOnChainFirst, Frozen,
         BookFinal, Agreed, NoneWon, ReceiptsMatchChain, SettledBookClosed
<1>5. ASSUME NEW b \in Bids, casCanceling(b) PROVE BookInv'
  <2>1. offering = "opened"
    BY <1>5, Zenon DEF casCanceling, CommitsLate
  <2> QED BY <1>5, <2>1 DEF casCanceling, CommitsLate, Inv, BookInv, TypeOK, Phase,
         SettledOnChainFirst, Frozen, BookFinal, Agreed, NoneWon, ReceiptsMatchChain,
         SettledBookClosed
<1>6. ASSUME NEW b \in Bids, submitLands(b) PROVE BookInv'
  BY <1>6 DEF submitLands, Inv, BookInv, TypeOK, Phase, SettledOnChainFirst, Frozen,
         BookFinal, Agreed, NoneWon, ReceiptsMatchChain, SettledBookClosed
<1>7. ASSUME NEW b \in Bids, casEscrowed(b) PROVE BookInv'
  BY <1>7 DEF casEscrowed, Inv, BookInv, TypeOK, Phase, SettledOnChainFirst, Frozen,
         BookFinal, Agreed, NoneWon, ReceiptsMatchChain, SettledBookClosed
<1>8. ASSUME NEW b \in Bids, casFailed(b) PROVE BookInv'
  BY <1>8 DEF casFailed, Inv, BookInv, TypeOK, Phase, SettledOnChainFirst, Frozen,
         BookFinal, Agreed, NoneWon, ReceiptsMatchChain, SettledBookClosed
<1>9. ASSUME NEW b \in Bids, cancelLands(b) PROVE BookInv'
  BY <1>9 DEF cancelLands, Inv, BookInv, TypeOK, Phase, SettledOnChainFirst, Frozen,
         BookFinal, Agreed, NoneWon, ReceiptsMatchChain, SettledBookClosed
<1>10. ASSUME NEW b \in Bids, casCanceled(b) PROVE BookInv'
  BY <1>10 DEF casCanceled, Inv, BookInv, TypeOK, Phase, SettledOnChainFirst, Frozen,
         BookFinal, Agreed, NoneWon, ReceiptsMatchChain, SettledBookClosed
<1>11. ASSUME NEW b \in Bids, casCancelFailedBackToEscrowed(b) PROVE BookInv'
  BY <1>11 DEF casCancelFailedBackToEscrowed, Inv, BookInv, TypeOK, Phase,
         SettledOnChainFirst, Frozen, BookFinal, Agreed, NoneWon, ReceiptsMatchChain,
         SettledBookClosed
<1>12. CASE settleGates
  BY <1>12 DEF settleGates, Inv, BookInv, TypeOK, Phase, SettledOnChainFirst, Frozen,
         BookFinal, Agreed, NoneWon, ReceiptsMatchChain, SettledBookClosed
<1>13. CASE casSubscribed
  BY <1>13 DEF casSubscribed, Enqueued, Inv, BookInv, TypeOK, Phase, SettledOnChainFirst,
         Frozen, BookFinal, Agreed, NoneWon, ReceiptsMatchChain, SettledBookClosed
<1>14. CASE reclaim
  BY <1>14 DEF reclaim, Enqueued, Inv, BookInv, TypeOK, Phase, SettledOnChainFirst, Frozen,
         BookFinal, Agreed, NoneWon, ReceiptsMatchChain, SettledBookClosed
<1>15. CASE reconcile
  BY <1>15 DEF reconcile, Inv, BookInv, TypeOK, Phase, SettledOnChainFirst, Frozen,
         BookFinal, Agreed, NoneWon, ReceiptsMatchChain, SettledBookClosed
<1>16. CASE takeJob
  BY <1>16 DEF takeJob, Goto, Done, Inv, BookInv, TypeOK, Phase, SettledOnChainFirst,
         Frozen, BookFinal, Agreed, NoneWon, ReceiptsMatchChain, SettledBookClosed
<1>17. CASE readStatus
  BY <1>17 DEF readStatus, Goto, Inv, BookInv, TypeOK, Phase, SettledOnChainFirst, Frozen,
         BookFinal, Agreed, NoneWon, ReceiptsMatchChain, SettledBookClosed
<1>18. CASE closeOffering
  BY <1>18 DEF closeOffering, Goto, Requeued, Done, Enqueued, Inv, BookInv, TypeOK, Phase,
         SettledOnChainFirst, Frozen, BookFinal, Agreed, NoneWon, ReceiptsMatchChain,
         SettledBookClosed
<1>19. CASE closeConfirmed
  BY <1>19 DEF closeConfirmed, Goto, Inv, BookInv, TypeOK, Phase, SettledOnChainFirst,
         Frozen, BookFinal, Agreed, NoneWon, ReceiptsMatchChain, SettledBookClosed
<1>20. CASE assertBookFinal
  BY <1>20 DEF assertBookFinal, Goto, Requeued, Done, Enqueued, Inv, BookInv, TypeOK, Phase,
         SettledOnChainFirst, Frozen, BookFinal, Agreed, NoneWon, ReceiptsMatchChain,
         SettledBookClosed
<1>21. CASE computeClearing
  <2>1. Frozen'
    BY <1>21 DEF computeClearing, Stamped, Done, Inv, BookInv, TypeOK, Phase, Frozen,
           BookFinal
  <2>2. Agreed'
    BY <1>21 DEF computeClearing, Stamped, Done, Inv, BookInv, TypeOK, Phase, Frozen,
           BookFinal, Agreed
  <2>3. NoneWon'
    BY <1>21 DEF computeClearing, Stamped, Done, Inv, BookInv, TypeOK, Phase, NoneWon
  <2>4. ReceiptsMatchChain'
    BY <1>21 DEF computeClearing, Stamped, Done, Inv, BookInv, TypeOK, Phase, Frozen,
           BookFinal, Agreed, NoneWon, ReceiptsMatchChain, SettledOnChainFirst
  <2>5. SettledBookClosed'
    BY <1>21 DEF computeClearing, Stamped, Done, Inv, BookInv, TypeOK, Phase, Frozen,
           BookFinal, SettledBookClosed, SettledOnChainFirst
  <2> QED BY <2>1, <2>2, <2>3, <2>4, <2>5 DEF BookInv
<1>22. CASE closeAndSettle
  BY <1>22 DEF closeAndSettle, Goto, Inv, BookInv, TypeOK, Phase, SettledOnChainFirst,
         Frozen, BookFinal, Agreed, NoneWon, ReceiptsMatchChain, SettledBookClosed
<1>23. CASE simulateAndSend
  <2>1. Frozen'
    BY <1>23 DEF simulateAndSend, Settleable, Goto, Requeued, Done, Enqueued, Stamped, Inv,
           BookInv, TypeOK, Phase, Frozen, BookFinal
  <2>2. Agreed'
    BY <1>23 DEF simulateAndSend, Settleable, Goto, Requeued, Done, Enqueued, Stamped, Inv,
           BookInv, TypeOK, Phase, Frozen, BookFinal, Agreed
  <2>3. NoneWon'
    BY <1>23 DEF simulateAndSend, Settleable, Goto, Requeued, Done, Enqueued, Stamped, Inv,
           BookInv, TypeOK, Phase, NoneWon
  <2>4. ReceiptsMatchChain'
    BY <1>23 DEF simulateAndSend, Settleable, Goto, Requeued, Done, Enqueued, Stamped, Inv,
           BookInv, TypeOK, Phase, Frozen, BookFinal, Agreed, NoneWon, ReceiptsMatchChain,
           SettledOnChainFirst
  <2>5. SettledBookClosed'
    BY <1>23 DEF simulateAndSend, Settleable, Goto, Requeued, Done, Enqueued, Stamped, Inv,
           BookInv, TypeOK, Phase, Frozen, BookFinal, SettledBookClosed, SettledOnChainFirst
  <2> QED BY <2>1, <2>2, <2>3, <2>4, <2>5 DEF BookInv
<1>24. CASE settleConfirmed
  BY <1>24 DEF settleConfirmed, Goto, Inv, BookInv, TypeOK, Phase, SettledOnChainFirst,
         Frozen, BookFinal, Agreed, NoneWon, ReceiptsMatchChain, SettledBookClosed
<1>25. CASE pollTimeout
  BY <1>25 DEF pollTimeout, Requeued, Done, Enqueued, Inv, BookInv, TypeOK, Phase,
         SettledOnChainFirst, Frozen, BookFinal, Agreed, NoneWon, ReceiptsMatchChain,
         SettledBookClosed
<1>26. CASE persist
  <2>1. Frozen'
    BY <1>26 DEF persist, Consistent, Stamped, Done, Inv, BookInv, TypeOK, Phase, Frozen,
           BookFinal
  <2>2. Agreed'
    BY <1>26 DEF persist, Consistent, Stamped, Done, Inv, BookInv, TypeOK, Phase, Frozen,
           BookFinal, Agreed
  <2>3. NoneWon'
    BY <1>26 DEF persist, Consistent, Stamped, Done, Inv, BookInv, TypeOK, Phase, NoneWon
  <2>4. ReceiptsMatchChain'
    BY <1>26 DEF persist, Consistent, Stamped, Done, Inv, BookInv, TypeOK, Phase, Frozen,
           BookFinal, Agreed, NoneWon, ReceiptsMatchChain, SettledOnChainFirst
  <2>5. SettledBookClosed'
    BY <1>26 DEF persist, Consistent, Stamped, Done, Inv, BookInv, TypeOK, Phase, Frozen,
           BookFinal, SettledBookClosed, SettledOnChainFirst
  <2> QED BY <2>1, <2>2, <2>3, <2>4, <2>5 DEF BookInv
<1>27. CASE interrupted
  BY <1>27 DEF interrupted, Requeued, Done, Enqueued, Inv, BookInv, TypeOK, Phase,
         SettledOnChainFirst, Frozen, BookFinal, Agreed, NoneWon, ReceiptsMatchChain,
         SettledBookClosed
<1>28. CASE refused
  BY <1>28 DEF refused, Stamped, Done, Inv, BookInv, TypeOK, Phase, SettledOnChainFirst,
         Frozen, BookFinal, Agreed, NoneWon, ReceiptsMatchChain, SettledBookClosed
<1>29. CASE closeApplied
  BY <1>29 DEF closeApplied, Inv, BookInv, TypeOK, Phase, SettledOnChainFirst, Frozen,
         BookFinal, Agreed, NoneWon, ReceiptsMatchChain, SettledBookClosed
<1>30. CASE settleApplied
  <2>1. Frozen'
    BY <1>30 DEF settleApplied, Settleable, Inv, BookInv, TypeOK, Phase, Frozen, BookFinal
  <2>2. Agreed'
    BY <1>30 DEF settleApplied, Settleable, Inv, BookInv, TypeOK, Phase, Frozen, BookFinal,
           Agreed
  <2>3. NoneWon'
    BY <1>30 DEF settleApplied, Settleable, Inv, BookInv, TypeOK, Phase, NoneWon
  <2>4. ReceiptsMatchChain'
    BY <1>30 DEF settleApplied, Settleable, Inv, BookInv, TypeOK, Phase, Frozen, BookFinal,
           Agreed, NoneWon, ReceiptsMatchChain, SettledOnChainFirst
  <2>5. SettledBookClosed'
    BY <1>30 DEF settleApplied, Settleable, Inv, BookInv, TypeOK, Phase, Frozen, BookFinal,
           SettledBookClosed, SettledOnChainFirst
  <2> QED BY <2>1, <2>2, <2>3, <2>4, <2>5 DEF BookInv
<1>31. CASE expired
  BY <1>31 DEF expired, Inv, BookInv, TypeOK, Phase, SettledOnChainFirst, Frozen, BookFinal,
         Agreed, NoneWon, ReceiptsMatchChain, SettledBookClosed
<1>32. CASE UNCHANGED vars
  BY <1>32 DEF vars, Inv, BookInv, TypeOK, Phase, SettledOnChainFirst, Frozen, BookFinal,
         Agreed, NoneWon, ReceiptsMatchChain, SettledBookClosed
<1> QED
  BY <1>1, <1>2, <1>3, <1>4, <1>5, <1>6, <1>7, <1>8, <1>9, <1>10, <1>11, <1>12, <1>13,
         <1>14, <1>15, <1>16, <1>17, <1>18, <1>19, <1>20, <1>21, <1>22, <1>23, <1>24, <1>25,
         <1>26, <1>27, <1>28, <1>29, <1>30, <1>31, <1>32 DEF Next, Request, Relay, Admin,
         Worker, Network

\* The inductive invariant holds throughout, whether or not a request commits after the latch.
THEOREM Invariance == Spec => []Inv
BY InitInv, NextInv, PTL DEF Spec

\* The tables, the queue, the worker and the contract are well typed.
THEOREM TypeCorrect == Spec => []TypeOK
<1>1. Inv => TypeOK
  BY DEF Inv
<1> QED BY <1>1, Invariance, PTL

\* persist commits only what close_and_settle has executed, for the code as it is: requests may
\* outlive the latch.
THEOREM ChainFirst == Spec => []SettledOnChainFirst
<1>1. Inv => SettledOnChainFirst
  BY DEF Inv
<1> QED BY <1>1, Invariance, PTL

\* close_and_settle allocates nothing to a bid that was refunded, or whose row is or will be failed
\* or canceled, for workers that misjudge a retry and for requests that outlive the latch.
THEOREM ReleasedBidsNeverWin == Spec => []ReleasedNeverWins
<1>1. Inv => ReleasedNeverWins
  <2> SUFFICES ASSUME Inv, NEW b \in Winners(outcome)
               PROVE  b \notin refunded /\ row[b] \notin {"failed", "canceled"}
    BY DEF ReleasedNeverWins
  <2>1. b \in Bids
    BY ClearedAreBids DEF Inv, TypeOK
  <2>2. b \notin refunded /\ row[b] \notin Before
    BY DEF Inv, Rows, OutcomeHeld, ClearedRows, WereEscrowed
  <2> QED
    BY <2>1, <2>2 DEF Inv, Rows, RowHistory, Before
<1> QED BY <1>1, Invariance, PTL

\* Until a request commits after the latch, the book is final from the in-flight check on.
THEOREM BookInvariance == Spec => [](late \/ BookInv)
<1>1. Inv /\ (late \/ BookInv) /\ [Next]_vars => (late \/ BookInv)'
  BY NextBookInv
<1> QED BY <1>1, InitInv, Invariance, PTL DEF Spec

\* Then the receipts persist writes, recomputed by an adopted attempt or not, are what
\* close_and_settle settled.
THEOREM ReceiptsAgree == Spec => []ReceiptsMatchChain
<1>1. late \/ BookInv => ReceiptsMatchChain
  BY Zenon DEF BookInv, ReceiptsMatchChain
<1> QED BY <1>1, BookInvariance, PTL

\* Then persist leaves no bid in a state that promises a later money movement.
THEOREM BookIsClosed == Spec => []SettledBookClosed
<1>1. late \/ BookInv => SettledBookClosed
  BY Zenon DEF BookInv, SettledBookClosed
<1> QED BY <1>1, BookInvariance, PTL

-----------------------------------------------------------------------------
(***************************************************************************)
(* WalletDrain.                                                            *)
(***************************************************************************)
\* An item is none at all, or a numbered build of a positive amount.
ItemRecords ==
  {h \in [st : {"none", "pending", "submitted", "confirmed", "failed"}, amt : 0..MaxBal,
          build : 0..MaxBuilds] :
     h # NoItem => h.st # "none" /\ h.amt > 0 /\ h.build > 0}
Sheets   == [Tokens -> ItemRecords]
Openings == [at : {"idle", "checked", "build"}, snap : [Tokens -> 0..MaxBal],
             skip : SUBSET Tokens, built : SUBSET Tokens]
Runs     == [at : {"idle", "loop", "send", "poll", "finalize"}, t : Tokens, mem : Sheets,
             zero : BOOLEAN]
Readings == [at : {"idle", "failed", "rows", "items"}, drained : SUBSET Tokens, mem : Sheets]

\* Types, by what the actions leave alone together; a request that sends has an item to send.
ParentTyped ==
  /\ feature \in {"rotation", "export"} /\ wallet \in {"active", "exported"}
  /\ drain \in {"none", "pending", "submitting", "completed", "canceled"}
  /\ canceling \in BOOLEAN
ItemsTyped   == item \in Sheets
CustodyTyped == custody \in [Tokens -> 0..MaxBal]
OpeningTyped == opening \in Openings /\ shown \subseteq Tokens
RunsTyped ==
  /\ run \in [Requests -> Runs]
  /\ \A r \in Requests : run[r].at \in {"send", "poll"} => run[r].mem[run[r].t] # NoItem
ReadingTyped == reading \in Readings
NetworkTyped ==
  /\ live \subseteq Builds /\ landed \subseteq Builds
  /\ tx = NoTx \/ tx \in [build : live, amt : 1..MaxBal]
EventsTyped == spent \subseteq Tokens /\ added \subseteq Tokens /\ events \in 0..MaxEvents

\* The fractions there are: one each at most to begin with, and what was received.
FractionsCounted ==
  /\ bal \in [Tokens -> Nat] /\ moved \in [Tokens -> Nat]
  /\ \A t \in Tokens : bal[t] + moved[t] <= 1 + events

DrainTypes ==
  /\ ParentTyped /\ ItemsTyped /\ CustodyTyped /\ OpeningTyped /\ RunsTyped /\ ReadingTyped
  /\ NetworkTyped /\ EventsTyped /\ FractionsCounted

\* Builds are numbered: no copy, envelope or transaction is ahead of the item.
Numbered ==
  /\ \A r \in Requests : \A t \in Tokens : run[r].mem[t].build <= item[t].build
  /\ \A t \in Tokens : reading.mem[t].build <= item[t].build
  /\ \A b \in live \cup landed : b[2] <= item[b[1]].build
  /\ \A t \in opening.built : item[t].build > 0

\* A build has one amount, in the item, in the copies and in the transaction.
AmountIs(A, t, h) == h.build > 0 => h.amt = A[<<t, h.build>>]
AmountsAre(A) ==
  /\ \A t \in Tokens : AmountIs(A, t, item[t]) /\ AmountIs(A, t, reading.mem[t])
  /\ \A r \in Requests : \A t \in Tokens : AmountIs(A, t, run[r].mem[t])
  /\ tx # NoTx => tx.amt = A[tx.build]
  /\ \A b \in landed : A[b] <= moved[b[1]]
OneAmount == \E A \in [Builds -> 1..MaxBal] : AmountsAre(A)

\* What was snapshotted was there, and is there still or has been moved, unless it was spent.
SnapshotsHeld ==
  \A t \in Tokens \ spent :
    /\ opening.snap[t] <= bal[t] + moved[t] /\ item[t].amt <= bal[t] + moved[t]
    /\ reading.mem[t].amt <= bal[t] + moved[t]

\* What the status poll found drained has been moved.
DrainedMoved ==
  \A t \in reading.drained :
    reading.mem[t] # NoItem /\ (t \notin spent => reading.mem[t].amt <= moved[t])

\* The inductive invariant.  DrainTruthful is not inductive alone: a poll and a repair write what
\* their copies say, so a copy must be of a build whose amount the chain agrees with.
DrainInv == /\ DrainTypes /\ Numbered /\ OneAmount /\ SnapshotsHeld
            /\ DrainedMoved /\ DrainTruthful

-----------------------------------------------------------------------------
(***************************************************************************)
(* What a step of a drain may do to its rows and copies, building apart:   *)
(* the numbers and amounts of the builds come from where they were.        *)
(***************************************************************************)
SameBuild(h, g) == h.build = g.build /\ h.amt = g.amt
CopyFrom(h, g, t) == h.build = 0 \/ SameBuild(h, g) \/ SameBuild(h, item[t])

ItemsKept == \A t \in Tokens : SameBuild(item'[t], item[t])
RunsFrom  == \A r \in Requests : \A t \in Tokens : CopyFrom(run'[r].mem[t], run[r].mem[t], t)

ReadingFrom ==
  /\ \A t \in Tokens : CopyFrom(reading'.mem[t], reading.mem[t], t)
  /\ \A t \in reading'.drained :
       SameBuild(reading'.mem[t], reading.mem[t]) /\ t \in reading.drained \cup Drained

NetworkFrom ==
  /\ \/ tx' = tx \/ tx' = NoTx
     \/ \E r \in Requests :
          run[r].t \in Tokens /\ run[r].mem[run[r].t].build > 0 /\ tx' = Sent(r)
  /\ live' \subseteq live \cup {<<t, item[t].build>> : t \in opening.built}
  /\ \/ landed' = landed
     \/ landed' = landed \cup {tx.build} /\ tx # NoTx /\ tx.amt <= moved'[tx.build[1]]

SnapshotsFrom ==
  /\ \A t \in Tokens : opening'.snap[t] \in {0, opening.snap[t], bal[t]}
  /\ opening'.built \subseteq opening.built

\* The fractions the drain has moved or can move only grow, unless they are spent.
Grown ==
  /\ spent \subseteq spent' /\ added \subseteq added'
  /\ \A t \in Tokens : /\ moved'[t] >= moved[t]
                       /\ t \in spent' \/ bal'[t] + moved'[t] >= bal[t] + moved[t]

\* A row says no more than it did, or what the chain has moved.
RowsTrue ==
  \A t \in Tokens \ spent :
    /\ custody'[t] = custody[t] \/ custody'[t] <= moved[t]
    /\ item'[t].st = "confirmed" => item[t].st = "confirmed" \/ moved[t] > 0
    /\ drain' = "completed" => \/ drain = "completed" \/ item'[t].st = "confirmed"
                               \/ item'[t] = NoItem

DrainStep == /\ DrainTypes' /\ ItemsKept /\ RunsFrom /\ ReadingFrom /\ NetworkFrom
             /\ SnapshotsFrom /\ Grown /\ RowsTrue

-----------------------------------------------------------------------------
\* Types of the empty records; an item that is none has no build, and only that one.
LEMMA EmptyRecords ==
  /\ NoItem \in ItemRecords /\ NoRun \in Runs /\ NoReading \in Readings /\ NoOpening \in Openings
  /\ \A h \in ItemRecords : h.build = 0 <=> h = NoItem
  /\ \A h \in ItemRecords : h.st = "none" <=> h = NoItem
<1>1. NoItem \in ItemRecords
  BY WalletDrainAssumption DEF NoItem, ItemRecords, MaxBal
<1>2. /\ \A h \in ItemRecords : h.build = 0 <=> h = NoItem
      /\ \A h \in ItemRecords : h.st = "none" <=> h = NoItem
  BY WalletDrainAssumption DEF NoItem, ItemRecords, MaxBal
<1>3. (CHOOSE t \in Tokens : TRUE) \in Tokens
  BY WalletDrainAssumption
<1>4. NoRun \in Runs
  BY <1>1, <1>3 DEF NoRun, Runs, Sheets
<1>5. NoReading \in Readings /\ NoOpening \in Openings
  BY <1>1, WalletDrainAssumption DEF NoReading, Readings, Sheets, NoOpening, Openings, MaxBal
<1> QED
  BY <1>1, <1>2, <1>4, <1>5

\* The numbers, amounts and balances the invariant compares are naturals.
LEMMA Countables ==
  ASSUME DrainTypes, NEW t \in Tokens
  PROVE  /\ item[t] \in ItemRecords /\ item[t].build \in Nat /\ item[t].amt \in Nat
         /\ reading.mem[t].build \in Nat /\ reading.mem[t].amt \in Nat
         /\ \A r \in Requests : run[r].mem[t].build \in Nat /\ run[r].mem[t].amt \in Nat
         /\ opening.snap[t] \in Nat /\ custody[t] \in Nat /\ bal[t] \in Nat /\ moved[t] \in Nat
<1>1. \A h \in ItemRecords : h.build \in Nat /\ h.amt \in Nat
  BY WalletDrainAssumption DEF ItemRecords, MaxBal
<1>2. item[t] \in ItemRecords /\ reading.mem[t] \in ItemRecords
  BY DEF DrainTypes, ItemsTyped, ReadingTyped, Readings, Sheets
<1>3. \A r \in Requests : run[r].mem[t] \in ItemRecords
  BY DEF DrainTypes, RunsTyped, Runs, Sheets
<1>4. opening.snap[t] \in 0..MaxBal /\ custody[t] \in 0..MaxBal
  BY DEF DrainTypes, OpeningTyped, Openings, CustodyTyped
<1>5. bal[t] \in Nat /\ moved[t] \in Nat
  BY DEF DrainTypes, FractionsCounted
<1> QED
  BY <1>1, <1>2, <1>3, <1>4, <1>5, WalletDrainAssumption DEF MaxBal

\* The items with the status of one of them overwritten.
Restamped(its, t, s) == [its EXCEPT ![t].st = s]

\* A status written over an item leaves its build.
LEMMA RestampedSheet ==
  ASSUME NEW its \in Sheets, NEW t \in Tokens, its[t] # NoItem,
         NEW s \in {"pending", "submitted", "confirmed", "failed"}
  PROVE  /\ Restamped(its, t, s) \in Sheets
         /\ \A u \in Tokens : SameBuild(Restamped(its, t, s)[u], its[u])
         /\ \A u \in Tokens \ {t} : Restamped(its, t, s)[u] = its[u]
         /\ Restamped(its, t, s)[t].st = s
<1> DEFINE h == [its[t] EXCEPT !.st = s]
<1>1. its[t] \in ItemRecords
  BY DEF Sheets
<1>2. h \in ItemRecords /\ h.st = s /\ SameBuild(h, its[t])
  BY <1>1 DEF ItemRecords, SameBuild, NoItem
<1>3. Restamped(its, t, s) = [u \in Tokens |-> IF u = t THEN h ELSE its[u]]
  BY DEF Sheets, Restamped
<1> HIDE DEF h
<1> QED
  BY <1>2, <1>3 DEF Sheets, SameBuild

\* An item a copy has is there.
LEMMA CopiedItems ==
  ASSUME DrainTypes, Numbered, NEW t \in Tokens
  PROVE  /\ \A r \in Requests : run[r].mem[t] # NoItem => item[t] # NoItem
         /\ reading.mem[t] # NoItem => item[t] # NoItem
<1>1. item[t] \in ItemRecords /\ reading.mem[t] \in ItemRecords
  BY DEF DrainTypes, ItemsTyped, ReadingTyped, Sheets, Readings
<1>2. \A r \in Requests : run[r].mem[t] \in ItemRecords
  BY DEF DrainTypes, RunsTyped, Sheets, Runs
<1>3. \A h \in ItemRecords : h.build \in Nat
  BY WalletDrainAssumption DEF ItemRecords
<1> QED
  BY <1>1, <1>2, <1>3, EmptyRecords, WalletDrainAssumption DEF Numbered

\* What is left alone stays as it was.
LEMMA LeftAlone ==
  ASSUME DrainTypes
  PROVE  /\ UNCHANGED item => ItemsTyped' /\ ItemsKept
         /\ UNCHANGED run => RunsTyped' /\ RunsFrom
         /\ UNCHANGED reading => ReadingTyped' /\ ReadingFrom
         /\ UNCHANGED <<tx, live, landed>> => NetworkTyped' /\ NetworkFrom
         /\ UNCHANGED <<opening, shown>> => OpeningTyped' /\ SnapshotsFrom
         /\ UNCHANGED <<bal, moved, spent>> /\ (Event \/ NoEvent) => FractionsCounted' /\ Grown
         /\ UNCHANGED spent /\ (Event \/ NoEvent) => EventsTyped'
         /\ UNCHANGED custody => CustodyTyped'
         /\ UNCHANGED <<feature, wallet, drain, canceling>> => ParentTyped'
         /\ UNCHANGED <<item, custody, drain>> => RowsTrue
<1> USE DEF DrainTypes
<1>1. UNCHANGED item => ItemsTyped' /\ ItemsKept
  BY DEF ItemsTyped, ItemsKept, SameBuild
<1>2. UNCHANGED run => RunsTyped' /\ RunsFrom
  BY DEF RunsTyped, RunsFrom, CopyFrom, SameBuild
<1>3. UNCHANGED reading => ReadingTyped' /\ ReadingFrom
  BY DEF ReadingTyped, ReadingFrom, CopyFrom, SameBuild, Readings
<1>4. UNCHANGED <<tx, live, landed>> => NetworkTyped' /\ NetworkFrom
  BY DEF NetworkTyped, NetworkFrom
<1>5. UNCHANGED <<opening, shown>> => OpeningTyped' /\ SnapshotsFrom
  BY DEF OpeningTyped, SnapshotsFrom
<1>6. UNCHANGED <<bal, moved, spent>> /\ (Event \/ NoEvent) => FractionsCounted' /\ Grown
  BY WalletDrainAssumption DEF FractionsCounted, Grown, Event, NoEvent, EventsTyped
<1>7. UNCHANGED spent /\ (Event \/ NoEvent) => EventsTyped'
  BY WalletDrainAssumption DEF EventsTyped, Event, NoEvent
<1>8. UNCHANGED custody => CustodyTyped'
  BY DEF CustodyTyped
<1>9. UNCHANGED <<feature, wallet, drain>> /\ canceling' = canceling => ParentTyped'
  <2> SUFFICES ASSUME UNCHANGED <<feature, wallet, drain>>, canceling' = canceling
               PROVE  ParentTyped'
    OBVIOUS
  <2>1. canceling' \in BOOLEAN
    BY Zenon DEF ParentTyped
  <2> QED
    BY <2>1 DEF ParentTyped
<1>10. UNCHANGED <<item, custody, drain>> => RowsTrue
  BY DEF RowsTrue
<1> QED
  BY <1>1, <1>2, <1>3, <1>4, <1>5, <1>6, <1>7, <1>8, <1>9, <1>10

\* One request moves on.
LEMMA OneRun ==
  ASSUME DrainTypes, NEW r \in Requests, NEW x \in Runs, run' = [run EXCEPT ![r] = x],
         x.at \in {"send", "poll"} => x.mem[x.t] # NoItem,
         \A t \in Tokens : CopyFrom(x.mem[t], run[r].mem[t], t)
  PROVE  RunsTyped' /\ RunsFrom
<1>1. run \in [Requests -> Runs]
  BY DEF DrainTypes, RunsTyped
<1>2. \A q \in Requests : run'[q] = IF q = r THEN x ELSE run[q]
  BY <1>1
<1>3. RunsTyped'
  BY <1>1, <1>2 DEF DrainTypes, RunsTyped
<1>4. RunsFrom
  BY <1>2 DEF RunsFrom, CopyFrom, SameBuild
<1> QED
  BY <1>3, <1>4

\* A request that is over holds nothing.
LEMMA RunOver ==
  ASSUME DrainTypes, NEW r \in Requests, run' = [run EXCEPT ![r] = NoRun]
  PROVE  RunsTyped' /\ RunsFrom
<1>1. NoRun.at = "idle" /\ \A t \in Tokens : NoRun.mem[t].build = 0
  BY DEF NoRun, NoItem
<1> QED
  BY <1>1, OneRun, EmptyRecords DEF CopyFrom

\* The outcome of an item is written in the item and in the copy.
LEMMA Outcome ==
  ASSUME DrainTypes, Numbered, NEW r \in Requests, run[r].at \in {"send", "poll"},
         NEW s \in {"confirmed", "failed"},
         item' = [item EXCEPT ![run[r].t].st = s], run' = [run EXCEPT ![r] = Back(r, s)]
  PROVE  /\ ItemsTyped' /\ ItemsKept /\ RunsTyped' /\ RunsFrom
         /\ \A t \in Tokens : item'[t].st = "confirmed" =>
              item[t].st = "confirmed" \/ (t = run[r].t /\ s = "confirmed")
<1> DEFINE t == run[r].t
           mem == run[r].mem
<1>1. run[r] \in Runs /\ t \in Tokens /\ mem \in Sheets /\ mem[t] # NoItem /\ item \in Sheets
  BY DEF DrainTypes, RunsTyped, Runs, ItemsTyped
<1>2. item[t] # NoItem
  BY <1>1, CopiedItems
<1>3. item' = Restamped(item, t, s) /\ s \in {"pending", "submitted", "confirmed", "failed"}
  BY DEF Restamped
<1>4. /\ item' \in Sheets /\ \A u \in Tokens : SameBuild(item'[u], item[u])
      /\ \A u \in Tokens \ {t} : item'[u] = item[u]
      /\ item'[t].st = s
  <2>1. /\ Restamped(item, t, s) \in Sheets
        /\ \A u \in Tokens : SameBuild(Restamped(item, t, s)[u], item[u])
        /\ \A u \in Tokens \ {t} : Restamped(item, t, s)[u] = item[u]
        /\ Restamped(item, t, s)[t].st = s
    BY <1>1, <1>2, <1>3, RestampedSheet
  <2> QED
    BY <1>3, <2>1, Zenon
<1>5. /\ Restamped(mem, t, s) \in Sheets
      /\ \A u \in Tokens : SameBuild(Restamped(mem, t, s)[u], mem[u])
  BY <1>1, <1>3, RestampedSheet
<1>6. Back(r, s) \in Runs /\ Back(r, s).at = "loop" /\ Back(r, s).mem = Restamped(mem, t, s)
  BY <1>5, EmptyRecords DEF Back, NoRun, Runs, Restamped
<1>7. RunsTyped' /\ RunsFrom
  BY <1>5, <1>6, OneRun DEF CopyFrom
<1> QED
  BY <1>4, <1>7 DEF ItemsTyped, ItemsKept

\* A balance is a number the models count with.
LEMMA Countable ==
  ASSUME DrainTypes
  PROVE  \A t \in Tokens : bal[t] \in 0..MaxBal /\ moved[t] \in 0..MaxBal
BY WalletDrainAssumption DEF DrainTypes, EventsTyped, FractionsCounted, MaxBal

\* initiate snapshots, finds its row and answers; none of it touches an item.
LEMMA InitiateStep == DrainInv /\ initiate => DrainStep
<1> SUFFICES ASSUME DrainInv, initiate PROVE DrainStep
  OBVIOUS
<1> USE DEF DrainInv
<1>1. /\ opening' = [NoOpening EXCEPT !.at = "checked", !.snap = bal]
      /\ UNCHANGED <<rows, shown, run, reading, canceling, chain>> /\ NoEvent
  BY DEF initiate
<1>2. bal \in [Tokens -> 0..MaxBal]
  BY Countable DEF DrainTypes, FractionsCounted
<1>3. OpeningTyped' /\ SnapshotsFrom
  BY <1>1, <1>2 DEF DrainTypes, OpeningTyped, Openings, SnapshotsFrom, NoOpening
<1> QED
  BY <1>1, <1>3, LeftAlone DEF DrainStep, DrainTypes, rows, chain

\* findOrCreate touches the parent row and the request.
LEMMA FindStep == DrainInv /\ findOrCreate => DrainStep
<1> SUFFICES ASSUME DrainInv, findOrCreate PROVE DrainStep
  OBVIOUS
<1> USE DEF DrainInv
<1>1. /\ opening' = [opening EXCEPT !.at = "build",
                       !.skip = {t \in Tokens : item[t].st = "confirmed"}]
      /\ drain \in {"none", "pending", "submitting"}
      /\ drain' = IF drain = "none" THEN "pending" ELSE drain
      /\ UNCHANGED <<feature, wallet, item, custody, shown, run, reading, canceling, chain>>
      /\ NoEvent
  BY DEF findOrCreate
<1>2. OpeningTyped' /\ SnapshotsFrom
  BY <1>1 DEF DrainTypes, OpeningTyped, Openings, SnapshotsFrom
<1>3. canceling' \in BOOLEAN
  BY <1>1, Zenon DEF DrainTypes, ParentTyped
<1>4. ParentTyped' /\ RowsTrue
  BY <1>1, <1>3 DEF DrainTypes, ParentTyped, RowsTrue
<1> QED
  BY <1>1, <1>2, <1>4, LeftAlone DEF DrainStep, DrainTypes, chain

\* What the client is told of, and may sign, has been built.
LEMMA AnswerStep == DrainInv /\ answer => DrainStep
<1> SUFFICES ASSUME DrainInv, answer PROVE DrainStep
  OBVIOUS
<1> USE DEF DrainInv
<1>1. /\ opening' = NoOpening /\ shown' \subseteq shown \cup opening.built
      /\ live \subseteq live'
      /\ live' \subseteq live \cup {<<t, item[t].build>> : t \in opening.built}
      /\ Event \/ NoEvent
      /\ UNCHANGED <<rows, run, reading, canceling, bal, tx, landed, moved, spent>>
  BY DEF answer
<1>2. OpeningTyped' /\ SnapshotsFrom
  <2>1. opening.built \subseteq Tokens
    BY DEF DrainTypes, OpeningTyped, Openings
  <2> QED
    BY <1>1, <2>1, EmptyRecords DEF DrainTypes, OpeningTyped, SnapshotsFrom, NoOpening
<1>3. {<<t, item[t].build>> : t \in opening.built} \subseteq Builds
  <2>1. \A t \in opening.built : t \in Tokens /\ item[t].build > 0
    BY DEF DrainTypes, OpeningTyped, Openings, Numbered
  <2>2. \A t \in Tokens : item[t].build \in 0..MaxBuilds
    BY DEF DrainTypes, ItemsTyped, Sheets, ItemRecords
  <2> QED
    BY <2>1, <2>2, WalletDrainAssumption DEF Builds
<1>4. NetworkTyped' /\ NetworkFrom
  BY <1>1, <1>3 DEF DrainTypes, NetworkTyped, NetworkFrom, NoTx
<1> QED
  BY <1>1, <1>2, <1>4, LeftAlone DEF DrainStep, DrainTypes, rows

\* submit loads its copy and claims an item.
LEMMA SubmitStep == ASSUME NEW r \in Requests PROVE DrainInv /\ submit(r) => DrainStep
<1> SUFFICES ASSUME DrainInv, submit(r) PROVE DrainStep
  OBVIOUS
<1> USE DEF DrainInv
<1> DEFINE x == [NoRun EXCEPT !.at = "loop", !.mem = Copied(item)]
<1>1. /\ run' = [run EXCEPT ![r] = x]
      /\ UNCHANGED <<rows, opening, shown, reading, canceling, chain>> /\ NoEvent
  BY DEF submit
<1>2. /\ Copied(item) \in Sheets
      /\ \A t \in Tokens : SameBuild(Copied(item)[t], item[t])
  <2> SUFFICES ASSUME NEW t \in Tokens
               PROVE  Copied(item)[t] \in ItemRecords /\ SameBuild(Copied(item)[t], item[t])
    BY DEF Copied, Sheets
  <2>1. item[t] \in ItemRecords
    BY DEF DrainTypes, ItemsTyped, Sheets
  <2> QED
    BY <2>1 DEF Copied, ItemRecords, SameBuild, NoItem
<1>3. x \in Runs /\ x.at = "loop" /\ x.mem = Copied(item)
  BY <1>2, EmptyRecords DEF NoRun, Runs
<1> HIDE DEF x
<1>4. RunsTyped' /\ RunsFrom
  BY <1>1, <1>3, <1>2, OneRun DEF CopyFrom
<1> QED
  BY <1>1, <1>4, LeftAlone DEF DrainStep, DrainTypes, rows, chain

\* A claimed item keeps its build, and the copy of the request is of one that is there.
LEMMA ClaimStep ==
  ASSUME NEW r \in Requests, NEW t \in Tokens
  PROVE  DrainInv /\ claimItemForSubmit(r, t) => DrainStep
<1> SUFFICES ASSUME DrainInv, claimItemForSubmit(r, t) PROVE DrainStep
  OBVIOUS
<1> USE DEF DrainInv
<1> DEFINE x == [run[r] EXCEPT !.at = "send", !.t = t]
           its == Restamped(item, t, "submitted")
<1>1. /\ run[r].mem[t].st # "none" /\ item[t].st \in {"pending", "failed"}
      /\ item' = its
      /\ run' = [run EXCEPT ![r].at = "send", ![r].t = t]
      /\ UNCHANGED <<feature, wallet, drain, custody, opening, shown, reading, canceling, chain>>
      /\ NoEvent
  BY DEF claimItemForSubmit, Restamped
<1>2. run \in [Requests -> Runs] /\ item \in Sheets
  BY DEF DrainTypes, RunsTyped, ItemsTyped
<1>3. run' = [run EXCEPT ![r] = x]
  BY <1>1, <1>2
<1>4. x \in Runs /\ x.t = t /\ x.mem = run[r].mem
  BY <1>2 DEF Runs
<1>5. run[r].mem[t] # NoItem /\ item[t] # NoItem
  BY <1>1 DEF NoItem
<1>6. /\ its \in Sheets /\ \A u \in Tokens : SameBuild(its[u], item[u])
      /\ \A u \in Tokens \ {t} : its[u] = item[u]
      /\ its[t].st = "submitted"
  BY <1>2, <1>5, RestampedSheet
<1> HIDE DEF x, its
<1>7. RunsTyped' /\ RunsFrom
  BY <1>3, <1>4, <1>5, OneRun DEF CopyFrom, SameBuild
<1>8. ItemsTyped' /\ ItemsKept /\ RowsTrue
  BY <1>1, <1>6 DEF ItemsTyped, ItemsKept, RowsTrue
<1> QED
  BY <1>1, <1>7, <1>8, LeftAlone DEF DrainStep, DrainTypes, chain

\* A failed item: whatever the row said, it says failed.
LEMMA FailedItem ==
  ASSUME DrainInv, NEW r \in Requests, run[r].at \in {"send", "poll"}, markItemFailed(r),
         canceling' = canceling
  PROVE  /\ ItemsTyped' /\ ItemsKept /\ RunsTyped' /\ RunsFrom
         /\ CustodyTyped' /\ ParentTyped' /\ RowsTrue
<1> USE DEF DrainInv
<1>1. /\ item' = [item EXCEPT ![run[r].t].st = "failed"]
      /\ run' = [run EXCEPT ![r] = Back(r, "failed")]
      /\ UNCHANGED <<feature, wallet, drain, custody>>
  BY DEF markItemFailed
<1>2. /\ ItemsTyped' /\ ItemsKept /\ RunsTyped' /\ RunsFrom
      /\ \A t \in Tokens : item'[t].st = "confirmed" => item[t].st = "confirmed"
  BY <1>1, Outcome
<1>3. CustodyTyped' /\ ParentTyped'
  BY <1>1, LeftAlone
<1>4. RowsTrue
  BY <1>1, <1>2 DEF RowsTrue
<1> QED
  BY <1>2, <1>3, <1>4

\* What a request sends is the build of its copy.
LEMMA SendStep == ASSUME NEW r \in Requests PROVE DrainInv /\ submitSignedTransfer(r) => DrainStep
<1> SUFFICES ASSUME DrainInv, submitSignedTransfer(r) PROVE DrainStep
  OBVIOUS
<1> USE DEF DrainInv
<1>1. /\ run[r].at = "send" /\ (Event \/ NoEvent)
      /\ UNCHANGED <<opening, shown, reading, canceling, bal, live, landed, moved, spent>>
      /\ \/ run' = [run EXCEPT ![r].at = "poll"] /\ UNCHANGED rows
         \/ markItemFailed(r)
      /\ tx' = tx \/ (tx' = Sent(r) /\ Build(r) \in live)
  BY DEF submitSignedTransfer, Sendable
<1>2. run \in [Requests -> Runs] /\ run[r].t \in Tokens /\ run[r].mem[run[r].t] # NoItem
  BY <1>1 DEF DrainTypes, RunsTyped, Runs
<1>3. run[r].mem[run[r].t] \in ItemRecords
  BY <1>2 DEF Runs, Sheets
<1>4. run[r].mem[run[r].t].build > 0 /\ Amount(r) \in 1..MaxBal
  BY <1>2, <1>3, WalletDrainAssumption DEF ItemRecords, Amount, MaxBal
<1>5. NetworkTyped' /\ NetworkFrom
  BY <1>1, <1>2, <1>4 DEF DrainTypes, NetworkTyped, NetworkFrom, Sent, NoTx
<1>6. /\ ItemsTyped' /\ ItemsKept /\ RunsTyped' /\ RunsFrom
      /\ CustodyTyped' /\ ParentTyped' /\ RowsTrue
  <2>1. CASE run' = [run EXCEPT ![r].at = "poll"] /\ UNCHANGED rows
    <3> DEFINE x == [run[r] EXCEPT !.at = "poll"]
    <3>1. run' = [run EXCEPT ![r] = x] /\ x \in Runs /\ x.t = run[r].t /\ x.mem = run[r].mem
      BY <2>1, <1>2 DEF Runs
    <3> HIDE DEF x
    <3>2. RunsTyped' /\ RunsFrom
      BY <3>1, <1>2, OneRun DEF CopyFrom, SameBuild
    <3> QED
      BY <1>1, <2>1, <3>2, LeftAlone DEF rows
  <2>2. CASE markItemFailed(r)
    BY <1>1, <2>2, FailedItem
  <2> QED
    BY <1>1, <2>1, <2>2
<1> QED
  BY <1>1, <1>5, <1>6, LeftAlone DEF DrainStep, DrainTypes

\* What the poll of a request confirms has landed, with the amount of its copy.
LEMMA PollStep == ASSUME NEW r \in Requests PROVE DrainInv /\ pollForTransfer(r) => DrainStep
<1> SUFFICES ASSUME DrainInv, pollForTransfer(r) PROVE DrainStep
  OBVIOUS
<1> USE DEF DrainInv
<1> DEFINE t == run[r].t
<1>1. /\ run[r].at = "poll" /\ (Event \/ NoEvent)
      /\ UNCHANGED <<opening, shown, reading, canceling, chain>>
      /\ \/ /\ Build(r) \in landed
            /\ item' = [item EXCEPT ![t].st = "confirmed"]
            /\ run' = [run EXCEPT ![r] = Back(r, "confirmed")]
            /\ custody' = Recorded({t}, run[r].mem)
            /\ UNCHANGED <<feature, wallet, drain>>
         \/ markItemFailed(r)
  BY DEF pollForTransfer
<1>2. /\ ItemsTyped' /\ ItemsKept /\ RunsTyped' /\ RunsFrom
      /\ CustodyTyped' /\ ParentTyped' /\ RowsTrue
  <2>1. CASE /\ Build(r) \in landed
             /\ item' = [item EXCEPT ![t].st = "confirmed"]
             /\ run' = [run EXCEPT ![r] = Back(r, "confirmed")]
             /\ custody' = Recorded({t}, run[r].mem)
             /\ UNCHANGED <<feature, wallet, drain>>
    <3>1. /\ ItemsTyped' /\ ItemsKept /\ RunsTyped' /\ RunsFrom
          /\ \A u \in Tokens : item'[u].st = "confirmed" => item[u].st = "confirmed" \/ u = t
      BY <1>1, <2>1, Outcome
    <3>2. ParentTyped'
      BY <1>1, <2>1, LeftAlone
    <3>3. t \in Tokens /\ run[r].mem \in Sheets /\ run[r].mem[t] \in ItemRecords
      BY <1>1 DEF DrainTypes, RunsTyped, Runs, Sheets
    <3>4. custody \in [Tokens -> 0..MaxBal] /\ \A u \in Tokens : run[r].mem[u].amt \in 0..MaxBal
      BY <3>3 DEF DrainTypes, CustodyTyped, Sheets, ItemRecords
    <3>5. CustodyTyped' /\ \A u \in Tokens \ {t} : custody'[u] = custody[u]
      BY <2>1, <3>4 DEF CustodyTyped, Recorded
    <3>6. custody'[t] = custody[t] \/ custody'[t] = run[r].mem[t].amt
      BY <2>1, <3>3, <3>4 DEF Recorded
    <3>7. run[r].mem[t].amt > 0 /\ run[r].mem[t].amt <= moved[t]
      <4>1. PICK A \in [Builds -> 1..MaxBal] : AmountsAre(A)
        BY DEF OneAmount
      <4>2. Build(r) = <<t, run[r].mem[t].build>> /\ Build(r) \in Builds
        BY <2>1 DEF Build, DrainTypes, NetworkTyped
      <4>3. run[r].mem[t].build > 0
        BY <4>2 DEF Builds
      <4>4. run[r].mem[t].amt = A[Build(r)] /\ A[Build(r)] <= moved[Build(r)[1]]
        BY <2>1, <3>3, <4>1, <4>2, <4>3 DEF AmountsAre, AmountIs
      <4> QED
        BY <4>1, <4>2, <4>4
    <3>8. RowsTrue
      <4>1. moved[t] \in Nat
        BY <3>3 DEF DrainTypes, FractionsCounted
      <4>2. custody'[t] = custody[t] \/ custody'[t] <= moved[t]
        BY <3>6, <3>7
      <4>3. moved[t] > 0
        BY <3>3, <3>4, <3>7, <4>1
      <4> HIDE DEF t
      <4> QED
        BY <2>1, <3>1, <3>5, <4>2, <4>3 DEF RowsTrue
    <3> QED
      BY <3>1, <3>2, <3>5, <3>8
  <2>2. CASE markItemFailed(r)
    BY <1>1, <2>2, FailedItem
  <2> QED
    BY <1>1, <2>1, <2>2
<1> QED
  BY <1>1, <1>2, LeftAlone DEF DrainStep, DrainTypes, chain

\* reread, and the end of a request by a crash.
LEMMA RereadStep == ASSUME NEW r \in Requests PROVE DrainInv /\ reread(r) => DrainStep
<1> SUFFICES ASSUME DrainInv, reread(r) PROVE DrainStep
  OBVIOUS
<1> USE DEF DrainInv
<1> DEFINE zero == \A t \in Held(run[r].mem) : bal[t] = 0
           x == [NoRun EXCEPT !.at = "finalize", !.zero = zero]
<1>1. /\ run' = [run EXCEPT ![r] = x]
      /\ UNCHANGED <<rows, opening, shown, reading, canceling, chain>> /\ NoEvent
  BY DEF reread
<1>2. zero \in BOOLEAN
  BY Zenon
<1> HIDE DEF zero
<1>3. x \in Runs /\ x.at = "finalize" /\ x.mem = [t \in Tokens |-> NoItem]
  BY <1>2, EmptyRecords DEF NoRun, Runs
<1> HIDE DEF x
<1>4. \A t \in Tokens : x.mem[t].build = 0
  BY <1>3 DEF NoItem
<1>5. RunsTyped' /\ RunsFrom
  BY <1>1, <1>3, <1>4, OneRun DEF CopyFrom
<1> QED
  BY <1>1, <1>5, LeftAlone DEF DrainStep, DrainTypes, rows, chain

\* A crash forgets the copy.
LEMMA CrashStep == ASSUME NEW r \in Requests PROVE DrainInv /\ crash(r) => DrainStep
<1> SUFFICES ASSUME DrainInv, crash(r) PROVE DrainStep
  OBVIOUS
<1> USE DEF DrainInv
<1>1. /\ run' = [run EXCEPT ![r] = NoRun] /\ Event
      /\ UNCHANGED <<rows, opening, shown, reading, canceling, chain>>
  BY DEF crash
<1> QED
  BY <1>1, RunOver, LeftAlone DEF DrainStep, DrainTypes, rows, chain

\* A drain completes only when every item there is was found confirmed.
LEMMA Finalized ==
  ASSUME DrainTypes, NEW its \in Sheets, NEW zero, finalizeIfAllConfirmed(its, zero),
         UNCHANGED <<feature, canceling>>
  PROVE  /\ ParentTyped'
         /\ drain' = "completed" =>
              \/ drain = "completed"
              \/ \A t \in Tokens : its[t].st = "confirmed" \/ its[t] = NoItem
<1>1. \/ AllConfirmed(its) /\ drain' = "completed" /\ wallet' \in {wallet, "exported"}
      \/ drain' \in {drain, "submitting"} /\ UNCHANGED wallet
  BY DEF finalizeIfAllConfirmed
<1>2. canceling' \in BOOLEAN
  BY Zenon DEF DrainTypes, ParentTyped
<1>3. ParentTyped'
  BY <1>1, <1>2 DEF DrainTypes, ParentTyped
<1>4. AllConfirmed(its) => \A t \in Tokens : its[t].st = "confirmed" \/ its[t] = NoItem
  BY EmptyRecords DEF AllConfirmed, Held, Sheets
<1> QED
  BY <1>1, <1>3, <1>4

\* A request may end by completing the drain, of the live items.
LEMMA FinishStep == ASSUME NEW r \in Requests PROVE DrainInv /\ finish(r) => DrainStep
<1> SUFFICES ASSUME DrainInv, finish(r) PROVE DrainStep
  OBVIOUS
<1> USE DEF DrainInv
<1>1. /\ finalizeIfAllConfirmed(item, run[r].zero) /\ run' = [run EXCEPT ![r] = NoRun]
      /\ UNCHANGED <<feature, item, custody, opening, shown, reading, canceling, chain>>
      /\ NoEvent
  BY DEF finish
<1>2. item \in Sheets
  BY DEF DrainTypes, ItemsTyped
<1>3. /\ ParentTyped'
      /\ drain' = "completed" => \/ drain = "completed"
                                 \/ \A t \in Tokens : item[t].st = "confirmed" \/ item[t] = NoItem
  BY <1>1, <1>2, Finalized
<1>4. RowsTrue
  BY <1>1, <1>3 DEF RowsTrue
<1> QED
  BY <1>1, <1>3, <1>4, RunOver, LeftAlone DEF DrainStep, DrainTypes, chain

\* What a poll starts from, or forgets, is the items as they are, or nothing.
LEMMA StatusStep == DrainInv /\ (status \/ statusFails) => DrainStep
<1> SUFFICES ASSUME DrainInv, status \/ statusFails PROVE DrainStep
  OBVIOUS
<1> USE DEF DrainInv
<1>1. /\ reading' \in {[NoReading EXCEPT !.at = "rows", !.mem = item],
                       [NoReading EXCEPT !.at = "failed"]}
      /\ UNCHANGED <<rows, opening, shown, run, canceling, chain>> /\ (Event \/ NoEvent)
  BY DEF status, statusFails
<1>2. item \in Sheets
  BY DEF DrainTypes, ItemsTyped
<1>3. /\ reading' \in Readings /\ reading'.drained = {}
      /\ reading'.mem \in {item, [t \in Tokens |-> NoItem]}
  BY <1>1, <1>2, EmptyRecords DEF NoReading, Readings
<1>4. ReadingTyped' /\ ReadingFrom
  BY <1>3 DEF ReadingTyped, ReadingFrom, CopyFrom, SameBuild, NoItem
<1> QED
  BY <1>1, <1>4, LeftAlone DEF DrainStep, DrainTypes, rows, chain

\* The poll notes what it finds drained.
LEMMA ReconcileStep == DrainInv /\ reconcileStuckItems => DrainStep
<1> SUFFICES ASSUME DrainInv, reconcileStuckItems PROVE DrainStep
  OBVIOUS
<1> USE DEF DrainInv
<1>1. /\ \/ reading' = NoReading
         \/ reading' = [reading EXCEPT !.at = "items", !.drained = Drained]
      /\ UNCHANGED <<rows, opening, shown, run, canceling, chain>> /\ NoEvent
  BY DEF reconcileStuckItems
<1>2. reading \in Readings /\ Drained \subseteq Tokens
  BY DEF DrainTypes, ReadingTyped, Drained, Stuck
<1>3. ReadingTyped' /\ ReadingFrom
  <2>1. CASE reading' = NoReading
    BY <2>1, EmptyRecords DEF ReadingTyped, ReadingFrom, CopyFrom, NoReading, NoItem
  <2>2. CASE reading' = [reading EXCEPT !.at = "items", !.drained = Drained]
    <3>1. reading' \in Readings /\ reading'.mem = reading.mem /\ reading'.drained = Drained
      BY <1>2, <2>2 DEF Readings
    <3> QED
      BY <3>1 DEF ReadingTyped, ReadingFrom, CopyFrom, SameBuild
  <2> QED
    BY <1>1, <2>1, <2>2
<1> QED
  BY <1>1, <1>3, LeftAlone DEF DrainStep, DrainTypes, rows, chain

\* An item confirmed by the poll is of a token the drain has moved, by the amount recorded.
LEMMA ReconcileItemStep ==
  ASSUME NEW t \in Tokens PROVE DrainInv /\ reconcileItemConfirmed(t) => DrainStep
<1> SUFFICES ASSUME DrainInv, reconcileItemConfirmed(t) PROVE DrainStep
  OBVIOUS
<1> USE DEF DrainInv
<1> DEFINE mem == Restamped(reading.mem, t, "confirmed")
           rest == reading.drained \ {t}
<1>1. /\ t \in reading.drained
      /\ UNCHANGED <<feature, wallet, drain, opening, shown, run, canceling, chain>> /\ NoEvent
      /\ \/ /\ t \in Stuck(item) /\ item' = Restamped(item, t, "confirmed")
            /\ custody' = Recorded({t}, reading.mem)
            /\ reading' = [reading EXCEPT !.drained = rest, !.mem = mem]
         \/ /\ reading' = [reading EXCEPT !.drained = rest]
            /\ UNCHANGED <<item, custody>>
  BY DEF reconcileItemConfirmed, Restamped
<1>2. reading \in Readings /\ reading.mem \in Sheets /\ reading.mem[t] # NoItem
  BY <1>1 DEF DrainTypes, ReadingTyped, Readings, DrainedMoved
<1>3. mem \in Sheets /\ \A u \in Tokens : SameBuild(mem[u], reading.mem[u])
  BY <1>2, RestampedSheet
<1> HIDE DEF mem
<1>4. /\ reading' \in Readings /\ reading'.drained = rest
      /\ \A u \in Tokens : SameBuild(reading'.mem[u], reading.mem[u])
  BY <1>1, <1>2, <1>3 DEF Readings, SameBuild
<1>5. rest \subseteq reading.drained /\ rest \subseteq Tokens
  BY <1>2 DEF Readings
<1> HIDE DEF rest
<1>6. ReadingTyped' /\ ReadingFrom
  BY <1>4, <1>5 DEF ReadingTyped, ReadingFrom, CopyFrom
<1>7. CASE UNCHANGED <<item, custody>>
  BY <1>1, <1>6, <1>7, LeftAlone DEF DrainStep, DrainTypes, chain
<1>8. CASE /\ t \in Stuck(item) /\ item' = Restamped(item, t, "confirmed")
           /\ custody' = Recorded({t}, reading.mem)
  <2>1. item \in Sheets /\ item[t] # NoItem
    BY <1>8 DEF DrainTypes, ItemsTyped, Stuck, NoItem
  <2>2. /\ item' \in Sheets /\ \A u \in Tokens : SameBuild(item'[u], item[u])
        /\ \A u \in Tokens \ {t} : item'[u] = item[u]
        /\ item'[t].st = "confirmed"
    BY <1>8, <2>1, RestampedSheet
  <2>3. reading.mem[t].amt \in 1..MaxBal
    BY <1>2, WalletDrainAssumption DEF Sheets, ItemRecords, MaxBal
  <2>4. t \notin spent => reading.mem[t].amt <= moved[t] /\ moved[t] > 0
    BY <1>1, <2>3, Countables, WalletDrainAssumption DEF DrainedMoved, MaxBal
  <2>5. /\ CustodyTyped'
        /\ \A u \in Tokens : \/ custody'[u] = custody[u]
                             \/ u = t /\ custody'[u] = reading.mem[t].amt
    <3>1. custody \in [Tokens -> 0..MaxBal] /\ reading.mem[t].amt \in 0..MaxBal
      BY <2>3 DEF DrainTypes, CustodyTyped
    <3> QED
      BY <1>8, <3>1 DEF CustodyTyped, Recorded
  <2>6. RowsTrue
    BY <1>1, <2>2, <2>4, <2>5 DEF RowsTrue
  <2> QED
    BY <1>1, <1>6, <2>2, <2>5, <2>6, LeftAlone
       DEF DrainStep, DrainTypes, ItemsTyped, ItemsKept, chain
<1> QED
  BY <1>1, <1>7, <1>8

\* A poll may end by completing the drain, of the live items.
LEMMA FinishStatusStep == DrainInv /\ finishStatus => DrainStep
<1> SUFFICES ASSUME DrainInv, finishStatus PROVE DrainStep
  OBVIOUS
<1> USE DEF DrainInv
<1>1. /\ finalizeIfAllConfirmed(item, TRUE) \/ UNCHANGED <<drain, wallet>>
      /\ reading' = NoReading
      /\ UNCHANGED <<feature, item, custody, opening, shown, run, canceling, chain>> /\ NoEvent
  BY DEF finishStatus
<1>2. item \in Sheets
  BY DEF DrainTypes, ItemsTyped
<1>3. /\ ParentTyped'
      /\ drain' = "completed" => \/ drain = "completed"
                                 \/ \A t \in Tokens : item[t].st = "confirmed" \/ item[t] = NoItem
  BY <1>1, <1>2, Finalized, LeftAlone
<1>4. RowsTrue
  BY <1>1, <1>3 DEF RowsTrue
<1>5. ReadingTyped' /\ ReadingFrom
  BY <1>1, EmptyRecords DEF ReadingTyped, ReadingFrom, CopyFrom, NoReading, NoItem
<1> QED
  BY <1>1, <1>3, <1>4, <1>5, LeftAlone DEF DrainStep, DrainTypes, chain

\* Canceling touches the parent row alone.
LEMMA CancelStep == DrainInv /\ (cancel \/ softCancel) => DrainStep
<1> SUFFICES ASSUME DrainInv, cancel \/ softCancel PROVE DrainStep
  OBVIOUS
<1> USE DEF DrainInv
<1>1. /\ canceling' \in BOOLEAN /\ drain' \in {drain, "canceled"}
      /\ UNCHANGED <<feature, wallet, item, custody, opening, shown, run, reading, chain>>
      /\ NoEvent
  BY DEF cancel, softCancel, rows
<1>2. ParentTyped' /\ RowsTrue
  BY <1>1 DEF DrainTypes, ParentTyped, RowsTrue
<1> QED
  BY <1>1, <1>2, LeftAlone DEF DrainStep, DrainTypes, chain

\* The ledger: what it takes from the wallet, the drain has moved.
LEMMA ApplyStep == DrainInv /\ apply => DrainStep
<1> SUFFICES ASSUME DrainInv, apply PROVE DrainStep
  OBVIOUS
<1> USE DEF DrainInv
<1> DEFINE t == tx.build[1]
           amt == tx.amt
<1>1. /\ tx # NoTx /\ tx' = NoTx /\ live' = {} /\ bal[t] >= amt
      /\ bal' = [bal EXCEPT ![t] = @ - amt] /\ landed' = landed \cup {tx.build}
      /\ moved' = [moved EXCEPT ![t] = @ + amt]
      /\ UNCHANGED <<rows, requests, spent>> /\ NoEvent
  BY DEF apply
<1>2. tx.build \in Builds /\ t \in Tokens /\ amt \in Nat /\ landed \subseteq Builds
  BY <1>1, WalletDrainAssumption DEF DrainTypes, NetworkTyped, Builds, MaxBal
<1>3. bal \in [Tokens -> Nat] /\ moved \in [Tokens -> Nat]
  BY DEF DrainTypes, FractionsCounted
<1> HIDE DEF t, amt
<1>4. \A u \in Tokens : /\ bal'[u] \in Nat /\ moved'[u] \in Nat /\ moved'[u] >= moved[u]
                        /\ bal'[u] + moved'[u] = bal[u] + moved[u]
  <2> SUFFICES ASSUME NEW u \in Tokens
               PROVE  /\ bal'[u] \in Nat /\ moved'[u] \in Nat /\ moved'[u] >= moved[u]
                      /\ bal'[u] + moved'[u] = bal[u] + moved[u]
    OBVIOUS
  <2>1. CASE u = t
    BY <1>1, <1>2, <1>3, <2>1
  <2>2. CASE u # t
    BY <1>1, <1>2, <1>3, <2>2
  <2> QED
    BY <2>1, <2>2
<1>5. moved'[t] >= amt
  BY <1>1, <1>2, <1>3
<1>6. bal' \in [Tokens -> Nat] /\ moved' \in [Tokens -> Nat]
  BY <1>1, <1>3, <1>4
<1>7. FractionsCounted' /\ Grown
  BY <1>1, <1>4, <1>6 DEF DrainTypes, FractionsCounted, Grown, NoEvent
<1>8. NetworkTyped' /\ NetworkFrom
  BY <1>1, <1>2, <1>5 DEF NetworkTyped, NetworkFrom, t, amt
<1> QED
  BY <1>1, <1>7, <1>8, LeftAlone DEF DrainStep, DrainTypes, rows, requests

\* A transaction that is dropped moves nothing.
LEMMA DropStep == DrainInv /\ drop => DrainStep
<1> SUFFICES ASSUME DrainInv, drop PROVE DrainStep
  OBVIOUS
<1> USE DEF DrainInv
<1>1. /\ tx' = NoTx /\ live' \subseteq live
      /\ UNCHANGED <<rows, requests, bal, landed, moved, spent>> /\ NoEvent
  BY DEF drop
<1>2. NetworkTyped' /\ NetworkFrom
  BY <1>1 DEF DrainTypes, NetworkTyped, NetworkFrom
<1> QED
  BY <1>1, <1>2, LeftAlone DEF DrainStep, DrainTypes, rows, requests

\* Fractions that come or go by other means; those that go mark their token spent.
LEMMA OutsideStep ==
  ASSUME NEW t \in Tokens
  PROVE  DrainInv /\ (receive(t) \/ spend(t)) => DrainStep
<1> SUFFICES ASSUME DrainInv, receive(t) \/ spend(t) PROVE DrainStep
  OBVIOUS
<1> USE DEF DrainInv
<1>1. /\ events < MaxEvents /\ events' = events + 1 /\ UNCHANGED added
      /\ UNCHANGED <<rows, requests, live, tx, landed, moved>>
      /\ \/ bal' = [bal EXCEPT ![t] = @ + 1] /\ spent' = spent
         \/ bal' = [bal EXCEPT ![t] = 0] /\ spent' = spent \cup {t}
  BY DEF receive, spend, Event
<1>2. /\ bal \in [Tokens -> Nat] /\ moved \in [Tokens -> Nat] /\ events \in Nat
      /\ \A u \in Tokens : bal[u] + moved[u] <= 1 + events
  BY DEF DrainTypes, FractionsCounted, EventsTyped
<1>3. \A u \in Tokens : /\ bal'[u] \in Nat /\ bal'[u] + moved[u] <= 1 + events'
                        /\ u \in spent' \/ bal'[u] >= bal[u]
  <2> SUFFICES ASSUME NEW u \in Tokens
               PROVE  /\ bal'[u] \in Nat /\ bal'[u] + moved[u] <= 1 + events'
                      /\ u \in spent' \/ bal'[u] >= bal[u]
    OBVIOUS
  <2>1. bal[u] \in Nat /\ moved[u] \in Nat /\ bal[u] + moved[u] <= 1 + events
    BY <1>2
  <2>2. CASE u = t
    BY <1>1, <1>2, <2>1, <2>2
  <2>3. CASE u # t
    <3>1. bal'[u] = bal[u]
      BY <1>1, <1>2, <2>3
    <3> QED
      BY <1>1, <1>2, <2>1, <3>1
  <2> QED
    BY <2>2, <2>3
<1>4. FractionsCounted' /\ Grown
  BY <1>1, <1>2, <1>3 DEF FractionsCounted, Grown
<1>5. EventsTyped'
  BY <1>1, WalletDrainAssumption DEF DrainTypes, EventsTyped
<1> QED
  BY <1>1, <1>4, <1>5, LeftAlone DEF DrainStep, DrainTypes, rows, requests

-----------------------------------------------------------------------------
\* No step but a build numbers anything, and none runs ahead of the item.
LEMMA NumbersKept == ASSUME DrainInv, DrainStep PROVE Numbered'
<1> USE DEF DrainInv, DrainStep
<1>1. \A t \in Tokens : item'[t].build = item[t].build /\ item[t].build \in Nat
  BY Countables DEF ItemsKept, SameBuild
<1>2. \A r \in Requests : \A t \in Tokens : run'[r].mem[t].build <= item'[t].build
  <2> SUFFICES ASSUME NEW r \in Requests, NEW t \in Tokens
               PROVE  run'[r].mem[t].build <= item[t].build
    BY <1>1
  <2>1. CopyFrom(run'[r].mem[t], run[r].mem[t], t)
    BY DEF RunsFrom
  <2> QED
    BY <1>1, <2>1 DEF CopyFrom, SameBuild, Numbered
<1>3. \A t \in Tokens : reading'.mem[t].build <= item'[t].build
  <2> SUFFICES ASSUME NEW t \in Tokens PROVE reading'.mem[t].build <= item[t].build
    BY <1>1
  <2>1. CopyFrom(reading'.mem[t], reading.mem[t], t)
    BY DEF ReadingFrom
  <2> QED
    BY <1>1, <2>1 DEF CopyFrom, SameBuild, Numbered
<1>4. \A b \in live' \cup landed' : b \in Builds /\ b[2] <= item[b[1]].build
  <2>1. live' \subseteq Builds /\ landed' \subseteq Builds
    BY DEF DrainTypes, NetworkTyped
  <2>2. \A b \in landed' : b \in landed \/ b \in live
    BY DEF DrainTypes, NetworkTyped, NetworkFrom
  <2>3. \A b \in live' : b \in live \/ b[2] = item[b[1]].build
    BY DEF NetworkFrom
  <2>4. \A b \in Builds : b[1] \in Tokens /\ b[2] \in Nat
    BY DEF Builds
  <2> QED
    BY <1>1, <2>1, <2>2, <2>3, <2>4 DEF Numbered
<1>5. \A t \in opening'.built : item'[t].build > 0
  BY <1>1 DEF SnapshotsFrom, Numbered, DrainTypes, OpeningTyped, Openings
<1>6. \A b \in live' \cup landed' : b[2] <= item'[b[1]].build
  BY <1>1, <1>4 DEF Builds
<1> QED
  BY <1>2, <1>3, <1>5, <1>6 DEF Numbered

\* The amounts of the builds stay what they are.
LEMMA AmountsKept == ASSUME DrainInv, DrainStep PROVE OneAmount'
<1> USE DEF DrainInv, DrainStep
<1>1. PICK A \in [Builds -> 1..MaxBal] : AmountsAre(A)
  BY DEF OneAmount
<1>2. \A t \in Tokens : AmountIs(A, t, item[t]) /\ AmountIs(A, t, reading.mem[t])
  BY <1>1 DEF AmountsAre
<1>3. \A t \in Tokens : AmountIs(A, t, item'[t])
  BY <1>2 DEF AmountIs, ItemsKept, SameBuild
<1>4. \A t \in Tokens : AmountIs(A, t, reading'.mem[t])
  <2> SUFFICES ASSUME NEW t \in Tokens PROVE AmountIs(A, t, reading'.mem[t])
    OBVIOUS
  <2>1. CopyFrom(reading'.mem[t], reading.mem[t], t)
    BY DEF ReadingFrom
  <2> DEFINE h == reading'.mem[t]
  <2>2. CASE h.build = 0
    BY <2>2 DEF AmountIs
  <2>3. CASE SameBuild(h, reading.mem[t])
    BY <1>2, <2>3 DEF AmountIs, SameBuild
  <2>4. CASE SameBuild(h, item[t])
    BY <1>2, <2>4 DEF AmountIs, SameBuild
  <2> QED
    BY <2>1, <2>2, <2>3, <2>4 DEF CopyFrom
<1>5. \A r \in Requests : \A t \in Tokens : AmountIs(A, t, run'[r].mem[t])
  <2> SUFFICES ASSUME NEW r \in Requests, NEW t \in Tokens
               PROVE  AmountIs(A, t, run'[r].mem[t])
    OBVIOUS
  <2>1. CopyFrom(run'[r].mem[t], run[r].mem[t], t)
    BY DEF RunsFrom
  <2>2. AmountIs(A, t, run[r].mem[t])
    BY <1>1 DEF AmountsAre
  <2> DEFINE h == run'[r].mem[t]
  <2>3. CASE h.build = 0
    BY <2>3 DEF AmountIs
  <2>4. CASE SameBuild(h, run[r].mem[t])
    BY <2>2, <2>4 DEF AmountIs, SameBuild
  <2>5. CASE SameBuild(h, item[t])
    BY <1>2, <2>5 DEF AmountIs, SameBuild
  <2> QED
    BY <2>1, <2>3, <2>4, <2>5 DEF CopyFrom
<1>6. tx' # NoTx => tx'.amt = A[tx'.build]
  <2>1. CASE tx' = tx
    BY <1>1, <2>1 DEF AmountsAre
  <2>2. ASSUME NEW r \in Requests, run[r].t \in Tokens, run[r].mem[run[r].t].build > 0,
               tx' = Sent(r)
        PROVE  tx'.amt = A[tx'.build]
    BY <1>1, <2>2 DEF AmountsAre, AmountIs, Sent, Build, Amount
  <2> QED
    BY <2>1, <2>2 DEF NetworkFrom
<1>7. \A b \in landed' : A[b] <= moved'[b[1]]
  <2>1. \A b \in landed' : \/ b \in landed
                           \/ tx # NoTx /\ b = tx.build /\ tx.amt <= moved'[tx.build[1]]
    BY DEF NetworkFrom
  <2>2. \A b \in landed : /\ b \in Builds /\ b[1] \in Tokens /\ A[b] \in Nat
                          /\ A[b] <= moved[b[1]]
    <3>1. \A b \in Builds : b[1] \in Tokens /\ A[b] \in Nat
      BY <1>1, WalletDrainAssumption DEF Builds, MaxBal
    <3> QED
      BY <1>1, <3>1 DEF AmountsAre, DrainTypes, NetworkTyped
  <2>3. \A t \in Tokens : moved[t] \in Nat /\ moved'[t] \in Nat /\ moved'[t] >= moved[t]
    BY DEF Grown, DrainTypes, FractionsCounted
  <2>4. tx # NoTx => tx.amt = A[tx.build]
    BY <1>1 DEF AmountsAre
  <2> QED
    BY <2>1, <2>2, <2>3, <2>4
<1>8. AmountsAre(A)'
  BY <1>3, <1>4, <1>5, <1>6, <1>7 DEF AmountsAre, AmountIs
<1>9. Builds' = Builds /\ MaxBal' = MaxBal
  BY DEF Builds, MaxBal
<1> QED
  BY <1>1, <1>8, <1>9 DEF OneAmount

\* What was held is held or moved, and what is drained of it was moved.
LEMMA HoldingsKept == ASSUME DrainInv, DrainStep PROVE SnapshotsHeld' /\ DrainedMoved'
<1> USE DEF DrainInv, DrainStep
<1>1. \A t \in Tokens : /\ bal'[t] \in Nat /\ moved'[t] \in Nat
                        /\ moved'[t] >= moved[t]
                        /\ t \in spent' \/ bal'[t] + moved'[t] >= bal[t] + moved[t]
                        /\ t \in spent => t \in spent'
  BY DEF Grown, DrainTypes, FractionsCounted
<1>2. SnapshotsHeld'
  <2> SUFFICES ASSUME NEW t \in Tokens, t \notin spent'
               PROVE  /\ opening'.snap[t] <= bal'[t] + moved'[t]
                      /\ item'[t].amt <= bal'[t] + moved'[t]
                      /\ reading'.mem[t].amt <= bal'[t] + moved'[t]
    BY DEF SnapshotsHeld
  <2>1. /\ opening.snap[t] <= bal[t] + moved[t] /\ item[t].amt <= bal[t] + moved[t]
        /\ reading.mem[t].amt <= bal[t] + moved[t]
    BY <1>1 DEF SnapshotsHeld
  <2>2. opening'.snap[t] \in {0, opening.snap[t], bal[t]} /\ item'[t].amt = item[t].amt
    BY DEF SnapshotsFrom, ItemsKept, SameBuild
  <2>3. /\ item[t].amt \in Nat /\ opening.snap[t] \in Nat /\ bal[t] \in Nat /\ moved[t] \in Nat
    BY Countables
  <2>4. reading'.mem[t].amt \in {0, reading.mem[t].amt, item[t].amt}
    <3>1. CopyFrom(reading'.mem[t], reading.mem[t], t)
      BY DEF ReadingFrom
    <3>2. reading'.mem[t].build = 0 => reading'.mem[t].amt = 0
      BY EmptyRecords DEF DrainTypes, ReadingTyped, Readings, Sheets, NoItem
    <3> QED
      BY <3>1, <3>2 DEF CopyFrom, SameBuild
  <2>5. reading.mem[t].amt \in Nat
    BY Countables
  <2> QED
    BY <1>1, <2>1, <2>2, <2>3, <2>4, <2>5
<1>3. DrainedMoved'
  <2> SUFFICES ASSUME NEW t \in Tokens, t \in reading'.drained
               PROVE  /\ reading'.mem[t] # NoItem
                      /\ t \notin spent' => reading'.mem[t].amt <= moved'[t]
    BY DEF DrainedMoved, DrainTypes, ReadingTyped, Readings
  <2>1. /\ reading'.mem[t].build = reading.mem[t].build
        /\ reading'.mem[t].amt = reading.mem[t].amt
    BY DEF ReadingFrom, SameBuild
  <2>2. reading.mem[t] # NoItem /\ (t \notin spent' => reading.mem[t].amt <= moved[t])
    <3>1. CASE t \in reading.drained
      BY <1>1, <3>1 DEF DrainedMoved
    <3>2. CASE t \in Drained
      <4>1. reading.mem[t].st # "none" /\ bal[t] = 0
        BY <3>2 DEF Drained, Stuck
      <4> QED
        BY <1>1, <4>1, Countables DEF SnapshotsHeld, NoItem
    <3> QED
      BY <3>1, <3>2 DEF ReadingFrom
  <2>3. reading.mem[t] \in ItemRecords /\ reading'.mem[t] \in ItemRecords
    BY DEF DrainTypes, ReadingTyped, Readings, Sheets
  <2>4. reading'.mem[t] # NoItem
    BY <2>1, <2>2, <2>3, EmptyRecords
  <2> QED
    BY <1>1, <2>1, <2>2, <2>4, Countables
<1> QED
  BY <1>2, <1>3

\* Such a step keeps the rows true.
LEMMA RowsKept == ASSUME DrainInv, DrainStep PROVE DrainTruthful'
<1> USE DEF DrainInv, DrainStep
<1> SUFFICES ASSUME NEW t \in Tokens, t \notin spent'
             PROVE  /\ custody'[t] <= moved'[t]
                    /\ item'[t].st = "confirmed" => moved'[t] > 0
                    /\ drain' = "completed" => item'[t] = NoItem \/ moved'[t] > 0 \/ t \in added'
  BY DEF DrainTruthful, NoItem
<1>1. /\ t \notin spent
      /\ t \in added => t \in added'
      /\ moved[t] \in Nat /\ moved'[t] \in Nat /\ custody[t] \in Nat /\ moved'[t] >= moved[t]
  BY Countables DEF Grown, DrainTypes, FractionsCounted
<1>2. /\ custody[t] <= moved[t]
      /\ item[t].st = "confirmed" => moved[t] > 0
      /\ drain = "completed" => item[t] = NoItem \/ moved[t] > 0 \/ t \in added
  BY <1>1 DEF DrainTruthful
<1>3. /\ custody'[t] = custody[t] \/ custody'[t] <= moved[t]
      /\ item'[t].st = "confirmed" => item[t].st = "confirmed" \/ moved[t] > 0
      /\ drain' = "completed" => \/ drain = "completed" \/ item'[t].st = "confirmed"
                                 \/ item'[t] = NoItem
  BY <1>1 DEF RowsTrue
<1>4. item[t] = NoItem => item'[t] = NoItem
  <2>1. item'[t] \in ItemRecords /\ item'[t].build = item[t].build
    BY DEF DrainTypes, ItemsTyped, Sheets, ItemsKept, SameBuild
  <2> QED
    BY <2>1, EmptyRecords DEF NoItem
<1>5. custody'[t] \in Nat
  BY WalletDrainAssumption DEF DrainTypes, CustodyTyped, MaxBal
<1> QED
  BY <1>1, <1>2, <1>3, <1>4, <1>5

\* A build is numbered next and has the amount that was snapshotted.
LEMMA BuildStep == ASSUME NEW t \in Tokens PROVE DrainInv /\ upsertItemBuild(t) => DrainInv'
<1> SUFFICES ASSUME DrainInv, upsertItemBuild(t) PROVE DrainInv'
  OBVIOUS
<1> USE DEF DrainInv
<1> DEFINE h == [st |-> "pending", amt |-> opening.snap[t], build |-> item[t].build + 1]
           next == <<t, item[t].build + 1>>
<1>1. /\ t \in ToBuild /\ item[t].build < MaxBuilds /\ item' = [item EXCEPT ![t] = h]
      /\ opening' = [opening EXCEPT !.built = @ \cup {t}]
      /\ added' = IF drain = "completed" /\ item[t] = NoItem THEN added \cup {t} ELSE added
      /\ UNCHANGED <<feature, wallet, drain, custody, shown, run, reading, canceling, chain,
                     events>>
  BY DEF upsertItemBuild
<1>2. /\ item \in Sheets /\ opening.snap[t] \in 1..MaxBal
      /\ item[t].build \in Nat /\ item[t].build + 1 \in 1..MaxBuilds
  BY <1>1, Countables, WalletDrainAssumption
     DEF DrainTypes, ItemsTyped, OpeningTyped, Openings, ToBuild, MaxBal
<1>3. h \in ItemRecords /\ h # NoItem /\ h.st = "pending" /\ h.amt = opening.snap[t]
      /\ h.build = item[t].build + 1 /\ next \in Builds
  BY <1>2, WalletDrainAssumption DEF ItemRecords, NoItem, Builds
<1> HIDE DEF h
<1>4. item' \in Sheets /\ item'[t] = h /\ \A u \in Tokens \ {t} : item'[u] = item[u]
  BY <1>1, <1>2, <1>3 DEF Sheets
<1>5. DrainTypes'
  <2>1. OpeningTyped'
    BY <1>1 DEF DrainTypes, OpeningTyped, Openings
  <2>2. EventsTyped' /\ FractionsCounted'
    BY <1>1 DEF DrainTypes, EventsTyped, FractionsCounted, chain
  <2> QED
    BY <1>1, <1>4, <2>1, <2>2, LeftAlone DEF DrainTypes, ItemsTyped, chain
<1>6. \A u \in Tokens : item[u].build \in Nat /\ item'[u].build \in Nat
                        /\ item'[u].build >= item[u].build
  <2> SUFFICES ASSUME NEW u \in Tokens
               PROVE  item[u].build \in Nat /\ item'[u].build \in Nat
                      /\ item'[u].build >= item[u].build
    OBVIOUS
  <2>1. item[u].build \in Nat
    BY Countables
  <2> QED
    BY <1>2, <1>3, <1>4, <2>1
<1>7. Numbered'
  <2>1. \A r \in Requests : \A u \in Tokens : run'[r].mem[u].build <= item'[u].build
    <3> SUFFICES ASSUME NEW r \in Requests, NEW u \in Tokens
                 PROVE  run[r].mem[u].build <= item'[u].build
      BY <1>1
    <3> QED
      BY <1>6, Countables DEF Numbered
  <2>2. \A u \in Tokens : reading'.mem[u].build <= item'[u].build
    BY <1>1, <1>6, Countables DEF Numbered
  <2>3. \A b \in live' \cup landed' : b[2] <= item'[b[1]].build
    <3>1. \A b \in live \cup landed : b[1] \in Tokens /\ b[2] \in Nat /\ b[2] <= item[b[1]].build
      BY DEF DrainTypes, NetworkTyped, Builds, Numbered
    <3> QED
      BY <1>1, <1>6, <3>1 DEF chain
  <2>4. \A u \in opening'.built : item'[u].build > 0
    <3>1. opening'.built = opening.built \cup {t} /\ opening.built \subseteq Tokens
      BY <1>1 DEF DrainTypes, OpeningTyped, Openings
    <3>2. \A u \in opening.built : item[u].build > 0
      BY DEF Numbered
    <3>3. item'[t].build > 0
      BY <1>2, <1>3, <1>4
    <3> QED
      BY <1>6, <3>1, <3>2, <3>3
  <2> QED
    BY <2>1, <2>2, <2>3, <2>4 DEF Numbered
<1>8. OneAmount'
  <2>1. PICK A \in [Builds -> 1..MaxBal] : AmountsAre(A)
    BY DEF OneAmount
  <2>2. PICK B \in [Builds -> 1..MaxBal] : B = [A EXCEPT ![next] = opening.snap[t]]
    BY <1>2, <1>3
  <2>3. B[next] = opening.snap[t] /\ \A b \in Builds : b # next => B[b] = A[b]
    BY <1>3, <2>2
  <2>4. \A u \in Tokens : \A n \in 1..MaxBuilds : n <= item[u].build => B[<<u, n>>] = A[<<u, n>>]
    BY <1>2, <2>3 DEF Builds
  <2>5. \A u \in Tokens : AmountIs(B, u, item'[u])
    <3>1. AmountIs(B, t, item'[t])
      BY <1>3, <1>4, <2>3 DEF AmountIs
    <3>2. ASSUME NEW u \in Tokens, u # t PROVE AmountIs(B, u, item'[u])
      <4>1. AmountIs(A, u, item[u]) /\ item'[u] = item[u]
        BY <1>4, <2>1, <3>2 DEF AmountsAre
      <4>2. item[u].build > 0 => item[u].build \in 1..MaxBuilds
        BY WalletDrainAssumption DEF DrainTypes, ItemsTyped, Sheets, ItemRecords
      <4> QED
        BY <1>6, <2>4, <4>1, <4>2 DEF AmountIs
    <3> QED
      BY <3>1, <3>2
  <2>6. ASSUME NEW u \in Tokens, NEW g \in ItemRecords, g.build <= item[u].build,
               AmountIs(A, u, g)
        PROVE  AmountIs(B, u, g)
    <3>1. g.build > 0 => g.build \in 1..MaxBuilds
      BY WalletDrainAssumption DEF ItemRecords
    <3> QED
      BY <2>4, <2>6, <3>1 DEF AmountIs
  <2>7. \A u \in Tokens : AmountIs(B, u, reading'.mem[u])
    BY <1>1, <2>1, <2>6 DEF AmountsAre, Numbered, DrainTypes, ReadingTyped, Readings, Sheets
  <2>8. \A r \in Requests : \A u \in Tokens : AmountIs(B, u, run'[r].mem[u])
    BY <1>1, <2>1, <2>6 DEF AmountsAre, Numbered, DrainTypes, RunsTyped, Runs, Sheets
  <2>9. \A b \in live \cup landed : B[b] = A[b]
    <3>1. \A b \in live \cup landed : b \in Builds /\ b[2] <= item[b[1]].build
      BY DEF DrainTypes, NetworkTyped, Numbered
    <3>2. next[1] = t /\ next[2] = item[t].build + 1
      OBVIOUS
    <3>3. \A b \in live \cup landed : b # next
      BY <1>2, <3>1, <3>2
    <3> QED
      BY <2>3, <3>1, <3>3
  <2>10. tx' # NoTx => tx'.amt = B[tx'.build]
    BY <1>1, <2>1, <2>9 DEF AmountsAre, DrainTypes, NetworkTyped, chain
  <2>11. \A b \in landed' : B[b] <= moved'[b[1]]
    BY <1>1, <2>1, <2>9 DEF AmountsAre, chain
  <2>12. AmountsAre(B)'
    BY <2>5, <2>7, <2>8, <2>10, <2>11 DEF AmountsAre, AmountIs
  <2>13. Builds' = Builds /\ MaxBal' = MaxBal
    BY DEF Builds, MaxBal
  <2> QED
    BY <2>2, <2>12, <2>13 DEF OneAmount
<1>9. SnapshotsHeld' /\ DrainedMoved'
  <2>1. \A u \in Tokens \ spent :
          /\ opening.snap[u] <= bal[u] + moved[u] /\ item'[u].amt <= bal[u] + moved[u]
          /\ reading.mem[u].amt <= bal[u] + moved[u]
    BY <1>3, <1>4 DEF SnapshotsHeld
  <2>2. opening'.snap = opening.snap
    BY <1>1 DEF DrainTypes, OpeningTyped, Openings
  <2> QED
    BY <1>1, <2>1, <2>2 DEF SnapshotsHeld, DrainedMoved, chain
<1>10. DrainTruthful'
  <2>1. \A u \in Tokens : item'[u].st = "confirmed" => item[u].st = "confirmed"
    BY <1>3, <1>4
  <2>2. \A u \in Tokens : item'[u] = NoItem \/ item[u] # NoItem \/ u = t
    BY <1>4
  <2>3. added \subseteq added' /\ (drain = "completed" /\ item[t] = NoItem => t \in added')
    BY <1>1
  <2>4. UNCHANGED <<drain, custody, moved, spent>>
    BY <1>1 DEF chain
  <2> QED
    BY <2>1, <2>2, <2>3, <2>4 DEF DrainTruthful, NoItem
<1> QED
  BY <1>5, <1>7, <1>8, <1>9, <1>10

-----------------------------------------------------------------------------
\* A wallet whose drain has not begun.
LEMMA DrainBegins == DrainInit => DrainInv
<1> SUFFICES ASSUME DrainInit PROVE DrainInv
  OBVIOUS
<1>1. DrainTypes
  <2>1. ParentTyped /\ OpeningTyped /\ ReadingTyped /\ ItemsTyped
    BY EmptyRecords
       DEF DrainInit, ParentTyped, OpeningTyped, ReadingTyped, ItemsTyped, Sheets
  <2>2. RunsTyped
    BY EmptyRecords DEF DrainInit, RunsTyped, NoRun
  <2>3. CustodyTyped /\ NetworkTyped /\ EventsTyped
    BY WalletDrainAssumption DEF DrainInit, CustodyTyped, NetworkTyped, EventsTyped, MaxBal
  <2>4. FractionsCounted
    BY DEF DrainInit, FractionsCounted
  <2> QED
    BY <2>1, <2>2, <2>3, <2>4 DEF DrainTypes
<1>2. Numbered
  BY DEF DrainInit, Numbered, NoItem, NoRun, NoReading, NoOpening
<1>3. OneAmount
  <2> DEFINE A == [b \in Builds |-> 1]
  <2>1. A \in [Builds -> 1..MaxBal]
    BY WalletDrainAssumption DEF MaxBal
  <2> HIDE DEF A
  <2>2. AmountsAre(A)
    BY DEF DrainInit, AmountsAre, AmountIs, NoItem, NoRun, NoReading
  <2> QED
    BY <2>1, <2>2 DEF OneAmount
<1>4. SnapshotsHeld /\ DrainedMoved
  BY DEF DrainInit, SnapshotsHeld, DrainedMoved, NoOpening, NoReading, NoItem
<1>5. DrainTruthful
  BY DEF DrainInit, DrainTruthful, NoItem
<1> QED
  BY <1>1, <1>2, <1>3, <1>4, <1>5 DEF DrainInv

\* Every step of a request, a poll, the chain or the owner preserves the invariant.
LEMMA DrainContinues == DrainInv /\ [DrainNext]_drainVars => DrainInv'
<1> SUFFICES ASSUME DrainInv, [DrainNext]_drainVars PROVE DrainInv'
  OBVIOUS
<1>1. ASSUME DrainStep PROVE DrainInv'
  BY <1>1, NumbersKept, AmountsKept, HoldingsKept, RowsKept DEF DrainInv, DrainStep
<1>2. CASE initiate \/ findOrCreate \/ answer
  BY <1>1, <1>2, InitiateStep, FindStep, AnswerStep
<1>3. CASE \E t \in Tokens : upsertItemBuild(t)
  BY <1>3, BuildStep
<1>4. CASE \E r \in Requests, t \in Tokens : claimItemForSubmit(r, t)
  BY <1>1, <1>4, ClaimStep
<1>5. CASE \E r \in Requests : submit(r) \/ submitSignedTransfer(r) \/ pollForTransfer(r)
  BY <1>1, <1>5, SubmitStep, SendStep, PollStep
<1>6. CASE \E r \in Requests : reread(r) \/ finish(r) \/ crash(r)
  BY <1>1, <1>6, RereadStep, FinishStep, CrashStep
<1>7. CASE status \/ reconcileStuckItems \/ finishStatus \/ statusFails
  BY <1>1, <1>7, StatusStep, ReconcileStep, FinishStatusStep
<1>8. CASE \E t \in Tokens : reconcileItemConfirmed(t)
  BY <1>1, <1>8, ReconcileItemStep
<1>9. CASE cancel \/ softCancel
  BY <1>1, <1>9, CancelStep
<1>10. CASE apply \/ drop
  BY <1>1, <1>10, ApplyStep, DropStep
<1>11. CASE \E t \in Tokens : receive(t) \/ spend(t)
  BY <1>1, <1>11, OutsideStep
<1>12. CASE UNCHANGED drainVars
  BY <1>12 DEF drainVars, DrainInv, DrainTypes, ParentTyped, ItemsTyped, CustodyTyped,
       OpeningTyped, RunsTyped, ReadingTyped, NetworkTyped, EventsTyped, FractionsCounted,
       Numbered, OneAmount, AmountsAre, AmountIs, SnapshotsHeld, DrainedMoved, DrainTruthful
<1> QED
  BY <1>2, <1>3, <1>4, <1>5, <1>6, <1>7, <1>8, <1>9, <1>10, <1>11, <1>12 DEF DrainNext

\* DrainInv holds in every reachable state of a drain: every copy of an item, in whatever request
\* or poll, is of a build whose amount the chain agrees with.
THEOREM DrainInvariance == DrainSpec => []DrainInv
BY DrainBegins, DrainContinues, PTL DEF DrainSpec

\* The invariant's types are those of the model.
LEMMA DrainTyped == DrainInv => DrainTypeOK
<1> SUFFICES ASSUME DrainInv PROVE DrainTypeOK
  OBVIOUS
<1> USE DEF DrainInv, DrainTypes
<1>1. Sheets \subseteq Items
  BY DEF Sheets, Items, ItemRecords
<1>2. /\ item \in Items /\ reading.mem \in Items
      /\ reading.at \in {"idle", "failed", "rows", "items"} /\ reading.drained \subseteq Tokens
  BY <1>1 DEF ItemsTyped, ReadingTyped, Readings
<1>3. ASSUME NEW r \in Requests
      PROVE  /\ run[r].at \in {"idle", "loop", "send", "poll", "finalize"}
             /\ run[r].t \in Tokens /\ run[r].mem \in Items
             /\ run[r].at \in {"send", "poll"} => Build(r) \in Builds
  <2>1. run[r] \in Runs /\ run[r].mem \in Sheets
    BY DEF RunsTyped, Runs
  <2>2. run[r].at \in {"send", "poll"} => Build(r) \in Builds
    <3> SUFFICES ASSUME run[r].at \in {"send", "poll"} PROVE Build(r) \in Builds
      OBVIOUS
    <3>1. /\ run[r].t \in Tokens /\ run[r].mem[run[r].t] \in ItemRecords
          /\ run[r].mem[run[r].t] # NoItem
      BY <2>1 DEF RunsTyped, Runs, Sheets
    <3>2. run[r].mem[run[r].t].build \in 1..MaxBuilds
      BY <3>1, WalletDrainAssumption DEF ItemRecords
    <3> QED
      BY <3>1, <3>2 DEF Build, Builds
  <2> QED
    BY <1>1, <2>1, <2>2 DEF Runs
<1>4. bal \in [Tokens -> 0..MaxBal] /\ moved \in [Tokens -> 0..MaxBal]
  BY Countable DEF FractionsCounted
<1>5. /\ feature \in {"rotation", "export"} /\ wallet \in {"active", "exported"}
      /\ drain \in {"none", "pending", "submitting", "completed", "canceled"}
      /\ canceling \in BOOLEAN
  BY Zenon DEF ParentTyped
<1>6. tx # NoTx => tx.build \in live /\ tx.amt \in 1..MaxBal
  BY DEF NetworkTyped
<1> QED
  BY <1>2, <1>3, <1>4, <1>5, <1>6
     DEF DrainTypeOK, CustodyTyped, OpeningTyped, Openings, NetworkTyped, EventsTyped

\* Whatever requests, polls, crashes, lost answers and transfers by other means interleave, the
\* rows of a drain are well typed and say only what happened on chain.
THEOREM DrainRowsAreTrue == DrainSpec => []DrainSound
<1>1. DrainInv => DrainSound
  BY DrainTyped DEF DrainInv, DrainSound
<1> QED
  BY <1>1, DrainInvariance, PTL
=============================================================================
