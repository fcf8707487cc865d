----------------------- MODULE QuoteSettlementProofs -----------------------
(***************************************************************************)
(* Proofs about QuoteSettlement, for any number of quotes, trades,         *)
(* attempts, stalls and faults.                                            *)
(***************************************************************************)
EXTENDS QuoteSettlement, FiniteSetTheorems, TLAPS

\* The latch, without counting.
Latch == \A t, u \in Trades : trade[t] = "pending" /\ trade[u] = "pending" => t = u

\* A trade that was never inserted has neither job nor transaction; a live job is of a trade that
\* has not been failed, unless the sweep failed it past the horizon.
Inserted ==
  /\ \A t \in Trades : trade[t] = "none" => job[t] = "none" /\ tx[t] = "none"
  /\ \A t \in Trades : job[t] \in {"waiting", "active"} /\ trade[t] = "failed" => age[t] = 2

\* What the worker takes for settled is settled.
Proven ==
  /\ \A t \in Trades : tx[t] = "ok" => of[t] \in settled
  /\ pc = "persist" => of[cur] \in settled

\* Another trade accounts for t's quote, if the quote is settled at all.
Excused(t) ==
  of[t] \in settled \ blind => \E u \in Trades : of[u] = of[t] /\ trade[u] = "settled"

\* A transaction that may still land is of a trade that is watched, or was failed blindly.
Watched ==
  \A t \in Trades :
    tx[t] = "sent" /\ age[t] < 2 => trade[t] \in {"pending", "settled"} \/ of[t] \in blind

\* A job that has not run yet has sent nothing.
Unsent ==
  \A t \in Trades :
    trade[t] = "pending" /\ job[t] = "waiting" /\ attempts[t] = 0 /\ stalls[t] = 0 =>
      tx[t] # "sent" /\ Excused(t)

\* Where the worker may fail the trade from without another read, a settlement it does not know of
\* is excused, or it knows that it does not know.
Informed ==
  pc \in {"precheck", "submit", "fail"} /\ trade[cur] = "pending" /\ ~unread =>
    tx[cur] # "sent" /\ Excused(cur)

\* The sweep fails only what no ledger accepts any more.
Overdue ==
  sweep # 0 => /\ trade[sweep] # "none" /\ age[sweep] = 2
               /\ trade[sweep] = "pending" => Excused(sweep)

Inv ==
  /\ TypeOK /\ Latch /\ Inserted /\ Proven /\ RecordMatches
  /\ Watched /\ Unsent /\ Informed /\ Overdue /\ SettlementTracked

\* The attempt is over: its job waits, with an attempt or a stall on the count, or is gone.
GivenBack ==
  /\ \/ job' = [job EXCEPT ![cur] = "gone"]
     \/ job' = [job EXCEPT ![cur] = "waiting"] /\ (attempts'[cur] > 0 \/ stalls'[cur] > 0)
  /\ \E a \in 0..(MaxAttempts - 1) : attempts' = [attempts EXCEPT ![cur] = a]
  /\ \E s \in 0..MaxStalls : stalls' = [stalls EXCEPT ![cur] = s]
  /\ WorkerIdle

-----------------------------------------------------------------------------
\* Before any accept there is no trade, no job and no transaction.
LEMMA InitInv == Init => Inv
<1> SUFFICES ASSUME Init PROVE Inv
  OBVIOUS
<1>1. TypeOK
  <2>1. /\ 0 \in 0..(MaxAttempts - 1) /\ 0 \in 0..MaxStalls /\ 0 \in 0..MaxTrades
        /\ 0 \in 0..MaxFaults /\ MaxUsdc \in 0..MaxUsdc
    BY BoundsAssumption
  <2>2. /\ trade \in [Trades -> {"none", "pending", "settled", "failed"}]
        /\ of \in [Trades -> Quotes \cup {"none"}] /\ age \in [Trades -> 0..2]
        /\ \A t \in Trades : trade[t] # "none" => of[t] \in Quotes
    BY DEF Init
  <2>3. /\ job \in [Trades -> {"none", "waiting", "active", "gone"}]
        /\ attempts \in [Trades -> 0..(MaxAttempts - 1)] /\ stalls \in [Trades -> 0..MaxStalls]
        /\ tx \in [Trades -> {"none", "sent", "ok", "reverted"}]
    BY <2>1 DEF Init
  <2> QED BY <2>1, <2>2, <2>3 DEF Init, TypeOK, Outcomes
<1>2. Latch /\ Inserted /\ Proven /\ RecordMatches /\ Watched /\ Unsent
  BY DEF Init, Latch, Inserted, Proven, RecordMatches, Watched, Unsent
<1>3. Informed /\ Overdue /\ SettlementTracked
  BY DEF Init, Informed, Overdue, SettlementTracked
<1> QED BY <1>1, <1>2, <1>3 DEF Inv

\* persistSettled keeps the three tables in agreement when the quote has settled.
LEMMA Persisted ==
  ASSUME TypeOK, RecordMatches, NEW t \in Trades, of[t] \in settled, persistSettled(t),
         UNCHANGED <<of, settled>>
  PROVE  /\ RecordMatches'
         /\ rfq' \in {"open", "filled"}
         /\ quote' \in [Quotes -> {"open", "accepted", "expired", "superseded"}]
         /\ trade' \in [Trades -> {"none", "pending", "settled", "failed"}]
         /\ \A u \in Trades : trade'[u] # "none" => of[u] \in Quotes
<1>1. CASE trade[t] = "pending"
  <2>1. /\ trade' = [trade EXCEPT ![t] = "settled"] /\ rfq' = "filled"
        /\ quote' = [q \in Quotes |-> IF quote[q] # "open" THEN quote[q]
                                      ELSE IF q = of[t] THEN "accepted" ELSE "superseded"]
    BY <1>1 DEF persistSettled
  <2>2. /\ trade' \in [Trades -> {"none", "pending", "settled", "failed"}]
        /\ trade'[t] = "settled" /\ \A u \in Trades \ {t} : trade'[u] = trade[u]
    BY <2>1 DEF TypeOK
  <2>3. quote' \in [Quotes -> {"open", "accepted", "expired", "superseded"}]
    BY <2>1 DEF TypeOK
  <2>4. \A q \in Quotes : quote'[q] = "accepted" => quote[q] = "accepted" \/ q = of[t]
    BY <2>1
  <2>5. RecordMatches'
    BY <2>1, <2>2, <2>4 DEF RecordMatches
  <2> QED BY <1>1, <2>1, <2>2, <2>3, <2>5 DEF TypeOK
<1>2. CASE trade[t] # "pending"
  BY <1>2 DEF persistSettled, TypeOK, RecordMatches
<1> QED BY <1>1, <1>2

\* failTrade keeps them in agreement too: it neither settles a trade nor accepts a quote.
LEMMA Failed ==
  ASSUME TypeOK, RecordMatches, NEW t \in Trades, NEW d, failTrade(t, d),
         UNCHANGED <<of, settled>>
  PROVE  /\ RecordMatches'
         /\ rfq' \in {"open", "filled"}
         /\ quote' \in [Quotes -> {"open", "accepted", "expired", "superseded"}]
         /\ trade' \in [Trades -> {"none", "pending", "settled", "failed"}]
         /\ \A u \in Trades : trade'[u] # "none" => of[u] \in Quotes
<1>1. CASE trade[t] = "pending"
  <2>1. trade' = [trade EXCEPT ![t] = "failed"] /\ rfq' = rfq
    BY <1>1 DEF failTrade
  <2>2. quote' = quote \/ quote' = [quote EXCEPT ![of[t]] = "expired"]
    BY <1>1 DEF failTrade
  <2>3. /\ trade' \in [Trades -> {"none", "pending", "settled", "failed"}]
        /\ trade'[t] = "failed" /\ \A u \in Trades \ {t} : trade'[u] = trade[u]
    BY <2>1 DEF TypeOK
  <2>4. /\ quote' \in [Quotes -> {"open", "accepted", "expired", "superseded"}]
        /\ \A q \in Quotes : quote'[q] = "accepted" => quote[q] = "accepted"
    BY <2>2 DEF TypeOK
  <2>5. \A u \in Trades : trade'[u] = "settled" <=> trade[u] = "settled"
    BY <1>1, <2>3
  <2>6. RecordMatches'
    BY <2>1, <2>4, <2>5 DEF RecordMatches
  <2> QED BY <1>1, <2>1, <2>3, <2>4, <2>6 DEF TypeOK
<1>2. CASE trade[t] # "pending"
  BY <1>2 DEF failTrade, TypeOK, RecordMatches
<1> QED BY <1>1, <1>2

\* The end of an attempt touches one job, and of its transaction only a result nobody reads.
LEMMA GivenBackTypes ==
  ASSUME TypeOK, cur \in Trades, GivenBack
  PROVE  /\ job' \in [Trades -> {"none", "waiting", "active", "gone"}]
         /\ attempts' \in [Trades -> 0..(MaxAttempts - 1)]
         /\ stalls' \in [Trades -> 0..MaxStalls]
         /\ tx' \in [Trades -> {"none", "sent", "ok", "reverted"}]
         /\ pc' = "idle" /\ cur' = 0 /\ outcome' = "none" /\ unread' \in BOOLEAN
         /\ job'[cur] \in {"waiting", "gone"}
         /\ job'[cur] = "waiting" => attempts'[cur] > 0 \/ stalls'[cur] > 0
         /\ \A u \in Trades \ {cur} : /\ job'[u] = job[u] /\ attempts'[u] = attempts[u]
                                      /\ stalls'[u] = stalls[u] /\ tx'[u] = tx[u]
         /\ tx'[cur] \in {"none", "sent"} /\ (tx'[cur] = "sent" <=> tx[cur] = "sent")
<1>1. unread' \in BOOLEAN
  BY Zenon DEF GivenBack, WorkerIdle
<1> QED BY <1>1 DEF GivenBack, WorkerIdle, TypeOK

\* A job removed from the queue is given back for good.
LEMMA Removed ==
  ASSUME TypeOK, cur \in Trades, RemoveJob
  PROVE  GivenBack /\ job'[cur] = "gone"
<1>1. 0 \in 0..(MaxAttempts - 1) /\ 0 \in 0..MaxStalls
  BY BoundsAssumption
<1>2. job' = [job EXCEPT ![cur] = "gone"]
  BY DEF RemoveJob
<1> QED BY <1>1, <1>2 DEF RemoveJob, GivenBack, TypeOK

\* BullMQ retries with an attempt more on the count, or gives up.
LEMMA Retried ==
  ASSUME TypeOK, cur \in Trades, RetryJob
  PROVE  GivenBack
<1>1. CASE attempts[cur] + 1 < MaxAttempts
  <2>1. /\ job' = [job EXCEPT ![cur] = "waiting"] /\ WorkerIdle /\ stalls' = stalls
        /\ attempts' = [attempts EXCEPT ![cur] = attempts[cur] + 1]
    BY <1>1 DEF RetryJob, RequeueJob
  <2>2. attempts[cur] + 1 \in 0..(MaxAttempts - 1) /\ attempts[cur] + 1 > 0
    BY <1>1, BoundsAssumption DEF TypeOK
  <2>3. attempts'[cur] > 0
    BY <2>1, <2>2 DEF TypeOK
  <2>4. stalls' = [stalls EXCEPT ![cur] = stalls[cur]] /\ stalls[cur] \in 0..MaxStalls
    BY <2>1 DEF TypeOK
  <2> QED BY <2>1, <2>2, <2>3, <2>4 DEF GivenBack
<1>2. CASE ~(attempts[cur] + 1 < MaxAttempts)
  BY <1>2, Removed DEF RetryJob
<1> QED BY <1>1, <1>2

\* It preserves whatever does not depend on the outcome, trades being only finished meanwhile.
LEMMA GivenBackKeeps ==
  ASSUME Inv, pc # "idle", GivenBack, UNCHANGED <<of, age, settled>>,
         blind \subseteq blind',
         \A u \in Trades : \/ trade'[u] = trade[u]
                           \/ /\ u = cur /\ trade[u] = "pending" /\ job'[u] = "gone"
                              /\ trade'[u] \in {"settled", "failed"}
                              /\ trade'[u] = "failed" => tx[u] # "sent" \/ of[u] \in blind'
  PROVE  (Inserted /\ Proven /\ Watched /\ Unsent /\ Informed)'
<1> USE DEF Inv
<1>0. cur \in Trades /\ job[cur] = "active"
  BY DEF TypeOK
<1>1. Inserted'
  BY <1>0, GivenBackTypes DEF Inserted
<1>2. Proven'
  BY <1>0, GivenBackTypes DEF Proven
<1>3. Watched'
  BY <1>0, GivenBackTypes DEF Watched
<1>4. Unsent'
  BY <1>0, GivenBackTypes DEF Unsent, Excused
<1>5. Informed'
  BY <1>0, GivenBackTypes DEF Informed
<1> QED BY <1>1, <1>2, <1>3, <1>4, <1>5

\* An attempt that changes no table preserves the invariant.
LEMMA GivenBackInv ==
  ASSUME Inv, pc # "idle", GivenBack, faults' \in 0..MaxFaults,
         UNCHANGED <<bookVars, lapsed, gated, tradeVars, sweep, ledgerVars, blind>>
  PROVE  Inv'
<1> USE DEF Inv, bookVars, tradeVars, ledgerVars
<1>0. cur \in Trades
  BY DEF TypeOK
<1>1. TypeOK'
  <2>1. /\ job' \in [Trades -> {"none", "waiting", "active", "gone"}]
        /\ attempts' \in [Trades -> 0..(MaxAttempts - 1)]
        /\ stalls' \in [Trades -> 0..MaxStalls]
        /\ tx' \in [Trades -> {"none", "sent", "ok", "reverted"}]
        /\ pc' = "idle" /\ cur' = 0 /\ outcome' = "none" /\ unread' \in BOOLEAN
    BY <1>0, GivenBackTypes
  <2> QED BY <2>1, BoundsAssumption DEF TypeOK, Outcomes
<1>2. (Inserted /\ Proven /\ Watched /\ Unsent /\ Informed)'
  BY GivenBackKeeps
<1>3. (Latch /\ RecordMatches /\ Overdue /\ SettlementTracked)'
  BY DEF Latch, RecordMatches, Overdue, Excused, SettlementTracked, Tracked
<1> QED BY <1>1, <1>2, <1>3

\* Every step of a handler, the worker, the sweep, the ledger or the clock preserves the
\* invariant.
LEMMA NextInv == Inv /\ [Next]_vars => Inv'
<1> SUFFICES ASSUME Inv, [Next]_vars PROVE Inv'
  OBVIOUS
<1> USE BoundsAssumption DEF Inv, Trades, bookVars, tradeVars, jobVars, workerVars, ledgerVars,
      chainVars
<1>1. CASE \E q \in Quotes : resolveContext(q)
  <2>1. TypeOK'
    BY <1>1 DEF resolveContext, Inserted, Proven, TypeOK
  <2>2. (Latch /\ Inserted /\ Proven /\ RecordMatches /\ Watched /\ Unsent /\ Informed
        /\ Overdue /\ SettlementTracked)'
    BY <1>1 DEF resolveContext, Latch, Inserted, Proven, RecordMatches, Watched, Unsent,
           Informed, Overdue, SettlementTracked, Excused, Tracked
  <2> QED BY <2>1, <2>2
<1>2. CASE \E q \in Quotes : accept(q)
  <2>a. PICK q \in Quotes, t \in Trades :
          /\ trade[t] = "none"
          /\ trade' = [trade EXCEPT ![t] = "pending"]
          /\ of' = [of EXCEPT ![t] = q]
          /\ \E j \in {"waiting", "gone"} : job' = [job EXCEPT ![t] = j]
          /\ faults' \in 0..MaxFaults
          /\ UNCHANGED <<bookVars, lapsed, gated, age, attempts, stalls, workerVars, sweep,
                         chainVars, blind>>
    <3>1. PICK q \in Quotes : accept(q)
      BY <1>2
    <3>2. PICK t \in Trades :
            /\ trade[t] = "none"
            /\ trade' = [trade EXCEPT ![t] = "pending"]
            /\ of' = [of EXCEPT ![t] = q]
            /\ \/ job' = [job EXCEPT ![t] = "waiting"] /\ faults' = faults
               \/ job' = [job EXCEPT ![t] = "gone"] /\ faults < MaxFaults /\ faults' = faults + 1
            /\ UNCHANGED <<bookVars, lapsed, gated, age, attempts, stalls, workerVars, sweep,
                           chainVars, blind>>
      BY <3>1 DEF accept
    <3>3. faults' \in 0..MaxFaults /\ \E j \in {"waiting", "gone"} : job' = [job EXCEPT ![t] = j]
      BY <3>2 DEF TypeOK
    <3> QED BY <3>2, <3>3
  <2>b. \A u \in Trades : trade[u] # "pending"
    BY <1>2 DEF accept, findPendingByRfq
  <2>c. \A u \in Trades : u # t => trade'[u] = trade[u] /\ of'[u] = of[u] /\ job'[u] = job[u]
    BY <2>a DEF TypeOK
  <2>d. trade'[t] = "pending" /\ of'[t] = q /\ job[t] = "none" /\ tx[t] = "none"
    BY <2>a DEF TypeOK, Inserted
  <2>1. TypeOK'
    <3>1. /\ trade' \in [Trades -> {"none", "pending", "settled", "failed"}]
          /\ of' \in [Trades -> Quotes \cup {"none"}]
      BY <2>a DEF TypeOK
    <3>2. job' \in [Trades -> {"none", "waiting", "active", "gone"}]
      BY <2>a DEF TypeOK
    <3>3. \A u \in Trades : trade'[u] # "none" => of'[u] \in Quotes
      BY <2>c, <2>d DEF TypeOK
    <3>4. pc # "idle" => job'[cur] = "active"
      BY <2>c, <2>d DEF TypeOK
    <3> QED BY <2>a, <3>1, <3>2, <3>3, <3>4 DEF TypeOK
  <2>2. Latch'
    BY <2>a, <2>b, <2>c, <2>d DEF TypeOK, Latch
  <2>3. Inserted'
    BY <2>a, <2>b, <2>c, <2>d DEF TypeOK, Inserted
  <2>4. Proven'
    BY <2>a, <2>b, <2>c, <2>d DEF TypeOK, Proven, Inserted
  <2>5. RecordMatches'
    BY <2>a, <2>b, <2>c, <2>d DEF TypeOK, RecordMatches
  <2>6. Watched'
    BY <2>a, <2>b, <2>c, <2>d DEF TypeOK, Watched
  <2>7. Unsent'
    <3>1. Excused(t)'
      BY <2>a, <2>b, <2>c, <2>d DEF TypeOK, SettlementTracked, Tracked, Excused
    <3> QED BY <2>a, <2>b, <2>c, <2>d, <3>1 DEF Unsent
  <2>8. Informed'
    BY <2>a, <2>b, <2>c, <2>d DEF TypeOK, Informed, Excused
  <2>9. Overdue'
    BY <2>a, <2>b, <2>c, <2>d DEF TypeOK, Overdue, Excused
  <2>10. SettlementTracked'
    BY <2>a, <2>b, <2>c, <2>d DEF TypeOK, SettlementTracked, Tracked
  <2> QED BY <2>1, <2>2, <2>3, <2>4, <2>5, <2>6, <2>7, <2>8, <2>9, <2>10
<1>3. CASE \E q \in Quotes : lapse(q)
  <2>1. TypeOK'
    BY <1>3 DEF lapse, Inserted, Proven, TypeOK
  <2>2. (Latch /\ Inserted /\ Proven /\ RecordMatches /\ Watched /\ Unsent /\ Informed
        /\ Overdue /\ SettlementTracked)'
    BY <1>3 DEF lapse, Latch, Inserted, Proven, RecordMatches, Watched, Unsent, Informed,
           Overdue, SettlementTracked, Excused, Tracked
  <2> QED BY <2>1, <2>2
<1>4. CASE \E q \in Quotes : reapLapsed(q)
  <2>1. TypeOK'
    BY <1>4 DEF reapLapsed, Inserted, Proven, TypeOK
  <2>2. RecordMatches'
    BY <1>4 DEF reapLapsed, TypeOK, RecordMatches, Proven
  <2>3. (Latch /\ Inserted /\ Proven /\ Watched /\ Unsent /\ Informed /\ Overdue
        /\ SettlementTracked)'
    BY <1>4 DEF reapLapsed, Latch, Inserted, Proven, Watched, Unsent, Informed, Overdue,
           SettlementTracked, Excused, Tracked
  <2> QED BY <2>1, <2>2, <2>3
<1>5. CASE \E t \in Trades : adopt(t)
  <2>a. PICK t \in Trades : adopt(t)
    BY <1>5
  <2>b. /\ trade[t] = "pending" /\ of[t] \in settled /\ persistSettled(t)
        /\ UNCHANGED <<lapsed, gated, of, age, jobVars, workerVars, sweep, chainVars, blind,
                       faults>>
    BY <2>a DEF adopt
  <2>c. trade' = [trade EXCEPT ![t] = "settled"]
    BY <2>b DEF persistSettled
  <2>1. TypeOK'
    BY <2>b, Persisted DEF TypeOK
  <2>2. Latch'
    BY <2>c DEF TypeOK, Latch
  <2>3. Inserted'
    BY <2>b, <2>c DEF TypeOK, Inserted
  <2>4. RecordMatches'
    BY <2>b, Persisted
  <2>5. Watched'
    BY <2>b, <2>c DEF TypeOK, Watched
  <2>6. Unsent'
    BY <2>b, <2>c DEF TypeOK, Unsent, Excused
  <2>7. Informed'
    BY <2>b, <2>c DEF TypeOK, Informed, Excused
  <2>8. Overdue'
    BY <2>b, <2>c DEF TypeOK, Overdue, Excused
  <2>9. SettlementTracked'
    BY <2>b, <2>c DEF TypeOK, SettlementTracked, Tracked
  <2>10. Proven'
    BY <2>a, <2>b DEF Proven
  <2> QED BY <2>1, <2>2, <2>3, <2>4, <2>5, <2>6, <2>7, <2>8, <2>9, <2>10
<1>6. CASE \E t \in Trades : findAbandoned(t)
  <2>1. TypeOK'
    BY <1>6 DEF findAbandoned, Inserted, Proven, TypeOK
  <2>2. Overdue'
    BY <1>6 DEF findAbandoned, TypeOK, Overdue, Excused, Latch, Inserted, Watched
  <2>3. (Latch /\ Inserted /\ Proven /\ RecordMatches /\ Watched /\ Unsent /\ Informed
        /\ SettlementTracked)'
    BY <1>6 DEF findAbandoned, Latch, Inserted, Proven, RecordMatches, Watched, Unsent, Informed,
           SettlementTracked, Excused, Tracked
  <2> QED BY <2>1, <2>2, <2>3
<1>7. CASE \E t \in Trades : apply(t)
  <2>a. PICK t \in Trades : apply(t)
    BY <1>7
  <2>b. /\ tx[t] = "sent" /\ trade[t] # "none" /\ of[t] \in Quotes
        /\ UNCHANGED <<bookVars, lapsed, gated, tradeVars, jobVars, workerVars, sweep, sound,
                       blind, faults>>
    BY <2>a DEF apply, TypeOK, Inserted
  <2>c. /\ tx' \in [Trades -> {"none", "sent", "ok", "reverted"}] /\ tx'[t] # "sent"
        /\ \A u \in Trades \ {t} : tx'[u] = tx[u]
    BY <2>a, SMTT(20) DEF apply, TypeOK
  <2>d. \/ age[t] < 2 /\ settled' = settled \cup {of[t]} /\ usdc' = usdc - 1 /\ usdc # 0
        \/ tx'[t] # "ok" /\ settled' = settled /\ usdc' = usdc
    BY <2>a DEF apply, Reverts, TypeOK
  <2>1. TypeOK'
    <3>1. settled' \subseteq Quotes
      BY <2>b, <2>d DEF TypeOK
    <3>2. usdc' \in 0..MaxUsdc
      BY <2>d, SMTT(20) DEF TypeOK
    <3> QED BY <2>b, <2>c, <3>1, <3>2 DEF TypeOK, Outcomes
  <2>2. Inserted'
    BY <2>b, <2>c, <2>d DEF TypeOK, Inserted
  <2>3. Proven'
    BY <2>b, <2>c, <2>d DEF TypeOK, Proven
  <2>4. RecordMatches'
    BY <2>b, <2>c, <2>d DEF TypeOK, RecordMatches
  <2>5. Watched'
    BY <2>b, <2>c, <2>d DEF TypeOK, Watched
  <2>6. Unsent'
    BY <2>b, <2>c, <2>d DEF TypeOK, Unsent, Excused, Watched, Latch
  <2>7. Informed'
    BY <2>b, <2>c, <2>d DEF TypeOK, Informed, Excused, Watched, Latch
  <2>8. Overdue'
    BY <2>b, <2>c, <2>d, SMTT(20) DEF TypeOK, Overdue, Excused, Watched, Latch
  <2>9. SettlementTracked'
    BY <2>b, <2>c, <2>d DEF TypeOK, SettlementTracked, Tracked, Watched
  <2>10. Latch'
    BY <2>a, <2>b DEF Latch
  <2> QED BY <2>1, <2>2, <2>3, <2>4, <2>5, <2>6, <2>7, <2>8, <2>9, <2>10
<1>8. CASE \E t \in Trades : grow(t)
  <2>1. TypeOK'
    <3>1. PICK t \in Trades : grow(t)
      BY <1>8
    <3>2. age' = [age EXCEPT ![t] = age[t] + 1] /\ age[t] < 2 /\ age[t] \in 0..2
      BY <3>1 DEF grow, TypeOK
    <3>3. age[t] + 1 \in 0..2
      BY <3>2
    <3>4. age' \in [Trades -> 0..2]
      BY <3>2, <3>3 DEF TypeOK
    <3> QED BY <3>1, <3>4 DEF grow, TypeOK
  <2>2. Inserted'
    BY <1>8 DEF grow, TypeOK, Inserted
  <2>3. Watched'
    BY <1>8 DEF grow, TypeOK, Watched, Latch, Inserted, Informed, Overdue
  <2>4. Overdue'
    BY <1>8 DEF grow, TypeOK, Overdue, Excused, Latch, Inserted, Watched
  <2>5. (Latch /\ Proven /\ RecordMatches /\ Unsent /\ Informed /\ SettlementTracked)'
    BY <1>8 DEF grow, Latch, Proven, RecordMatches, Unsent, Informed, SettlementTracked, Excused,
           Tracked
  <2> QED BY <2>1, <2>2, <2>3, <2>4, <2>5
<1>9. CASE \E t \in Trades : process(t)
  <2>a. PICK t \in Trades : process(t)
    BY <1>9
  <2>b. /\ pc = "idle" /\ job[t] = "waiting"
        /\ UNCHANGED <<bookVars, lapsed, gated, tradeVars, attempts, stalls, sweep, chainVars,
                       blind, faults>>
    BY <2>a DEF process
  <2>c. \/ trade[t] # "pending" /\ job' = [job EXCEPT ![t] = "gone"] /\ UNCHANGED workerVars
        \/ /\ trade[t] = "pending" /\ job' = [job EXCEPT ![t] = "active"] /\ cur' = t
           /\ outcome' = "none" /\ unread' = (stalls[t] > 0)
           /\ pc' = IF attempts[t] > 0 THEN "heal" ELSE "precheck"
    BY <2>a DEF process
  <2>1. TypeOK'
    <3>1. /\ job' \in [Trades -> {"none", "waiting", "active", "gone"}]
          /\ \A u \in Trades \ {t} : job'[u] = job[u]
          /\ job'[t] = "gone" \/ (job'[t] = "active" /\ trade[t] = "pending")
      BY <2>c, SMTT(20) DEF TypeOK
    <3>2. /\ pc' \in {"idle", "heal", "precheck"} /\ outcome' \in Outcomes /\ unread' \in BOOLEAN
          /\ cur' \in 0..MaxTrades /\ (pc' # "idle" => cur' \in Trades /\ job'[cur'] = "active")
      <4>1. CASE UNCHANGED workerVars
        BY <4>1, <2>b DEF TypeOK, Outcomes
      <4>2. CASE ~UNCHANGED workerVars
        <5>1. /\ trade[t] = "pending" /\ cur' = t /\ outcome' = "none"
              /\ unread' = (stalls[t] > 0) /\ pc' \in {"heal", "precheck"}
          BY <4>2, <2>c
        <5>2. unread' \in BOOLEAN
          BY <5>1
        <5>3. job'[t] = "active"
          BY <4>2, <2>c DEF TypeOK
        <5> QED BY <5>1, <5>2, <5>3 DEF Outcomes
      <4> QED BY <4>1, <4>2
    <3> QED BY <2>b, <3>1, <3>2 DEF TypeOK
  <2>2. Inserted'
    <3>1. /\ \A u \in Trades \ {t} : job'[u] = job[u]
          /\ job'[t] = "gone" \/ (job'[t] = "active" /\ trade[t] = "pending")
      BY <2>c DEF TypeOK
    <3> QED BY <2>b, <3>1 DEF Inserted
  <2>3. Proven'
    BY <2>b, <2>c DEF Proven
  <2>4. Unsent'
    BY <2>b, <2>c DEF TypeOK, Unsent, Excused
  <2>5. Informed'
    <3>1. CASE UNCHANGED workerVars
      BY <3>1, <2>b DEF Informed
    <3>2. CASE trade[t] = "pending" /\ attempts[t] = 0 /\ stalls[t] = 0
      <4>1. tx[t] # "sent" /\ Excused(t)
        BY <3>2, <2>b DEF Unsent
      <4>2. cur' = t
        BY <3>2, <2>c
      <4> QED BY <4>1, <4>2, <2>b DEF Informed, Excused
    <3>3. CASE trade[t] = "pending" /\ attempts[t] > 0
      BY <3>3, <2>c DEF Informed
    <3>4. CASE trade[t] = "pending" /\ stalls[t] > 0
      <4>1. unread' = TRUE
        BY <3>4, <2>c
      <4> QED BY <4>1 DEF Informed
    <3> QED BY <3>1, <3>2, <3>3, <3>4, <2>c DEF TypeOK
  <2>6. (Latch /\ RecordMatches /\ Watched /\ Overdue /\ SettlementTracked)'
    BY <2>a, <2>b DEF Latch, RecordMatches, Watched, Overdue, SettlementTracked, Excused, Tracked
  <2> QED BY <2>1, <2>2, <2>3, <2>4, <2>5, <2>6
<1>10. CASE selfHeal
  <2>1. TypeOK'
    BY <1>10 DEF selfHeal, Inserted, Proven, TypeOK
  <2>2. Proven'
    BY <1>10 DEF selfHeal, TypeOK, Proven, Inserted
  <2>3. Informed'
    BY <1>10 DEF selfHeal, TypeOK, Informed, Excused, Latch, Inserted, Watched, Unsent
  <2>4. (Latch /\ Inserted /\ RecordMatches /\ Watched /\ Unsent /\ Overdue /\ SettlementTracked)'
    BY <1>10 DEF selfHeal, Latch, Inserted, RecordMatches, Watched, Unsent, Overdue,
           SettlementTracked, Excused, Tracked
  <2> QED BY <2>1, <2>2, <2>3, <2>4
<1>11. CASE precheckUsdc
  <2>1. TypeOK'
    BY <1>11 DEF precheckUsdc, Outcomes, Inserted, Proven, TypeOK
  <2>2. Proven'
    BY <1>11 DEF precheckUsdc, Outcomes, TypeOK, Proven, Inserted
  <2>3. Informed'
    BY <1>11 DEF precheckUsdc, Outcomes, TypeOK, Informed, Excused, Latch, Inserted, Watched,
           Unsent
  <2>4. (Latch /\ Inserted /\ RecordMatches /\ Watched /\ Unsent /\ Overdue /\ SettlementTracked)'
    BY <1>11 DEF precheckUsdc, Outcomes, Latch, Inserted, RecordMatches, Watched, Unsent,
           Overdue, SettlementTracked, Excused, Tracked
  <2> QED BY <2>1, <2>2, <2>3, <2>4
<1>12. CASE submitSignedAcceptQuote
  <2>1. TypeOK'
    BY <1>12 DEF submitSignedAcceptQuote, Reverts, Outcomes, Inserted, Proven, TypeOK
  <2>2. Inserted'
    BY <1>12 DEF submitSignedAcceptQuote, Reverts, Outcomes, TypeOK, Inserted
  <2>3. Proven'
    BY <1>12 DEF submitSignedAcceptQuote, Reverts, Outcomes, TypeOK, Proven, Inserted
  <2>4. Watched'
    BY <1>12, SMTT(20) DEF submitSignedAcceptQuote, Reverts, Outcomes, TypeOK, Watched, Latch,
           Inserted, Informed, Overdue
  <2>5. Unsent'
    BY <1>12 DEF submitSignedAcceptQuote, Reverts, Outcomes, TypeOK, Unsent, Excused, Latch,
           Inserted, Watched
  <2>6. Informed'
    BY <1>12 DEF submitSignedAcceptQuote, Reverts, Outcomes, TypeOK, Informed, Excused, Latch,
           Inserted, Watched, Unsent
  <2>7. (Latch /\ RecordMatches /\ Overdue /\ SettlementTracked)'
    BY <1>12 DEF submitSignedAcceptQuote, Reverts, Outcomes, Latch, RecordMatches, Overdue,
           SettlementTracked, Excused, Tracked
  <2> QED BY <2>1, <2>2, <2>3, <2>4, <2>5, <2>6, <2>7
<1>13. CASE poll
  <2>1. TypeOK'
    BY <1>13 DEF poll, Outcomes, Inserted, Proven, TypeOK
  <2>2. Proven'
    BY <1>13 DEF poll, Outcomes, TypeOK, Proven, Inserted
  <2>3. Informed'
    BY <1>13 DEF poll, Outcomes, TypeOK, Informed, Excused, Latch, Inserted, Watched, Unsent
  <2>4. (Latch /\ Inserted /\ RecordMatches /\ Watched /\ Unsent /\ Overdue /\ SettlementTracked)'
    BY <1>13 DEF poll, Outcomes, Latch, Inserted, RecordMatches, Watched, Unsent, Overdue,
           SettlementTracked, Excused, Tracked
  <2> QED BY <2>1, <2>2, <2>3, <2>4
<1>14. CASE confirm
  <2>0. cur \in Trades
    BY <1>14 DEF confirm, TypeOK
  <2>a. \/ GivenBack
        \/ /\ \/ pc' = "persist" /\ of[cur] \in settled /\ unread' = unread
              \/ pc' = "fail" /\ of[cur] \notin settled /\ unread' = (tx[cur] = "sent")
           /\ UNCHANGED <<cur, outcome, jobVars, tx>>
    BY <1>14, <2>0, Retried DEF confirm
  <2>b. /\ pc = "confirm"
        /\ UNCHANGED <<bookVars, lapsed, gated, tradeVars, sweep, ledgerVars, blind, faults>>
    BY <1>14 DEF confirm
  <2>c. CASE GivenBack
    <3>1. pc # "idle" /\ faults' \in 0..MaxFaults
      BY <2>b DEF TypeOK
    <3> QED BY <2>b, <2>c, <3>1, GivenBackInv
  <2>d. CASE ~GivenBack
    <3>1. TypeOK'
      BY <2>a, <2>b, <2>d DEF TypeOK
    <3>2. (Latch /\ Inserted /\ RecordMatches /\ Watched /\ Unsent /\ Overdue
          /\ SettlementTracked)'
      BY <2>a, <2>b, <2>d DEF Latch, Inserted, RecordMatches, Watched, Unsent, Overdue,
             SettlementTracked, Excused, Tracked
    <3>3. Proven'
      BY <2>a, <2>b, <2>d DEF Proven
    <3>4. Informed'
      BY <2>a, <2>b, <2>d DEF Informed, Excused
    <3> QED BY <3>1, <3>2, <3>3, <3>4
  <2> QED BY <2>c, <2>d
<1>15. CASE settle
  <2>a. /\ pc = "persist" /\ cur \in Trades /\ persistSettled(cur)
        /\ GivenBack /\ job'[cur] = "gone"
        /\ UNCHANGED <<lapsed, gated, of, age, sweep, ledgerVars, blind, faults>>
    BY <1>15, Removed DEF settle, TypeOK
  <2>b. of[cur] \in settled
    BY <2>a DEF Proven
  <2>c. /\ trade'[cur] = trade[cur] \/ (trade[cur] = "pending" /\ trade'[cur] = "settled")
        /\ \A u \in Trades \ {cur} : trade'[u] = trade[u]
    BY <2>a DEF persistSettled, TypeOK
  <2>d. \A u \in Trades : /\ trade[u] # "none" => trade'[u] # "none"
                          /\ trade[u] = "settled" => trade'[u] = "settled"
                          /\ trade'[u] = "pending" => trade[u] = "pending"
    BY <2>c
  <2>1. TypeOK'
    <3>1. /\ rfq' \in {"open", "filled"}
          /\ quote' \in [Quotes -> {"open", "accepted", "expired", "superseded"}]
          /\ trade' \in [Trades -> {"none", "pending", "settled", "failed"}]
          /\ \A u \in Trades : trade'[u] # "none" => of[u] \in Quotes
      BY <2>a, <2>b, Persisted
    <3>2. /\ job' \in [Trades -> {"none", "waiting", "active", "gone"}]
          /\ attempts' \in [Trades -> 0..(MaxAttempts - 1)]
          /\ stalls' \in [Trades -> 0..MaxStalls]
          /\ tx' \in [Trades -> {"none", "sent", "ok", "reverted"}]
          /\ pc' = "idle" /\ cur' = 0 /\ outcome' = "none" /\ unread' \in BOOLEAN
      BY <2>a, GivenBackTypes
    <3> QED BY <2>a, <3>1, <3>2, SMTT(20) DEF TypeOK, Outcomes
  <2>2. Latch'
    BY <2>c DEF Latch
  <2>3. RecordMatches'
    BY <2>a, <2>b, Persisted
  <2>4. (Inserted /\ Proven /\ Watched /\ Unsent /\ Informed)'
    BY <2>a, <2>c, GivenBackKeeps
  <2>5. Overdue'
    BY <2>a, <2>d DEF Overdue, Excused, TypeOK
  <2>6. SettlementTracked'
    BY <2>a, <2>c, <2>d DEF SettlementTracked, Tracked
  <2> QED BY <2>1, <2>2, <2>3, <2>4, <2>5, <2>6
<1>16. CASE terminalFail
  <2>a. /\ pc = "fail" /\ cur \in Trades
        /\ GivenBack /\ job'[cur] = "gone" /\ failTrade(cur, classifySettleFailure(outcome))
        /\ UNCHANGED <<lapsed, gated, of, age, sweep, ledgerVars, faults>>
        /\ blind' = IF unread /\ trade[cur] = "pending" THEN blind \cup {of[cur]} ELSE blind
    BY <1>16, Removed DEF terminalFail, TypeOK
  <2>c. /\ trade'[cur] = trade[cur] \/ (trade[cur] = "pending" /\ trade'[cur] = "failed")
        /\ \A u \in Trades \ {cur} : trade'[u] = trade[u]
    BY <2>a DEF failTrade, TypeOK
  <2>d. blind \subseteq blind' /\ blind' \subseteq Quotes
    BY <2>a DEF TypeOK
  <2>e. \A u \in Trades : /\ trade[u] # "none" => trade'[u] # "none"
                          /\ trade[u] = "settled" => trade'[u] = "settled"
                          /\ trade'[u] = "pending" => trade[u] = "pending"
    BY <2>c
  <2>f. tx[cur] # "sent" \/ of[cur] \in blind' \/ trade[cur] # "pending"
    BY <2>a DEF Informed
  <2>1. TypeOK'
    <3>1. /\ rfq' \in {"open", "filled"}
          /\ quote' \in [Quotes -> {"open", "accepted", "expired", "superseded"}]
          /\ trade' \in [Trades -> {"none", "pending", "settled", "failed"}]
          /\ \A u \in Trades : trade'[u] # "none" => of[u] \in Quotes
      BY <2>a, Failed
    <3>2. /\ job' \in [Trades -> {"none", "waiting", "active", "gone"}]
          /\ attempts' \in [Trades -> 0..(MaxAttempts - 1)]
          /\ stalls' \in [Trades -> 0..MaxStalls]
          /\ tx' \in [Trades -> {"none", "sent", "ok", "reverted"}]
          /\ pc' = "idle" /\ cur' = 0 /\ outcome' = "none" /\ unread' \in BOOLEAN
      BY <2>a, GivenBackTypes
    <3> QED BY <2>a, <2>d, <3>1, <3>2 DEF TypeOK, Outcomes
  <2>2. Latch'
    BY <2>c DEF Latch
  <2>3. RecordMatches'
    BY <2>a, Failed
  <2>4. (Inserted /\ Proven /\ Watched /\ Unsent /\ Informed)'
    BY <2>a, <2>c, <2>d, <2>f, GivenBackKeeps
  <2>5. Overdue'
    BY <2>a, <2>d, <2>e DEF Overdue, Excused, TypeOK
  <2>6. SettlementTracked'
    BY <2>a, <2>c, <2>d DEF SettlementTracked, Tracked, Informed, Excused
  <2> QED BY <2>1, <2>2, <2>3, <2>4, <2>5, <2>6
<1>17. CASE attemptThrows
  <2>a. GivenBack
    BY <1>17, Retried DEF attemptThrows, TypeOK
  <2>b. /\ pc # "idle" /\ faults' \in 0..MaxFaults
        /\ UNCHANGED <<bookVars, lapsed, gated, tradeVars, sweep, ledgerVars, blind>>
    BY <1>17 DEF attemptThrows, TypeOK
  <2> QED BY <2>a, <2>b, GivenBackInv
<1>18. CASE crash
  <2>a. GivenBack
    <3>0. cur \in Trades
      BY <1>18 DEF crash, TypeOK
    <3>1. CASE RemoveJob
      BY <3>0, <3>1, Removed
    <3>2. CASE ~RemoveJob
      <4>1. /\ job' = [job EXCEPT ![cur] = "waiting"] /\ WorkerIdle /\ attempts' = attempts
            /\ stalls' = [stalls EXCEPT ![cur] = stalls[cur] + 1] /\ stalls[cur] < MaxStalls
        BY <1>18, <3>2 DEF crash, RequeueJob
      <4>2. stalls[cur] + 1 \in 0..MaxStalls /\ stalls[cur] + 1 > 0
        BY <3>0, <4>1 DEF TypeOK
      <4>3. stalls'[cur] > 0
        BY <3>0, <4>1, <4>2 DEF TypeOK
      <4>4. /\ attempts' = [attempts EXCEPT ![cur] = attempts[cur]]
            /\ attempts[cur] \in 0..(MaxAttempts - 1)
        BY <3>0, <4>1 DEF TypeOK
      <4> QED BY <4>1, <4>2, <4>3, <4>4 DEF GivenBack
    <3> QED BY <3>1, <3>2
  <2>b. /\ pc # "idle" /\ faults' \in 0..MaxFaults
        /\ UNCHANGED <<bookVars, lapsed, gated, tradeVars, sweep, ledgerVars, blind>>
    BY <1>18 DEF crash, TypeOK
  <2> QED BY <2>a, <2>b, GivenBackInv
<1>19. CASE abandon
  <2>a. /\ sweep \in Trades /\ sweep' = 0 /\ failTrade(sweep, "keepOpen")
        /\ UNCHANGED <<lapsed, gated, of, age, jobVars, workerVars, chainVars, blind, faults>>
    BY <1>19 DEF abandon, TypeOK
  <2>b. trade[sweep] # "none" /\ age[sweep] = 2 /\ (trade[sweep] = "pending" => Excused(sweep))
    BY <2>a DEF Overdue
  <2>c. /\ trade'[sweep] = trade[sweep] \/ (trade[sweep] = "pending" /\ trade'[sweep] = "failed")
        /\ \A u \in Trades \ {sweep} : trade'[u] = trade[u]
    BY <2>a DEF failTrade, TypeOK
  <2>d. \A u \in Trades : /\ trade[u] # "none" => trade'[u] # "none"
                          /\ trade[u] = "settled" => trade'[u] = "settled"
                          /\ trade'[u] = "pending" => trade[u] = "pending"
    BY <2>c
  <2>1. TypeOK'
    <3>1. /\ rfq' \in {"open", "filled"}
          /\ quote' \in [Quotes -> {"open", "accepted", "expired", "superseded"}]
          /\ trade' \in [Trades -> {"none", "pending", "settled", "failed"}]
          /\ \A u \in Trades : trade'[u] # "none" => of[u] \in Quotes
      BY <2>a, Failed
    <3> QED BY <2>a, <3>1 DEF TypeOK
  <2>2. Latch'
    BY <2>a, <2>b, <2>c, <2>d DEF TypeOK, Latch
  <2>3. Inserted'
    BY <2>a, <2>b, <2>c, <2>d DEF TypeOK, Inserted
  <2>4. RecordMatches'
    BY <2>a, Failed
  <2>5. Watched'
    BY <2>a, <2>b, <2>c, <2>d DEF TypeOK, Watched
  <2>6. Unsent'
    BY <2>a, <2>b, <2>c, <2>d DEF TypeOK, Unsent, Excused
  <2>7. Informed'
    BY <2>a, <2>b, <2>c, <2>d DEF TypeOK, Informed, Excused
  <2>8. Overdue'
    BY <2>a, <2>b, <2>c, <2>d DEF TypeOK, Overdue
  <2>9. SettlementTracked'
    <3> SUFFICES ASSUME NEW q \in settled \ blind PROVE Tracked(q)'
      BY <2>a DEF SettlementTracked
    <3>1. PICK u \in Trades : of[u] = q /\ trade[u] \in {"pending", "settled"}
      BY DEF SettlementTracked, Tracked
    <3>2. CASE u = sweep /\ trade[u] = "pending"
      <4>1. PICK w \in Trades : of[w] = q /\ trade[w] = "settled"
        BY <2>b, <3>1, <3>2 DEF Excused
      <4> QED BY <2>a, <2>d, <4>1 DEF Tracked
    <3>3. CASE trade[u] = "settled"
      BY <2>a, <2>d, <3>1, <3>3 DEF Tracked
    <3>4. CASE u # sweep
      BY <2>a, <2>c, <3>1, <3>4 DEF Tracked
    <3> QED BY <3>1, <3>2, <3>3, <3>4
  <2>10. Proven'
    BY <2>a, <2>b DEF Proven
  <2> QED BY <2>1, <2>2, <2>3, <2>4, <2>5, <2>6, <2>7, <2>8, <2>9, <2>10
<1>20. CASE drift
  <2>1. TypeOK'
    BY <1>20 DEF drift, Inserted, Proven, TypeOK
  <2>2. (Latch /\ Inserted /\ Proven /\ RecordMatches /\ Watched /\ Unsent /\ Informed
        /\ Overdue /\ SettlementTracked)'
    BY <1>20 DEF drift, Latch, Inserted, Proven, RecordMatches, Watched, Unsent, Informed,
           Overdue, SettlementTracked, Excused, Tracked
  <2> QED BY <2>1, <2>2
<1>21. CASE UNCHANGED vars
  BY <1>21, SMTT(20) DEF vars, TypeOK, Latch, Inserted, Proven, RecordMatches, Watched, Unsent,
         Informed, Overdue, SettlementTracked, Excused, Tracked
<1> QED BY <1>1, <1>2, <1>3, <1>4, <1>5, <1>6, <1>7, <1>8, <1>9, <1>10, <1>11, <1>12, <1>13,
      <1>14, <1>15, <1>16, <1>17, <1>18, <1>19, <1>20, <1>21 DEF Next, Worker

\* The inductive invariant holds whatever is lost, retried, stalled, polled too briefly or swept.
THEOREM Invariance == Spec => []Inv
BY InitInv, NextInv, PTL DEF Spec

\* The tables, the queue, the worker and the ledger are well typed.
THEOREM TypeCorrect == Spec => []TypeOK
<1>1. Inv => TypeOK
  BY DEF Inv
<1> QED BY <1>1, Invariance, PTL

\* The latch that insertPending re-reads under the advisory lock admits one pending accept, and
\* the RFQ, its quotes and its trades never contradict one another or the chain.
THEOREM TablesAlwaysAgree == Spec => []TablesAgree
<1>1. Latch => OnePending
  <2> SUFFICES ASSUME Latch PROVE OnePending
    OBVIOUS
  <2> DEFINE Pending == {t \in Trades : trade[t] = "pending"}
  <2>1. CASE Pending = {}
    BY <2>1, FS_EmptySet DEF OnePending
  <2>2. CASE Pending # {}
    <3>1. PICK t : t \in Pending
      BY <2>2
    <3>2. Pending = {t}
      BY <3>1 DEF Latch
    <3> QED BY <3>2, FS_Singleton DEF OnePending
  <2> QED BY <2>1, <2>2
<1>2. Inv => TablesAgree
  BY <1>1 DEF Inv, TablesAgree
<1> QED BY <1>2, Invariance, PTL

\* A quote that has settled on chain has a trade that says so or is still looked at, unless the
\* worker failed the trade on a missing or overtaken is_settled answer.
THEOREM SettlementStaysTracked == Spec => []SettlementTracked
<1>1. Inv => SettlementTracked
  BY DEF Inv
<1> QED BY <1>1, Invariance, PTL
=============================================================================
