--------------------------- MODULE RfqBookProofs ---------------------------
(***************************************************************************)
(* Proofs about RfqBook, for any number of keys, requests, workers,        *)
(* holders, rows and faults.                                               *)
(***************************************************************************)
EXTENDS RfqBook, TLAPS

\* What a request has been answered with, or will be, is the row of its key.
Answered ==
  \A r \in Requests :
    /\ answer[r] # 0 => answer[r] \in Used /\ row[answer[r]] = keyOf[r]
    /\ pc[r] \in {"inserted", "existing", "answered"} => answer[r] # 0

\* A key never has two rows.
Unique == \A i, j \in Used : row[i] = row[j] => i = j

\* Jobs and runs are about rows that exist; a run knows everyone who had won at the creation.
Working ==
  /\ \A i \in Rows : jobs[i] > 0 => i \in Used
  /\ \A w \in Workers :
       run[w].rfq # 0 => run[w].rfq \in Used /\ due[run[w].rfq] \subseteq run[w].to
  /\ \A i \in Used : due[i] \subseteq winners

Inv ==
  /\ TypeOK /\ Answered /\ Unique /\ RecordOwned /\ Working /\ AuditedOnce /\ HoldersNotified

-----------------------------------------------------------------------------
\* Before any request there is no row, no record and no job.
LEMMA InitInv == Init => Inv
BY RfqBookAssumption DEF Init, Inv, NoRun, Rows, Used, TypeOK, Answered, Unique, RecordOwned,
       Working, AuditedOnce, HoldersNotified

\* Every step of a request, the store, a worker, the sweep or an offering preserves the invariant.
LEMMA NextInv == Inv /\ [Next]_vars => Inv'
<1> SUFFICES ASSUME Inv, [Next]_vars PROVE Inv'
  OBVIOUS
<1> USE RfqBookAssumption DEF Inv, Rows, storeVars, requestVars, rfqVars, fanVars
<1>1. CASE \E r \in Requests : begin(r)
  <2>a. PICK r \in Requests : begin(r)
    BY <1>1
  <2>b. /\ pc[r] = "new"
        /\ UNCHANGED <<stored, keyOf, rfqVars, jobs, window, fanVars, winners, faults>>
    BY <2>a DEF begin
  <2>c. \/ /\ redis[keyOf[r]] = "none"
           /\ redis' = [redis EXCEPT ![keyOf[r]] = "pending"]
           /\ owner' = [owner EXCEPT ![keyOf[r]] = r]
           /\ pc' = [pc EXCEPT ![r] = "begun"] /\ answer' = answer
        \/ /\ redis[keyOf[r]] = "done"
           /\ pc' = [pc EXCEPT ![r] = "answered"]
           /\ answer' = [answer EXCEPT ![r] = stored[keyOf[r]]]
           /\ UNCHANGED <<redis, owner>>
        \/ /\ redis[keyOf[r]] = "pending"
           /\ pc' = [pc EXCEPT ![r] = "refused"]
           /\ UNCHANGED <<redis, owner, answer>>
    BY <2>a DEF begin
  <2>d. keyOf[r] \in Keys
    BY DEF TypeOK
  <2>e. redis[keyOf[r]] = "done" =>
          stored[keyOf[r]] \in Used /\ stored[keyOf[r]] # 0 /\ row[stored[keyOf[r]]] = keyOf[r]
    BY <2>d DEF RecordOwned, Answered
  <2>1. TypeOK'
    <3>0. /\ redis \in [Keys -> {"none", "pending", "done"}]
          /\ owner \in [Keys -> Requests \cup {"none"}]
          /\ pc \in [Requests -> {"new", "begun", "gated", "inserted", "existing", "answered",
                "refused"}]
          /\ answer \in [Requests -> 0..MaxRows] /\ stored \in [Keys -> 0..MaxRows]
      BY DEF TypeOK
    <3>1. redis' \in [Keys -> {"none", "pending", "done"}]
          /\ owner' \in [Keys -> Requests \cup {"none"}]
      BY <2>c, <2>d, <3>0
    <3>2.
          /\ pc' \in [Requests -> {"new", "begun", "gated", "inserted", "existing", "answered",
                "refused"}]
          /\ answer' \in [Requests -> 0..MaxRows]
      BY <2>c, <2>d, <3>0
    <3>3. \A q \in Requests : pc'[q] = "answered" => answer'[q] \in Used
      BY <2>c, <2>e DEF TypeOK
    <3> QED BY <2>b, <3>1, <3>2, <3>3 DEF TypeOK, Used
  <2>2. Answered'
    <3>1. \A q \in Requests \ {r} : answer'[q] = answer[q] /\ pc'[q] = pc[q]
      BY <2>c DEF TypeOK
    <3>2. /\ answer'[r] # 0 => answer'[r] \in Used /\ row[answer'[r]] = keyOf[r]
          /\ pc'[r] \in {"inserted", "existing", "answered"} => answer'[r] # 0
      BY <2>c, <2>d, <2>e DEF TypeOK, Answered
    <3> QED BY <2>b, <3>1, <3>2 DEF Answered, Used
  <2>3. RecordOwned'
    BY <2>b, <2>c, <2>d, <2>e DEF TypeOK, RecordOwned, Owns
  <2>4. (Unique /\ Working /\ AuditedOnce /\ HoldersNotified)'
    BY <2>b, <2>c, <2>d, <2>e DEF Unique, Working, AuditedOnce, HoldersNotified, Used
  <2> QED BY <2>1, <2>2, <2>3, <2>4
<1>2. CASE \E r \in Requests : gates(r)
  <2>1. TypeOK'
    <3>1. PICK r \in Requests : gates(r)
      BY <1>2
    <3>2. redis' \in [Keys -> {"none", "pending", "done"}]
          /\ owner' \in [Keys -> Requests \cup {"none"}]
      BY <3>1 DEF gates, TypeOK
    <3>3. pc' = [pc EXCEPT ![r] = "gated"] \/ pc' = [pc EXCEPT ![r] = "refused"]
      BY <3>1 DEF gates
    <3>4.
          /\ pc' \in [Requests -> {"new", "begun", "gated", "inserted", "existing", "answered",
                "refused"}]
          /\ \A q \in Requests : pc'[q] = "answered" => pc[q] = "answered"
      BY <3>3 DEF TypeOK
    <3>5. UNCHANGED <<stored, keyOf, answer, row, jobs, window, run, winners, due, notified,
                      fanned, audits, faults>>
      BY <3>1 DEF gates
    <3>6. \A q \in Requests : pc'[q] = "answered" => answer[q] \in Used
      BY <3>4 DEF TypeOK
    <3> QED BY <3>2, <3>4, <3>5, <3>6 DEF TypeOK, Used
  <2>2. Answered'
    BY <1>2 DEF gates, Owns, TypeOK, Answered, Used
  <2>3. RecordOwned'
    BY <1>2 DEF gates, Owns, TypeOK, RecordOwned, Owns
  <2>4. (Unique /\ Working /\ AuditedOnce /\ HoldersNotified)'
    BY <1>2 DEF gates, Owns, Unique, Working, AuditedOnce, HoldersNotified, Used
  <2> QED BY <2>1, <2>2, <2>3, <2>4
<1>3. CASE \E r \in Requests : insertOpen(r)
  <2>a. PICK r \in Requests : insertOpen(r)
    BY <1>3
  <2>b. /\ pc[r] = "gated" /\ keyOf[r] \in Keys
        /\ UNCHANGED <<storeVars, keyOf, jobs, window, fanVars, winners, faults>>
    BY <2>a DEF insertOpen, TypeOK
  <2>c. CASE \E i \in Rows : row[i] = keyOf[r]
    <3>1. PICK i \in Rows : row[i] = keyOf[r] /\ answer' = [answer EXCEPT ![r] = i]
      BY <2>a, <2>c DEF insertOpen
    <3>2. i \in Used /\ pc' = [pc EXCEPT ![r] = "existing"] /\ UNCHANGED rfqVars
      BY <2>a, <2>b, <2>c, <3>1 DEF insertOpen, Used
    <3>3. TypeOK'
      <4>1.
            /\ pc' \in [Requests -> {"new", "begun", "gated", "inserted", "existing", "answered",
                  "refused"}]
            /\ answer' \in [Requests -> 0..MaxRows]
        BY <3>1, <3>2 DEF TypeOK
      <4>2. \A q \in Requests : pc'[q] = "answered" => answer'[q] \in Used
        BY <3>1, <3>2 DEF TypeOK
      <4> QED BY <2>b, <3>2, <4>1, <4>2 DEF TypeOK, Used
    <3>4. Answered' /\ RecordOwned'
      BY <2>b, <3>1, <3>2 DEF TypeOK, Answered, RecordOwned, Used
    <3>5. (Unique /\ Working /\ AuditedOnce /\ HoldersNotified)'
      BY <2>b, <3>2 DEF Unique, Working, AuditedOnce, HoldersNotified, Used
    <3> QED BY <3>3, <3>4, <3>5
  <2>d. CASE ~\E i \in Rows : row[i] = keyOf[r]
    <3>1. PICK i \in Rows :
            /\ i \notin Used
            /\ row' = [row EXCEPT ![i] = keyOf[r]] /\ due' = [due EXCEPT ![i] = winners]
            /\ answer' = [answer EXCEPT ![r] = i] /\ pc' = [pc EXCEPT ![r] = "inserted"]
      BY <2>a, <2>d DEF insertOpen
    <3>2. Used' = Used \cup {i}
      BY <2>b, <3>1 DEF TypeOK, Used
    <3>3. /\ row'[i] = keyOf[r] /\ due'[i] = winners
          /\ \A j \in Rows \ {i} : row'[j] = row[j] /\ due'[j] = due[j]
      BY <3>1 DEF TypeOK
    <3>4. TypeOK'
      <4>1.
            /\ pc' \in [Requests -> {"new", "begun", "gated", "inserted", "existing", "answered",
                  "refused"}]
            /\ answer' \in [Requests -> 0..MaxRows]
        BY <3>1 DEF TypeOK
      <4>2. /\ row' \in [Rows -> Keys \cup {"none"}] /\ due' \in [Rows -> SUBSET Holders]
        BY <2>b, <3>1 DEF TypeOK
      <4>3. \A q \in Requests : pc'[q] = "answered" => answer'[q] \in Used'
        BY <3>1, <3>2 DEF TypeOK
      <4>4. fanned \subseteq Used'
        BY <3>2 DEF TypeOK
      <4> QED BY <2>b, <4>1, <4>2, <4>3, <4>4 DEF TypeOK
    <3>5. Answered'
      BY <2>b, <3>1, <3>2, <3>3 DEF TypeOK, Answered, Used
    <3>6. Unique'
      BY <2>d, <3>2, <3>3 DEF Unique, Used
    <3>7. RecordOwned' /\ AuditedOnce'
      BY <2>b, <3>1 DEF TypeOK, RecordOwned, AuditedOnce
    <3>8. Working'
      BY <2>b, <3>1, <3>2, <3>3 DEF Working, Used
    <3>9. HoldersNotified'
      BY <2>b, <3>1, <3>3 DEF TypeOK, HoldersNotified, Used
    <3> QED BY <3>4, <3>5, <3>6, <3>7, <3>8, <3>9
  <2> QED BY <2>c, <2>d
<1>4. CASE \E r \in Requests : complete(r)
  <2>a. PICK r \in Requests : complete(r)
    BY <1>4
  <2>b. /\ pc[r] \in {"inserted", "existing"} /\ keyOf[r] \in Keys /\ answer[r] \in Used
        /\ pc' = [pc EXCEPT ![r] = "answered"]
        /\ UNCHANGED <<owner, keyOf, answer, rfqVars, window, fanVars, winners>>
    BY <2>a DEF complete, TypeOK, Answered
  <2>c. \/ UNCHANGED <<redis, stored>>
        \/ /\ Owns(r) /\ redis' = [redis EXCEPT ![keyOf[r]] = "done"]
           /\ stored' = [stored EXCEPT ![keyOf[r]] = answer[r]]
    BY <2>a DEF complete
  <2>d. jobs' = jobs \/ jobs' = [jobs EXCEPT ![answer[r]] = jobs[answer[r]] + 1]
    BY <2>a DEF complete
  <2>e. faults' \in 0..MaxFaults
    BY <2>a DEF complete, Fault, TypeOK
  <2>1. TypeOK'
    <3>0. /\ redis \in [Keys -> {"none", "pending", "done"}] /\ stored \in [Keys -> 0..MaxRows]
          /\ jobs \in [Rows -> Nat] /\ answer[r] \in 0..MaxRows /\ answer[r] \in Rows
      BY <2>b DEF TypeOK, Used
    <3>1. redis' \in [Keys -> {"none", "pending", "done"}] /\ stored' \in [Keys -> 0..MaxRows]
      BY <2>b, <2>c, <3>0
    <3>2.
          /\ pc' \in [Requests -> {"new", "begun", "gated", "inserted", "existing", "answered",
                "refused"}]
          /\ \A q \in Requests : pc'[q] = "answered" => answer[q] \in Used
      BY <2>b DEF TypeOK
    <3>3. jobs' \in [Rows -> Nat]
      <4>1. jobs[answer[r]] + 1 \in Nat
        BY <3>0
      <4> QED BY <2>d, <3>0, <4>1
    <3> QED BY <2>b, <2>e, <3>1, <3>2, <3>3 DEF TypeOK, Used
  <2>2. Answered'
    BY <1>4, SMTT(20) DEF complete, Owns, Fault, TypeOK, Answered, Used
  <2>3. RecordOwned'
    BY <1>4, SMTT(20) DEF complete, Owns, Fault, TypeOK, RecordOwned
  <2>4. Working'
    <3>1. \A i \in Rows : jobs'[i] > 0 => i \in Used
      BY <2>b, <2>d DEF TypeOK, Working
    <3> QED BY <2>b, <3>1 DEF Working, Used
  <2>5. (Unique /\ AuditedOnce /\ HoldersNotified)'
    BY <1>4 DEF complete, Owns, Fault, Unique, AuditedOnce, HoldersNotified, Used
  <2> QED BY <2>1, <2>2, <2>3, <2>4, <2>5
<1>5. CASE \E k \in Keys : expire(k)
  <2>1. TypeOK'
    BY <1>5 DEF expire, Fault, TypeOK, Used, Answered, Working
  <2>2. RecordOwned'
    BY <1>5 DEF expire, Fault, TypeOK, RecordOwned, Owns
  <2>3. (Answered /\ Unique /\ Working /\ AuditedOnce /\ HoldersNotified)'
    BY <1>5 DEF expire, Fault, Answered, Unique, Working, AuditedOnce, HoldersNotified, Used
  <2> QED BY <2>1, <2>2, <2>3
<1>6. CASE \E w \in Workers : fanout(w)
  <2>a. PICK w \in Workers : fanout(w)
    BY <1>6
  <2> DEFINE i == run[w].rfq
  <2>b. /\ i \in Used /\ due[i] \subseteq run[w].to /\ run[w].to \subseteq Holders
        /\ run' = [run EXCEPT ![w] = NoRun]
        /\ notified' = [notified EXCEPT ![i] = notified[i] \cup run[w].to]
        /\ fanned' = fanned \cup {i}
        /\ audits' = IF i \in fanned THEN audits ELSE [audits EXCEPT ![i] = audits[i] + 1]
        /\ UNCHANGED <<storeVars, requestVars, rfqVars, jobs, window, winners, faults>>
    BY <2>a DEF fanout, TypeOK, Working
  <2>c. i \in Rows
    BY <2>b DEF Used
  <2>1. TypeOK'
    <3>1. run' \in [Workers -> [rfq : 0..MaxRows, to : SUBSET Holders]]
      BY <2>b DEF TypeOK, NoRun
    <3>2. notified' \in [Rows -> SUBSET Holders] /\ fanned' \subseteq Used
      BY <2>b, <2>c DEF TypeOK
    <3>3. audits' \in [Rows -> Nat]
      BY <2>b, <2>c DEF TypeOK
    <3> QED BY <2>b, <3>1, <3>2, <3>3 DEF TypeOK, Used
  <2>2. Working'
    BY <1>6, SMTT(20) DEF fanout, NoRun, TypeOK, Working, Used
  <2>3. AuditedOnce'
    BY <1>6 DEF fanout, NoRun, TypeOK, AuditedOnce, Working, Used
  <2>4. HoldersNotified'
    BY <2>b, <2>c DEF TypeOK, HoldersNotified, Used
  <2>5. (Answered /\ Unique /\ RecordOwned)'
    BY <1>6 DEF fanout, NoRun, Answered, Unique, RecordOwned, Used
  <2> QED BY <2>1, <2>2, <2>3, <2>4, <2>5
<1>7. CASE \E w \in Workers, i \in Rows : takeJob(w, i)
  <2>1. TypeOK'
    <3>1. PICK w \in Workers, i \in Rows : takeJob(w, i)
      BY <1>7
    <3>2. jobs[i] > 0 /\ jobs' = [jobs EXCEPT ![i] = jobs[i] - 1]
      BY <3>1 DEF takeJob
    <3>3. jobs' \in [Rows -> Nat]
      BY <3>2 DEF TypeOK
    <3>4. run' = run \/ run' = [run EXCEPT ![w] = [rfq |-> i, to |-> winners]]
      BY <3>1 DEF takeJob
    <3>5. [rfq |-> i, to |-> winners] \in [rfq : 0..MaxRows, to : SUBSET Holders]
      BY DEF TypeOK
    <3>6. run' \in [Workers -> [rfq : 0..MaxRows, to : SUBSET Holders]]
      BY <3>4, <3>5 DEF TypeOK
    <3> QED BY <3>1, <3>3, <3>6 DEF takeJob, TypeOK, Used
  <2>2. Working'
    BY <1>7 DEF takeJob, NoRun, TypeOK, Working, Used
  <2>3. (Answered /\ Unique /\ RecordOwned /\ AuditedOnce /\ HoldersNotified)'
    BY <1>7 DEF takeJob, NoRun, Answered, Unique, RecordOwned, AuditedOnce, HoldersNotified, Used
  <2> QED BY <2>1, <2>2, <2>3
<1>8. CASE \E w \in Workers : failRun(w)
  <2>a. PICK w \in Workers : failRun(w)
    BY <1>8
  <2> DEFINE i == run[w].rfq
  <2>b. /\ i \in Used /\ i \in Rows /\ run' = [run EXCEPT ![w] = NoRun]
        /\ jobs' = jobs \/ jobs' = [jobs EXCEPT ![i] = jobs[i] + 1]
        /\ faults' \in 0..MaxFaults
        /\ UNCHANGED <<storeVars, requestVars, rfqVars, window, notified, fanned, audits,
              winners>>
    BY <2>a DEF failRun, Fault, TypeOK, Working, Used
  <2> HIDE DEF i
  <2>1. TypeOK'
    <3>1. run' \in [Workers -> [rfq : 0..MaxRows, to : SUBSET Holders]]
      <4>1. NoRun \in [rfq : 0..MaxRows, to : SUBSET Holders]
        BY DEF NoRun
      <4> QED BY <2>b, <4>1 DEF TypeOK
    <3>2. jobs' \in [Rows -> Nat]
      <4>1. jobs[i] + 1 \in Nat
        BY <2>b DEF TypeOK
      <4> QED BY <2>b, <4>1 DEF TypeOK
    <3> QED BY <2>b, <3>1, <3>2 DEF TypeOK, Used
  <2>2. Working'
    BY <2>b, ZenonT(30) DEF TypeOK, Working, Used, NoRun
  <2>3. (Answered /\ Unique /\ RecordOwned /\ AuditedOnce /\ HoldersNotified)'
    BY <2>b DEF Answered, Unique, RecordOwned, AuditedOnce, HoldersNotified, Used
  <2> QED BY <2>1, <2>2, <2>3
<1>9. CASE \E i \in Rows : reconcile(i)
  <2>1. TypeOK'
    <3>1. PICK i \in Rows : reconcile(i)
      BY <1>9
    <3>2. /\ jobs' = [jobs EXCEPT ![i] = jobs[i] + 1]
          /\ UNCHANGED <<redis, owner, stored, pc, keyOf, answer, row, window, run, winners, due,
                         notified, fanned, audits, faults>>
      BY <3>1 DEF reconcile
    <3>3. jobs[i] + 1 \in Nat
      BY DEF TypeOK
    <3>4. jobs' \in [Rows -> Nat]
      BY <3>2, <3>3 DEF TypeOK
    <3> QED BY <3>2, <3>4 DEF TypeOK, Used
  <2>2. Working'
    BY <1>9 DEF reconcile, TypeOK, Working, Used
  <2>3. (Answered /\ Unique /\ RecordOwned /\ AuditedOnce /\ HoldersNotified)'
    BY <1>9 DEF reconcile, Answered, Unique, RecordOwned, AuditedOnce, HoldersNotified, Used
  <2> QED BY <2>1, <2>2, <2>3
<1>10. CASE \E i \in Rows : orphan(i)
  <2>1. TypeOK'
    <3>1. PICK i \in Rows : orphan(i)
      BY <1>10
    <3>2. /\ window' = window \ {i} /\ faults < MaxFaults /\ faults' = faults + 1
          /\ UNCHANGED <<redis, owner, stored, pc, keyOf, answer, row, jobs, run, winners, due,
                         notified, fanned, audits>>
      BY <3>1 DEF orphan, Fault
    <3>3. faults' \in 0..MaxFaults
      BY <3>2 DEF TypeOK
    <3> QED BY <3>2, <3>3 DEF TypeOK, Used
  <2>2. (Answered /\ Unique /\ RecordOwned /\ Working /\ AuditedOnce /\ HoldersNotified)'
    BY <1>10 DEF orphan, Fault, Answered, Unique, RecordOwned, Working, AuditedOnce,
           HoldersNotified, Used
  <2> QED BY <2>1, <2>2
<1>11. CASE \E h \in Holders : win(h)
  <2>1. TypeOK'
    <3>1. PICK h \in Holders : win(h)
      BY <1>11
    <3>2. /\ winners' = winners \cup {h}
          /\ UNCHANGED <<redis, owner, stored, pc, keyOf, answer, row, jobs, window, run, due,
                         notified, fanned, audits, faults>>
      BY <3>1 DEF win
    <3> QED BY <3>2 DEF TypeOK, Used
  <2>2. Working'
    BY <1>11 DEF win, TypeOK, Working, Used
  <2>3. (Answered /\ Unique /\ RecordOwned /\ AuditedOnce /\ HoldersNotified)'
    BY <1>11 DEF win, Answered, Unique, RecordOwned, AuditedOnce, HoldersNotified, Used
  <2> QED BY <2>1, <2>2, <2>3
<1>12. CASE UNCHANGED vars
  BY <1>12, ZenonT(30) DEF vars, TypeOK, Answered, Unique, RecordOwned, Working, AuditedOnce,
         HoldersNotified, Used
<1> QED BY <1>1, <1>2, <1>3, <1>4, <1>5, <1>6, <1>7, <1>8, <1>9, <1>10, <1>11, <1>12 DEF Next,
      Fanning

\* The inductive invariant holds whatever expires, is retried, lost or run twice.
THEOREM Invariance == Spec => []Inv
BY InitInv, NextInv, PTL DEF Spec

\* The Redis record, the RFQ rows, the queue and the fan-out are well typed.
THEOREM TypeCorrect == Spec => []TypeOK
<1>1. Inv => TypeOK
  BY DEF Inv
<1> QED BY <1>1, Invariance, PTL

\* create behind the idempotency store and ON CONFLICT DO NOTHING: repeated requests with one key
\* leave one RFQ and get one answer, and racing fan-outs leave one audit.
THEOREM RetriesAlwaysLeaveOne == Spec => []RetriesLeaveOne
<1>1. Inv => OneRfqPerKey
  BY DEF Inv, Answered, Unique, OneRfqPerKey
<1>2. Inv => RetriesLeaveOne
  BY <1>1 DEF Inv, RetriesLeaveOne
<1> QED BY <1>2, Invariance, PTL

\* fanout latches an RFQ only with rows for everyone who had won the artwork when it was created.
THEOREM HoldersAlwaysNotified == Spec => []HoldersNotified
<1>1. Inv => HoldersNotified
  BY DEF Inv
<1> QED BY <1>1, Invariance, PTL
=============================================================================
