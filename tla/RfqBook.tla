------------------------------ MODULE RfqBook ------------------------------
(***************************************************************************)
(* A collector's RFQs and the notification of the artwork's holders.       *)
(*                                                                         *)
(* create runs behind the Redis idempotency store, whose in-flight         *)
(* sentinel may expire under a slow handler, with the unique index on the  *)
(* key's hash as the durable belt.  The fan-out job is enqueued after the  *)
(* commit, at best; workers (several at a time) resolve the recipients,    *)
(* then insert, latch and audit in one transaction; a sweep re-enqueues    *)
(* what is not latched while it is inside its window.                      *)
(***************************************************************************)
EXTENDS Integers, FiniteSets

CONSTANTS
  Keys,      \* idempotency keys of the collector
  Requests,  \* HTTP requests, each with one of the keys
  Workers,   \* concurrent fan-out runs
  Holders,   \* possible winners of the artwork's offering
  Ceiling,   \* MAX_ACTIVE_OPEN_RFQS
  MaxRows,   \* bound: RFQ rows
  MaxJobs,   \* bound: queued fan-out jobs of an RFQ
  MaxFaults  \* bound: expired sentinels, crashes, lost enqueues, failed jobs

\* "none" stands for the absence of a key.
ASSUME RfqBookAssumption ==
  /\ Ceiling \in Nat /\ MaxRows \in Nat /\ MaxJobs \in Nat \ {0} /\ MaxFaults \in Nat
  /\ "none" \notin Keys

VARIABLES
  redis,     \* the idempotency record of a key: "none", "pending" or "done"
  owner,     \* the request whose token a record carries
  stored,    \* the row in a completed record
  pc,        \* where a request is
  keyOf,     \* the key of a request
  answer,    \* the row a request has been answered with, or 0
  row,       \* the key of an RFQ row, "none" for an unused id
  jobs,      \* queued fan-out jobs of a row
  window,    \* the row is still inside the sweep's window
  run,       \* what a worker is doing: the row and the recipients it resolved
  winners,   \* settled winners of the artwork
  due,       \* history: the winners when a row was created
  notified,  \* rfq_notifications, the recipients of a row
  fanned,    \* rows with fanned_out_at
  audits,    \* audit records of a row's fan-out
  faults

vars == <<redis, owner, stored, pc, keyOf, answer, row, jobs, window, run, winners, due, notified,
          fanned, audits, faults>>

storeVars   == <<redis, owner, stored>>
requestVars == <<pc, keyOf, answer>>
rfqVars     == <<row, due>>
fanVars     == <<run, notified, fanned, audits>>

Rows    == 1..MaxRows
NoRun   == [rfq |-> 0, to |-> {}]
Used    == {i \in Rows : row[i] # "none"}
Fault   == faults < MaxFaults /\ faults' = faults + 1

Init ==
  /\ redis = [k \in Keys |-> "none"] /\ owner = [k \in Keys |-> "none"]
  /\ stored = [k \in Keys |-> 0]
  /\ pc = [r \in Requests |-> "new"] /\ keyOf \in [Requests -> Keys]
  /\ answer = [r \in Requests |-> 0]
  /\ row = [i \in Rows |-> "none"] /\ jobs = [i \in Rows |-> 0] /\ window = Rows
  /\ run = [w \in Workers |-> NoRun] /\ winners = {} /\ due = [i \in Rows |-> {}]
  /\ notified = [i \in Rows |-> {}] /\ fanned = {} /\ audits = [i \in Rows |-> 0]
  /\ faults = 0

-----------------------------------------------------------------------------
(***************************************************************************)
(* The idempotency store.                                                  *)
(***************************************************************************)
\* SET NX claims the key; a completed record is replayed, a pending one refused.
begin(r) ==
  LET k == keyOf[r] IN
  /\ pc[r] = "new"
  /\ \/ /\ redis[k] = "none"
        /\ redis' = [redis EXCEPT ![k] = "pending"] /\ owner' = [owner EXCEPT ![k] = r]
        /\ pc' = [pc EXCEPT ![r] = "begun"]
        /\ UNCHANGED answer
     \/ /\ redis[k] = "done"
        /\ pc' = [pc EXCEPT ![r] = "answered"] /\ answer' = [answer EXCEPT ![r] = stored[k]]
        /\ UNCHANGED <<redis, owner>>
     \/ /\ redis[k] = "pending"
        /\ pc' = [pc EXCEPT ![r] = "refused"]
        /\ UNCHANGED <<redis, owner, answer>>
  /\ UNCHANGED <<stored, keyOf, rfqVars, jobs, window, fanVars, winners, faults>>

\* No token comparison.
Fault_Owns(r) == redis[keyOf[r]] # "none"

\* The scripts compare the token before they touch the record.
Owns(r) == redis[keyOf[r]] # "none" /\ owner[keyOf[r]] = r

\* The record's TTL ends: 30 s for a sentinel, a day for a completed one.
expire(k) ==
  /\ redis[k] # "none" /\ Fault
  /\ redis' = [redis EXCEPT ![k] = "none"] /\ owner' = [owner EXCEPT ![k] = "none"]
  /\ stored' = [stored EXCEPT ![k] = 0]
  /\ UNCHANGED <<requestVars, rfqVars, jobs, window, fanVars, winners>>

-----------------------------------------------------------------------------
(***************************************************************************)
(* RfqsService.create.                                                     *)
(***************************************************************************)
\* The gates, the count of open RFQs among them.  A refusal releases the key.
gates(r) ==
  /\ pc[r] = "begun"
  /\ \/ /\ Cardinality(Used) < Ceiling
        /\ pc' = [pc EXCEPT ![r] = "gated"]
        /\ UNCHANGED storeVars
     \/ /\ pc' = [pc EXCEPT ![r] = "refused"]
        /\ redis' = IF Owns(r) THEN [redis EXCEPT ![keyOf[r]] = "none"] ELSE redis
        /\ owner' = IF Owns(r) THEN [owner EXCEPT ![keyOf[r]] = "none"] ELSE owner
        /\ UNCHANGED stored
  /\ UNCHANGED <<keyOf, answer, rfqVars, jobs, window, fanVars, winners, faults>>

\* ON CONFLICT DO NOTHING on the key's hash: an existing row is the answer.
insertOpen(r) ==
  /\ pc[r] = "gated"
  /\ IF \E i \in Rows : row[i] = keyOf[r]
     THEN /\ answer' = [answer EXCEPT ![r] = CHOOSE i \in Rows : row[i] = keyOf[r]]
          /\ pc' = [pc EXCEPT ![r] = "existing"]
          /\ UNCHANGED rfqVars
     ELSE \E i \in Rows :
            /\ i \notin Used /\ \A j \in Rows : j < i => j \in Used
            /\ row' = [row EXCEPT ![i] = keyOf[r]]
            /\ due' = [due EXCEPT ![i] = winners]
            /\ answer' = [answer EXCEPT ![r] = i]
            /\ pc' = [pc EXCEPT ![r] = "inserted"]
  /\ UNCHANGED <<storeVars, keyOf, jobs, window, fanVars, winners, faults>>

\* After the commit: the record is completed and, for a new row, the job is added.  A Redis
\* error or a crash loses one or both.
complete(r) ==
  LET k == keyOf[r]  i == answer[r]  new == pc[r] = "inserted" IN
  /\ pc[r] \in {"inserted", "existing"}
  /\ pc' = [pc EXCEPT ![r] = "answered"]
  /\ \E recorded, queued \in BOOLEAN :
       /\ IF recorded /\ queued THEN UNCHANGED faults ELSE Fault
       /\ IF recorded /\ Owns(r)
          THEN redis' = [redis EXCEPT ![k] = "done"] /\ stored' = [stored EXCEPT ![k] = i]
          ELSE UNCHANGED <<redis, stored>>
       /\ jobs' = IF queued /\ new THEN [jobs EXCEPT ![i] = @ + 1] ELSE jobs
  /\ UNCHANGED <<owner, keyOf, answer, rfqVars, window, fanVars, winners>>

-----------------------------------------------------------------------------
(***************************************************************************)
(* The fan-out.                                                            *)
(***************************************************************************)
\* The recipients are resolved for the newest winner only.
Fault_takeJob(w, i) ==
  /\ run[w] = NoRun /\ jobs[i] > 0
  /\ jobs' = [jobs EXCEPT ![i] = @ - 1]
  /\ run' = IF i \in fanned THEN run ELSE [run EXCEPT ![w] = [rfq |-> i, to |-> winners \ due[i]]]
  /\ UNCHANGED <<storeVars, requestVars, rfqVars, window, notified, fanned, audits, winners,
                 faults>>

\* A worker takes a job, loads the RFQ and, unless it is latched, resolves the recipients.
takeJob(w, i) ==
  /\ run[w] = NoRun /\ jobs[i] > 0
  /\ jobs' = [jobs EXCEPT ![i] = @ - 1]
  /\ run' = IF i \in fanned THEN run ELSE [run EXCEPT ![w] = [rfq |-> i, to |-> winners]]
  /\ UNCHANGED <<storeVars, requestVars, rfqVars, window, notified, fanned, audits, winners,
                 faults>>

\* One transaction: the rows, the latch and, for its winner, the audit.
fanout(w) ==
  LET i == run[w].rfq IN
  /\ i # 0
  /\ run' = [run EXCEPT ![w] = NoRun]
  /\ notified' = [notified EXCEPT ![i] = @ \cup run[w].to]
  /\ fanned' = fanned \cup {i}
  /\ audits' = IF i \in fanned THEN audits ELSE [audits EXCEPT ![i] = @ + 1]
  /\ UNCHANGED <<storeVars, requestVars, rfqVars, jobs, window, winners, faults>>

\* A run fails or its worker dies; the job is run again, or has no attempts left.
failRun(w) ==
  LET i == run[w].rfq IN
  /\ i # 0 /\ Fault
  /\ run' = [run EXCEPT ![w] = NoRun]
  /\ jobs' \in {jobs, [jobs EXCEPT ![i] = @ + 1]}
  /\ UNCHANGED <<storeVars, requestVars, rfqVars, window, notified, fanned, audits, winners>>

\* The sweep only doubles jobs that are still queued.
Fault_reconcile(i) ==
  /\ i \in Used \cap window /\ i \notin fanned
  /\ jobs[i] > 0 /\ jobs[i] < MaxJobs
  /\ jobs' = [jobs EXCEPT ![i] = @ + 1]
  /\ UNCHANGED <<storeVars, requestVars, rfqVars, window, fanVars, winners, faults>>

\* The sweep adds a job under an id of its own.
reconcile(i) ==
  /\ i \in Used \cap window /\ i \notin fanned
  /\ jobs[i] < MaxJobs
  /\ jobs' = [jobs EXCEPT ![i] = @ + 1]
  /\ UNCHANGED <<storeVars, requestVars, rfqVars, window, fanVars, winners, faults>>

\* An RFQ past the window is left alone.
orphan(i) ==
  /\ i \in Used \cap window /\ Fault
  /\ window' = window \ {i}
  /\ UNCHANGED <<storeVars, requestVars, rfqVars, jobs, fanVars, winners>>

\* An offering of the artwork settles.
win(h) ==
  /\ h \notin winners
  /\ winners' = winners \cup {h}
  /\ UNCHANGED <<storeVars, requestVars, rfqVars, jobs, window, fanVars, faults>>

Fanning == \E w \in Workers : fanout(w) \/ \E i \in Rows : takeJob(w, i)

Next ==
  \/ \E r \in Requests : begin(r) \/ gates(r) \/ insertOpen(r) \/ complete(r)
  \/ \E k \in Keys : expire(k)
  \/ Fanning \/ \E w \in Workers : failRun(w)
  \/ \E i \in Rows : reconcile(i) \/ orphan(i)
  \/ \E h \in Holders : win(h)

Spec == Init /\ [][Next]_vars

\* The workers and the repeatable sweep run.
FairSpec == Spec /\ WF_vars(Fanning) /\ \A i \in Rows : WF_vars(reconcile(i))
-----------------------------------------------------------------------------
\* Types; a request is answered with a row that exists.
TypeOK ==
  /\ redis \in [Keys -> {"none", "pending", "done"}] /\ owner \in [Keys -> Requests \cup {"none"}]
  /\ stored \in [Keys -> 0..MaxRows]
  /\ pc \in [Requests -> {"new", "begun", "gated", "inserted", "existing", "answered", "refused"}]
  /\ keyOf \in [Requests -> Keys] /\ answer \in [Requests -> 0..MaxRows]
  /\ \A r \in Requests : pc[r] = "answered" => answer[r] \in Used
  /\ row \in [Rows -> Keys \cup {"none"}] /\ jobs \in [Rows -> Nat]
  /\ window \subseteq Rows /\ run \in [Workers -> [rfq : 0..MaxRows, to : SUBSET Holders]]
  /\ winners \subseteq Holders /\ due \in [Rows -> SUBSET Holders]
  /\ notified \in [Rows -> SUBSET Holders] /\ fanned \subseteq Used
  /\ audits \in [Rows -> Nat] /\ faults \in 0..MaxFaults

\* Two requests with one key are never answered with two RFQs, and a key never has two rows,
\* though the sentinel expire under the first handler and the second run beside it.
OneRfqPerKey ==
  /\ \A r, s \in Requests : keyOf[r] = keyOf[s] /\ answer[r] # 0 /\ answer[s] # 0 =>
       answer[r] = answer[s]
  /\ \A i, j \in Used : row[i] = row[j] => i = j

\* A completed record belongs to the request that holds its token: a handler that outlived its
\* sentinel neither completes nor releases the claim of another.
RecordOwned ==
  \A k \in Keys : redis[k] = "done" =>
    /\ owner[k] \in Requests /\ keyOf[owner[k]] = k
    /\ pc[owner[k]] = "answered" /\ answer[owner[k]] = stored[k]

\* An RFQ that counts as fanned out has told everyone who had won when it was created.
HoldersNotified == \A i \in fanned : due[i] \subseteq notified[i]

\* The fan-out of an RFQ is audited once, when it is latched, however many runs race.
AuditedOnce == \A i \in Rows : audits[i] = IF i \in fanned THEN 1 ELSE 0

\* Retried requests and racing runs leave the trace of one: one RFQ, one answer, one audit.
RetriesLeaveOne == TypeOK /\ OneRfqPerKey /\ RecordOwned /\ AuditedOnce

\* Time and again every RFQ so far has been fanned out, though enqueues be lost and jobs fail,
\* unless the sweep's window closed first.
FannedOut == []<>(\A i \in Used : i \in fanned \/ i \notin window)
=============================================================================
