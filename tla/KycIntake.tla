----------------------------- MODULE KycIntake -----------------------------
(***************************************************************************)
(* A collector's KYC submissions: encrypted documents go to the storage    *)
(* bucket, their keys to the database.  Nothing spans the two, so submit   *)
(* uploads first, commits then, deletes what it uploaded when it fails,    *)
(* and a daily sweep deletes old objects that no row names.                *)
(*                                                                         *)
(* A submission's id and its storage keys are derived from the request's   *)
(* idempotency key, so two runs under one key, which an expired sentinel   *)
(* allows, write to the same objects.  An object is identified with the    *)
(* request that uploaded it, whose data key alone decrypts it.             *)
(***************************************************************************)
EXTENDS Integers, FiniteSets

CONSTANTS
  Keys,         \* idempotency keys, each with its submission id
  Docs,         \* KYC_REQUIRED_DOC_TYPES
  MaxRequests,  \* bound: submit requests of the collector
  Sweepers,     \* runs of the sweep that may be alive at the same time
  MaxFaults     \* bound: lost answers, crashes, failed deletes, stalled sweeps

ASSUME KycIntakeAssumption ==
  /\ Docs # {}
  /\ MaxRequests \in Nat \ {0} /\ MaxFaults \in Nat

VARIABLES
  redis,       \* the idempotency record of a key: "none", "pending" or "done"
  owner,       \* the request whose token the record carries, or 0
  pc,          \* where a request is
  keyOf,       \* the key of a request
  sent,        \* the upload of each of its documents: "todo", "up" or "err"
  kyc,         \* users.kyc_status
  submission,  \* kyc_submissions.status
  latest,      \* the newest submission
  supersedes,  \* kyc_submissions.supersedes_submission_id
  docs,        \* kyc_documents: whose data key the row of a document holds, or 0
  blob,        \* the bucket: who uploaded the object, or 0
  old,         \* objects older than the grace window
  sweep,       \* a run of the sweep and the objects it still looks at
  unsafe,      \* history: a commit's answer was lost, or a stalled sweep was run beside itself
  faults

kycVars == <<redis, owner, pc, keyOf, sent, kyc, submission, latest, supersedes, docs, blob, old,
             sweep, unsafe, faults>>

storeVars   == <<redis, owner>>
requestVars == <<pc, keyOf, sent>>
dbVars      == <<kyc, submission, latest, supersedes, docs>>
bucketVars  == <<blob, old>>
faultVars   == <<unsafe, faults>>

Requests == 1..MaxRequests
Objects  == Keys \X Docs
Finished == {"done", "failed"}
Running(r) == pc[r] \notin Finished \cup {"new"}
Fault    == faults < MaxFaults /\ faults' = faults + 1 /\ UNCHANGED unsafe
NoSweep  == [step |-> "idle", targets |-> {}]
Fresh    == [d \in Docs |-> "todo"]

KycInit ==
  /\ redis = [k \in Keys |-> "none"] /\ owner = [k \in Keys |-> 0]
  /\ pc = [r \in Requests |-> "new"] /\ keyOf \in [Requests -> Keys]
  /\ sent = [r \in Requests |-> Fresh]
  /\ kyc = "not_submitted" /\ submission = [k \in Keys |-> "none"] /\ latest = "none"
  /\ supersedes = [k \in Keys |-> "none"]
  /\ docs = [o \in Objects |-> 0] /\ blob = [o \in Objects |-> 0] /\ old = {}
  /\ sweep = [s \in Sweepers |-> NoSweep]
  /\ unsafe = FALSE /\ faults = 0

Goto(r, step) == pc' = [pc EXCEPT ![r] = step]

-----------------------------------------------------------------------------
(***************************************************************************)
(* submit.  The requests are numbered in the order in which they begin.    *)
(***************************************************************************)
begin(r) ==
  LET k == keyOf[r] IN
  /\ pc[r] = "new" /\ \A q \in 1..(r - 1) : pc[q] # "new"
  /\ \/ /\ redis[k] = "none"
        /\ redis' = [redis EXCEPT ![k] = "pending"] /\ owner' = [owner EXCEPT ![k] = r]
        /\ Goto(r, "check")
     \/ redis[k] = "pending" /\ Goto(r, "failed") /\ UNCHANGED storeVars
     \/ redis[k] = "done" /\ Goto(r, "done") /\ UNCHANGED storeVars
  /\ UNCHANGED <<keyOf, sent, dbVars, bucketVars, sweep, faultVars>>

\* The record's lifetime ends, 30 seconds after begin or a day after complete.
expire(k) ==
  /\ redis[k] # "none"
  /\ redis' = [redis EXCEPT ![k] = "none"] /\ owner' = [owner EXCEPT ![k] = 0]
  /\ UNCHANGED <<requestVars, dbVars, bucketVars, sweep, faultVars>>

\* The advisory check, which lets a frozen or removed collector through.
assertResubmitAllowed(r) ==
  /\ pc[r] = "check"
  /\ Goto(r, IF kyc \in {"pending_review", "whitelisted"} THEN "cleanup" ELSE "upload")
  /\ UNCHANGED <<storeVars, keyOf, sent, dbVars, bucketVars, sweep, faultVars>>

\* Fault: an object that exists is overwritten (upsert: true).
Fault_upload(r, d) ==
  LET o == <<keyOf[r], d>> IN
  /\ pc[r] = "upload" /\ sent[r][d] = "todo"
  /\ blob' = [blob EXCEPT ![o] = r] /\ sent' = [sent EXCEPT ![r][d] = "up"]
  /\ old' = old \ {o}
  /\ UNCHANGED <<storeVars, pc, keyOf, dbVars, sweep, faultVars>>

\* The uploads run concurrently and never overwrite; one whose answer is lost may have landed.
upload(r, d) ==
  LET o == <<keyOf[r], d>> IN
  /\ pc[r] = "upload" /\ sent[r][d] = "todo"
  /\ \/ /\ blob[o] = 0
        /\ blob' = [blob EXCEPT ![o] = r] /\ sent' = [sent EXCEPT ![r][d] = "up"]
        /\ UNCHANGED faultVars
     \/ /\ blob[o] # 0
        /\ sent' = [sent EXCEPT ![r][d] = "err"]
        /\ UNCHANGED <<blob, faultVars>>
     \/ /\ blob[o] = 0 /\ Fault
        /\ blob' = [blob EXCEPT ![o] = r] \/ UNCHANGED blob
        /\ sent' = [sent EXCEPT ![r][d] = "err"]
  /\ UNCHANGED <<storeVars, pc, keyOf, old, dbVars, sweep>>

Settled(r)  == \A d \in Docs : sent[r][d] # "todo"
Uploaded(r) == {d \in Docs : sent[r][d] = "up"}

settle(r) ==
  /\ pc[r] = "upload" /\ Settled(r)
  /\ Goto(r, IF Uploaded(r) = Docs THEN "commit" ELSE "cleanup")
  /\ UNCHANGED <<storeVars, keyOf, sent, dbVars, bucketVars, sweep, faultVars>>

\* The submission the new one supersedes: the latest, if it was rejected.
Prior(k) == IF latest # "none" /\ submission[latest] = "rejected" THEN latest ELSE "none"

\* The rows of one submission, its user's status and the link to the prior one.
Insert(r) ==
  LET k == keyOf[r] IN
  /\ kyc' = "pending_review"
  /\ submission' = [submission EXCEPT ![k] = "pending_review"] /\ latest' = k
  /\ supersedes' = [supersedes EXCEPT ![k] = Prior(k)]
  /\ docs' = [o \in Objects |-> IF o[1] = k /\ o[2] \in Uploaded(r) THEN r ELSE docs[o]]

\* Fault: the status is tested by the advisory check only.
Fault_commit(r) ==
  /\ pc[r] = "commit"
  /\ Insert(r) /\ Goto(r, "complete")
  /\ UNCHANGED <<storeVars, keyOf, sent, bucketVars, sweep, faultVars>>

\* One transaction behind a compare-and-set of the user's status.  It may fail, and its commit
\* may succeed with the answer lost; submit goes on to clean up either way.
commit(r) ==
  /\ pc[r] = "commit"
  /\ \/ kyc = "not_submitted" /\ Insert(r) /\ Goto(r, "complete") /\ UNCHANGED faultVars
     \/ kyc # "not_submitted" /\ Goto(r, "cleanup") /\ UNCHANGED <<dbVars, faultVars>>
     \/ Fault /\ Goto(r, "cleanup") /\ UNCHANGED dbVars
     \/ /\ kyc = "not_submitted" /\ faults < MaxFaults
        /\ faults' = faults + 1 /\ unsafe' = TRUE
        /\ Insert(r) /\ Goto(r, "cleanup")
  /\ UNCHANGED <<storeVars, keyOf, sent, bucketVars, sweep>>

\* Best effort: a delete that fails is logged.
cleanup(r, d) ==
  LET o == <<keyOf[r], d>> IN
  /\ pc[r] = "cleanup" /\ sent[r][d] = "up"
  /\ sent' = [sent EXCEPT ![r][d] = "todo"]
  /\ \/ blob' = [blob EXCEPT ![o] = 0] /\ old' = old \ {o} /\ UNCHANGED faultVars
     \/ Fault /\ UNCHANGED bucketVars
  /\ UNCHANGED <<storeVars, pc, keyOf, dbVars, sweep>>

Mine(r) == redis[keyOf[r]] # "none" /\ owner[keyOf[r]] = r
End(r, step) == Goto(r, step) /\ sent' = [sent EXCEPT ![r] = Fresh] /\ UNCHANGED keyOf

\* idempotency.fail, guarded by the token.
fail(r) ==
  LET k == keyOf[r] IN
  /\ pc[r] = "cleanup" /\ Uploaded(r) = {}
  /\ redis' = [redis EXCEPT ![k] = IF Mine(r) THEN "none" ELSE @]
  /\ owner' = [owner EXCEPT ![k] = IF Mine(r) THEN 0 ELSE @]
  /\ End(r, "failed")
  /\ UNCHANGED <<dbVars, bucketVars, sweep, faultVars>>

\* idempotency.complete, guarded by the token; Redis may be out of reach.
complete(r) ==
  /\ pc[r] = "complete"
  /\ \/ redis' = [redis EXCEPT ![keyOf[r]] = IF Mine(r) THEN "done" ELSE @] /\ UNCHANGED faultVars
     \/ Fault /\ UNCHANGED redis
  /\ End(r, "done")
  /\ UNCHANGED <<owner, dbVars, bucketVars, sweep>>

crash(r) ==
  /\ Running(r) /\ Fault
  /\ End(r, "failed")
  /\ UNCHANGED <<storeVars, dbVars, bucketVars, sweep>>

\* The review, which no code of the repository performs yet: a rejected collector folds back to
\* not_submitted, a whitelisted one may be frozen.
review(k) ==
  /\ \/ /\ submission[k] = "pending_review" /\ kyc = "pending_review"
        /\ \/ submission' = [submission EXCEPT ![k] = "approved"] /\ kyc' = "whitelisted"
           \/ submission' = [submission EXCEPT ![k] = "rejected"] /\ kyc' = "not_submitted"
     \/ kyc = "whitelisted" /\ kyc' = "frozen" /\ UNCHANGED submission
  /\ UNCHANGED <<storeVars, requestVars, latest, supersedes, docs, bucketVars, sweep, faultVars>>

-----------------------------------------------------------------------------
(***************************************************************************)
(* The orphan sweep.                                                       *)
(***************************************************************************)
\* A request is over long before the grace window is.
age(o) ==
  /\ blob[o] # 0 /\ o \notin old /\ ~Running(blob[o])
  /\ old' = old \cup {o}
  /\ UNCHANGED <<storeVars, requestVars, dbVars, blob, sweep, faultVars>>

SetSweep(s, step, targets) == sweep' = [sweep EXCEPT ![s] = [step |-> step, targets |-> targets]]
Alone(s) == \A t \in Sweepers \ {s} : sweep[t] = NoSweep

\* Fault: only the first page of the bucket is listed.
Fault_listObjectsOlderThan(s) ==
  /\ sweep[s].step = "idle" /\ old # {} /\ Alone(s)
  /\ SetSweep(s, "listed", {CHOOSE o \in old : TRUE})
  /\ UNCHANGED <<storeVars, requestVars, dbVars, bucketVars, faultVars>>

\* The job runs once a day; a run taken for stalled is started again beside itself.
listObjectsOlderThan(s) ==
  /\ sweep[s].step = "idle" /\ old # {}
  /\ \/ Alone(s) /\ UNCHANGED faultVars
     \/ ~Alone(s) /\ faults < MaxFaults /\ faults' = faults + 1 /\ unsafe' = TRUE
  /\ SetSweep(s, "listed", old)
  /\ UNCHANGED <<storeVars, requestVars, dbVars, bucketVars>>

compare(s) ==
  /\ sweep[s].step = "listed"
  /\ LET orphans == {o \in sweep[s].targets : docs[o] = 0}
     IN  SetSweep(s, IF orphans = {} THEN "idle" ELSE "deleting", orphans)
  /\ UNCHANGED <<storeVars, requestVars, dbVars, bucketVars, faultVars>>

delete(s, o) ==
  /\ sweep[s].step = "deleting" /\ o \in sweep[s].targets
  /\ \/ blob' = [blob EXCEPT ![o] = 0] /\ old' = old \ {o} /\ UNCHANGED faultVars
     \/ Fault /\ UNCHANGED bucketVars
  /\ LET rest == sweep[s].targets \ {o}
     IN  SetSweep(s, IF rest = {} THEN "idle" ELSE "deleting", rest)
  /\ UNCHANGED <<storeVars, requestVars, dbVars>>

sweepCrash(s) ==
  /\ sweep[s] # NoSweep /\ Fault
  /\ SetSweep(s, "idle", {})
  /\ UNCHANGED <<storeVars, requestVars, dbVars, bucketVars>>

Submit(r) ==
  \/ assertResubmitAllowed(r) \/ settle(r) \/ commit(r) \/ fail(r) \/ complete(r)
  \/ \E d \in Docs : upload(r, d) \/ cleanup(r, d)
Sweep(s) == listObjectsOlderThan(s) \/ compare(s) \/ \E o \in Objects : delete(s, o)

KycNext ==
  \/ \E r \in Requests : begin(r) \/ Submit(r) \/ crash(r)
  \/ \E k \in Keys : expire(k) \/ review(k)
  \/ \E o \in Objects : age(o)
  \/ \E s \in Sweepers : Sweep(s) \/ sweepCrash(s)

KycSpec == KycInit /\ [][KycNext]_kycVars

\* A request that has begun runs, time passes, the sweep is a repeatable job.
FairSpec ==
  /\ KycSpec
  /\ \A r \in Requests : WF_kycVars(Submit(r))
  /\ \A o \in Objects : WF_kycVars(age(o))
  /\ WF_kycVars(\E s \in Sweepers : Sweep(s))

-----------------------------------------------------------------------------
\* Types; the documents of a submission are there all or none, each under the same data key.
KycTypeOK ==
  /\ redis \in [Keys -> {"none", "pending", "done"}] /\ owner \in [Keys -> 0..MaxRequests]
  /\ pc \in [Requests -> Finished \cup {"new", "check", "upload", "commit", "cleanup",
                                     "complete"}]
  /\ keyOf \in [Requests -> Keys] /\ sent \in [Requests -> [Docs -> {"todo", "up", "err"}]]
  /\ kyc \in {"not_submitted", "pending_review", "whitelisted", "frozen"}
  /\ submission \in [Keys -> {"none", "pending_review", "approved", "rejected"}]
  /\ latest \in Keys \cup {"none"} /\ supersedes \in [Keys -> Keys \cup {"none"}]
  /\ docs \in [Objects -> 0..MaxRequests] /\ blob \in [Objects -> 0..MaxRequests]
  /\ \A k \in Keys : \E r \in 0..MaxRequests :
       (r = 0 <=> submission[k] = "none") /\ \A d \in Docs : docs[<<k, d>>] = r
  /\ old \subseteq {o \in Objects : blob[o] # 0}
  /\ \A s \in Sweepers : sweep[s].targets \subseteq Objects
  /\ unsafe \in BOOLEAN /\ faults \in 0..MaxFaults

\* upload before commit, cleanup on failure, the sweep: a committed document is in the bucket
\* and is the one its row's data key decrypts, whatever other runs under the same key, late
\* cleanups and sweeps delete, unless a commit's answer was lost or a sweep ran beside itself.
DocumentsReadable == ~unsafe => \A o \in Objects : docs[o] # 0 => blob[o] = docs[o]

\* However many requests pass the advisory check together, one submission is under review at a
\* time, and the user's status says so.
OnePending ==
  /\ Cardinality({k \in Keys : submission[k] = "pending_review"}) <= 1
  /\ kyc = "pending_review" <=> \E k \in Keys : submission[k] = "pending_review"

\* A submission supersedes only an earlier one that was rejected and stays so.
SupersedesRejected ==
  ~unsafe => \A k \in Keys :
    supersedes[k] # "none" => supersedes[k] # k /\ submission[supersedes[k]] = "rejected"

\* The submissions of one user form one line, of which only the last can be under review.
OneUnderReview == KycTypeOK /\ OnePending /\ SupersedesRejected

\* The sweep: an object left behind by a crash, a lost answer or a failed delete does not stay.
OrphansSwept ==
  \A o \in Objects : (blob[o] # 0 /\ docs[o] = 0) ~> (blob[o] = 0 \/ docs[o] # 0)
=============================================================================
