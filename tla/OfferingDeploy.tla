--------------------------- MODULE OfferingDeploy ---------------------------
(***************************************************************************)
(* From a fractionalized artwork to an open offering: planning, the admin  *)
(* quorum, the deploy of the escrow contract and the reconcile sweeps,     *)
(* composed with the fractionalization the offering is built on.           *)
(*                                                                         *)
(* The escrow's address is a function of the offering's id, so a retry     *)
(* finds what an earlier attempt left on chain and adopts it by its WASM   *)
(* hash alone: that its constructor arguments are the ones the admins      *)
(* attested to rests on the belts every attempt passes before it sends.    *)
(***************************************************************************)
EXTENDS Fractionalization

CONSTANTS
  Admins,    \* the rostered approval signers
  Threshold, \* OFFERING_APPROVAL_THRESHOLD
  Workers,   \* worker processes of the escrow deploy queue
  Artists,   \* payout addresses fraction_contracts may hold
  MaxJobs,   \* bound: queued escrow deploy jobs
  Edits,     \* plans fraction_contracts may hold after an edit by hand
  SameFloat  \* those plans by public float: the ones that sell as many are in one set

ASSUME OfferingDeployAssumption ==
  /\ IsFiniteSet(Admins) /\ Threshold \in 2..Cardinality(Admins)
  /\ Artists # {} /\ Null \notin Artists
  /\ Plans \subseteq Edits /\ UNION SameFloat = Edits
  /\ \A f, g \in SameFloat : f = g \/ f \cap g = {}
  /\ MaxJobs \in Nat \ {0}

VARIABLES
  offering,   \* offerings.status
  fc,         \* the fraction_contracts row the offering was planned on
  float,      \* public_float, as the set of the plans that sell as much
  latch,      \* escrow_deploy_status
  live,       \* that row as it reads now: the economics of its plan and artist_address
  attested,   \* snapshot_artist_address
  approvals,  \* admins with a live approval
  aged,       \* one of them is older than the TTL
  expiring,   \* the expiry sweep has selected the offering
  escrowJobs, \* queued deploy jobs
  escrowRun,  \* what a deploy worker is doing, and the arguments it has built
  escrowTx,   \* the admin account's last deploy transaction
  escrow,     \* the contract at the deterministic address: its constructor arguments
  signed      \* history: admins whose approval was ever recorded (the audit log)

offVars == <<offering, fc, float, latch, live, attested, approvals, aged, expiring,
             escrowJobs, escrowRun, escrowTx, escrow, signed>>
deployVars == <<fracVars, offVars, faults>>

planVars     == <<offering, fc, float>>
approvalVars == <<attested, approvals, aged, signed>>
workVars     == <<escrowJobs, escrowRun>>
chainVars    == <<escrowTx, escrow>>

NoArgs    == [plan |-> Null, artist |-> Null]
\* total_supply less the two retentions.
FloatOf(plan) == UNION {f \in SameFloat : plan \in f}
NoRun     == [pc |-> "idle", args |-> NoArgs]
Queued    == IF escrowJobs < MaxJobs THEN escrowJobs + 1 ELSE escrowJobs
To(w, pc) == escrowRun' = [escrowRun EXCEPT ![w].pc = pc]
\* The job returns, or throws UnrecoverableError.
Done(w)   == escrowRun' = [escrowRun EXCEPT ![w] = NoRun] /\ UNCHANGED escrowJobs
\* The job throws a retryable error: it is queued again, or its attempts are exhausted.
Again(w)  == /\ escrowRun' = [escrowRun EXCEPT ![w] = NoRun]
             /\ escrowJobs' \in {escrowJobs, Queued}

DeployInit ==
  /\ FracInit
  /\ offering = "none" /\ fc = Null /\ float = {} /\ latch = "null"
  /\ live = [plan |-> Null, artist |-> CHOOSE a \in Artists : TRUE] /\ attested = Null
  /\ approvals = {} /\ aged = FALSE /\ expiring = FALSE
  /\ escrowJobs = 0 /\ escrowRun = [w \in Workers |-> NoRun]
  /\ escrowTx = [st |-> "none", args |-> NoArgs] /\ escrow = NoArgs /\ signed = {}

-----------------------------------------------------------------------------
(***************************************************************************)
(* The backoffice.                                                         *)
(***************************************************************************)
\* A deployed fraction contract is planned; the unique index allows one active offering.
create ==
  /\ offering = "none"
  /\ \E i \in Status("deployed") :
       /\ offering' = "planned" /\ fc' = i /\ float' = FloatOf(row[i].plan)
       /\ live' = [live EXCEPT !.plan = row[i].plan]
  /\ UNCHANGED <<fracVars, latch, approvalVars, expiring, workVars, chainVars>>
  /\ NoFault

\* The live approvals of rostered admins, one per admin.
countLiveSigners(a) == Cardinality(approvals \cup {a})

\* The first approval freezes the payout address; the one that reaches the threshold claims
\* the deploy in the same transaction, and the enqueue follows the commit at best.
approve(a) ==
  /\ offering = "planned" /\ latch \in {"null", "failed"}
  /\ attested' = IF attested = Null THEN live.artist ELSE attested
  /\ approvals' = approvals \cup {a} /\ signed' = signed \cup {a}
  /\ IF countLiveSigners(a) >= Threshold
     THEN /\ latch' = "deploying"
          /\ \/ escrowJobs' = Queued /\ NoFault
             \/ UNCHANGED escrowJobs /\ Fault
     ELSE UNCHANGED <<latch, escrowJobs>> /\ NoFault
  /\ UNCHANGED <<fracVars, planVars, live, aged, expiring, escrowRun, chainVars>>

-----------------------------------------------------------------------------
(***************************************************************************)
(* OfferingEscrowDeployProcessor and the escrow service.                   *)
(***************************************************************************)
\* The public float of the row is not computed again.
Fault_belts == attested = live.artist

\* The money-routing belts: public_float and the attested recipient have not drifted.  What the
\* float is made of may have.
belts == float = FloatOf(live.plan) /\ attested = live.artist

\* No-op unless deploying; a drifted parameter is terminal; the arguments come from the row read.
process(w) ==
  /\ escrowRun[w] = NoRun /\ escrowJobs > 0
  /\ escrowJobs' = escrowJobs - 1
  /\ IF latch # "deploying"
     THEN UNCHANGED escrowRun
     ELSE escrowRun' = [escrowRun EXCEPT ![w] =
                          [pc |-> IF belts THEN "read" ELSE "fail", args |-> live]]
  /\ UNCHANGED <<fracVars, planVars, latch, live, approvalVars, expiring, chainVars>>
  /\ NoFault

\* The account's Redis lock is held from the read to the end of the poll.
withLock(w) == \A v \in Workers \ {w} : escrowRun[v].pc \notin {"send", "poll"}

\* Self-heal: a contract at the address with the configured WASM hash is adopted.  An RPC
\* timeout is a plain Error, and terminal.
readInstanceWasmHash(w) ==
  /\ escrowRun[w].pc = "read" /\ withLock(w)
  /\ \/ To(w, IF escrow # NoArgs THEN "latch" ELSE "send") /\ NoFault
     \/ To(w, "fail") /\ Fault
  /\ UNCHANGED <<fracVars, planVars, latch, live, approvalVars, expiring, escrowJobs,
                 chainVars>>

\* Simulate (a duplicate is terminal), cap the fee, send (throttled while one is pending).
deployLocked(w) ==
  /\ escrowRun[w].pc = "send"
  /\ \/ escrow # NoArgs /\ To(w, "fail") /\ UNCHANGED <<escrowJobs, escrowTx>> /\ NoFault
     \/ escrow = NoArgs /\ escrowTx.st = "pending" /\ Again(w) /\ UNCHANGED escrowTx /\ NoFault
     \/ /\ escrow = NoArgs /\ escrowTx.st # "pending"
        /\ escrowTx' = [st |-> "pending", args |-> escrowRun[w].args]
        /\ \/ To(w, "poll") /\ NoFault
           \/ To(w, "fail") /\ Fault
        /\ UNCHANGED escrowJobs
     \/ To(w, "fail") /\ Fault /\ UNCHANGED <<escrowJobs, escrowTx>>
  /\ UNCHANGED <<fracVars, planVars, latch, live, approvalVars, expiring, escrow>>

pollToClosure(w) ==
  /\ escrowRun[w].pc = "poll"
  /\ \/ escrowTx.st = "success" /\ To(w, "latch") /\ UNCHANGED escrowJobs /\ NoFault
     \/ escrowTx.st = "failed" /\ To(w, "fail") /\ UNCHANGED escrowJobs /\ NoFault
     \/ escrowTx.st \in {"pending", "dropped"} /\ Again(w) /\ NoFault
     \/ To(w, "fail") /\ UNCHANGED escrowJobs /\ Fault
  /\ UNCHANGED <<fracVars, planVars, latch, live, approvalVars, expiring, chainVars>>

\* deploying -> deployed and planned -> approved in one statement.
casEscrowDeployed ==
  IF latch = "deploying" /\ offering = "planned"
  THEN latch' = "deployed" /\ offering' = "approved"
  ELSE UNCHANGED <<latch, offering>>

\* The approvals are soft-deleted with the win.  A database error is caught as a failure.
latchEscrow(w) ==
  /\ escrowRun[w].pc = "latch"
  /\ \/ /\ casEscrowDeployed /\ Done(w) /\ NoFault
        /\ approvals' = (IF latch = "deploying" THEN {} ELSE approvals)
        /\ aged' = (aged /\ latch # "deploying")
     \/ To(w, "fail") /\ Fault /\ UNCHANGED <<latch, offering, escrowJobs, approvals, aged>>
  /\ UNCHANGED <<fracVars, fc, float, live, attested, signed, expiring, chainVars>>

casEscrowFailed == latch' = IF latch = "deploying" THEN "failed" ELSE latch

\* The offering stays planned, and its approvals live: one rostered admin may claim again.
failEscrow(w) ==
  /\ escrowRun[w].pc = "fail"
  /\ casEscrowFailed /\ Done(w)
  /\ UNCHANGED <<fracVars, planVars, live, approvalVars, expiring, chainVars>> /\ NoFault

\* The worker dies; its job stalls and runs again, or is given up.
escrowCrash(w) ==
  /\ escrowRun[w] # NoRun /\ Fault /\ Again(w)
  /\ UNCHANGED <<fracVars, planVars, latch, live, approvalVars, expiring, chainVars>>

-----------------------------------------------------------------------------
(***************************************************************************)
(* The reconcile sweeps.                                                   *)
(***************************************************************************)
\* Only offerings whose job is still queued are driven again.
Fault_sweepStaleDeploying ==
  /\ latch = "deploying" /\ escrowJobs \in 1..MaxJobs - 1
  /\ escrowJobs' = escrowJobs + 1
  /\ UNCHANGED <<fracVars, planVars, latch, live, approvalVars, expiring, escrowRun, chainVars>>
  /\ NoFault

\* A deploying row past its grace gets a fresh job, whether or not one is alive.
sweepStaleDeploying ==
  /\ latch = "deploying" /\ escrowJobs < MaxJobs
  /\ escrowJobs' = escrowJobs + 1
  /\ UNCHANGED <<fracVars, planVars, latch, live, approvalVars, expiring, escrowRun, chainVars>>
  /\ NoFault

\* approved -> opened, at some time inside the window or never.
sweepWindowOpen ==
  /\ offering = "approved"
  /\ offering' = "opened"
  /\ UNCHANGED <<fracVars, fc, float, latch, live, approvalVars, expiring, workVars, chainVars>>
  /\ NoFault

\* The offerings with an approval past the TTL are read, those with a deploy latch excluded.
findExpiredOfferingIds ==
  /\ offering = "planned" /\ latch = "null" /\ aged /\ ~expiring
  /\ expiring' = TRUE
  /\ UNCHANGED <<fracVars, planVars, latch, live, approvalVars, workVars, chainVars>>
  /\ NoFault

\* The approvals are deleted in a later transaction that does not look at the latch again.
sweepExpiry ==
  /\ expiring
  /\ expiring' = FALSE /\ approvals' = {} /\ aged' = FALSE
  /\ UNCHANGED <<fracVars, planVars, latch, live, attested, signed, workVars, chainVars>>
  /\ NoFault

-----------------------------------------------------------------------------
(***************************************************************************)
(* The chain, the clock and the operator.                                  *)
(***************************************************************************)
createContract ==
  /\ escrowTx.st = "pending"
  /\ escrow' = IF escrow = NoArgs THEN escrowTx.args ELSE escrow
  /\ escrowTx' = [escrowTx EXCEPT !.st = IF escrow = NoArgs THEN "success" ELSE "failed"]
  /\ UNCHANGED <<fracVars, planVars, latch, live, approvalVars, expiring, workVars>>
  /\ NoFault

dropEscrowTx ==
  /\ escrowTx.st = "pending" /\ Fault
  /\ \E st \in {"dropped", "failed"} : escrowTx' = [escrowTx EXCEPT !.st = st]
  /\ UNCHANGED <<fracVars, planVars, latch, live, approvalVars, expiring, workVars, escrow>>

age ==
  /\ approvals # {} /\ ~aged
  /\ aged' = TRUE
  /\ UNCHANGED <<fracVars, planVars, latch, live, attested, approvals, signed, expiring,
                 workVars, chainVars>>
  /\ NoFault

\* fraction_contracts is edited by hand: what the belts are there for.  (What the service wrote
\* of the row stays in row[fc].)
drift ==
  /\ offering # "none" /\ Fault
  /\ \/ \E p \in Edits \ {live.plan} : live' = [live EXCEPT !.plan = p]
     \/ \E a \in Artists \ {live.artist} : live' = [live EXCEPT !.artist = a]
  /\ UNCHANGED <<fracVars, planVars, latch, approvalVars, expiring, workVars, chainVars>>

OffNext ==
  \/ create \/ \E a \in Admins : approve(a)
  \/ \E w \in Workers : \/ process(w) \/ readInstanceWasmHash(w) \/ deployLocked(w)
                        \/ pollToClosure(w) \/ latchEscrow(w) \/ failEscrow(w) \/ escrowCrash(w)
  \/ sweepStaleDeploying \/ sweepWindowOpen \/ findExpiredOfferingIds \/ sweepExpiry
  \/ createContract \/ dropEscrowTx \/ age \/ drift

DeployNext == (FracNext /\ UNCHANGED offVars) \/ OffNext

\* Workers and the cron of the sweeps run; a pending transaction is applied, or was dropped.
Fairness ==
  /\ FracFair
  /\ \A w \in Workers :
       /\ WF_deployVars(process(w))
       /\ WF_deployVars(\/ readInstanceWasmHash(w) \/ deployLocked(w) \/ pollToClosure(w)
                        \/ latchEscrow(w) \/ failEscrow(w))
  /\ WF_deployVars(sweepStaleDeploying) /\ WF_deployVars(createContract)

DeploySpec == DeployInit /\ [][DeployNext]_deployVars
FairSpec   == DeploySpec /\ Fairness

-----------------------------------------------------------------------------
(***************************************************************************)
(* Properties.                                                             *)
(***************************************************************************)
\* Types of the state the request, worker, sweep and chain steps read and write.
DeployTypeOK ==
  /\ artwork \in {"verified", "fractionalizing", "fractionalized"}
  /\ row \in [Rows -> [status : {"none", "deploying", "deployed", "failed"},
                       plan : Plans \cup {Null}]]
  /\ token \in [by : 0..MaxRows, plan : Plans \cup {Null}]
  /\ tx \in [st : {"none", "pending", "success", "failed", "dropped"}, by : 0..MaxRows,
             plan : Plans \cup {Null}]
  /\ jobs \in [Rows -> 0..Attempts] /\ stalled \subseteq Rows
  /\ run \in [pc : {"idle", "check", "send", "poll", "latch", "fail"}, by : 0..MaxRows]
  /\ offering \in {"none", "planned", "approved", "opened"} /\ fc \in 0..MaxRows
  /\ float \subseteq Edits /\ latch \in {"null", "deploying", "failed", "deployed"}
  /\ live \in [plan : Edits \cup {Null}, artist : Artists] /\ attested \in Artists \cup {Null}
  /\ approvals \subseteq Admins /\ aged \in BOOLEAN /\ signed \subseteq Admins
  /\ expiring \in BOOLEAN /\ escrowJobs \in 0..MaxJobs

\* The artwork's status is what the fraction_contracts rows say, whoever latched them: at most
\* one row is active, and the artwork is verified exactly when none is.
ArtworkTracksRows ==
  /\ Cardinality(Status("deploying") \cup Status("deployed")) <= 1
  /\ (artwork = "fractionalizing") <=> (Status("deploying") # {})
  /\ (artwork = "fractionalized") <=> (Status("deployed") # {})

\* A row or an offering recorded as deployed has its contract on chain: no timeout, adoption
\* or sweep latches a deploy that has not happened.
RecordedOnChain ==
  /\ Status("deployed") # {} => OnChain
  /\ offering \in {"approved", "opened"} => escrow # NoArgs

\* Unless an earlier attempt was declared failed although its transaction landed, a deployed
\* row was written with the parameters its token was built with.
AmountsMatch ==
  \A i \in Status("deployed") : row[token.by].status # "failed" => row[i].plan = token.plan

\* What the tables say of the artwork and its contracts is consistent and true of the chain.
RecordsTrue == DeployTypeOK /\ ArtworkTracksRows /\ RecordedOnChain /\ AmountsMatch

\* Every escrow pays the artist the admins attested to and sells the float that was planned,
\* whichever attempt sent it and whatever the row says by then; Threshold admins have signed.
EscrowAttested ==
  escrow # NoArgs => /\ escrow.artist = attested /\ FloatOf(escrow.plan) = float
                     /\ Cardinality(signed) >= Threshold

\* A token on chain is recorded, or its attempt failed, also when the job that deployed it is
\* gone: the reconciler's promise.
TokenRecorded == (OnChain /\ Status("deploying") # {}) ~> (Status("deploying") = {})

\* A claimed escrow deploy is resolved, also when its enqueue was lost or its job gave up: the
\* promise of the stale-deploying sweep.
EscrowResolved == (latch = "deploying") ~> (latch # "deploying")
=============================================================================
