------------------------- MODULE Fractionalization -------------------------
(***************************************************************************)
(* The fractionalization of an artwork: the admin's request, the deploy    *)
(* worker, the factory's registry on chain and the reconciler.             *)
(*                                                                         *)
(* fraction_contracts is the source of truth and artworks.status a latch   *)
(* moved in the same transaction.  The factory deploys one token per       *)
(* artwork, so the worker asks token_of before it deploys; a transaction   *)
(* outlives the poll for it (30 s against 20 s), and every error that is   *)
(* not a throttle or a sequence error, an RPC timeout among them, is       *)
(* terminal: the row fails and the artwork may be fractionalized again.    *)
(***************************************************************************)
EXTENDS Integers, FiniteSets

CONSTANTS
  Plans,     \* the economic parameters a request may carry
  MaxRows,   \* bound: fractionalization attempts of the artwork
  Attempts,  \* attempts of a deploy job
  MaxFaults  \* bound: crashes, lost enqueues, RPC and database errors

ASSUME FractionalizationAssumption ==
  Plans # {} /\ MaxRows \in Nat \ {0} /\ Attempts \in Nat \ {0} /\ MaxFaults \in Nat

VARIABLES
  artwork,  \* artworks.status
  row,      \* fraction_contracts: status and economic parameters
  token,    \* the registry entry: the plan the token was built with, and for which row
  tx,       \* the relayer account's last deploy transaction
  jobs,     \* attempts left of a row's deploy job, 0 when there is none
  stalled,  \* rows whose job has already been recovered once
  run,      \* what the worker is doing
  faults

fracVars == <<artwork, row, token, tx, jobs, stalled, run>>

Rows    == 1..MaxRows
Null    == 0
Idle    == [pc |-> "idle", by |-> Null]
NoRow   == [status |-> "none", plan |-> Null]
NoToken == [by |-> Null, plan |-> Null]
Fault   == faults < MaxFaults /\ faults' = faults + 1
NoFault == UNCHANGED faults

Status(s)  == {i \in Rows : row[i].status = s}
OnChain    == token # NoToken
Goto(pc)   == run' = [run EXCEPT !.pc = pc]
\* The job throws a retryable error.
Retry      == /\ jobs' = [jobs EXCEPT ![run.by] = @ - 1]
              /\ run' = Idle
\* The job returns, or throws UnrecoverableError.
Finish     == /\ jobs' = [jobs EXCEPT ![run.by] = 0]
              /\ run' = Idle

FracInit ==
  /\ artwork = "verified" /\ row = [i \in Rows |-> NoRow] /\ token = NoToken
  /\ tx = [st |-> "none", by |-> Null, plan |-> Null]
  /\ jobs = [i \in Rows |-> 0] /\ stalled = {} /\ run = Idle /\ faults = 0

-----------------------------------------------------------------------------
(***************************************************************************)
(* The request.                                                            *)
(***************************************************************************)
\* The artwork's CAS and the row's insert commit together; the enqueue follows and may be lost.
fractionalize(p) ==
  /\ artwork = "verified"
  /\ \E i \in Rows :
       /\ row[i] = NoRow /\ \A j \in Rows : j < i => row[j] # NoRow
       /\ artwork' = "fractionalizing"
       /\ row' = [row EXCEPT ![i] = [status |-> "deploying", plan |-> p]]
       /\ \/ jobs' = [jobs EXCEPT ![i] = Attempts] /\ NoFault
          \/ UNCHANGED jobs /\ Fault
  /\ UNCHANGED <<token, tx, stalled, run>>

-----------------------------------------------------------------------------
(***************************************************************************)
(* FractionDeployProcessor.                                                *)
(***************************************************************************)
\* A job of a row that is not deploying is a no-op.
takeJob(i) ==
  /\ run = Idle /\ jobs[i] > 0
  /\ IF row[i].status = "deploying"
     THEN run' = [pc |-> "check", by |-> i] /\ UNCHANGED jobs
     ELSE jobs' = [jobs EXCEPT ![i] = 0] /\ UNCHANGED run
  /\ UNCHANGED <<artwork, row, token, tx, stalled>> /\ NoFault

\* The registry read: a hit is adopted as it is, an unavailable read is retryable.
tokenOf ==
  /\ run.pc = "check"
  /\ \/ Goto(IF OnChain THEN "latch" ELSE "send") /\ NoFault /\ UNCHANGED jobs
     \/ Retry /\ Fault
  /\ UNCHANGED <<artwork, row, token, tx, stalled>>

\* An account has one transaction in the network's queue: the next is TRY_AGAIN_LATER.
Throttled == tx.st = "pending"

\* The constructor's arguments, from the row the job names.
TokenInit(i) == row[i].plan

\* Simulate, sign and send.  A duplicate deploy is refused by the simulation and terminal, as
\* is an RPC timeout, also the one of a send that went through.
buildSignAndSend ==
  /\ run.pc = "send"
  /\ \/ /\ OnChain /\ Goto("fail") /\ NoFault
        /\ UNCHANGED <<tx, jobs>>
     \/ /\ ~OnChain /\ Throttled /\ Retry /\ NoFault
        /\ UNCHANGED tx
     \/ /\ ~OnChain /\ ~Throttled
        /\ tx' = [st |-> "pending", by |-> run.by, plan |-> TokenInit(run.by)]
        /\ \/ Goto("poll") /\ NoFault
           \/ Goto("fail") /\ Fault
        /\ UNCHANGED jobs
     \/ /\ Goto("fail") /\ Fault
        /\ UNCHANGED <<tx, jobs>>
  /\ UNCHANGED <<artwork, row, token, stalled>>

\* A poll that has not seen the transaction is a success.
Fault_pollForResult ==
  /\ run.pc = "poll"
  /\ \/ tx.st \in {"success", "pending"} /\ Goto("latch") /\ NoFault /\ UNCHANGED jobs
     \/ tx.st = "failed" /\ Goto("fail") /\ NoFault /\ UNCHANGED jobs
  /\ UNCHANGED <<artwork, row, token, tx, stalled>>

\* NOT_FOUND until the deadline is retryable, an RPC error is terminal.
pollForResult ==
  /\ run.pc = "poll"
  /\ \/ tx.st = "success" /\ Goto("latch") /\ NoFault /\ UNCHANGED jobs
     \/ tx.st = "failed" /\ Goto("fail") /\ NoFault /\ UNCHANGED jobs
     \/ tx.st \in {"pending", "dropped"} /\ Retry /\ NoFault
     \/ Goto("fail") /\ Fault /\ UNCHANGED jobs
  /\ UNCHANGED <<artwork, row, token, tx, stalled>>

\* The CAS from deploying; the retention amounts are recomputed from the row.
casDeployed(i) ==
  row' = IF row[i].status = "deploying"
         THEN [row EXCEPT ![i].status = "deployed"] ELSE row

casFailed(i) ==
  row' = IF row[i].status = "deploying" THEN [row EXCEPT ![i].status = "failed"] ELSE row

\* The artwork's latch moves with the row's, in the same transaction.
casStatus(i, to) ==
  artwork' = IF row[i].status = "deploying" /\ artwork = "fractionalizing" THEN to ELSE artwork

\* A database error here is caught as a deploy failure.
latchDeployed ==
  /\ run.pc = "latch"
  /\ \/ casDeployed(run.by) /\ casStatus(run.by, "fractionalized") /\ Finish /\ NoFault
     \/ Goto("fail") /\ Fault /\ UNCHANGED <<row, artwork, jobs>>
  /\ UNCHANGED <<token, tx, stalled>>

latchFailed ==
  /\ run.pc = "fail"
  /\ casFailed(run.by) /\ casStatus(run.by, "verified") /\ Finish
  /\ UNCHANGED <<token, tx, stalled>> /\ NoFault

\* The process dies: BullMQ recovers a stalled job once.
crash ==
  /\ run # Idle /\ Fault
  /\ run' = Idle
  /\ stalled' = stalled \cup {run.by}
  /\ jobs' = IF run.by \in stalled THEN [jobs EXCEPT ![run.by] = 0] ELSE jobs
  /\ UNCHANGED <<artwork, row, token, tx>>

-----------------------------------------------------------------------------
(***************************************************************************)
(* The reconciler and the chain.                                           *)
(***************************************************************************)
\* The sweep passes over the rows that have no job any more.
Fault_reconcile(i) ==
  /\ row[i].status = "deploying" /\ OnChain /\ jobs[i] > 0
  /\ casDeployed(i) /\ casStatus(i, "fractionalized")
  /\ UNCHANGED <<token, tx, jobs, stalled, run>> /\ NoFault

\* Promote only: a deploying row past its grace whose artwork is in the registry.
reconcile(i) ==
  /\ row[i].status = "deploying" /\ OnChain
  /\ casDeployed(i) /\ casStatus(i, "fractionalized")
  /\ UNCHANGED <<token, tx, jobs, stalled, run>> /\ NoFault

\* The factory's deploy: an artwork that has a token is refused.
deploy ==
  /\ tx.st = "pending"
  /\ token' = IF OnChain THEN token ELSE [by |-> tx.by, plan |-> tx.plan]
  /\ tx' = [tx EXCEPT !.st = IF OnChain THEN "failed" ELSE "success"]
  /\ UNCHANGED <<artwork, row, jobs, stalled, run>> /\ NoFault

\* The network drops the transaction past its time bounds, or it fails for its resources.
dropTx ==
  /\ tx.st = "pending" /\ Fault
  /\ \E st \in {"dropped", "failed"} : tx' = [tx EXCEPT !.st = st]
  /\ UNCHANGED <<artwork, row, token, jobs, stalled, run>>

FracNext ==
  \/ \E p \in Plans : fractionalize(p)
  \/ \E i \in Rows : takeJob(i) \/ reconcile(i)
  \/ tokenOf \/ buildSignAndSend \/ pollForResult \/ latchDeployed \/ latchFailed \/ crash
  \/ deploy \/ dropTx

FracFair ==
  /\ \A i \in Rows : WF_fracVars(reconcile(i)) /\ WF_fracVars(takeJob(i))
  /\ WF_fracVars(tokenOf \/ buildSignAndSend \/ pollForResult \/ latchDeployed \/ latchFailed)
  /\ WF_fracVars(deploy)
=============================================================================
