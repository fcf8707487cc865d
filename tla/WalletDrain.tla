---------------------------- MODULE WalletDrain ----------------------------
(***************************************************************************)
(* The two features that empty an embedded wallet: export (everything to a *)
(* self-custody address, then the wallet is latched exported) and rotation *)
(* (fractions to another wallet of the user, with a custody_transfer row   *)
(* per token in the provenance registry).                                  *)
(*                                                                         *)
(* Both are a parent row with one item per token.  A request to initiate   *)
(* snapshots the balances and stores a build per item; a request to submit *)
(* claims, sends and confirms the items one by one; the status poll        *)
(* repairs what a crash or a lost answer left behind, from nothing but the *)
(* live balance.  The requests of one user run concurrently.               *)
(***************************************************************************)
EXTENDS Naturals, FiniteSets

CONSTANTS
  Tokens,    \* token contracts
  Requests,  \* concurrent submit requests
  MaxBuilds, \* bound: builds of one item
  MaxEvents  \* bound: faults, and transfers into or out of the wallet by other means

ASSUME WalletDrainAssumption ==
  /\ Tokens # {}
  /\ MaxBuilds \in Nat \ {0} /\ MaxEvents \in Nat

VARIABLES
  feature,   \* which of the two the user is going through
  wallet,    \* wallets.status
  drain,     \* status of the wallet_rotation_transfers or wallet_exports row
  item,      \* its items: status, and the amount and number of the stored build
  custody,   \* the amount of each token's custody_transfer row, 0 if there is none
  opening,   \* the initiate request
  shown,     \* tokens whose item the client was told of
  run,       \* the submit requests
  reading,   \* the status poll
  canceling, \* the cancel request has found nothing in flight
  bal,       \* on chain: the wallet's balances
  live,      \* builds the client holds whose envelope sequence is the account's next
  tx,        \* the relayer account's transaction that is not in a ledger yet
  landed,    \* builds whose transfer was applied
  moved,     \* what the drain's transfers have moved, per token
  spent,     \* history: tokens that some other transfer emptied
  added,      \* history: tokens whose first build was stored when the drain was completed
  events     \* faults and outside transfers so far

drainVars == <<feature, wallet, drain, item, custody, opening, shown, run, reading, canceling, bal,
               live, tx, landed, moved, spent, added, events>>

rows     == <<feature, wallet, drain, item, custody>>
requests == <<opening, shown, run, reading, canceling>>
chain    == <<bal, live, tx, landed, moved, spent>>

MaxBal    == 1 + MaxEvents
Builds    == Tokens \X (1..MaxBuilds)
NoTx      == [build |-> <<>>, amt |-> 0]
NoItem    == [st |-> "none", amt |-> 0, build |-> 0]
NoOpening == [at |-> "idle", snap |-> [t \in Tokens |-> 0], skip |-> {}, built |-> {}]
NoReading == [at |-> "idle", drained |-> {}, mem |-> [t \in Tokens |-> NoItem]]
NoRun     == [at |-> "idle", t |-> CHOOSE t \in Tokens : TRUE,
              mem |-> [t \in Tokens |-> NoItem], zero |-> FALSE]

\* A crash, a lost answer, a write that fails; or a transfer by other means.
Event   == events < MaxEvents /\ events' = events + 1 /\ UNCHANGED added
NoEvent == UNCHANGED <<events, added>>

DrainInit ==
  /\ feature \in {"rotation", "export"} /\ wallet = "active" /\ drain = "none"
  /\ item = [t \in Tokens |-> NoItem] /\ custody = [t \in Tokens |-> 0]
  /\ opening = NoOpening /\ shown = {} /\ run = [r \in Requests |-> NoRun]
  /\ reading = NoReading /\ canceling = FALSE
  /\ bal \in [Tokens -> {0, 1}] /\ live = {} /\ tx = NoTx /\ landed = {}
  /\ moved = [t \in Tokens |-> 0] /\ spent = {}
  /\ added = {} /\ events = 0

Held(its) == {t \in Tokens : its[t].st # "none"}
\* The row exists and is not soft-deleted.
Found  == drain \notin {"none", "canceled"}
Active == drain \in {"pending", "submitting"}

-----------------------------------------------------------------------------
(***************************************************************************)
(* initiate: guard and snapshot, find or create, one build per holding.    *)
(***************************************************************************)
\* The cross-feature guard and the balances are reads of their own, before any write.
initiate ==
  /\ opening.at = "idle" /\ wallet = "active"
  /\ \E t \in Tokens : bal[t] > 0
  /\ opening' = [NoOpening EXCEPT !.at = "checked", !.snap = bal]
  /\ UNCHANGED <<rows, shown, run, reading, canceling, chain>> /\ NoEvent

\* The active row or a new one; the statuses loaded here decide which items are left alone.
findOrCreate ==
  /\ opening.at = "checked" /\ drain \in {"none", "pending", "submitting"}
  /\ drain' = IF drain = "none" THEN "pending" ELSE drain
  /\ opening' = [opening EXCEPT !.at = "build",
                   !.skip = {t \in Tokens : item[t].st = "confirmed"}]
  /\ UNCHANGED <<feature, wallet, item, custody, shown, run, reading, canceling, chain>>
  /\ NoEvent

\* What initiate still has to build, once the row is found.
ToBuild == {t \in Tokens \ opening.skip : opening.snap[t] > 0}

\* A fresh build of the snapshot amount, pending whatever the row says by now.
upsertItemBuild(t) ==
  /\ opening.at = "build"
  /\ t \in ToBuild \ opening.built /\ item[t].build < MaxBuilds
  /\ drain = "canceled" => item[t] = NoItem
  /\ item' = [item EXCEPT ![t] = [st |-> "pending", amt |-> opening.snap[t],
                                  build |-> item[t].build + 1]]
  /\ opening' = [opening EXCEPT !.built = @ \cup {t}]
  /\ added' = IF drain = "completed" /\ item[t] = NoItem THEN added \cup {t} ELSE added
  /\ UNCHANGED <<feature, wallet, drain, custody, shown, run, reading, canceling, chain, events>>

\* The response, when every holding has its build; an error (an address or a row that will not
\* do, a failed build, a crash) leaves the client without the challenges of what was built.
answer ==
  /\ opening.at # "idle" /\ opening' = NoOpening
  /\ \/ /\ opening.built \in {{}, ToBuild}
        /\ shown' = shown \cup opening.built
        /\ live' = live \cup {<<t, item[t].build>> : t \in opening.built} /\ NoEvent
     \/ opening.built # {} /\ UNCHANGED <<shown, live>> /\ Event
  /\ UNCHANGED <<rows, run, reading, canceling, bal, tx, landed, moved, spent>>

-----------------------------------------------------------------------------
(***************************************************************************)
(* submit: claim, send and confirm each item, then try to finalize.        *)
(***************************************************************************)
\* What a submit reads of an item later: its build, and whether it is confirmed.
Copied(its) == [t \in Tokens |-> IF its[t].st \in {"none", "confirmed"} THEN its[t]
                                 ELSE [its[t] EXCEPT !.st = "failed"]]

\* The row is loaded with its items; every later step works on this copy.
submit(r) ==
  /\ run[r].at = "idle" /\ wallet = "active" /\ Found
  /\ run' = [run EXCEPT ![r] = [NoRun EXCEPT !.at = "loop", !.mem = Copied(item)]]
  /\ UNCHANGED <<rows, opening, shown, reading, canceling, chain>> /\ NoEvent

\* CAS pending or failed -> submitted, on a live row; a lost CAS skips the item.
claimItemForSubmit(r, t) ==
  /\ run[r].at = "loop" /\ t \in shown /\ run[r].mem[t].st \notin {"none", "confirmed"}
  /\ item[t].st \in {"pending", "failed"} /\ drain # "canceled"
  /\ item' = [item EXCEPT ![t].st = "submitted"]
  /\ run' = [run EXCEPT ![r].at = "send", ![r].t = t]
  /\ UNCHANGED <<feature, wallet, drain, custody, opening, shown, reading, canceling, chain>>
  /\ NoEvent

\* On to the next item, with the outcome of this one in the copy.
Back(r, st) == [NoRun EXCEPT !.at = "loop",
                             !.mem = [run[r].mem EXCEPT ![run[r].t].st = st]]

\* The item is written failed, without looking at what it is by now.
markItemFailed(r) ==
  /\ item' = [item EXCEPT ![run[r].t].st = "failed"]
  /\ run' = [run EXCEPT ![r] = Back(r, "failed")]
  /\ UNCHANGED <<feature, wallet, drain, custody>>

\* The build the copy holds, and what it moves.
Build(r)  == <<run[r].t, run[r].mem[run[r].t].build>>
Amount(r) == run[r].mem[run[r].t].amt

\* Re-simulated, then sent under the account lock.  The account has one transaction in the
\* queue at most; the same one again is a DUPLICATE and polled like the first.
Sendable(r) == /\ Build(r) \in live /\ bal[run[r].t] >= Amount(r)
               /\ tx = NoTx \/ tx.build = Build(r)

Sent(r) == [build |-> Build(r), amt |-> Amount(r)]

submitSignedTransfer(r) ==
  /\ run[r].at = "send"
  /\ \/ /\ Sendable(r) /\ tx' = Sent(r)
        /\ run' = [run EXCEPT ![r].at = "poll"]
        /\ UNCHANGED rows /\ NoEvent
     \* Refused: allowlist, expiry, simulation, fee, stale sequence, queue full.
     \/ markItemFailed(r) /\ UNCHANGED tx /\ NoEvent
     \* The answer of sendTransaction is lost.
     \/ Sendable(r) /\ tx' = Sent(r) /\ markItemFailed(r) /\ Event
  /\ UNCHANGED <<opening, shown, reading, canceling, bal, live, landed, moved, spent>>

\* The custody_transfer row commits with the confirm, once per item; rotation only.
Recorded(ts, mem) ==
  [t \in Tokens |-> IF feature = "rotation" /\ t \in ts /\ custody[t] = 0 THEN mem[t].amt
                    ELSE custody[t]]

\* Applied: confirm, whatever the row says by now; anything else is a failure, a transaction
\* still in flight and a confirm that could not be written included.
pollForTransfer(r) ==
  LET t == run[r].t IN
  /\ run[r].at = "poll"
  /\ \/ /\ Build(r) \in landed
        /\ item' = [item EXCEPT ![t].st = "confirmed"]
        /\ run' = [run EXCEPT ![r] = Back(r, "confirmed")]
        /\ custody' = Recorded({t}, run[r].mem)
        /\ UNCHANGED <<feature, wallet, drain>> /\ NoEvent
     \/ Build(r) \notin landed /\ markItemFailed(r) /\ NoEvent
     \/ Build(r) \in landed /\ markItemFailed(r) /\ Event
  /\ UNCHANGED <<opening, shown, reading, canceling, chain>>

AllConfirmed(its) == Held(its) # {} /\ \A t \in Held(its) : its[t].st = "confirmed"

\* Every item of the copy is confirmed: are the balances zero?
reread(r) ==
  /\ run[r].at = "loop" /\ AllConfirmed(run[r].mem)
  /\ run' = [run EXCEPT ![r] = [NoRun EXCEPT !.at = "finalize",
               !.zero = \A t \in Held(run[r].mem) : bal[t] = 0]]
  /\ UNCHANGED <<rows, opening, shown, reading, canceling, chain>> /\ NoEvent

\* The recount is of the live items (a canceled row has none), under the wallet row's lock.
\* Complete, and latch the wallet if this is the export; else the parent is submitting, unless
\* it is completed (an export's demotion is stopped by the CHECK on completed_at).  A
\* soft-deleted row stays soft-deleted: the update has no say in deleted_at.
finalizeIfAllConfirmed(its, zero) ==
  /\ IF AllConfirmed(its) /\ zero /\ drain # "canceled"
     THEN /\ drain' = "completed"
          /\ wallet' = IF feature = "export" THEN "exported" ELSE wallet
     ELSE /\ drain' = IF Active THEN "submitting" ELSE drain
          /\ UNCHANGED wallet

finish(r) ==
  /\ \/ run[r].at = "finalize"
     \/ run[r].at = "loop" /\ ~AllConfirmed(run[r].mem)
  /\ finalizeIfAllConfirmed(item, run[r].zero)
  /\ run' = [run EXCEPT ![r] = NoRun]
  /\ UNCHANGED <<feature, item, custody, opening, shown, reading, canceling, chain>> /\ NoEvent

crash(r) ==
  /\ run[r].at # "idle" /\ Event
  /\ run' = [run EXCEPT ![r] = NoRun]
  /\ UNCHANGED <<rows, opening, shown, reading, canceling, chain>>

-----------------------------------------------------------------------------
(***************************************************************************)
(* status: the repair, from the live balance.                              *)
(***************************************************************************)
\* A rotation's failed items are not looked at either.
Fault_Stuck(its) == {t \in Tokens : its[t].st = "submitted"}

\* A rotation's failed items may have landed as well; the export does not look at them.
Stuck(its) == {t \in Tokens : \/ its[t].st = "submitted"
                              \/ feature = "rotation" /\ its[t].st = "failed"}

\* The row with its items, from which the rest of the poll works if one of them is in doubt.
status ==
  /\ reading.at \in {"idle", "failed"} /\ Found
  /\ \E t \in Tokens : item[t].st \in IF feature = "rotation" THEN {"submitted", "failed"}
                                                            ELSE {"submitted"}
  /\ reading' = [NoReading EXCEPT !.at = "rows", !.mem = item]
  /\ UNCHANGED <<rows, opening, shown, run, canceling, chain>> /\ NoEvent

\* An item is taken for moved without a look at the chain.
Fault_Drained == Stuck(reading.mem)

\* A drained token is taken as the proof that the item's transfer landed.
Drained == {t \in Stuck(reading.mem) : bal[t] = 0}

\* The balances of the copy's stuck items; with none drained there is nothing to write.
reconcileStuckItems ==
  /\ reading.at = "rows"
  /\ reading' = IF Drained = {} THEN NoReading
                ELSE [reading EXCEPT !.at = "items", !.drained = Drained]
  /\ UNCHANGED <<rows, opening, shown, run, canceling, chain>> /\ NoEvent

\* A transaction per drained item: CAS it to confirmed, from the statuses the feature counts as
\* stuck, and record the custody transfer; the copy learns of a CAS that was won.
reconcileItemConfirmed(t) ==
  /\ reading.at = "items" /\ t \in reading.drained
  /\ IF t \in Stuck(item)
     THEN /\ item' = [item EXCEPT ![t].st = "confirmed"]
          /\ custody' = Recorded({t}, reading.mem)
          /\ reading' = [reading EXCEPT !.drained = @ \ {t}, !.mem[t].st = "confirmed"]
     ELSE /\ reading' = [reading EXCEPT !.drained = @ \ {t}]
          /\ UNCHANGED <<item, custody>>
  /\ UNCHANGED <<feature, wallet, drain, opening, shown, run, canceling, chain>> /\ NoEvent

\* When every item of the copy is confirmed by now, finalize with the zero taken for granted.
finishStatus ==
  /\ reading.at = "items" /\ reading.drained = {}
  /\ IF AllConfirmed(reading.mem) THEN finalizeIfAllConfirmed(item, TRUE)
                                  ELSE UNCHANGED <<drain, wallet>>
  /\ reading' = NoReading
  /\ UNCHANGED <<feature, item, custody, opening, shown, run, canceling, chain>> /\ NoEvent

\* A crash, a read of the balances that fails, a transaction that is rolled back.
statusFails ==
  /\ reading.at \in {"rows", "items"} /\ Event
  /\ reading' = [NoReading EXCEPT !.at = "failed"]
  /\ UNCHANGED <<rows, opening, shown, run, canceling, chain>>

-----------------------------------------------------------------------------
(***************************************************************************)
(* cancel, rotation only: the check and the soft delete are two steps.     *)
(***************************************************************************)
cancel ==
  /\ ~canceling /\ feature = "rotation" /\ Active
  /\ \A t \in Tokens : item[t].st \notin {"submitted", "confirmed"}
  /\ canceling' = TRUE
  /\ UNCHANGED <<rows, opening, shown, run, reading, chain>> /\ NoEvent

softCancel ==
  /\ canceling /\ canceling' = FALSE
  /\ drain' = "canceled"
  /\ UNCHANGED <<feature, wallet, item, custody, opening, shown, run, reading, chain>> /\ NoEvent

-----------------------------------------------------------------------------
(***************************************************************************)
(* The chain.                                                              *)
(***************************************************************************)
\* The transfer is applied if the balance is still there; the account's sequence moves on,
\* so every other build is stale.
apply ==
  /\ tx # NoTx /\ tx' = NoTx /\ live' = {}
  /\ LET t == tx.build[1] IN
       /\ bal[t] >= tx.amt /\ bal' = [bal EXCEPT ![t] = @ - tx.amt]
       /\ landed' = landed \cup {tx.build} /\ moved' = [moved EXCEPT ![t] = @ + tx.amt]
  /\ UNCHANGED <<rows, requests, spent>> /\ NoEvent

\* It expires, or fails on chain.
drop ==
  /\ tx # NoTx /\ tx' = NoTx /\ live' = live \ {tx.build}
  /\ UNCHANGED <<rows, requests, bal, landed, moved, spent>> /\ NoEvent

receive(t) ==
  /\ Event /\ bal' = [bal EXCEPT ![t] = @ + 1]
  /\ UNCHANGED <<rows, requests, live, tx, landed, moved, spent>>

\* The owner sells or transfers the holding through another feature.
spend(t) ==
  /\ Event /\ bal[t] > 0 /\ bal' = [bal EXCEPT ![t] = 0] /\ spent' = spent \cup {t}
  /\ UNCHANGED <<rows, requests, live, tx, landed, moved>>

-----------------------------------------------------------------------------
DrainNext ==
  \/ initiate \/ findOrCreate \/ answer
  \/ \E t \in Tokens : upsertItemBuild(t)
  \/ \E r \in Requests, t \in Tokens : claimItemForSubmit(r, t)
  \/ \E r \in Requests : submit(r) \/ submitSignedTransfer(r) \/ pollForTransfer(r)
  \/ \E r \in Requests : reread(r) \/ finish(r) \/ crash(r)
  \/ status \/ reconcileStuckItems \/ finishStatus \/ statusFails
  \/ \E t \in Tokens : reconcileItemConfirmed(t)
  \/ cancel \/ softCancel
  \/ apply \/ drop
  \/ \E t \in Tokens : receive(t) \/ spend(t)

DrainSpec == DrainInit /\ [][DrainNext]_drainVars

\* A status poll, once asked for, runs to its end.  Nothing makes the front end ask: it does not poll
\* after a submit error, and stops at failed items and at a poll that sees no progress.
DrainFairSpec ==
  DrainSpec /\ WF_drainVars(reconcileStuckItems \/ finishStatus
                            \/ \E t \in Tokens : reconcileItemConfirmed(t))

-----------------------------------------------------------------------------
Items == [Tokens -> [st : {"none", "pending", "submitted", "confirmed", "failed"},
                     amt : 0..MaxBal, build : 0..MaxBuilds]]

\* Types; a transaction with the network, an item and a request stay within what the code makes.
DrainTypeOK ==
  /\ feature \in {"rotation", "export"} /\ wallet \in {"active", "exported"}
  /\ drain \in {"none", "pending", "submitting", "completed", "canceled"}
  /\ item \in Items /\ custody \in [Tokens -> 0..MaxBal]
  /\ opening \in [at : {"idle", "checked", "build"}, snap : [Tokens -> 0..MaxBal],
                  skip : SUBSET Tokens, built : SUBSET Tokens]
  /\ shown \subseteq Tokens
  /\ \A r \in Requests :
       /\ run[r].at \in {"idle", "loop", "send", "poll", "finalize"}
       /\ run[r].t \in Tokens /\ run[r].mem \in Items
       /\ run[r].at \in {"send", "poll"} => Build(r) \in Builds
  /\ reading.at \in {"idle", "failed", "rows", "items"}
  /\ reading.drained \subseteq Tokens /\ reading.mem \in Items
  /\ canceling \in BOOLEAN /\ bal \in [Tokens -> 0..MaxBal] /\ live \subseteq Builds
  /\ tx # NoTx => tx.build \in live /\ tx.amt \in 1..MaxBal
  /\ landed \subseteq Builds /\ moved \in [Tokens -> 0..MaxBal]
  /\ spent \subseteq Tokens /\ added \subseteq Tokens /\ events \in 0..MaxEvents

\* What the rows say has happened on chain, unless the holding left the wallet in another way:
\* an item is confirmed, and the drain completed, for a token the drain has moved, and a
\* custody_transfer row is backed by transfers of at least its amount.  An initiate in flight
\* may still add an item to a drain that has been completed.
DrainTruthful ==
  \A t \in Tokens \ spent :
    /\ custody[t] <= moved[t]
    /\ item[t].st = "confirmed" => moved[t] > 0
    /\ drain = "completed" => item[t] = NoItem \/ moved[t] > 0 \/ t \in added

\* The rows of a drain are well typed and say only what happened.
DrainSound == DrainTypeOK /\ DrainTruthful

\* The rotation's transfer took the whole holding, and the item does not say so.
Lost(t) == /\ feature = "rotation" /\ Found /\ moved[t] > 0 /\ bal[t] = 0
           /\ item[t].st \in {"submitted", "failed"}

\* A status poll has loaded the item as one that may have landed.
AskedFor(t) == reading.at = "rows" /\ reading.mem[t].st \in {"submitted", "failed"}

\* What a crash or a lost answer hides is found by one status poll, whatever submits and cancels do
\* beside it, unless the poll itself fails.  Until somebody asks, the item stays lost.
RotationRecovered ==
  \A t \in Tokens : AskedFor(t) /\ Lost(t) ~> ~Lost(t) \/ reading.at = "failed"
=============================================================================
