----------------------------- MODULE QuoteBook -----------------------------
(***************************************************************************)
(* One holder's quotes on one fraction token, across RFQs: submit and      *)
(* authorize, with the balance read from the chain before the transaction  *)
(* and the locked sum taken under the advisory lock of (holder, token).    *)
(* Holders and tokens do not meet: the lock, the sums and the reap are all *)
(* keyed by both.                                                          *)
(*                                                                         *)
(* A transaction is one step.  What happens between a handler's reads and  *)
(* its transaction is any other step: another handler of the same holder,  *)
(* a lapse, a settlement, a transfer.                                      *)
(***************************************************************************)
EXTENDS Integers, FiniteSets, FiniteSetsExt

CONSTANTS
  Rfqs,        \* the RFQs of other collectors for this token
  Counts,      \* fraction counts the holder quotes
  MaxQuotes,   \* bound: rows of the holder
  MaxBalance,  \* bound: the holder's fractions
  MaxHandlers  \* bound: requests between their reads and their transaction

ASSUME QuoteBookAssumption ==
  /\ Counts \subseteq Nat \ {0}
  /\ MaxQuotes \in Nat /\ MaxBalance \in Nat /\ MaxHandlers \in Nat

VARIABLES
  quote,     \* rfq_quotes.status, "none" for an unused id
  of,        \* the RFQ of a quote
  count,     \* fraction_count
  lapsed,    \* valid_until has passed
  signed,    \* seller_auth_entry is present
  rfq,       \* rfqs.status
  balance,   \* the holder's fractions on chain
  pending,   \* quotes settled on chain and not yet recorded
  handlers,  \* requests between their reads and their transaction
  spent,     \* history: fractions left the wallet while a quote was live or being submitted
  exposed    \* history: the same while a quote was authorized or being authorized

vars == <<quote, of, count, lapsed, signed, rfq, balance, pending, handlers, spent, exposed>>

rowVars == <<quote, of, count, signed>>
history == <<spent, exposed>>

Ids == 1..MaxQuotes

Submit    == [kind : {"submit"}, rfq : Rfqs, count : Counts, onchain : 0..MaxBalance]
Authorize == [kind : {"authorize"}, id : Ids, onchain : 0..MaxBalance]

Init ==
  /\ quote = [i \in Ids |-> "none"] /\ of = [i \in Ids |-> "none"] /\ count = [i \in Ids |-> 0]
  /\ lapsed = {} /\ signed = {}
  /\ rfq = [r \in Rfqs |-> "open"]
  /\ balance \in 0..MaxBalance /\ pending = {} /\ handlers = {}
  /\ spent = FALSE /\ exposed = FALSE

-----------------------------------------------------------------------------
Open(r)     == {i \in Ids : quote[i] = "open" /\ of[i] = r}
Live        == {i \in Ids : quote[i] = "open" /\ i \notin lapsed}
CountOf(S)  == FoldSet(LAMBDA i, sum : sum + count[i], 0, S)

\* Only authorized quotes lock.
Fault_sumOpenLockedCount == CountOf(Live \cap signed)

\* Quotes past valid_until lock nothing, reaped or not.
sumOpenLockedCount == CountOf(Live)

\* Only the authorizations on the same RFQ are summed.
Fault_sumAuthorizedLockedCount(i) == CountOf({j \in Live \cap signed : of[j] = of[i] /\ j # i})

sumAuthorizedLockedCount(i) == CountOf((Live \cap signed) \ {i})

\* The gates of submit, the fast 409 and the balance read.
submitRead(r, n) ==
  /\ Cardinality(handlers) < MaxHandlers
  /\ rfq[r] = "open"
  /\ Open(r) \cap Live = {}
  /\ handlers' = handlers \cup {[kind |-> "submit", rfq |-> r, count |-> n, onchain |-> balance]}
  /\ UNCHANGED <<rowVars, lapsed, rfq, balance, pending, history>>

\* reapLapsed, then the authoritative checks; an error rolls the reap back.
submit(h) ==
  \E i \in Ids :
    /\ h \in handlers /\ h.kind = "submit" /\ handlers' = handlers \ {h}
    /\ quote[i] = "none" /\ \A j \in Ids : j < i => quote[j] # "none"
    /\ Open(h.rfq) \subseteq lapsed
    /\ h.onchain - sumOpenLockedCount >= h.count
    /\ quote' = [j \in Ids |-> IF j = i THEN "open"
                               ELSE IF quote[j] = "open" /\ j \in lapsed THEN "expired"
                               ELSE quote[j]]
    /\ of' = [of EXCEPT ![i] = h.rfq] /\ count' = [count EXCEPT ![i] = h.count]
    /\ UNCHANGED <<signed, lapsed, rfq, balance, pending, history>>

\* resolveContext of authorize and its balance read.
authorizeRead(i) ==
  /\ Cardinality(handlers) < MaxHandlers
  /\ i \in Live
  /\ handlers' = handlers \cup {[kind |-> "authorize", id |-> i, onchain |-> balance]}
  /\ UNCHANGED <<rowVars, lapsed, rfq, balance, pending, history>>

\* markAuthorized compares the status only: a quote that has lapsed meanwhile is still signed.
authorize(h) ==
  /\ h \in handlers /\ h.kind = "authorize" /\ handlers' = handlers \ {h}
  /\ h.onchain - sumAuthorizedLockedCount(h.id) >= count[h.id]
  /\ quote[h.id] = "open"
  /\ signed' = signed \cup {h.id}
  /\ UNCHANGED <<quote, of, count, lapsed, rfq, balance, pending, history>>

\* The transaction refuses, or the handler dies.
refuse(h) ==
  /\ h \in handlers /\ handlers' = handlers \ {h}
  /\ UNCHANGED <<rowVars, lapsed, rfq, balance, pending, history>>

-----------------------------------------------------------------------------
(***************************************************************************)
(* The clock, the chain and the settlement of accepted quotes.             *)
(***************************************************************************)
lapse(i) ==
  /\ quote[i] = "open" /\ i \notin lapsed
  /\ lapsed' = lapsed \cup {i}
  /\ UNCHANGED <<rowVars, rfq, balance, pending, handlers, history>>

Spend ==
  /\ spent' = (spent \/ Live # {} \/ \E h \in handlers : h.kind = "submit")
  /\ exposed' = (exposed \/ Live \cap signed # {} \/ \E h \in handlers : h.kind = "authorize")

\* accept_quote takes the fractions of an authorized quote ...
settle(i) ==
  /\ i \in Live \cap signed /\ i \notin pending /\ rfq[of[i]] = "open"
  /\ count[i] <= balance
  /\ balance' = balance - count[i]
  /\ pending' = pending \cup {i}
  /\ Spend
  /\ UNCHANGED <<rowVars, lapsed, rfq, handlers>>

\* ... and persistSettled records it: the RFQ filled, the quote accepted unless it was reaped.
persistSettled(i) ==
  /\ i \in pending
  /\ pending' = pending \ {i}
  /\ rfq' = [rfq EXCEPT ![of[i]] = "filled"]
  /\ quote' = IF quote[i] = "open" THEN [quote EXCEPT ![i] = "accepted"] ELSE quote
  /\ UNCHANGED <<of, count, lapsed, signed, balance, handlers, history>>

\* The RFQ is filled by another holder's quote.
supersedeOpenRivals(r) ==
  /\ rfq[r] = "open" /\ \A i \in pending : of[i] # r
  /\ rfq' = [rfq EXCEPT ![r] = "filled"]
  /\ quote' = [i \in Ids |-> IF i \in Open(r) THEN "superseded" ELSE quote[i]]
  /\ UNCHANGED <<of, count, lapsed, signed, balance, pending, handlers, history>>

\* The holder receives or sends fractions.
receive ==
  /\ balance < MaxBalance
  /\ balance' = balance + 1
  /\ UNCHANGED <<rowVars, lapsed, rfq, pending, handlers, history>>

send ==
  /\ balance > 0
  /\ balance' = balance - 1
  /\ Spend
  /\ UNCHANGED <<rowVars, lapsed, rfq, pending, handlers>>

Next ==
  \/ \E r \in Rfqs : supersedeOpenRivals(r) \/ \E n \in Counts : submitRead(r, n)
  \/ \E h \in handlers : submit(h) \/ authorize(h) \/ refuse(h)
  \/ \E i \in Ids : authorizeRead(i) \/ lapse(i) \/ settle(i) \/ persistSettled(i)
  \/ receive \/ send

Spec == Init /\ [][Next]_vars
-----------------------------------------------------------------------------
\* Types; the holding stays within the bound, and the handlers are those the requests have.
TypeOK ==
  /\ quote \in [Ids -> {"none", "open", "expired", "accepted", "superseded"}]
  /\ of \in [Ids -> Rfqs \cup {"none"}] /\ count \in [Ids -> Counts \cup {0}]
  /\ lapsed \subseteq Ids /\ signed \subseteq Ids /\ pending \subseteq Ids
  /\ rfq \in [Rfqs -> {"open", "filled"}]
  /\ balance \in 0..MaxBalance /\ handlers \subseteq Submit \cup Authorize
  /\ spent \in BOOLEAN /\ exposed \in BOOLEAN

\* The holder has at most one open quote per RFQ, as the partial unique index demands: the insert
\* never meets its 23505, whatever two submits race.
OneOpenPerRfq == \A r \in Rfqs : Cardinality(Open(r)) <= 1

\* While no fraction leaves the wallet under a live quote, the holder's live quotes together ask
\* for no more than the wallet holds, though each handler read the balance before its lock.
NeverOverQuoted == spent \/ CountOf(Live) <= balance

\* What submit's lock is there for: one open quote per RFQ and no promise beyond the holding.
PromisesCovered == TypeOK /\ OneOpenPerRfq /\ NeverOverQuoted

\* Likewise for what the holder has signed: quotes left over from a larger balance are not
\* authorized beyond the present one, whichever authorizations race or are repeated.
NeverOverAuthorized == exposed \/ CountOf(Live \cap signed) <= balance

=============================================================================
