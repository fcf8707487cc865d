--------------------------- MODULE QuoteBookProofs ---------------------------
(***************************************************************************)
(* A holder's promises are covered, for every set of RFQs and every number *)
(* of quotes, fractions and concurrent requests.                           *)
(***************************************************************************)
EXTENDS QuoteBook, SumsProofs

\* An unused id has neither lapsed nor been signed nor been settled.
Unused == \A i \in Ids : quote[i] = "none" => i \notin lapsed \cup signed \cup pending

\* What a handler read of the chain is still there, unless fractions left the wallet after
\* it read: the balance it compares under the lock is at most the present one.
ReadsHold ==
  \A h \in handlers :
    /\ h.kind = "submit" => spent \/ h.onchain <= balance
    /\ h.kind = "authorize" => exposed \/ h.onchain <= balance

\* The inductive invariant.  NeverOverQuoted alone is not inductive: submit compares with
\* the balance of its own read (ReadsHold), and the id it takes must not be one that has
\* lapsed or been signed (Unused).
Inv ==
  /\ TypeOK
  /\ Unused
  /\ ReadsHold
  /\ OneOpenPerRfq
  /\ NeverOverQuoted
  /\ NeverOverAuthorized

-----------------------------------------------------------------------------
\* The fold of CountOf is the sum of the counts.
LEMMA CountIsSum == TypeOK => \A S \in SUBSET Ids : CountOf(S) = SetSum(count, S)
<1> SUFFICES ASSUME TypeOK, NEW S \in SUBSET Ids PROVE CountOf(S) = SetSum(count, S)
  OBVIOUS
<1>1. IsFiniteSet(S) /\ IntegerOn(count, S)
  <2>1. IsFiniteSet(Ids) BY FS_Interval, QuoteBookAssumption DEF Ids
  <2>2. \A i \in Ids : count[i] \in Int
    <3>1. Counts \cup {0} \subseteq Int BY QuoteBookAssumption
    <3> QED BY <3>1 DEF TypeOK
  <2> QED BY <2>1, <2>2, FS_Subset DEF IntegerOn
<1> DEFINE D(R) == [s \in SUBSET S |->
                      IF s = {} THEN 0 ELSE R[s \ {Chosen(s)}] + count[Chosen(s)]]
           R == CHOOSE r : r = D(r)
<1>2. CountOf(S) = R[S] BY DEF CountOf, FoldSet, MapThenFoldSet, Chosen
<1>3. PICK g : IsSetSum(g, count, S) BY <1>1, SetSumExists
<1>4. g = D(g)
  <2>1. \A s \in SUBSET S : s # {} => /\ count[Chosen(s)] \in Int
                                      /\ g[s \ {Chosen(s)}] \in Int
    BY <1>1, <1>3, ChosenIn DEF IsSetSum, IntegerOn
  <2>2. \A s \in SUBSET S : g[s] = IF s = {} THEN 0
                                   ELSE g[s \ {Chosen(s)}] + count[Chosen(s)]
    <3> SUFFICES ASSUME NEW s \in SUBSET S
                 PROVE  g[s] = IF s = {} THEN 0 ELSE g[s \ {Chosen(s)}] + count[Chosen(s)]
      OBVIOUS
    <3>1. CASE s = {} BY <1>3, <3>1 DEF IsSetSum
    <3>2. CASE s # {}
      <4>1. g[s] = count[Chosen(s)] + g[s \ {Chosen(s)}] BY <1>3, <3>2 DEF IsSetSum
      <4>2. count[Chosen(s)] \in Int /\ g[s \ {Chosen(s)}] \in Int BY <2>1, <3>2
      <4>3. g[s] = g[s \ {Chosen(s)}] + count[Chosen(s)] BY <4>1, <4>2
      <4> QED BY <3>2, <4>3
    <3> QED BY <3>1, <3>2
  <2>3. g = [s \in SUBSET S |-> g[s]] BY <1>3 DEF IsSetSum
  <2> QED BY <2>2, <2>3
<1>5. R = D(R)
  <2> HIDE DEF D
  <2> QED BY <1>4
<1> HIDE DEF R
<1>6. Unfolds(R, count, S) BY <1>5 DEF Unfolds
<1>7. R[S] = g[S] BY <1>1, <1>3, <1>6, SetSumUnique
<1>8. SetSum(count, S) = g[S] BY <1>1, <1>3, SetSumIs
<1> QED BY <1>2, <1>7, <1>8

\* What the counts of a set of quotes add up to, in terms of its members and subsets.
LEMMA SumFacts ==
  ASSUME NEW f, \A i \in Ids : f[i] \in Nat, NEW S \in SUBSET Ids
  PROVE  /\ SetSum(f, {}) = 0 /\ SetSum(f, S) \in Nat
         /\ \A R \in SUBSET S : SetSum(f, R) <= SetSum(f, S)
         /\ \A i \in S : SetSum(f, S) = f[i] + SetSum(f, S \ {i})
<1>1. IsFiniteSet(S)
  <2>1. IsFiniteSet(Ids) BY FS_Interval, QuoteBookAssumption DEF Ids
  <2> QED BY <2>1, FS_Subset
<1>2. IntegerOn(f, S) /\ \A i \in S : f[i] \in Nat BY DEF IntegerOn
<1>3. /\ SetSum(f, {}) = 0
      /\ \A i \in S : SetSum(f, S) = f[i] + SetSum(f, S \ {i})
  BY <1>1, <1>2, SetSumStep
<1>4. \A R \in SUBSET S : SetSum(f, S) \in Nat /\ SetSum(f, R) <= SetSum(f, S)
  BY <1>1, <1>2, SetSumMonotone
<1> QED BY <1>3, <1>4

\* The two bounds, over the sums.
SumBound ==
  /\ \A i \in Ids : count[i] \in Nat
  /\ Live \in SUBSET Ids /\ \A S \in SUBSET Ids : CountOf(S) = SetSum(count, S)
  /\ NeverOverQuoted <=> spent \/ SetSum(count, Live) <= balance
  /\ NeverOverAuthorized <=> exposed \/ SetSum(count, Live \cap signed) <= balance

LEMMA BoundsAre == TypeOK => SumBound
<1> SUFFICES ASSUME TypeOK PROVE SumBound OBVIOUS
<1>1. \A i \in Ids : count[i] \in Nat
  <2>1. Counts \cup {0} \subseteq Nat BY QuoteBookAssumption
  <2> QED BY <2>1 DEF TypeOK
<1>2. Live \in SUBSET Ids /\ Live \cap signed \in SUBSET Ids BY DEF Live
<1>3. \A S \in SUBSET Ids : CountOf(S) = SetSum(count, S) BY CountIsSum
<1> QED BY <1>1, <1>2, <1>3 DEF SumBound, NeverOverQuoted, NeverOverAuthorized

\* A step after which no more quotes are live, no more are signed, their counts are the
\* same and no fraction left the wallet unnoticed keeps both bounds.
LEMMA BoundsKept ==
  ASSUME TypeOK, TypeOK', NeverOverQuoted, NeverOverAuthorized, count' = count,
         Live' \subseteq Live, Live' \cap signed' \subseteq Live \cap signed,
         spent => spent', exposed => exposed',
         spent' \/ balance <= balance' \/ Live' = {},
         exposed' \/ balance <= balance' \/ Live' \cap signed' = {}
  PROVE  NeverOverQuoted' /\ NeverOverAuthorized'
<1> DEFINE A == Live \cap signed
<1>1. /\ \A i \in Ids : count[i] \in Nat
      /\ Live \in SUBSET Ids /\ A \in SUBSET Ids
      /\ spent \/ SetSum(count, Live) <= balance
      /\ exposed \/ SetSum(count, A) <= balance
  BY BoundsAre DEF SumBound
<1>2. /\ (NeverOverQuoted <=> spent \/ SetSum(count, Live) <= balance)'
      /\ (NeverOverAuthorized <=> exposed \/ SetSum(count, Live \cap signed) <= balance)'
  <2>1. TypeOK' => SumBound' BY BoundsAre, PTL
  <2> QED BY <2>1 DEF SumBound
<1>3. balance \in Nat /\ balance' \in Nat BY QuoteBookAssumption DEF TypeOK
<1>4. /\ SetSum(count, Live') \in Nat /\ SetSum(count, Live') <= SetSum(count, Live)
      /\ SetSum(count, A') \in Nat /\ SetSum(count, A') <= SetSum(count, A)
      /\ SetSum(count, Live) \in Nat /\ SetSum(count, A) \in Nat
      /\ SetSum(count, {}) = 0
  <2>1. Live' \in SUBSET Live /\ A' \in SUBSET A /\ Live' \in SUBSET Ids /\ A' \in SUBSET Ids
    BY <1>1
  <2> HIDE DEF A
  <2> QED BY <1>1, <2>1, SumFacts
<1>5. spent' \/ SetSum(count, Live') <= balance'
  BY <1>1, <1>3, <1>4
<1>6. exposed' \/ SetSum(count, A') <= balance'
  BY <1>1, <1>3, <1>4
<1> QED BY <1>2, <1>5, <1>6

-----------------------------------------------------------------------------
\* An empty book promises nothing.
LEMMA InitInv == Init => Inv
<1> SUFFICES ASSUME Init PROVE Inv OBVIOUS
<1>1. TypeOK
  <2>1. spent \in BOOLEAN /\ exposed \in BOOLEAN BY Zenon DEF Init
  <2> QED BY <2>1 DEF Init, TypeOK
<1>2. Unused /\ ReadsHold BY DEF Init, Unused, ReadsHold
<1>3. \A r \in Rfqs : Open(r) = {} BY DEF Init, Open
<1>4. OneOpenPerRfq BY <1>3, FS_EmptySet DEF OneOpenPerRfq
<1>5. Live = {} BY DEF Init, Live
<1>6. SetSum(count, {}) = 0 BY <1>1, BoundsAre, SumFacts DEF SumBound
<1>7. balance \in Nat BY QuoteBookAssumption DEF Init
<1>8. NeverOverQuoted /\ NeverOverAuthorized
  <2>1. Live \cap signed = {} BY <1>5
  <2> QED BY <1>1, <1>5, <1>6, <1>7, <2>1, BoundsAre DEF SumBound
<1> QED BY <1>1, <1>2, <1>4, <1>8 DEF Inv

\* An RFQ that gains no open quote keeps at most one.
LEMMA OpenShrinks ==
  ASSUME NEW S, NEW R, S \in SUBSET Ids, R \subseteq S, Cardinality(S) <= 1
  PROVE  Cardinality(R) <= 1
<1>1. IsFiniteSet(S)
  <2>1. IsFiniteSet(Ids) BY FS_Interval, QuoteBookAssumption DEF Ids
  <2> QED BY <2>1, FS_Subset
<1>2. Cardinality(R) <= Cardinality(S) /\ Cardinality(R) \in Nat /\ Cardinality(S) \in Nat
  BY <1>1, FS_Subset, FS_CardinalityType
<1> QED BY <1>2

\* Every step keeps the types.
LEMMA TypeStep == TypeOK /\ [Next]_vars => TypeOK'
<1> SUFFICES ASSUME TypeOK, [Next]_vars PROVE TypeOK' OBVIOUS
<1> USE QuoteBookAssumption
<1>1. CASE UNCHANGED vars BY <1>1 DEF TypeOK, vars, rowVars, history
<1>2. ASSUME NEW r \in Rfqs, supersedeOpenRivals(r) PROVE TypeOK'
  BY <1>2 DEF TypeOK, supersedeOpenRivals, history, Open
<1>3. ASSUME NEW r \in Rfqs, NEW n \in Counts, submitRead(r, n) PROVE TypeOK'
  <2>1. handlers' \subseteq Submit \cup Authorize BY <1>3 DEF TypeOK, submitRead, Submit
  <2> QED BY <1>3, <2>1 DEF TypeOK, submitRead, rowVars, history
<1>4. ASSUME NEW h \in handlers, submit(h) PROVE TypeOK'
  <2>1. h.rfq \in Rfqs /\ h.count \in Counts
    BY <1>4 DEF TypeOK, submit, Submit, Authorize
  <2> QED BY <1>4, <2>1 DEF TypeOK, submit, history
<1>5. ASSUME NEW h \in handlers, authorize(h) PROVE TypeOK'
  <2>1. h.id \in Ids BY <1>5 DEF TypeOK, authorize, Submit, Authorize
  <2> QED BY <1>5, <2>1 DEF TypeOK, authorize, history
<1>6. ASSUME NEW h \in handlers, refuse(h) PROVE TypeOK'
  BY <1>6 DEF TypeOK, refuse, rowVars, history
<1>7. ASSUME NEW i \in Ids, authorizeRead(i) PROVE TypeOK'
  <2>1. handlers' \subseteq Submit \cup Authorize
    BY <1>7 DEF TypeOK, authorizeRead, Authorize
  <2> QED BY <1>7, <2>1 DEF TypeOK, authorizeRead, rowVars, history
<1>8. ASSUME NEW i \in Ids, lapse(i) PROVE TypeOK'
  BY <1>8 DEF TypeOK, lapse, rowVars, history
<1>9. ASSUME NEW i \in Ids, settle(i) PROVE TypeOK'
  <2>1. count[i] \in Nat BY BoundsAre DEF SumBound
  <2>2. balance' \in 0..MaxBalance BY <1>9, <2>1 DEF TypeOK, settle
  <2>3. spent' \in BOOLEAN /\ exposed' \in BOOLEAN BY <1>9, Zenon DEF settle, Spend
  <2> QED BY <1>9, <2>2, <2>3 DEF TypeOK, settle, rowVars
<1>10. ASSUME NEW i \in Ids, persistSettled(i) PROVE TypeOK'
  BY <1>10 DEF TypeOK, persistSettled, history
<1>11. CASE receive BY <1>11 DEF TypeOK, receive, rowVars, history
<1>12. CASE send
  <2>1. balance' \in 0..MaxBalance BY <1>12 DEF TypeOK, send
  <2>2. spent' \in BOOLEAN /\ exposed' \in BOOLEAN BY <1>12, Zenon DEF send, Spend
  <2> QED BY <1>12, <2>1, <2>2 DEF TypeOK, send, rowVars
<1> QED BY <1>1, <1>2, <1>3, <1>4, <1>5, <1>6, <1>7, <1>8, <1>9, <1>10, <1>11, <1>12
        DEF Next

\* The steps that open no quote and sign none: the reads of a handler, its refusal, the
\* clock, the chain and the settlement.
LEMMA OtherStep ==
  ASSUME Inv, TypeOK', [Next]_vars, \A h \in handlers : ~submit(h) /\ ~authorize(h)
  PROVE  Inv'
<1> USE DEF Inv
<1>0. \/ UNCHANGED vars
      \/ \E r \in Rfqs : supersedeOpenRivals(r) \/ \E n \in Counts : submitRead(r, n)
      \/ \E h \in handlers : refuse(h)
      \/ \E i \in Ids : authorizeRead(i) \/ lapse(i) \/ settle(i) \/ persistSettled(i)
      \/ receive \/ send
  BY DEF Next
<1> USE DEF supersedeOpenRivals, submitRead, refuse, authorizeRead, lapse, settle,
            persistSettled, receive, send, vars, rowVars, history
<1>1. count' = count /\ of' = of /\ signed' = signed BY <1>0
<1>2. lapsed \subseteq lapsed' BY <1>0
<1>3. \A i \in Ids : /\ quote'[i] = "open" => quote[i] = "open"
                     /\ quote'[i] = "none" <=> quote[i] = "none"
  BY <1>0 DEF TypeOK, Open
<1>4. Unused' BY <1>0, <1>1, <1>3 DEF Unused, TypeOK, Live
<1>5. Live' \subseteq Live BY <1>2, <1>3 DEF Live
<1>6. \A r \in Rfqs : Open(r)' \subseteq Open(r) BY <1>1, <1>3 DEF Open
<1>7. OneOpenPerRfq'
  <2>1. \A r \in Rfqs : Open(r) \in SUBSET Ids BY DEF Open
  <2> QED BY <1>6, <2>1, OpenShrinks DEF OneOpenPerRfq
<1>8. /\ spent => spent'
      /\ exposed => exposed'
      /\ balance' < balance => Spend
  BY <1>0 DEF TypeOK, Spend
<1>9. balance \in Int /\ balance' \in Int BY DEF TypeOK
<1>10. /\ spent' \/ balance <= balance' \/ Live' = {}
       /\ exposed' \/ balance <= balance' \/ Live' \cap signed' = {}
  <2>1. CASE balance <= balance' BY <2>1
  <2>2. CASE ~(balance <= balance')
    <3>0. Spend BY <1>8, <1>9, <2>2
    <3>1. /\ spent' <=> (spent \/ Live # {} \/ \E h \in handlers : h.kind = "submit")
          /\ exposed' <=> (exposed \/ Live \cap signed # {}
                                    \/ \E h \in handlers : h.kind = "authorize")
      BY <3>0, Zenon DEF Spend
    <3>2. Live' \cap signed' \subseteq Live \cap signed BY <1>1, <1>5
    <3>3. (spent' \/ Live' = {}) /\ (exposed' \/ Live' \cap signed' = {})
      BY <1>5, <3>1, <3>2, Zenon
    <3> QED BY <3>3
  <2> QED BY <2>1, <2>2
<1>11. Live' \cap signed' \subseteq Live \cap signed BY <1>1, <1>5
<1>12. NeverOverQuoted' /\ NeverOverAuthorized'
  BY <1>1, <1>5, <1>8, <1>10, <1>11, BoundsKept
<1>13. ReadsHold'
  <2> SUFFICES ASSUME NEW h \in handlers'
               PROVE  /\ h.kind = "submit" => spent' \/ h.onchain <= balance'
                      /\ h.kind = "authorize" => exposed' \/ h.onchain <= balance'
    BY DEF ReadsHold
  <2>1. CASE h \in handlers
    <3>1. /\ h.kind = "submit" => spent \/ h.onchain <= balance
          /\ h.kind = "authorize" => exposed \/ h.onchain <= balance
          /\ h.onchain \in Int
      BY <2>1 DEF ReadsHold, TypeOK, Submit, Authorize
    <3>2. CASE balance <= balance' BY <3>1, <3>2, <1>8, <1>9
    <3>3. CASE ~(balance <= balance')
      <4>0. Spend BY <1>8, <1>9, <3>3
      <4>1. /\ spent' <=> (spent \/ Live # {} \/ \E g \in handlers : g.kind = "submit")
            /\ exposed' <=> (exposed \/ Live \cap signed # {}
                                      \/ \E g \in handlers : g.kind = "authorize")
        BY <4>0, Zenon DEF Spend
      <4> QED BY <2>1, <4>1, Zenon
    <3> QED BY <3>2, <3>3
  <2>2. CASE h \notin handlers
    <3>1. h.onchain = balance /\ balance' = balance BY <2>2, <1>0
    <3> QED BY <3>1, <1>9
  <2> QED BY <2>1, <2>2
<1> QED BY <1>4, <1>7, <1>12, <1>13

\* submit: under the lock the new quote joins the live ones within the balance read.
LEMMA SubmitStep ==
  ASSUME Inv, TypeOK', NEW h \in handlers, submit(h)
  PROVE  Inv'
<1> USE DEF Inv
<1>1. PICK i \in Ids :
        /\ h.kind = "submit" /\ handlers' = handlers \ {h}
        /\ quote[i] = "none"
        /\ Open(h.rfq) \subseteq lapsed
        /\ h.onchain - sumOpenLockedCount >= h.count
        /\ quote' = [j \in Ids |-> IF j = i THEN "open"
                                   ELSE IF quote[j] = "open" /\ j \in lapsed THEN "expired"
                                   ELSE quote[j]]
        /\ of' = [of EXCEPT ![i] = h.rfq] /\ count' = [count EXCEPT ![i] = h.count]
        /\ UNCHANGED <<signed, lapsed, balance, pending, spent, exposed>>
  BY DEF submit, history
<1>2. i \notin lapsed /\ i \notin signed /\ i \notin pending BY <1>1 DEF Unused
<1>3. h.rfq \in Rfqs /\ h.count \in Nat /\ h.onchain \in Nat
  <2>1. Counts \subseteq Nat BY QuoteBookAssumption
  <2>2. h \in Submit BY <1>1 DEF TypeOK, Submit, Authorize
  <2>3. h.rfq \in Rfqs /\ h.count \in Counts /\ h.onchain \in 0..MaxBalance
    BY <2>2 DEF Submit
  <2>4. h.count \in Nat BY <2>1, <2>3
  <2>5. h.onchain \in Nat
    <3>1. \A b \in 0..MaxBalance : b \in Nat BY QuoteBookAssumption
    <3> QED BY <2>3, <3>1
  <2> QED BY <2>3, <2>4, <2>5
<1>4. Unused' BY <1>1 DEF Unused
<1>5. ReadsHold' BY <1>1 DEF ReadsHold
<1>6. Live' = Live \cup {i} /\ i \notin Live /\ i \in Live' /\ Live' \ {i} = Live
  BY <1>1, <1>2 DEF Live
<1>7. Live' \cap signed' = Live \cap signed BY <1>1, <1>2, <1>6
<1>8. count'[i] = h.count /\ \A j \in Ids : j # i => count'[j] = count[j]
  BY <1>1 DEF TypeOK
<1>9. OneOpenPerRfq'
  <2> SUFFICES ASSUME NEW r \in Rfqs PROVE Cardinality(Open(r)') <= 1
    BY DEF OneOpenPerRfq
  <2>1. CASE r = h.rfq
    <3>1. \A j \in Ids : j # i /\ quote'[j] = "open" => of'[j] # r
      BY <1>1, <1>3, <2>1 DEF Open, TypeOK
    <3>2. quote'[i] = "open" /\ of'[i] = r BY <1>1, <1>3, <2>1 DEF TypeOK
    <3>3. Open(r)' = {i} BY <3>1, <3>2 DEF Open
    <3>4. Cardinality({i}) = 1 BY FS_Singleton
    <3> QED BY <3>3, <3>4
  <2>2. CASE r # h.rfq
    <3>1. Open(r)' \subseteq Open(r) BY <1>1, <1>3, <2>2 DEF Open, TypeOK
    <3>2. Open(r) \in SUBSET Ids BY DEF Open
    <3> QED BY <3>1, <3>2, OpenShrinks DEF OneOpenPerRfq
  <2> QED BY <2>1, <2>2
<1>10. /\ SumBound /\ SumBound'
  <2>1. TypeOK' => SumBound' BY BoundsAre, PTL
  <2> QED BY <2>1, BoundsAre
<1>11. \A S \in SUBSET Ids : i \notin S => SetSum(count', S) = SetSum(count, S)
  <2> SUFFICES ASSUME NEW S \in SUBSET Ids, i \notin S
               PROVE  SetSum(count', S) = SetSum(count, S)
    OBVIOUS
  <2>1. IsFiniteSet(S)
    <3>1. IsFiniteSet(Ids) BY FS_Interval, QuoteBookAssumption DEF Ids
    <3> QED BY <3>1, FS_Subset
  <2>2. IntegerOn(count, S) BY <1>10 DEF SumBound, IntegerOn
  <2>3. \A j \in S : count'[j] = count[j] BY <1>8
  <2> QED BY <2>1, <2>2, <2>3, SetSumExt
<1>12. NeverOverQuoted'
  <2>1. SetSum(count', Live') = h.count + SetSum(count', Live)
    <3>1. Live' \in SUBSET Ids /\ \A j \in Ids : count'[j] \in Nat BY <1>10 DEF SumBound
    <3> QED BY <1>6, <1>8, <3>1, SumFacts
  <2>2. SetSum(count', Live) = SetSum(count, Live) BY <1>6, <1>10, <1>11 DEF SumBound
  <2>3. h.onchain - SetSum(count, Live) >= h.count
    BY <1>1, <1>10 DEF sumOpenLockedCount, SumBound
  <2>4. spent \/ h.onchain <= balance BY <1>1 DEF ReadsHold
  <2>5. SetSum(count, Live) \in Nat BY <1>10, SumFacts DEF SumBound
  <2>6. balance \in Int BY DEF TypeOK
  <2>7. spent \/ SetSum(count', Live') <= balance
    BY <1>3, <2>1, <2>2, <2>3, <2>4, <2>5, <2>6
  <2> QED BY <1>1, <1>10, <2>7 DEF SumBound
<1>13. NeverOverAuthorized'
  <2>1. Live \cap signed \in SUBSET Ids /\ i \notin Live \cap signed BY <1>6 DEF Live
  <2>2. SetSum(count', Live \cap signed) = SetSum(count, Live \cap signed) BY <1>11, <2>1
  <2> QED BY <1>1, <1>7, <1>10, <2>2 DEF SumBound
<1> QED BY <1>4, <1>5, <1>9, <1>12, <1>13

\* authorize: the signature joins the live signed quotes within the balance read, whether
\* or not the quote had been signed or has lapsed before.
LEMMA AuthorizeStep ==
  ASSUME Inv, TypeOK', NEW h \in handlers, authorize(h)
  PROVE  Inv'
<1> USE DEF Inv
<1>1. /\ h.kind = "authorize" /\ handlers' = handlers \ {h}
      /\ h.onchain - sumAuthorizedLockedCount(h.id) >= count[h.id]
      /\ quote[h.id] = "open"
      /\ signed' = signed \cup {h.id}
      /\ UNCHANGED <<quote, of, count, lapsed, rfq, balance, pending, spent, exposed>>
  BY DEF authorize, history
<1>2. h.id \in Ids /\ h.onchain \in Nat
  BY <1>1, QuoteBookAssumption DEF TypeOK, Submit, Authorize
<1>3. Unused' BY <1>1 DEF Unused
<1>4. ReadsHold' BY <1>1 DEF ReadsHold
<1>5. Live' = Live /\ \A r \in Rfqs : Open(r)' = Open(r) BY <1>1 DEF Live, Open
<1>6. OneOpenPerRfq' BY <1>5 DEF OneOpenPerRfq
<1>7. /\ SumBound /\ SumBound'
  <2>1. TypeOK' => SumBound' BY BoundsAre, PTL
  <2> QED BY <2>1, BoundsAre
<1>8. NeverOverQuoted' BY <1>1, <1>5, <1>7 DEF SumBound
<1>9. NeverOverAuthorized'
  <2> DEFINE A == Live \cap signed
             B == A \ {h.id}
             C == B \cup {h.id}
  <2>1. A \in SUBSET Ids /\ B \in SUBSET Ids /\ C \in SUBSET Ids /\ C \ {h.id} = B
        /\ Live' \cap signed' \in SUBSET C /\ \A i \in Ids : count[i] \in Nat
    BY <1>1, <1>2, <1>5, <1>7 DEF SumBound
  <2>2. h.onchain - SetSum(count, B) >= count[h.id]
    BY <1>1, <1>7, <2>1 DEF sumAuthorizedLockedCount, SumBound
  <2>3. exposed \/ h.onchain <= balance BY <1>1 DEF ReadsHold
  <2>4. SetSum(count, C) = count[h.id] + SetSum(count, B) BY <2>1, SumFacts
  <2>5. SetSum(count, Live' \cap signed') <= SetSum(count, C) BY <2>1, SumFacts
  <2>6. /\ SetSum(count, B) \in Nat /\ SetSum(count, C) \in Nat
        /\ SetSum(count, Live' \cap signed') \in Nat
    <3>1. Live' \cap signed' \in SUBSET Ids BY <2>1
    <3> QED BY <2>1, <3>1, SumFacts
  <2>7. balance \in Int /\ count[h.id] \in Nat BY <1>2, <2>1 DEF TypeOK
  <2> HIDE DEF B, C
  <2>8. exposed \/ SetSum(count, Live' \cap signed') <= balance
    BY <1>2, <2>2, <2>3, <2>4, <2>5, <2>6, <2>7
  <2> QED BY <1>1, <1>7, <2>8 DEF SumBound
<1> QED BY <1>3, <1>4, <1>6, <1>8, <1>9

\* Every step, and every stuttering step, preserves the invariant.
LEMMA NextInv == Inv /\ [Next]_vars => Inv'
<1> SUFFICES ASSUME Inv, [Next]_vars PROVE Inv' OBVIOUS
<1>1. TypeOK' BY TypeStep DEF Inv
<1> QED BY <1>1, OtherStep, SubmitStep, AuthorizeStep

\* The inductive invariant holds in every reachable state.
THEOREM Invariance == Spec => []Inv
BY InitInv, NextInv, PTL DEF Spec

\* submit, reapLapsed and the lock: whatever requests race, the holder has one open quote
\* per RFQ and quotes no more than the wallet holds.
THEOREM PromisesAreCovered == Spec => []PromisesCovered
<1>1. Inv => PromisesCovered BY DEF Inv, PromisesCovered
<1> QED BY <1>1, Invariance, PTL

\* authorize: nor do the signatures that are out add up to more.
THEOREM SignaturesAreCovered == Spec => []NeverOverAuthorized
<1>1. Inv => NeverOverAuthorized BY DEF Inv
<1> QED BY <1>1, Invariance, PTL
=============================================================================
