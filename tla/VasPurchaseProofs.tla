-------------------------- MODULE VasPurchaseProofs --------------------------
(***************************************************************************)
(* Theorems about VasPurchase, and about BettingGuard in front of it, for  *)
(* every finite set of requests and references, every set of users, every  *)
(* amount and limit, and every choice of faults.                           *)
(***************************************************************************)
EXTENDS BettingGuard, SumProofs

\* The status update of one reference keeps the table well formed, creates and
\* deletes no row, changes nothing but the status, and touches no other reference.
LEMMA WithStatusFacts ==
  ASSUME NEW table \in [Refs -> Row \cup {NoRow}], NEW ref \in Refs, NEW status \in Statuses
  PROVE  LET new == WithStatus(table, ref, status) IN
         /\ new \in [Refs -> Row \cup {NoRow}]
         /\ \A d \in Refs : d # ref => new[d] = table[d]
         /\ \A d \in Refs : new[d] = NoRow <=> table[d] = NoRow
         /\ \A d \in Refs : table[d] # NoRow =>
              /\ new[d].id = table[d].id /\ new[d].user = table[d].user
              /\ new[d].type = table[d].type /\ new[d].amount = table[d].amount
         /\ table[ref] # NoRow => new[ref].status = status
<1>1. \A x \in Row : x # NoRow /\ x.status # "absent"
  BY DEF Row, NoRow, Statuses
<1>2. \A x \in Row : /\ [x EXCEPT !.status = status] \in Row
                     /\ [x EXCEPT !.status = status] # NoRow
                     /\ [x EXCEPT !.status = status].id = x.id
                     /\ [x EXCEPT !.status = status].user = x.user
                     /\ [x EXCEPT !.status = status].type = x.type
                     /\ [x EXCEPT !.status = status].amount = x.amount
                     /\ [x EXCEPT !.status = status].status = status
  BY <1>1 DEF Row
<1>3. table[ref] \in Row \cup {NoRow}
  OBVIOUS
<1>4. CASE table[ref] = NoRow
  BY <1>4 DEF WithStatus
<1>5. CASE table[ref] \in Row
  BY <1>1, <1>2, <1>5 DEF WithStatus
<1> QED BY <1>3, <1>4, <1>5

LEMMA DebitRowType ==
  ASSUME NEW r \in Requests
  PROVE  /\ AmountOf[r] > 0 => DebitRow(r) \in Row
         /\ DebitRow(r) # NoRow /\ DebitRow(r).id = r
         /\ DebitRow(r).status = "processing" /\ DebitRow(r).amount = AmountOf[r]
BY RequestAssumption DEF DebitRow, Row, TxTypes, Statuses, NoRow

LEMMA RefTypes ==
  ASSUME NEW r \in Requests
  PROVE  /\ RefOf[r] \in Refs /\ RefOf[r] \in ClientRefs /\ RefOf[r] \in DebitRefs
         /\ FallbackRef[RefOf[r]] \in Refs /\ FallbackRef[RefOf[r]] \in DebitRefs
         /\ ReversalRef[RefOf[r]] \in Refs /\ ReversalRef[FallbackRef[RefOf[r]]] \in Refs
         /\ UserOf[r] \in Users /\ AmountOf[r] \in Int \ {0}
BY RequestAssumption, ReferenceAssumption DEF ClientRefs, DebitRefs

LEMMA DebitRefsAreRefs == DebitRefs \subseteq Refs
BY RequestAssumption, ReferenceAssumption DEF ClientRefs, DebitRefs

\* A committed reversal, whichever of its two forms it takes.
LEMMA ReversedFacts ==
  ASSUME TypeOK, NEW r \in Requests, NEW ref \in DebitRefs, Reversed(r, ref)
  PROVE  /\ rows' \in [Refs -> Row \cup {NoRow}]
         /\ balance' \in [Users -> Int] /\ dailySpend' = dailySpend
         /\ \A d \in Refs : d # ref /\ d # ReversalRef[ref] => rows'[d] = rows[d]
         /\ rows[ref] # NoRow => rows'[ref].id = rows[ref].id /\ rows'[ref] # NoRow
         /\ rows[ref] = NoRow => rows'[ref] = NoRow
         /\ rows[ref] # NoRow => rows'[ref].status = "reversed"
         /\ rows'[ReversalRef[ref]] # NoRow
         /\ \/ /\ rows[ReversalRef[ref]] # NoRow /\ rows'[ReversalRef[ref]] = rows[ReversalRef[ref]]
               /\ UNCHANGED <<balance, held>>
            \/ /\ rows[ReversalRef[ref]] = NoRow /\ rows[ref] # NoRow /\ rows[ref].id = r
               /\ AmountOf[r] > 0 /\ balance[UserOf[r]] + AmountOf[r] >= 0
               /\ balance' = [balance EXCEPT ![UserOf[r]] = @ + AmountOf[r]]
               /\ held' = [held EXCEPT ![r] = @ - AmountOf[r]]
<1> DEFINE new == WithStatus(rows, ref, "reversed")
           rev == ReversalRef[ref]
           row == [id |-> r, user |-> UserOf[r], type |-> "reversal",
                   amount |-> AmountOf[r], status |-> "success"]
<1>1. ref \in Refs /\ rev \in Refs /\ rev # ref
  BY DebitRefsAreRefs, ReferenceAssumption
<1>2. rows \in [Refs -> Row \cup {NoRow}] /\ "reversed" \in Statuses
  BY DEF TypeOK, RepoTypeOK, Statuses
<1>3. /\ new \in [Refs -> Row \cup {NoRow}]
      /\ \A d \in Refs : d # ref => new[d] = rows[d]
      /\ \A d \in Refs : new[d] = NoRow <=> rows[d] = NoRow
      /\ rows[ref] # NoRow => new[ref].id = rows[ref].id /\ new[ref].status = "reversed"
  BY <1>1, <1>2, WithStatusFacts
<1>4. row # NoRow /\ (AmountOf[r] > 0 => row \in Row)
  BY RequestAssumption, RefTypes DEF Row, TxTypes, Statuses, NoRow
<1>5. UserOf[r] \in Users /\ AmountOf[r] \in Int /\ balance \in [Users -> Int]
  BY RefTypes DEF TypeOK, RepoTypeOK
<1>6. CASE ReversalExists(UserOf[r], ref, rev) /\ UNCHANGED held
  <2>1. rows' = new /\ rows[rev] # NoRow /\ UNCHANGED <<balance, dailySpend, held>>
    BY <1>6 DEF ReversalExists, FoundFor, Exists
  <2> QED BY <1>1, <1>3, <1>5, <2>1
<1>7. CASE /\ ReversalCreated(r, UserOf[r], ref, rev, AmountOf[r])
           /\ held' = [held EXCEPT ![r] = @ - AmountOf[r]]
  <2>1. /\ rows' = [new EXCEPT ![rev] = row]
        /\ rows[rev] = NoRow /\ rows[ref] # NoRow /\ rows[ref].id = r /\ AmountOf[r] > 0
        /\ balance[UserOf[r]] + AmountOf[r] >= 0
        /\ balance' = [balance EXCEPT ![UserOf[r]] = @ + AmountOf[r]]
        /\ UNCHANGED dailySpend
    BY <1>7 DEF ReversalCreated, CanInsert, Exists, CreditBalance, CanCredit
  <2>2. rows'[rev] = row /\ \A d \in Refs : d # rev => rows'[d] = new[d]
    BY <1>1, <1>3, <2>1
  <2>3. rows' \in [Refs -> Row \cup {NoRow}]
    BY <1>1, <1>3, <1>4, <2>1
  <2> QED BY <1>1, <1>3, <1>4, <1>5, <1>7, <2>1, <2>2, <2>3
<1> QED BY <1>6, <1>7 DEF Reversed

\* What a debit and a compensating credit on behalf of r do.
LEMMA TakeFacts ==
  ASSUME TypeOK, NEW r \in Requests, Take(r)
  PROVE  /\ balance' \in [Users -> Int] /\ dailySpend' \in [Users -> Nat]
         /\ held' \in [Requests -> Int]
         /\ held' = [held EXCEPT ![r] = @ + AmountOf[r]]
         /\ balance[UserOf[r]] >= AmountOf[r]
         /\ balance' = [balance EXCEPT ![UserOf[r]] = @ - AmountOf[r]]
BY RefTypes DEF Take, DebitWithLock, CanDebit, TypeOK, RepoTypeOK

LEMMA GiveBackFacts ==
  ASSUME TypeOK, NEW r \in Requests, GiveBack(r)
  PROVE  /\ balance' \in [Users -> Int] /\ dailySpend' = dailySpend
         /\ held' \in [Requests -> Int]
         /\ held' = [held EXCEPT ![r] = @ - AmountOf[r]]
         /\ balance' = [balance EXCEPT ![UserOf[r]] = @ + AmountOf[r]]
         /\ balance[UserOf[r]] + AmountOf[r] >= 0
BY RefTypes DEF GiveBack, CreditBalance, CanCredit, TypeOK, RepoTypeOK

\* Every step keeps the variables in their types.
LEMMA TypeStep ==
  ASSUME TypeOK, [Next]_vars
  PROVE  TypeOK'
<1>1. ASSUME NEW r \in Requests, ExecuteVAS(r) PROVE TypeOK'
  <2> USE RefTypes, DebitRowType DEF Labels, Results, EngineErrors, Goto, Answer, wallets, control
  <2>1. /\ rows \in [Refs -> Row \cup {NoRow}]
        /\ WithStatus(rows, RefOf[r], "success") \in [Refs -> Row \cup {NoRow}]
        /\ WithStatus(rows, FallbackRef[RefOf[r]], "success") \in [Refs -> Row \cup {NoRow}]
    BY WithStatusFacts DEF TypeOK, RepoTypeOK, Statuses
  <2>2. \A ref \in Refs : InsertTransaction(ref, DebitRow(r)) => rows' \in [Refs -> Row \cup {NoRow}]
    BY <2>1 DEF InsertTransaction, CanInsert
  <2>3. \A ref \in DebitRefs : Reversed(r, ref) =>
          /\ rows' \in [Refs -> Row \cup {NoRow}] /\ balance' \in [Users -> Int]
          /\ dailySpend' = dailySpend /\ held' \in [Requests -> Int]
    <3> SUFFICES ASSUME NEW ref \in DebitRefs, Reversed(r, ref)
                 PROVE  /\ rows' \in [Refs -> Row \cup {NoRow}] /\ balance' \in [Users -> Int]
                        /\ dailySpend' = dailySpend /\ held' \in [Requests -> Int]
      OBVIOUS
    <3>1. /\ rows' \in [Refs -> Row \cup {NoRow}] /\ balance' \in [Users -> Int]
          /\ dailySpend' = dailySpend
          /\ held' = held \/ held' = [held EXCEPT ![r] = @ - AmountOf[r]]
      BY ReversedFacts
    <3> QED BY <3>1 DEF TypeOK
  <2>4. CASE Lookup(r) \/ FindWallet(r) \/ Refind(r) \/ Confirm(r)
    BY <2>4 DEF Lookup, FindWallet, Refind, Confirm, TypeOK, RepoTypeOK
  <2>5. CASE Debit(r) \/ Redebit(r)
    BY <2>5, TakeFacts DEF Debit, Redebit, TypeOK, RepoTypeOK
  <2>6. CASE Insert(r) \/ InsertFallback(r)
    BY <2>2, <2>6 DEF Insert, InsertFallback, TypeOK, RepoTypeOK
  <2>7. CASE Compensate(r)
    BY <2>7, GiveBackFacts DEF Compensate, TypeOK, RepoTypeOK
  <2>8. CASE Primary(r) \/ Fallback(r)
    BY <2>8 DEF Primary, Fallback, Accept, TypeOK, RepoTypeOK
  <2>9. CASE Settle(r) \/ SettleFallback(r)
    BY <2>1, <2>9 DEF Settle, SettleFallback, UpdateTransactionStatus, TypeOK, RepoTypeOK
  <2>10. CASE Reverse(r)
    BY <2>3, <2>10 DEF Reverse, AfterReversal, TypeOK, RepoTypeOK
  <2>11. CASE ReverseFallback(r)
    BY <2>3, <2>11 DEF ReverseFallback, TypeOK, RepoTypeOK
  <2> QED BY <1>1, <2>4, <2>5, <2>6, <2>7, <2>8, <2>9, <2>10, <2>11 DEF ExecuteVAS
<1>2. ASSUME NEW r \in Requests, Disconnect(r) \/ Crash(r) PROVE TypeOK'
  BY <1>2 DEF Disconnect, Crash, TypeOK, RepoTypeOK, Labels, wallets, control
<1>3. CASE Midnight
  BY <1>3 DEF Midnight, ResetDailySpend, TypeOK, RepoTypeOK
<1>4. CASE UNCHANGED vars
  BY <1>4 DEF vars, TypeOK, RepoTypeOK
<1> QED BY <1>1, <1>2, <1>3, <1>4 DEF Next

LEMMA TypeAtStart == Init => TypeOK
BY WalletAssumption, RequestAssumption
   DEF Init, RepoInit, TypeOK, RepoTypeOK, Labels, Results

\* Type correctness: every run of the purchase keeps its variables in their
\* types, whatever fails.
THEOREM TypeCorrect == Spec => []TypeOK
<1>1. Init => TypeOK
  BY TypeAtStart
<1>2. TypeOK /\ [Next]_vars => TypeOK'
  BY TypeStep
<1> QED BY <1>1, <1>2, PTL DEF Spec

LEMMA FundsAtStart == Init => WithinFunds
<1>1. \A u \in Users : InitBalance[u] >= 0 /\ DailyLimit[u] >= 0
  BY WalletAssumption
<1> QED BY <1>1 DEF Init, RepoInit, WithinFunds

\* The debit, which checks under the row lock, and the compensating credit of a
\* negative amount, which the table checks, are the only steps that lower a balance.
LEMMA FundsStep == TypeOK /\ WithinFunds /\ [Next]_vars => WithinFunds'
<1>1. TypeOK /\ WithinFunds /\ [Next]_vars => WithinFunds'
  <2> SUFFICES ASSUME TypeOK, WithinFunds, [Next]_vars PROVE WithinFunds'
    OBVIOUS
  <2>1. DailyLimit \in [Users -> Nat]
    BY WalletAssumption
  <2>2. ASSUME NEW r \in Requests, Take(r) PROVE WithinFunds'
    BY <2>1, <2>2, RefTypes DEF Take, DebitWithLock, CanDebit, WithinFunds, TypeOK, RepoTypeOK
  <2>3. ASSUME NEW r \in Requests, GiveBack(r) PROVE WithinFunds'
    BY <2>3, GiveBackFacts, RefTypes DEF WithinFunds, TypeOK, RepoTypeOK
  <2>4. ASSUME NEW r \in Requests, NEW ref \in DebitRefs, Reversed(r, ref) PROVE WithinFunds'
    <3>1. /\ dailySpend' = dailySpend
          /\ \/ balance' = balance
             \/ balance' = [balance EXCEPT ![UserOf[r]] = @ + AmountOf[r]] /\ AmountOf[r] > 0
      BY <2>4, ReversedFacts
    <3> QED BY <3>1, RefTypes DEF WithinFunds, TypeOK, RepoTypeOK
  <2>5. CASE UNCHANGED <<balance, dailySpend>>
    BY <2>5 DEF WithinFunds
  <2>6. ASSUME NEW r \in Requests, ExecuteVAS(r) PROVE WithinFunds'
    <3> USE DEF wallets
    <3>1. CASE \/ Lookup(r) \/ FindWallet(r) \/ Refind(r) \/ Confirm(r) \/ Insert(r)
               \/ InsertFallback(r) \/ Primary(r) \/ Fallback(r) \/ Settle(r) \/ SettleFallback(r)
      BY <3>1, <2>5 DEF Lookup, FindWallet, Refind, Confirm, Insert, InsertFallback, Primary,
                        Fallback, Settle, SettleFallback
    <3>2. CASE Debit(r) \/ Redebit(r)
      BY <3>2, <2>2, <2>5 DEF Debit, Redebit
    <3>3. CASE Compensate(r)
      BY <3>3, <2>3, <2>5 DEF Compensate
    <3>4. CASE Reverse(r)
      BY <3>4, <2>4, <2>5, RefTypes DEF Reverse
    <3>5. CASE ReverseFallback(r)
      BY <3>5, <2>4, <2>5, RefTypes DEF ReverseFallback
    <3> QED BY <2>6, <3>1, <3>2, <3>3, <3>4, <3>5 DEF ExecuteVAS
  <2>7. ASSUME NEW r \in Requests, Disconnect(r) \/ Crash(r) PROVE WithinFunds'
    BY <2>5, <2>7 DEF Disconnect, Crash, wallets
  <2>8. CASE Midnight
    BY <2>1, <2>8 DEF Midnight, ResetDailySpend, WithinFunds
  <2> QED BY <2>5, <2>6, <2>7, <2>8 DEF Next, vars
<1> QED BY <1>1

\* No wallet is overdrawn and no user exceeds the daily limit, for any amounts, positive
\* or negative, and however the debits and credits of requests interleave.
THEOREM FundsSafe == Spec => []WithinFunds
<1>1. TypeOK /\ WithinFunds /\ [Next]_vars => WithinFunds'
  BY FundsStep
<1> QED BY <1>1, FundsAtStart, TypeCorrect, PTL DEF Spec

-------------------------------------------------------------------------------

\* What a step of r does to the rows, to r's place in the code and to the
\* purchases: it deletes no row and changes no id, it writes a reversal only for
\* a row of its own, and it enters the engine only by inserting its row.
LEMMA StepFacts ==
  ASSUME TypeOK, NEW r \in Requests, ExecuteVAS(r)
  PROVE  /\ \A d \in Refs : rows[d] # NoRow => rows'[d] # NoRow /\ rows'[d].id = rows[d].id
         /\ \A d \in DebitRefs : rows[ReversalRef[d]] = NoRow /\ rows'[ReversalRef[d]] # NoRow =>
              /\ rows[d] # NoRow /\ rows[d].id = r
              /\ pc[r] \in {"reverse", "reverseFb"} /\ pc'[r] \notin BeforeReversal
         /\ \A s \in Requests : s # r =>
              pc'[s] = pc[s] /\ accepted'[s] = accepted[s] /\ held'[s] = held[s] /\ result'[s] = result[s]
         /\ \/ pc[r] \in EngineLabels
            \/ pc'[r] \notin EngineLabels /\ accepted' = accepted
            \/ /\ rows[RefOf[r]] = NoRow /\ rows'[RefOf[r]] # NoRow /\ rows'[RefOf[r]].id = r
               /\ accepted' = accepted
         /\ pc'[r] \in BeforeReversal /\ pc[r] \notin BeforeReversal => rows[RefOf[r]] = NoRow
<1> USE RefTypes DEF EngineLabels, BeforeReversal, AfterRedebit, Goto, Answer, wallets, control
<1>1. /\ rows \in [Refs -> Row \cup {NoRow}] /\ pc \in [Requests -> Labels]
      /\ accepted \in [Requests -> SUBSET {"primary", "fallback"}]
      /\ held \in [Requests -> Int] /\ result \in [Requests -> Results]
  BY DEF TypeOK, RepoTypeOK
<1>2. \A d \in DebitRefs : d \in Refs /\ ReversalRef[d] \in Refs /\ ReversalRef[d] \notin DebitRefs
  BY DebitRefsAreRefs, ReferenceAssumption
<1>3. CASE Lookup(r) \/ FindWallet(r) \/ Refind(r) \/ Confirm(r)
  BY <1>1, <1>3 DEF Lookup, FindWallet, Refind, Confirm
<1>4. CASE Debit(r) \/ Redebit(r)
  <2>1. \A s \in Requests : s # r => held'[s] = held[s]
    BY <1>1, <1>4, TakeFacts DEF Debit, Redebit
  <2> QED BY <1>1, <1>4, <2>1 DEF Debit, Redebit
<1>5. CASE Compensate(r)
  <2>1. \A s \in Requests : s # r => held'[s] = held[s]
    BY <1>1, <1>5, GiveBackFacts DEF Compensate
  <2> QED BY <1>1, <1>5, <2>1 DEF Compensate
<1>6. ASSUME NEW ref \in DebitRefs, InsertTransaction(ref, DebitRow(r))
      PROVE  /\ \A d \in Refs : d # ref => rows'[d] = rows[d]
             /\ rows[ref] = NoRow /\ rows'[ref] # NoRow /\ rows'[ref].id = r
  <2>1. rows' = [rows EXCEPT ![ref] = DebitRow(r)] /\ rows[ref] = NoRow
    BY <1>6 DEF InsertTransaction, CanInsert, Exists
  <2> QED BY <1>1, <1>2, <2>1, DebitRowType
<1>7. CASE Insert(r)
  <2>1. CASE rows' = rows /\ Goto(r, "compensate")
    BY <1>1, <1>7, <2>1 DEF Insert
  <2>2. CASE InsertTransaction(RefOf[r], DebitRow(r))
    <3>1. /\ \A d \in Refs : d # RefOf[r] => rows'[d] = rows[d]
          /\ rows[RefOf[r]] = NoRow /\ rows'[RefOf[r]] # NoRow /\ rows'[RefOf[r]].id = r
      BY <1>6, <2>2
    <3> QED BY <1>1, <1>2, <1>7, <3>1 DEF Insert
  <2> QED BY <1>7, <2>1, <2>2 DEF Insert
<1>8. CASE InsertFallback(r)
  <2>1. CASE rows' = rows
    BY <1>1, <1>8, <2>1 DEF InsertFallback
  <2>2. CASE InsertTransaction(FallbackRef[RefOf[r]], DebitRow(r))
    BY <1>1, <1>2, <1>6, <1>8, <2>2 DEF InsertFallback
  <2> QED BY <1>8, <2>1, <2>2 DEF InsertFallback
<1>9. CASE Primary(r) \/ Fallback(r)
  BY <1>1, <1>9 DEF Primary, Fallback, Accept
<1>10. ASSUME NEW ref \in DebitRefs, UpdateTransactionStatus(ref, "success")
       PROVE  /\ \A d \in Refs : rows'[d] = NoRow <=> rows[d] = NoRow
              /\ \A d \in Refs : rows[d] # NoRow => rows'[d].id = rows[d].id
  <2>1. rows' = WithStatus(rows, ref, "success") /\ ref \in Refs /\ "success" \in Statuses
    BY <1>2, <1>10 DEF UpdateTransactionStatus, Statuses
  <2> QED BY <1>1, <2>1, WithStatusFacts
<1>11. CASE Settle(r) \/ SettleFallback(r)
  BY <1>1, <1>2, <1>10, <1>11 DEF Settle, SettleFallback
<1>12. CASE Reverse(r)
  <2>1. CASE Reversed(r, RefOf[r])
    <3>1. /\ \A d \in Refs : d # RefOf[r] /\ d # ReversalRef[RefOf[r]] => rows'[d] = rows[d]
          /\ rows[RefOf[r]] # NoRow => rows'[RefOf[r]].id = rows[RefOf[r]].id /\ rows'[RefOf[r]] # NoRow
          /\ rows[ReversalRef[RefOf[r]]] = NoRow => rows[RefOf[r]] # NoRow /\ rows[RefOf[r]].id = r
          /\ rows[RefOf[r]] = NoRow => rows'[RefOf[r]] = NoRow
          /\ rows[ReversalRef[RefOf[r]]] # NoRow =>
               /\ rows'[ReversalRef[RefOf[r]]] # NoRow
               /\ rows'[ReversalRef[RefOf[r]]].id = rows[ReversalRef[RefOf[r]]].id
          /\ held' = held \/ held' = [held EXCEPT ![r] = @ - AmountOf[r]]
      BY <2>1, ReversedFacts
    <3>2. \A d \in DebitRefs : ReversalRef[d] = ReversalRef[RefOf[r]] => d = RefOf[r]
      BY ReferenceAssumption
    <3>3. pc[r] = "reverse" /\ pc'[r] \notin BeforeReversal
      BY <1>1, <1>12 DEF Reverse, AfterReversal
    <3> QED BY <1>1, <1>2, <1>12, <3>1, <3>2, <3>3 DEF Reverse, AfterReversal
  <2>2. CASE rows' = rows /\ held' = held
    BY <1>1, <1>12, <2>2 DEF Reverse, AfterReversal
  <2> QED BY <1>12, <2>1, <2>2 DEF Reverse
<1>13. CASE ReverseFallback(r)
  <2> DEFINE ref == FallbackRef[RefOf[r]]
  <2>1. CASE Reversed(r, ref)
    <3>1. /\ \A d \in Refs : d # ref /\ d # ReversalRef[ref] => rows'[d] = rows[d]
          /\ rows[ref] # NoRow => rows'[ref].id = rows[ref].id /\ rows'[ref] # NoRow
          /\ rows[ReversalRef[ref]] = NoRow => rows[ref] # NoRow /\ rows[ref].id = r
          /\ rows[ref] = NoRow => rows'[ref] = NoRow
          /\ rows[ReversalRef[ref]] # NoRow =>
               rows'[ReversalRef[ref]] # NoRow /\ rows'[ReversalRef[ref]].id = rows[ReversalRef[ref]].id
          /\ held' = held \/ held' = [held EXCEPT ![r] = @ - AmountOf[r]]
      BY <2>1, ReversedFacts
    <3>2. \A d \in DebitRefs : ReversalRef[d] = ReversalRef[ref] => d = ref
      BY ReferenceAssumption
    <3>3. pc[r] = "reverseFb" /\ pc'[r] \notin BeforeReversal
      BY <1>1, <1>13 DEF ReverseFallback
    <3> QED BY <1>1, <1>2, <1>13, <3>1, <3>2, <3>3 DEF ReverseFallback
  <2>2. CASE rows' = rows /\ held' = held
    BY <1>1, <1>13, <2>2 DEF ReverseFallback
  <2> QED BY <1>13, <2>1, <2>2 DEF ReverseFallback
<1> QED BY <1>3, <1>4, <1>5, <1>7, <1>8, <1>9, <1>11, <1>12, <1>13 DEF ExecuteVAS

\* The environment's steps leave the rows, the purchases and the money alone.
LEMMA OtherSteps ==
  ASSUME TypeOK, [Next]_vars, ~\E r \in Requests : ExecuteVAS(r)
  PROVE  /\ UNCHANGED <<balance, rows, result, accepted, held>>
         /\ \A r \in Requests : pc'[r] = pc[r] \/ (pc[r] \notin Ended /\ pc'[r] = "crashed")
<1>1. ASSUME NEW r \in Requests, Disconnect(r)
      PROVE  UNCHANGED <<balance, rows, result, accepted, held, pc>>
  BY <1>1 DEF Disconnect, wallets
<1>2. ASSUME NEW r \in Requests, Crash(r)
      PROVE  /\ UNCHANGED <<balance, rows, result, accepted, held>>
             /\ pc[r] \notin Ended /\ pc' = [pc EXCEPT ![r] = "crashed"]
  BY <1>2 DEF Crash, wallets, control
<1>3. CASE Midnight
  BY <1>3 DEF Midnight, ResetDailySpend
<1>4. CASE UNCHANGED vars
  BY <1>4 DEF vars
<1> QED BY <1>1, <1>2, <1>3, <1>4 DEF Next, TypeOK

\* Every step keeps each stored row with the request that inserted it.
LEMMA RowStep ==
  ASSUME TypeOK, RowInv, [Next]_vars
  PROVE  RowInv'
<1> USE DEF Exists, Owns
<1>1. \A d \in DebitRefs : d \in Refs /\ ReversalRef[d] \in Refs
  BY DebitRefsAreRefs, ReferenceAssumption
<1>2. ASSUME NEW r \in Requests, ExecuteVAS(r) PROVE RowInv'
  <2>1. ASSUME NEW d \in DebitRefs, Exists(ReversalRef[d])' PROVE Exists(d)'
    BY <1>1, <1>2, <2>1, StepFacts DEF RowInv
  <2>2. ASSUME NEW s \in Requests, Owns(s) PROVE Owns(s)'
    BY <1>2, <2>2, StepFacts, RefTypes
  <2>3. ASSUME NEW s \in Requests, pc'[s] \in EngineLabels PROVE Owns(s)'
    BY <1>2, <2>2, <2>3, StepFacts DEF RowInv
  <2>4. ASSUME NEW s \in Requests, accepted'[s] # {} PROVE Owns(s)'
    BY <1>2, <2>2, <2>4, StepFacts DEF RowInv
  <2>5. ASSUME NEW s \in Requests, pc'[s] \in BeforeReversal, Exists(ReversalRef[RefOf[s]])'
        PROVE  FALSE
    <3>1. CASE Exists(ReversalRef[RefOf[s]])
      BY <1>2, <2>5, <3>1, StepFacts, RefTypes DEF RowInv
    <3>2. CASE ~Exists(ReversalRef[RefOf[s]])
      <4>1. /\ Exists(RefOf[s]) /\ rows[RefOf[s]].id = r /\ pc'[r] \notin BeforeReversal
        BY <1>2, <2>5, <3>2, StepFacts, RefTypes
      <4>2. s # r /\ pc[s] \in EngineLabels
        BY <1>2, <2>5, <4>1, StepFacts DEF EngineLabels
      <4> QED BY <4>1, <4>2 DEF RowInv
    <3> QED BY <3>1, <3>2
  <2> QED BY <2>1, <2>3, <2>4, <2>5 DEF RowInv
<1>3. CASE ~\E r \in Requests : ExecuteVAS(r)
  <2>1. /\ UNCHANGED <<rows, accepted>>
        /\ \A r \in Requests : pc'[r] = pc[r] \/ pc'[r] = "crashed"
    BY <1>3, OtherSteps
  <2> QED BY <2>1 DEF RowInv, EngineLabels, BeforeReversal, AfterRedebit
<1> QED BY <1>2, <1>3

LEMMA RowsAtStart == Init => RowInv
BY RefTypes, DebitRefsAreRefs, ReferenceAssumption
   DEF Init, RepoInit, RowInv, Exists, EngineLabels, BeforeReversal, AfterRedebit

\* The row invariant: it is the unique index on reference, together with the
\* foreign key of reversals, that ties a stored row to one running request.
THEOREM RowsSafe == Spec => []RowInv
<1>1. Init => RowInv
  BY RowsAtStart
<1>2. TypeOK /\ RowInv /\ [Next]_vars => RowInv'
  BY RowStep
<1> QED BY <1>1, <1>2, TypeCorrect, PTL DEF Spec

\* Idempotence: of all requests that carry one reference, at most one is ever
\* accepted by a bill provider, however they interleave and whatever fails.
THEOREM OnePurchase == Spec => []OnePurchasePerReference
<1>1. RowInv => OnePurchasePerReference
  BY DEF RowInv, OnePurchasePerReference, Owns
<1> QED BY <1>1, RowsSafe, PTL

-------------------------------------------------------------------------------

\* The charge invariant of one request.
Holds(r) ==
  /\ pc[r] \in {"lookup", "wallet", "debit", "redebit"} => held[r] = 0
  /\ pc[r] \in {"insert", "compensate"} \cup BeforeReversal \cup AfterRedebit
       => held[r] = AmountOf[r]
  /\ pc[r] # "done" => result[r] = "none"
  /\ held[r] \in {0, AmountOf[r]}
  /\ result[r] = "success" => held[r] = AmountOf[r]
  /\ result[r] = "refunded" => held[r] = 0

\* A step of r keeps the charge invariant of r.  The reversal of the primary
\* debit always credits: RowInv excludes that its reversal row is there already.
LEMMA HoldsStep ==
  ASSUME TypeOK, RowInv, NEW r \in Requests, Holds(r), ExecuteVAS(r)
  PROVE  Holds(r)'
<1> USE RefTypes DEF Holds, BeforeReversal, AfterRedebit, Goto, Answer, wallets, control
<1>1. /\ pc \in [Requests -> Labels] /\ result \in [Requests -> Results]
      /\ held \in [Requests -> Int] /\ held[r] \in Int
  BY DEF TypeOK
<1>2. CASE Lookup(r) \/ FindWallet(r) \/ Refind(r) \/ Confirm(r) \/ Insert(r)
           \/ InsertFallback(r) \/ Primary(r) \/ Fallback(r) \/ Settle(r) \/ SettleFallback(r)
  BY <1>1, <1>2 DEF Lookup, FindWallet, Refind, Confirm, Insert, InsertFallback, Primary,
                    Fallback, Settle, SettleFallback
<1>3. CASE Debit(r) \/ Redebit(r)
  <2>1. CASE Take(r)
    <3>1. held'[r] = held[r] + AmountOf[r]
      BY <1>1, <2>1, TakeFacts
    <3> QED BY <1>1, <1>3, <3>1 DEF Debit, Redebit
  <2>2. CASE UNCHANGED held
    BY <1>1, <1>3, <2>2 DEF Debit, Redebit, Take, DebitWithLock, CanDebit
  <2> QED BY <1>3, <2>1, <2>2 DEF Debit, Redebit
<1>4. CASE Compensate(r)
  <2>1. held'[r] = held[r] \/ held'[r] = held[r] - AmountOf[r]
    BY <1>1, <1>4, GiveBackFacts DEF Compensate
  <2> QED BY <1>1, <1>4, <2>1 DEF Compensate
<1>5. CASE Reverse(r)
  <2>1. CASE Reversed(r, RefOf[r])
    <3>1. rows[ReversalRef[RefOf[r]]] = NoRow
      BY <1>5 DEF Reverse, RowInv, Exists
    <3>2. held' = [held EXCEPT ![r] = @ - AmountOf[r]]
      BY <2>1, <3>1, ReversedFacts
    <3>3. held'[r] = held[r] - AmountOf[r]
      BY <1>1, <3>2
    <3> QED BY <1>1, <1>5, <3>3 DEF Reverse, AfterReversal
  <2>2. CASE Answer(r, "reversalFailed") /\ UNCHANGED held
    BY <1>1, <1>5, <2>2 DEF Reverse
  <2> QED BY <1>5, <2>1, <2>2 DEF Reverse
<1>6. CASE ReverseFallback(r)
  <2>1. held' = held \/ held' = [held EXCEPT ![r] = @ - AmountOf[r]]
    BY <1>6, ReversedFacts DEF ReverseFallback
  <2>2. held'[r] = held[r] \/ held'[r] = held[r] - AmountOf[r]
    BY <1>1, <2>1
  <2> QED BY <1>1, <1>6, <2>2 DEF ReverseFallback
<1> QED BY <1>2, <1>3, <1>4, <1>5, <1>6 DEF ExecuteVAS

LEMMA HoldsEverywhere == Spec => [](\A r \in Requests : Holds(r))
<1> DEFINE All == \A r \in Requests : Holds(r)
<1>1. Init => All
  BY RefTypes DEF Init, Holds, BeforeReversal, AfterRedebit
<1>2. TypeOK /\ RowInv /\ All /\ [Next]_vars => All'
  <2> SUFFICES ASSUME TypeOK, RowInv, All, [Next]_vars, NEW s \in Requests PROVE Holds(s)'
    OBVIOUS
  <2>1. ASSUME NEW r \in Requests, ExecuteVAS(r) PROVE Holds(s)'
    <3>1. CASE s = r
      BY <2>1, <3>1, HoldsStep
    <3>2. CASE s # r
      <4>1. pc'[s] = pc[s] /\ held'[s] = held[s] /\ result'[s] = result[s]
        BY <2>1, <3>2, StepFacts
      <4> QED BY <4>1 DEF Holds
    <3> QED BY <3>1, <3>2
  <2>2. CASE ~\E r \in Requests : ExecuteVAS(r)
    <3>1. /\ held' = held /\ result' = result
          /\ pc'[s] = pc[s] \/ (pc[s] \notin Ended /\ pc'[s] = "crashed")
      BY <2>2, OtherSteps
    <3> QED BY <3>1 DEF Holds, Ended, BeforeReversal, AfterRedebit
  <2> QED BY <2>1, <2>2
<1> QED BY <1>1, <1>2, TypeCorrect, RowsSafe, PTL DEF Spec

\* Charging is safe: whatever statement or provider call fails, whenever the
\* client hangs up or the instance dies, a request ends up charged its amount or
\* nothing, a success is paid for, and a wallet said to be refunded is refunded.
THEOREM ChargeSafe == Spec => []AnswerMatchesCharge
<1>1. (\A r \in Requests : Holds(r)) => AnswerMatchesCharge
  BY DEF Holds, AnswerMatchesCharge
<1> QED BY <1>1, HoldsEverywhere, PTL

-------------------------------------------------------------------------------

\* While statements are answered and clients stay, money is kept only from the
\* request whose row is stored: the others have given it back.  (The compensating
\* credit of a negative amount may be refused; then held stays negative.)
ChargedOwns(r) ==
  /\ live[r]
  /\ pc[r] = "refind" => held[r] <= 0
  /\ pc[r] = "done" => held[r] <= 0 \/ Owns(r)

LEMMA ChargedOwnsStep ==
  ASSUME Faults \subseteq {"crash"}, TypeOK, RowInv, WithinFunds,
         NEW r \in Requests, Holds(r), ChargedOwns(r), ExecuteVAS(r)
  PROVE  ChargedOwns(r)'
<1>1. /\ pc \in [Requests -> Labels] /\ held \in [Requests -> Int] /\ live \in [Requests -> BOOLEAN]
  BY DEF TypeOK
<1>2. live[r] /\ ~Fails(r) /\ ~AckLost(r)
  BY DEF ChargedOwns, Fails, AckLost
<1>3. live' = live
  BY DEF ExecuteVAS, Lookup, FindWallet, Debit, Insert, Compensate, Refind, Primary, Confirm, Settle,
         Reverse, Redebit, InsertFallback, Fallback, SettleFallback, ReverseFallback, control
<1>4. Owns(r) => Owns(r)'
  BY StepFacts, RefTypes DEF Owns, Exists
<1>5. CASE pc[r] \in EngineLabels
  <2>1. Owns(r)'
    BY <1>4, <1>5 DEF RowInv
  <2>2. pc'[r] # "refind"
    BY <1>1, <1>5 DEF EngineLabels, BeforeReversal, AfterRedebit, Goto, Answer, AfterReversal,
       ExecuteVAS, Lookup, FindWallet, Debit, Insert, Compensate, Refind, Primary, Confirm, Settle,
       Reverse, Redebit, InsertFallback, Fallback, SettleFallback, ReverseFallback
  <2>. QED BY <1>2, <1>3, <2>1, <2>2 DEF ChargedOwns
<1>6. CASE Lookup(r) \/ FindWallet(r) \/ Refind(r)
  <2>1. held[r] <= 0 /\ held' = held
    BY <1>6 DEF Lookup, FindWallet, Refind, Holds, ChargedOwns, wallets
  <2>. QED BY <1>2, <1>3, <2>1 DEF ChargedOwns
<1>7. CASE Debit(r)
  <2>1. held[r] = 0 /\ pc[r] = "debit"
    BY <1>7 DEF Debit, Holds
  <2>2. pc'[r] = "insert" \/ (pc'[r] = "done" /\ held' = held)
    BY <1>1, <1>2, <1>7 DEF Debit, Goto, Answer, wallets
  <2>. QED BY <1>2, <1>3, <2>1, <2>2 DEF ChargedOwns
<1>8. CASE Insert(r)
  <2>1. pc'[r] \in {"primary", "compensate"}
    BY <1>1, <1>8 DEF Insert, Goto
  <2>. QED BY <1>2, <1>3, <2>1 DEF ChargedOwns
<1>9. CASE Compensate(r)
  <2>1. held[r] = AmountOf[r] /\ AmountOf[r] \in Int
    BY <1>9, RefTypes DEF Compensate, Holds
  <2>2. \/ held' = [held EXCEPT ![r] = @ - AmountOf[r]]
        \/ held' = held /\ ~CanCredit(UserOf[r], AmountOf[r])
    BY <1>2, <1>9, GiveBackFacts DEF Compensate, wallets
  <2>3. ~CanCredit(UserOf[r], AmountOf[r]) => AmountOf[r] <= 0
    BY RefTypes DEF CanCredit, WithinFunds, TypeOK, RepoTypeOK
  <2>4. held'[r] <= 0
    BY <1>1, <2>1, <2>2, <2>3
  <2>. QED BY <1>2, <1>3, <2>4 DEF ChargedOwns
<1>. QED BY <1>5, <1>6, <1>7, <1>8, <1>9
         DEF ExecuteVAS, EngineLabels, BeforeReversal, AfterRedebit, Primary, Confirm, Settle,
             Reverse, Redebit, InsertFallback, Fallback, SettleFallback, ReverseFallback

\* Of all requests that carry one client reference and are answered at most one
\* keeps the money, however they interleave, as long as the database answers and
\* clients stay; crashes are allowed (the compensating CreditBalance of executeVAS).
THEOREM OneCharge == Faults \subseteq {"crash"} => (Spec => []OneChargePerReference)
<1>. SUFFICES ASSUME Faults \subseteq {"crash"} PROVE Spec => []OneChargePerReference
  OBVIOUS
<1>. DEFINE Charged == \A r \in Requests : Holds(r)
            Inv == \A r \in Requests : ChargedOwns(r)
<1>1. Init => Inv
  BY RefTypes DEF Init, ChargedOwns
<1>2. TypeOK /\ RowInv /\ WithinFunds /\ Charged /\ Inv /\ [Next]_vars => Inv'
  <2> SUFFICES ASSUME TypeOK, RowInv, WithinFunds, Charged, Inv, [Next]_vars, NEW s \in Requests
               PROVE  ChargedOwns(s)'
    OBVIOUS
  <2>1. ASSUME NEW r \in Requests, ExecuteVAS(r) PROVE ChargedOwns(s)'
    <3>1. CASE s = r
      BY <2>1, <3>1, ChargedOwnsStep
    <3>2. CASE s # r
      <4>1. pc'[s] = pc[s] /\ held'[s] = held[s] /\ (Owns(s) => Owns(s)')
        BY <2>1, <3>2, StepFacts, RefTypes DEF Owns, Exists
      <4>2. live' = live
        BY <2>1 DEF ExecuteVAS, Lookup, FindWallet, Debit, Insert, Compensate, Refind, Primary, Confirm,
           Settle, Reverse, Redebit, InsertFallback, Fallback, SettleFallback, ReverseFallback, control
      <4> QED BY <4>1, <4>2 DEF ChargedOwns
    <3> QED BY <3>1, <3>2
  <2>2. CASE ~\E r \in Requests : ExecuteVAS(r)
    <3>1. /\ held' = held /\ rows' = rows
          /\ pc'[s] = pc[s] \/ pc'[s] = "crashed"
      BY <2>2, OtherSteps
    <3>2. live' = live
      <4>1. \A r \in Requests : ~Disconnect(r)
        BY DEF Disconnect
      <4> QED BY <2>2, <4>1 DEF Next, Crash, Midnight, vars, control
    <3> QED BY <3>1, <3>2 DEF ChargedOwns, Owns, Exists
  <2> QED BY <2>1, <2>2
<1>3. Inv => OneChargePerReference
  BY DEF ChargedOwns, OneChargePerReference, Owns
<1> QED BY <1>1, <1>2, <1>3, TypeCorrect, RowsSafe, FundsSafe, HoldsEverywhere, PTL DEF Spec

-------------------------------------------------------------------------------

\* A step of r is a step of the wallet promise, or leaves it alone.
LEMMA SagaStep ==
  ASSUME TypeOK, RowInv, NEW r \in Requests, Holds(r), ExecuteVAS(r)
  PROVE  [Saga!SagaNext]_Saga!sagaVars
<1> USE RefTypes DEF Goto, Answer, wallets, control
<1>1. /\ pc \in [Requests -> Labels] /\ held \in [Requests -> Int] /\ held[r] \in Int
      /\ balance \in [Users -> Int] /\ AmountOf[r] \in Int
  BY DEF TypeOK, RepoTypeOK
<1>2. pc[r] \notin Ended /\ \E l \in Labels : pc' = [pc EXCEPT ![r] = l]
  BY DEF ExecuteVAS, Lookup, FindWallet, Refind, Confirm, Insert, InsertFallback, Primary,
         Fallback, Settle, SettleFallback, Debit, Redebit, Compensate, Reverse, AfterReversal,
         ReverseFallback, Ended, Labels
<1>3. ~Closed[r] /\ \E last \in BOOLEAN : Closed' = [Closed EXCEPT ![r] = last]
  <2>1. CASE pc'[r] \in Ended
    <3>1. Closed' = [Closed EXCEPT ![r] = TRUE]
      BY <1>1, <1>2, <2>1 DEF Closed
    <3> QED BY <1>2, <3>1 DEF Closed
  <2>2. CASE pc'[r] \notin Ended
    <3>1. \A s \in Requests : pc'[s] \in Ended <=> pc[s] \in Ended
      BY <1>1, <1>2, <2>2
    <3>2. Closed' = Closed
      BY <3>1 DEF Closed
    <3>3. Closed \in [Requests -> BOOLEAN] /\ Closed[r] = FALSE
      <4>1. Closed \in [Requests -> BOOLEAN]
        BY DEF Closed
      <4>2. ~Closed[r]
        BY <1>2 DEF Closed
      <4> QED BY <4>1, <4>2
    <3>4. Closed = [Closed EXCEPT ![r] = FALSE]
      BY <3>3
    <3> QED BY <3>2, <3>3, <3>4
  <2> QED BY <2>1, <2>2
<1>last. PICK last \in BOOLEAN : Closed' = [Closed EXCEPT ![r] = last]
  BY <1>3
<1>4. CASE UNCHANGED <<balance, held>>
  <2>1. CASE last = TRUE
    <3>1. Closed' = [Closed EXCEPT ![r] = TRUE]
      BY <1>last, <2>1
    <3> QED BY <1>3, <1>4, <3>1 DEF Saga!SagaNext, Saga!Close
  <2>2. CASE last = FALSE
    <3>1. Closed \in [Requests -> BOOLEAN] /\ Closed[r] = FALSE
      BY <1>3 DEF Closed
    <3>2. Closed' = Closed
      BY <1>last, <2>2, <3>1
    <3> QED BY <1>4, <3>2 DEF Saga!sagaVars
  <2> QED BY <2>1, <2>2
<1>5. CASE Take(r) /\ held[r] = 0
  <2>1. /\ held' = [held EXCEPT ![r] = AmountOf[r]]
        /\ balance[UserOf[r]] >= AmountOf[r]
        /\ balance' = [balance EXCEPT ![UserOf[r]] = @ - AmountOf[r]]
    BY <1>1, <1>5, TakeFacts
  <2>2. Saga!Charge(r, last)
    BY <1>3, <1>last, <1>5, <2>1 DEF Saga!Charge
  <2> QED BY <2>2 DEF Saga!SagaNext
<1>6. CASE /\ held[r] = AmountOf[r] /\ held' = [held EXCEPT ![r] = @ - AmountOf[r]]
           /\ balance[UserOf[r]] + AmountOf[r] >= 0
           /\ balance' = [balance EXCEPT ![UserOf[r]] = @ + AmountOf[r]]
  <2>1. held' = [held EXCEPT ![r] = 0]
    <3>1. held[r] - AmountOf[r] = 0
      BY <1>1, <1>6
    <3> QED BY <1>6, <3>1
  <2>2. Saga!Release(r, last)
    BY <1>3, <1>last, <1>6, <2>1 DEF Saga!Release
  <2> QED BY <2>2 DEF Saga!SagaNext
<1>7. CASE Lookup(r) \/ FindWallet(r) \/ Refind(r) \/ Confirm(r) \/ Insert(r)
           \/ InsertFallback(r) \/ Primary(r) \/ Fallback(r) \/ Settle(r) \/ SettleFallback(r)
  BY <1>4, <1>7 DEF Lookup, FindWallet, Refind, Confirm, Insert, InsertFallback, Primary,
                    Fallback, Settle, SettleFallback
<1>8. CASE Debit(r) \/ Redebit(r)
  BY <1>4, <1>5, <1>8 DEF Debit, Redebit, Holds
<1>9. CASE Compensate(r)
  BY <1>4, <1>6, <1>9, GiveBackFacts DEF Compensate, Holds
<1>10. CASE Reverse(r)
  <2>1. pc[r] = "reverse" /\ held[r] = AmountOf[r]
    BY <1>10 DEF Reverse, Holds, BeforeReversal
  <2>2. CASE Reversed(r, RefOf[r])
    BY <1>4, <1>6, <2>1, <2>2, ReversedFacts
  <2> QED BY <1>4, <1>10, <2>2 DEF Reverse
<1>11. CASE ReverseFallback(r)
  <2>1. pc[r] = "reverseFb" /\ held[r] = AmountOf[r]
    BY <1>11 DEF ReverseFallback, Holds, AfterRedebit
  <2>2. CASE Reversed(r, FallbackRef[RefOf[r]])
    BY <1>4, <1>6, <2>1, <2>2, ReversedFacts
  <2> QED BY <1>4, <1>11, <2>2 DEF ReverseFallback
<1> QED BY <1>7, <1>8, <1>9, <1>10, <1>11 DEF ExecuteVAS

\* The purchase implements the wallet promise of PaymentSaga: money moves only
\* by charging an open request its amount, or by giving exactly that back.
THEOREM Refinement == Spec => SagaSpec
<1>1. Init => Saga!SagaInit
  <2> SUFFICES ASSUME Init PROVE Saga!SagaInit
    OBVIOUS
  <2>1. \A r \in Requests : (pc[r] \in Ended) = FALSE
    BY DEF Init, Ended
  <2>2. Closed = [r \in Requests |-> FALSE]
    BY <2>1 DEF Closed
  <2> QED BY <2>2 DEF Init, RepoInit, Saga!SagaInit
<1>2. TypeOK /\ RowInv /\ (\A r \in Requests : Holds(r)) /\ [Next]_vars
        => [Saga!SagaNext]_Saga!sagaVars
  <2> SUFFICES ASSUME TypeOK, RowInv, \A r \in Requests : Holds(r), [Next]_vars
               PROVE  [Saga!SagaNext]_Saga!sagaVars
    OBVIOUS
  <2>1. ASSUME NEW r \in Requests, ExecuteVAS(r) PROVE [Saga!SagaNext]_Saga!sagaVars
    BY <2>1, SagaStep
  <2>2. ASSUME NEW r \in Requests, Disconnect(r) PROVE [Saga!SagaNext]_Saga!sagaVars
    BY <2>2 DEF Disconnect, wallets, Saga!sagaVars, Closed
  <2>3. ASSUME NEW r \in Requests, Crash(r) PROVE [Saga!SagaNext]_Saga!sagaVars
    <3>1. pc[r] \notin Ended /\ pc' = [pc EXCEPT ![r] = "crashed"] /\ UNCHANGED <<balance, held>>
      BY <2>3 DEF Crash, wallets
    <3>2. pc \in [Requests -> Labels]
      BY DEF TypeOK
    <3>3. ~Closed[r]
      BY <3>1 DEF Closed
    <3>4. Closed' = [Closed EXCEPT ![r] = TRUE]
      BY <3>1, <3>2 DEF Closed, Ended
    <3> QED BY <3>1, <3>3, <3>4 DEF Saga!SagaNext, Saga!Close
  <2>4. CASE Midnight
    BY <2>4 DEF Midnight, ResetDailySpend, Saga!sagaVars, Closed
  <2>5. CASE UNCHANGED vars
    BY <2>5 DEF vars, Saga!sagaVars, Closed
  <2> QED BY <2>1, <2>2, <2>3, <2>4, <2>5 DEF Next
<1> QED BY <1>1, <1>2, TypeCorrect, RowsSafe, HoldsEverywhere, PTL DEF Spec, SagaSpec, Saga!SagaSpec

-------------------------------------------------------------------------------

\* The one row a step of r may touch, and how: it is inserted, marked
\* successful, or reversed.
Touched(r) ==
  IF pc[r] \in {"insertFb", "settleFb", "reverseFb"} THEN FallbackRef[RefOf[r]] ELSE RefOf[r]

RowInserted(r) ==
  /\ pc[r] \in {"insert", "insertFb"}
  /\ rows[Touched(r)] = NoRow /\ rows'[Touched(r)] # NoRow
  /\ rows'[Touched(r)].status = "processing"
  /\ \A d \in DebitRefs : rows'[ReversalRef[d]] = rows[ReversalRef[d]]

RowSettled(r) ==
  /\ pc[r] \in {"settle", "settleFb"} /\ pc'[r] = "done"
  /\ rows[Touched(r)] = NoRow => rows'[Touched(r)] = NoRow
  /\ rows[Touched(r)] # NoRow => rows'[Touched(r)].status = "success"
  /\ rows[Touched(r)] # NoRow => rows'[Touched(r)] # NoRow
  /\ \A d \in DebitRefs : rows'[ReversalRef[d]] = rows[ReversalRef[d]]

RowReversed(r) ==
  /\ pc[r] \in {"reverse", "reverseFb"} /\ pc'[r] \in {"done", "redebit"}
  /\ pc[r] = "reverseFb" => pc'[r] = "done"
  /\ rows[Touched(r)] = NoRow => rows'[Touched(r)] = NoRow /\ rows[ReversalRef[Touched(r)]] # NoRow
  /\ rows[Touched(r)] # NoRow => rows'[Touched(r)].status = "reversed"
  /\ rows[Touched(r)] # NoRow => rows'[Touched(r)] # NoRow
  /\ rows'[ReversalRef[Touched(r)]] # NoRow
  /\ \A d \in DebitRefs : d # Touched(r) => rows'[ReversalRef[d]] = rows[ReversalRef[d]]

LEMMA RowChange ==
  ASSUME TypeOK, NEW r \in Requests, ExecuteVAS(r), rows' # rows
  PROVE  /\ Touched(r) \in DebitRefs
         /\ \A d \in DebitRefs : d # Touched(r) => rows'[d] = rows[d]
         /\ RowInserted(r) \/ RowSettled(r) \/ RowReversed(r)
<1> USE RefTypes DEF Goto, Answer, wallets, control, Touched
<1>1. rows \in [Refs -> Row \cup {NoRow}] /\ pc \in [Requests -> Labels]
  BY DEF TypeOK, RepoTypeOK
<1>2. \A d \in DebitRefs : d \in Refs /\ ReversalRef[d] \in Refs /\ ReversalRef[d] \notin DebitRefs
  BY DebitRefsAreRefs, ReferenceAssumption
<1>3. \A c, d \in DebitRefs : ReversalRef[c] = ReversalRef[d] => c = d
  BY ReferenceAssumption
<1>4. CASE \/ Lookup(r) \/ FindWallet(r) \/ Refind(r) \/ Confirm(r) \/ Primary(r) \/ Fallback(r)
           \/ Debit(r) \/ Redebit(r) \/ Compensate(r)
  BY <1>4 DEF Lookup, FindWallet, Refind, Confirm, Primary, Fallback, Debit, Redebit, Compensate
<1>5. CASE Insert(r) \/ InsertFallback(r)
  <2>1. InsertTransaction(Touched(r), DebitRow(r)) /\ pc[r] \in {"insert", "insertFb"}
    BY <1>5 DEF Insert, InsertFallback
  <2>2. rows' = [rows EXCEPT ![Touched(r)] = DebitRow(r)] /\ rows[Touched(r)] = NoRow
    BY <2>1 DEF InsertTransaction, CanInsert, Exists
  <2>3. Touched(r) \in DebitRefs /\ Touched(r) \in Refs
    OBVIOUS
  <2>4. rows'[Touched(r)] = DebitRow(r) /\ \A d \in Refs : d # Touched(r) => rows'[d] = rows[d]
    BY <1>1, <2>2, <2>3
  <2> QED BY <1>2, <2>1, <2>2, <2>3, <2>4, DebitRowType DEF RowInserted
<1>6. CASE Settle(r) \/ SettleFallback(r)
  <2>1. /\ rows' = WithStatus(rows, Touched(r), "success") /\ pc[r] \in {"settle", "settleFb"}
        /\ pc'[r] = "done"
    BY <1>1, <1>6 DEF Settle, SettleFallback, UpdateTransactionStatus
  <2>2. Touched(r) \in DebitRefs /\ Touched(r) \in Refs /\ "success" \in Statuses
    BY DEF Statuses
  <2>3. /\ \A d \in Refs : d # Touched(r) => rows'[d] = rows[d]
        /\ \A d \in Refs : rows'[d] = NoRow <=> rows[d] = NoRow
        /\ rows[Touched(r)] # NoRow => rows'[Touched(r)].status = "success"
    BY <1>1, <2>1, <2>2, WithStatusFacts
  <2> QED BY <1>2, <2>1, <2>2, <2>3 DEF RowSettled
<1>7. CASE Reverse(r) \/ ReverseFallback(r)
  <2>1. /\ Reversed(r, Touched(r)) /\ pc[r] \in {"reverse", "reverseFb"}
        /\ pc'[r] \in {"done", "redebit"} /\ (pc[r] = "reverseFb" => pc'[r] = "done")
    BY <1>1, <1>7 DEF Reverse, ReverseFallback, AfterReversal
  <2>2. Touched(r) \in DebitRefs
    OBVIOUS
  <2>3. /\ \A d \in Refs : d # Touched(r) /\ d # ReversalRef[Touched(r)] => rows'[d] = rows[d]
        /\ rows[Touched(r)] # NoRow => rows'[Touched(r)] # NoRow
        /\ rows[Touched(r)] = NoRow => rows'[Touched(r)] = NoRow /\ rows[ReversalRef[Touched(r)]] # NoRow
        /\ rows[Touched(r)] # NoRow => rows'[Touched(r)].status = "reversed"
        /\ rows'[ReversalRef[Touched(r)]] # NoRow
    BY <2>1, <2>2, ReversedFacts
  <2> QED BY <1>2, <1>3, <2>1, <2>2, <2>3 DEF RowReversed
<1> QED BY <1>4, <1>5, <1>6, <1>7 DEF ExecuteVAS

\* How the calls of one request follow each other, and which of them write rows.
LEMMA CallOrder ==
  ASSUME TypeOK, NEW r \in Requests, ExecuteVAS(r)
  PROVE  /\ pc'[r] \in BeforeReversal =>
              \/ pc[r] \in {"primary", "confirm"} /\ rows' = rows
              \/ pc[r] = "insert" /\ rows' # rows
         /\ pc'[r] \in {"redebit", "insertFb"} =>
              pc[r] = "reverse" \/ (pc[r] = "redebit" /\ rows' = rows)
         /\ pc'[r] \in {"fallback", "settleFb", "reverseFb"} =>
              pc[r] = "insertFb" \/ (pc[r] = "fallback" /\ rows' = rows)
<1> USE RefTypes DEF BeforeReversal, Goto, Answer
<1>1. pc \in [Requests -> Labels] /\ rows \in [Refs -> Row \cup {NoRow}]
  BY DEF TypeOK, RepoTypeOK
<1>2. CASE Insert(r)
  <2>1. CASE InsertTransaction(RefOf[r], DebitRow(r))
    <3>1. rows' = [rows EXCEPT ![RefOf[r]] = DebitRow(r)] /\ rows[RefOf[r]] = NoRow
      BY <2>1 DEF InsertTransaction, CanInsert, Exists
    <3>2. rows'[RefOf[r]] # rows[RefOf[r]]
      BY <1>1, <3>1, DebitRowType
    <3> QED BY <1>1, <1>2, <3>2 DEF Insert
  <2>2. CASE pc' = [pc EXCEPT ![r] = "compensate"]
    BY <1>1, <2>2
  <2> QED BY <1>2, <2>1, <2>2 DEF Insert
<1>3. CASE \/ Lookup(r) \/ FindWallet(r) \/ Refind(r) \/ Confirm(r) \/ Primary(r) \/ Fallback(r)
           \/ Debit(r) \/ Redebit(r) \/ Compensate(r)
  BY <1>1, <1>3 DEF Lookup, FindWallet, Refind, Confirm, Primary, Fallback, Debit, Redebit, Compensate
<1>4. CASE Settle(r) \/ SettleFallback(r) \/ Reverse(r) \/ ReverseFallback(r) \/ InsertFallback(r)
  BY <1>1, <1>4 DEF Settle, SettleFallback, Reverse, AfterReversal, ReverseFallback, InsertFallback
<1> QED BY <1>2, <1>3, <1>4 DEF ExecuteVAS

\* Without colliding references, no other request writes the debit row or the
\* fallback row of a request that is inside the engine.
LEMMA RowsOfOthers ==
  ASSUME NoCollision, TypeOK, RowInv, NEW r \in Requests, ExecuteVAS(r), rows' # rows,
         NEW s \in Requests, s # r, pc[s] \in EngineLabels
  PROVE  Touched(r) # RefOf[s] /\ Touched(r) # FallbackRef[RefOf[s]]
<1>1. rows[RefOf[s]] # NoRow /\ rows[RefOf[s]].id = s
  BY DEF RowInv, Owns, Exists
<1>2. RefOf[r] # FallbackRef[RefOf[s]] /\ FallbackRef[RefOf[r]] # RefOf[s]
  BY DEF NoCollision
<1>3. FallbackRef[RefOf[r]] = FallbackRef[RefOf[s]] => RefOf[r] = RefOf[s]
  BY ReferenceAssumption DEF ClientRefs
<1>4. pc[r] \in EngineLabels => RefOf[r] # RefOf[s]
  <2>1. pc[r] \in EngineLabels => rows[RefOf[r]].id = r
    BY DEF RowInv, Owns
  <2> QED BY <1>1, <2>1
<1>5. CASE RowInserted(r)
  BY <1>1, <1>2, <1>3, <1>4, <1>5 DEF RowInserted, Touched, EngineLabels, AfterRedebit
<1>6. CASE RowSettled(r) \/ RowReversed(r)
  BY <1>2, <1>3, <1>4, <1>6 DEF RowSettled, RowReversed, Touched, EngineLabels, AfterRedebit, BeforeReversal
<1> QED BY <1>5, <1>6, RowChange

\* What is settled about the row that a step of r writes.
LEMMA TouchedUnsettled ==
  ASSUME TypeOK, RowInv, SettleInv, NEW r \in Requests, ExecuteVAS(r), rows' # rows
  PROVE  /\ rows[Touched(r)].status \in {"absent", "processing"}
         /\ rows[ReversalRef[Touched(r)]] = NoRow
<1>1. Touched(r) \in DebitRefs /\ (RowInserted(r) \/ RowSettled(r) \/ RowReversed(r))
  BY RowChange
<1>2. rows[Touched(r)].status \in {"absent", "processing"}
  BY <1>1 DEF RowInserted, RowSettled, RowReversed, SettleInv, Touched, BeforeReversal, AfterRedebit, NoRow
<1>3. rows[ReversalRef[Touched(r)]] = NoRow
  BY <1>1, <1>2 DEF SettleInv, ReversedIffReversalRow, Exists
<1> QED BY <1>2, <1>3

\* Every step settles only what was unsettled.
LEMMA SettleStep ==
  ASSUME NoCollision, TypeOK, RowInv, SettleInv, [Next]_vars
  PROVE  SettleInv'
<1> USE RefTypes
<1>1. CASE ~\E r \in Requests : ExecuteVAS(r)
  <2>1. rows' = rows /\ \A r \in Requests : pc'[r] = pc[r] \/ pc'[r] = "crashed"
    BY <1>1, OtherSteps
  <2> QED BY <2>1 DEF SettleInv, ReversedIffReversalRow, Exists, BeforeReversal, AfterRedebit
<1>2. ASSUME NEW r \in Requests, ExecuteVAS(r), rows' = rows PROVE SettleInv'
  <2>1. \A s \in Requests : s # r => pc'[s] = pc[s]
    BY <1>2, StepFacts
  <2>2. ReversedIffReversalRow' /\ \A c \in ClientRefs : Exists(FallbackRef[c])' => Exists(c)'
    BY <1>2 DEF SettleInv, ReversedIffReversalRow, Exists
  <2>3. /\ pc'[r] \in BeforeReversal => pc[r] \in {"primary", "confirm"}
        /\ pc'[r] \in {"redebit", "insertFb"} => pc[r] \in {"reverse", "redebit"}
        /\ pc'[r] \in {"fallback", "settleFb", "reverseFb"} => pc[r] \in {"insertFb", "fallback"}
    BY <1>2, CallOrder
  <2>4. ~Exists(FallbackRef[RefOf[r]]) => rows[FallbackRef[RefOf[r]]].status = "absent"
    BY DEF Exists, NoRow
  <2> QED BY <1>2, <2>1, <2>2, <2>3, <2>4 DEF SettleInv, Exists, BeforeReversal, AfterRedebit
<1>3. ASSUME NEW r \in Requests, ExecuteVAS(r), rows' # rows PROVE SettleInv'
  <2> USE <1>3
  <2>1. /\ Touched(r) \in DebitRefs /\ \A d \in DebitRefs : d # Touched(r) => rows'[d] = rows[d]
        /\ RowInserted(r) \/ RowSettled(r) \/ RowReversed(r)
    BY RowChange
  <2>2. /\ rows[Touched(r)].status \in {"absent", "processing"}
        /\ rows[ReversalRef[Touched(r)]] = NoRow
    BY TouchedUnsettled
  <2>3. ReversedIffReversalRow'
    <3> SUFFICES ASSUME NEW d \in DebitRefs
                 PROVE  rows'[d].status = "reversed" <=> rows'[ReversalRef[d]] # NoRow
      BY DEF ReversedIffReversalRow, Exists
    <3>1. rows[d].status = "reversed" <=> rows[ReversalRef[d]] # NoRow
      BY DEF SettleInv, ReversedIffReversalRow, Exists
    <3>2. CASE d # Touched(r)
      BY <2>1, <3>1, <3>2 DEF RowInserted, RowSettled, RowReversed
    <3>3. CASE d = Touched(r)
      BY <2>1, <2>2, <3>3 DEF RowInserted, RowSettled, RowReversed, NoRow
    <3> QED BY <3>2, <3>3
  <2>4. ASSUME NEW c \in ClientRefs, rows'[FallbackRef[c]] # NoRow PROVE rows'[c] # NoRow
    <3>1. FallbackRef[c] \in DebitRefs /\ c \in DebitRefs /\ c \in Refs /\ FallbackRef[c] \in Refs
      BY ReferenceAssumption DEF DebitRefs, ClientRefs
    <3>2. rows[c] # NoRow => rows'[c] # NoRow
      BY <3>1, StepFacts
    <3>3. CASE rows[FallbackRef[c]] # NoRow
      BY <3>2, <3>3 DEF SettleInv, Exists
    <3>4. CASE rows[FallbackRef[c]] = NoRow
      <4>1. FallbackRef[c] = Touched(r) /\ RowInserted(r)
        BY <2>1, <2>4, <3>1, <3>4 DEF RowSettled, RowReversed
      <4>2. RefOf[r] # FallbackRef[c]
        BY DEF NoCollision, ClientRefs
      <4>3. pc[r] = "insertFb" /\ FallbackRef[RefOf[r]] = FallbackRef[c]
        BY <4>1, <4>2 DEF Touched, RowInserted
      <4>4. RefOf[r] = c
        BY <4>3, ReferenceAssumption DEF ClientRefs
      <4>5. rows[RefOf[r]] # NoRow
        BY <4>3 DEF RowInv, Owns, Exists, EngineLabels, AfterRedebit
      <4> QED BY <3>2, <4>4, <4>5
    <3> QED BY <3>3, <3>4
  <2>5. ASSUME NEW s \in Requests, s # r
        PROVE  /\ pc'[s] \in BeforeReversal => rows'[RefOf[s]].status = "processing"
               /\ pc'[s] \in BeforeReversal \cup {"redebit", "insertFb"} => rows'[FallbackRef[RefOf[s]]] = NoRow
               /\ pc'[s] \in AfterRedebit => rows'[FallbackRef[RefOf[s]]].status \in {"absent", "processing"}
    <3>1. pc'[s] = pc[s]
      BY <2>5, StepFacts
    <3>2. CASE pc[s] \in EngineLabels
      <4>1. Touched(r) # RefOf[s] /\ Touched(r) # FallbackRef[RefOf[s]]
        BY <2>5, <3>2, RowsOfOthers
      <4>2. rows'[RefOf[s]] = rows[RefOf[s]] /\ rows'[FallbackRef[RefOf[s]]] = rows[FallbackRef[RefOf[s]]]
        BY <2>1, <4>1
      <4> QED BY <3>1, <4>2 DEF SettleInv, Exists
    <3>3. CASE pc[s] \notin EngineLabels
      BY <3>1, <3>3 DEF EngineLabels, AfterRedebit
    <3> QED BY <3>2, <3>3
  <2>6. pc'[r] \in BeforeReversal =>
          rows'[RefOf[r]].status = "processing" /\ rows'[FallbackRef[RefOf[r]]] = NoRow
    <3> SUFFICES ASSUME pc'[r] \in BeforeReversal
                 PROVE  rows'[RefOf[r]].status = "processing" /\ rows'[FallbackRef[RefOf[r]]] = NoRow
      OBVIOUS
    <3>1. pc[r] = "insert"
      BY CallOrder
    <3>2. Touched(r) = RefOf[r] /\ RowInserted(r)
      BY <2>1, <3>1 DEF Touched, RowSettled, RowReversed
    <3>3. rows[RefOf[r]] = NoRow /\ rows'[RefOf[r]].status = "processing"
      BY <3>2 DEF RowInserted
    <3>4. rows[FallbackRef[RefOf[r]]] = NoRow
      BY <3>3 DEF SettleInv, Exists, ClientRefs
    <3>5. rows'[FallbackRef[RefOf[r]]] = rows[FallbackRef[RefOf[r]]]
      BY <2>1, <3>2, ReferenceAssumption DEF ClientRefs
    <3> QED BY <3>3, <3>4, <3>5
  <2>7. pc'[r] \in {"redebit", "insertFb"} => rows'[FallbackRef[RefOf[r]]] = NoRow
    <3> SUFFICES ASSUME pc'[r] \in {"redebit", "insertFb"} PROVE rows'[FallbackRef[RefOf[r]]] = NoRow
      OBVIOUS
    <3>1. pc[r] = "reverse"
      BY CallOrder
    <3>2. Touched(r) = RefOf[r] /\ rows[FallbackRef[RefOf[r]]] = NoRow
      BY <3>1 DEF Touched, SettleInv, Exists, BeforeReversal
    <3> QED BY <2>1, <3>2, ReferenceAssumption DEF ClientRefs
  <2>8. pc'[r] \in AfterRedebit => rows'[FallbackRef[RefOf[r]]].status \in {"absent", "processing"}
    <3>1. CASE pc'[r] = "insertFb"
      BY <2>7, <3>1 DEF NoRow
    <3>2. CASE pc'[r] \in {"fallback", "settleFb", "reverseFb"}
      <4>1. pc[r] = "insertFb"
        BY <3>2, CallOrder
      <4>2. Touched(r) = FallbackRef[RefOf[r]] /\ RowInserted(r)
        BY <2>1, <4>1 DEF Touched, RowSettled, RowReversed
      <4> QED BY <4>2 DEF RowInserted
    <3> QED BY <3>1, <3>2 DEF AfterRedebit
  <2>9. ASSUME NEW s \in Requests
        PROVE  /\ pc'[s] \in BeforeReversal => rows'[RefOf[s]].status = "processing"
               /\ pc'[s] \in BeforeReversal \cup {"redebit", "insertFb"} => rows'[FallbackRef[RefOf[s]]] = NoRow
               /\ pc'[s] \in AfterRedebit => rows'[FallbackRef[RefOf[s]]].status \in {"absent", "processing"}
    <3>1. CASE s = r
      BY <2>6, <2>7, <2>8, <3>1
    <3>2. CASE s # r
      BY <2>5, <3>2
    <3> QED BY <3>1, <3>2
  <2> QED BY <2>3, <2>4, <2>9 DEF SettleInv, Exists
<1> QED BY <1>1, <1>2, <1>3

LEMMA SettleAtStart == Init => SettleInv
<1> USE RefTypes
<1> SUFFICES ASSUME Init PROVE SettleInv
  OBVIOUS
<1>1. \A d \in Refs : rows[d] = NoRow /\ rows[d].status = "absent"
  BY DEF Init, RepoInit, NoRow
<1>2. \A d \in DebitRefs : d \in Refs /\ ReversalRef[d] \in Refs
  BY DebitRefsAreRefs, ReferenceAssumption
<1>3. \A c \in ClientRefs : FallbackRef[c] \in Refs
  BY ReferenceAssumption DEF ClientRefs
<1>4. \A r \in Requests : pc[r] \in {"lookup", "wallet"}
  BY DEF Init
<1> QED BY <1>1, <1>2, <1>3, <1>4
        DEF SettleInv, ReversedIffReversalRow, Exists, BeforeReversal, AfterRedebit

\* Settlement is consistent: when no client reference equals the fallback
\* reference of another, a row is reversed exactly when its reversal is booked,
\* and the engine always settles rows that nobody settled before.
THEOREM SettleSafe == NoCollision => (Spec => []SettleInv)
<1> SUFFICES ASSUME NoCollision PROVE Spec => []SettleInv
  OBVIOUS
<1> USE RefTypes
<1>1. Init => SettleInv
  BY SettleAtStart
<1>2. TypeOK /\ RowInv /\ SettleInv /\ [Next]_vars => SettleInv'
  BY SettleStep
<1> QED BY <1>1, <1>2, TypeCorrect, RowsSafe, PTL DEF Spec

\* A debit row is reversed exactly when its reversal row is stored.
THEOREM ReversalBooked == NoCollision => (Spec => []ReversedIffReversalRow)
<1> SUFFICES ASSUME NoCollision PROVE Spec => []ReversedIffReversalRow
  OBVIOUS
<1>1. SettleInv => ReversedIffReversalRow
  BY DEF SettleInv
<1>2. Spec => []SettleInv
  BY SettleSafe
<1> QED BY <1>1, <1>2, PTL

\* No step of any request changes the status of a settled debit row.
THEOREM SettledForGood == NoCollision => (Spec => SettledIsFinal)
<1> SUFFICES ASSUME NoCollision PROVE Spec => SettledIsFinal
  OBVIOUS
<1> DEFINE Final == \A d \in DebitRefs :
             rows[d].status \in {"success", "reversed"} => rows'[d].status = rows[d].status
<1>1. TypeOK /\ RowInv /\ SettleInv /\ [Next]_vars => [Final]_vars
  <2> SUFFICES ASSUME TypeOK, RowInv, SettleInv, [Next]_vars PROVE Final
    OBVIOUS
  <2>1. CASE rows' = rows
    BY <2>1
  <2>2. CASE rows' # rows
    <3>1. PICK r \in Requests : ExecuteVAS(r)
      BY <2>2, OtherSteps
    <3>2. /\ rows[Touched(r)].status \in {"absent", "processing"}
          /\ \A d \in DebitRefs : d # Touched(r) => rows'[d] = rows[d]
      BY <2>2, <3>1, TouchedUnsettled, RowChange
    <3> QED BY <3>2
  <2> QED BY <2>1, <2>2
<1>2. Spec => []SettleInv
  BY SettleSafe
<1> QED BY <1>1, <1>2, TypeCorrect, RowsSafe, PTL DEF Spec, SettledIsFinal

-------------------------------------------------------------------------------
(* The books.                                                                 *)

\* The entries of the table and the amounts not booked yet can be summed.
LEMMA BooksAdd ==
  ASSUME TypeOK, TypeOK', NEW u \in Users
  PROVE  /\ Summable(Booked(u), Refs) /\ Summable(Booked(u)', Refs)
         /\ Summable(Unbooked(u), Requests) /\ Summable(Unbooked(u)', Requests)
         /\ SumFunction(Booked(u)) = SumFunctionOnSet(Booked(u), Refs)
         /\ SumFunction(Booked(u))' = SumFunctionOnSet(Booked(u)', Refs)
         /\ SumFunction(Unbooked(u)) = SumFunctionOnSet(Unbooked(u), Requests)
         /\ SumFunction(Unbooked(u))' = SumFunctionOnSet(Unbooked(u)', Requests)
<1>1. \A x \in Row : x.amount \in Int /\ -x.amount \in Int
  BY DEF Row
<1>2. Booked(u) \in [Refs -> Int]
  <2>1. \A ref \in Refs : rows[ref] # NoRow => rows[ref] \in Row
    BY DEF TypeOK, RepoTypeOK
  <2> QED BY <1>1, <2>1 DEF Booked, FoundFor, Exists
<1>3. Booked(u)' \in [Refs -> Int]
  <2>1. \A ref \in Refs : rows'[ref] # NoRow => rows'[ref] \in Row
    BY DEF TypeOK, RepoTypeOK
  <2> QED BY <1>1, <2>1 DEF Booked, FoundFor, Exists
<1>4. Unbooked(u) \in [Requests -> Int] /\ Unbooked(u)' \in [Requests -> Int]
  BY RefTypes DEF Unbooked, TypeOK
<1>5. /\ DOMAIN Booked(u) = Refs /\ DOMAIN Booked(u)' = Refs
      /\ DOMAIN Unbooked(u) = Requests /\ DOMAIN Unbooked(u)' = Requests
  BY DEF Booked, Unbooked
<1> QED BY <1>2, <1>3, <1>4, <1>5, FiniteAssumption DEF Summable, SumFunction

\* A step of r puts b kobo into the wallet: e by an entry of the table, less n that
\* r has taken without one.
Moves(r, b, e, n) ==
  /\ balance' = [balance EXCEPT ![UserOf[r]] = @ + b]
  /\ \E x \in Refs : \A u \in Users :
       /\ Booked(u)'[x] = Booked(u)[x] + (IF u = UserOf[r] THEN e ELSE 0)
       /\ \A y \in Refs : y # x => Booked(u)'[y] = Booked(u)[y]
  /\ \A u \in Users :
       /\ Unbooked(u)'[r] = Unbooked(u)[r] + (IF u = UserOf[r] THEN n ELSE 0)
       /\ \A s \in Requests : s # r => Unbooked(u)'[s] = Unbooked(u)[s]

LEMMA MovesKeepBooks ==
  ASSUME TypeOK, TypeOK', LedgerExplainsBalance, NEW r \in Requests,
         NEW b \in Int, NEW e \in Int, NEW n \in Int, b = e - n, Moves(r, b, e, n)
  PROVE  LedgerExplainsBalance'
<1> SUFFICES ASSUME NEW u \in Users
             PROVE  balance'[u] = InitBalance[u] + SumFunction(Booked(u))' - SumFunction(Unbooked(u))'
  BY DEF LedgerExplainsBalance
<1> DEFINE old == Booked(u)   new == Booked(u)'
           open == Unbooked(u)   left == Unbooked(u)'
           db == IF u = UserOf[r] THEN b ELSE 0
           de == IF u = UserOf[r] THEN e ELSE 0
           dn == IF u = UserOf[r] THEN n ELSE 0
<1>1. /\ Summable(old, Refs) /\ Summable(new, Refs)
      /\ Summable(open, Requests) /\ Summable(left, Requests)
      /\ SumFunction(Booked(u)) = SumFunctionOnSet(old, Refs)
      /\ SumFunction(Booked(u))' = SumFunctionOnSet(new, Refs)
      /\ SumFunction(Unbooked(u)) = SumFunctionOnSet(open, Requests)
      /\ SumFunction(Unbooked(u))' = SumFunctionOnSet(left, Requests)
  BY BooksAdd
<1>2. balance'[u] = balance[u] + db /\ balance[u] \in Int
  BY DEF Moves, TypeOK, RepoTypeOK
<1>3. \E x \in Refs : new[x] = old[x] + de /\ \A y \in Refs : y # x => new[y] = old[y]
  BY DEF Moves
<1>4. left[r] = open[r] + dn /\ \A s \in Requests : s # r => left[s] = open[s]
  BY DEF Moves
<1>5. db \in Int /\ de \in Int /\ dn \in Int /\ db = de - dn
  OBVIOUS
<1>6. /\ balance[u] = InitBalance[u] + SumFunctionOnSet(old, Refs) - SumFunctionOnSet(open, Requests)
      /\ InitBalance[u] \in Int
  BY <1>1, WalletAssumption DEF LedgerExplainsBalance
<1> HIDE DEF old, new, open, left, db, de, dn
<1>7. PICK x \in Refs : new[x] = old[x] + de /\ \A y \in Refs : y # x => new[y] = old[y]
  BY <1>3
<1>8. SumFunctionOnSet(new, Refs) = SumFunctionOnSet(old, Refs) + (new[x] - old[x])
  BY <1>1, <1>7, TotalChanges
<1>9. SumFunctionOnSet(left, Requests) = SumFunctionOnSet(open, Requests) + (left[r] - open[r])
  BY <1>1, <1>4, TotalChanges
<1>10. /\ old[x] \in Int /\ open[r] \in Int
       /\ SumFunctionOnSet(old, Refs) \in Int /\ SumFunctionOnSet(open, Requests) \in Int
  <2>1. Refs \in SUBSET Refs /\ Requests \in SUBSET Requests
    OBVIOUS
  <2> QED BY <1>1, <2>1, TotalIsInt DEF Summable
<1>11. SumFunctionOnSet(new, Refs) = SumFunctionOnSet(old, Refs) + de
  BY <1>5, <1>7, <1>8, <1>10
<1>12. SumFunctionOnSet(left, Requests) = SumFunctionOnSet(open, Requests) + dn
  BY <1>4, <1>5, <1>9, <1>10
<1> QED BY <1>1, <1>2, <1>5, <1>6, <1>10, <1>11, <1>12

NotBooked == {"insert", "compensate", "insertFb"}

\* What a step of r adds to the amounts that are not booked when r's is positive.
LEMMA UnbookedMoves ==
  ASSUME TypeOK, NEW r \in Requests, NEW l \in Labels, pc' = [pc EXCEPT ![r] = l], NEW n \in Int,
         AmountOf[r] > 0, \A s \in Requests : s # r => held'[s] = held[s],
         \/ n = 0 /\ (pc[r] \in NotBooked <=> l \in NotBooked)
         \/ n = AmountOf[r] /\ pc[r] \notin NotBooked /\ l \in NotBooked
         \/ n = -AmountOf[r] /\ pc[r] \in NotBooked /\ l \notin NotBooked
  PROVE  \A u \in Users :
           /\ Unbooked(u)'[r] = Unbooked(u)[r] + (IF u = UserOf[r] THEN n ELSE 0)
           /\ \A s \in Requests : s # r => Unbooked(u)'[s] = Unbooked(u)[s]
<1> SUFFICES ASSUME NEW u \in Users
             PROVE  /\ Unbooked(u)'[r] = Unbooked(u)[r] + (IF u = UserOf[r] THEN n ELSE 0)
                    /\ \A s \in Requests : s # r => Unbooked(u)'[s] = Unbooked(u)[s]
  OBVIOUS
<1>1. pc \in [Requests -> Labels] /\ AmountOf[r] \in Int
  BY RefTypes DEF TypeOK
<1>2. pc'[r] = l /\ \A s \in Requests : s # r => pc'[s] = pc[s]
  BY <1>1
<1>3. /\ Unbooked(u)[r] = IF UserOf[r] = u /\ pc[r] \in NotBooked THEN AmountOf[r] ELSE 0
      /\ Unbooked(u)'[r] = IF UserOf[r] = u /\ l \in NotBooked THEN AmountOf[r] ELSE 0
  BY <1>1, <1>2 DEF Unbooked, NotBooked
<1>4. \A s \in Requests : s # r => Unbooked(u)'[s] = Unbooked(u)[s]
  BY <1>2 DEF Unbooked
<1>5. Unbooked(u)'[r] = Unbooked(u)[r] + (IF u = UserOf[r] THEN n ELSE 0)
  BY <1>1, <1>3
<1> QED BY <1>4, <1>5

\* And when it is negative: what r takes.
LEMMA UnbookedOfNegative ==
  ASSUME TypeOK, NEW r \in Requests, NEW n \in Int, AmountOf[r] < 0,
         \A s \in Requests : s # r => pc'[s] = pc[s],
         held' = [held EXCEPT ![r] = @ + n]
  PROVE  \A u \in Users :
           /\ Unbooked(u)'[r] = Unbooked(u)[r] + (IF u = UserOf[r] THEN n ELSE 0)
           /\ \A s \in Requests : s # r => Unbooked(u)'[s] = Unbooked(u)[s]
<1>1. held \in [Requests -> Int]
  BY DEF TypeOK
<1>2. held[r] \in Int /\ held'[r] = held[r] + n /\ \A s \in Requests : s # r => held'[s] = held[s]
  BY <1>1
<1> QED BY <1>2 DEF Unbooked

\* A change of statuses changes no entry.
LEMMA StatusMovesNothing ==
  ASSUME TypeOK, NEW ref \in Refs, NEW status \in Statuses, NEW u \in Users, NEW d \in Refs,
         NEW row, row = WithStatus(rows, ref, status)[d]
  PROVE  /\ row = NoRow <=> rows[d] = NoRow
         /\ rows[d] # NoRow => row.user = rows[d].user /\ row.type = rows[d].type /\ row.amount = rows[d].amount
BY WithStatusFacts DEF TypeOK, RepoTypeOK

\* What a step of r adds to the entries: nothing, its debit row, or its reversal row.
LEMMA BookedMoves ==
  ASSUME TypeOK, NEW r \in Requests, NEW ref \in DebitRefs
  PROVE  /\ UNCHANGED rows \/ (\E st \in Statuses : rows' = WithStatus(rows, ref, st)) =>
              \A u \in Users, y \in Refs : Booked(u)'[y] = Booked(u)[y]
         /\ InsertTransaction(ref, DebitRow(r)) => \A u \in Users :
              /\ Booked(u)'[ref] = Booked(u)[ref] + (IF u = UserOf[r] THEN -AmountOf[r] ELSE 0)
              /\ \A y \in Refs : y # ref => Booked(u)'[y] = Booked(u)[y]
         /\ ReversalCreated(r, UserOf[r], ref, ReversalRef[ref], AmountOf[r]) => \A u \in Users :
              /\ Booked(u)'[ReversalRef[ref]]
                   = Booked(u)[ReversalRef[ref]] + (IF u = UserOf[r] THEN AmountOf[r] ELSE 0)
              /\ \A y \in Refs : y # ReversalRef[ref] => Booked(u)'[y] = Booked(u)[y]
<1>1. /\ ref \in Refs /\ ReversalRef[ref] \in Refs
      /\ rows \in [Refs -> Row \cup {NoRow}] /\ AmountOf[r] \in Int /\ "reversed" \in Statuses
  BY RefTypes, DebitRefsAreRefs, ReferenceAssumption DEF TypeOK, RepoTypeOK, Statuses
<1>2. ASSUME UNCHANGED rows \/ (\E st \in Statuses : rows' = WithStatus(rows, ref, st)),
             NEW u \in Users, NEW y \in Refs
      PROVE  Booked(u)'[y] = Booked(u)[y]
  <2>1. CASE UNCHANGED rows
    BY <2>1 DEF Booked, FoundFor, Exists
  <2>2. ASSUME NEW st \in Statuses, rows' = WithStatus(rows, ref, st)
        PROVE  Booked(u)'[y] = Booked(u)[y]
    <3>1. /\ rows'[y] = NoRow <=> rows[y] = NoRow
          /\ rows[y] # NoRow => /\ rows'[y].user = rows[y].user /\ rows'[y].type = rows[y].type
                                /\ rows'[y].amount = rows[y].amount
      BY <1>1, <2>2, StatusMovesNothing
    <3> QED BY <3>1 DEF Booked, FoundFor, Exists
  <2> QED BY <1>2, <2>1, <2>2
<1>3. ASSUME InsertTransaction(ref, DebitRow(r)), NEW u \in Users
      PROVE  /\ Booked(u)'[ref] = Booked(u)[ref] + (IF u = UserOf[r] THEN -AmountOf[r] ELSE 0)
             /\ \A y \in Refs : y # ref => Booked(u)'[y] = Booked(u)[y]
  <2>1. /\ rows[ref] = NoRow /\ rows'[ref] = DebitRow(r)
        /\ \A y \in Refs : y # ref => rows'[y] = rows[y]
    BY <1>1, <1>3 DEF InsertTransaction, CanInsert, Exists
  <2>2. DebitRow(r) # NoRow
    BY DebitRowType
  <2>3. /\ DebitRow(r).user = UserOf[r] /\ DebitRow(r).type = "debit" /\ DebitRow(r).amount = AmountOf[r]
    BY DEF DebitRow
  <2>4. Booked(u)[ref] = 0 /\ Booked(u)'[ref] = IF u = UserOf[r] THEN -AmountOf[r] ELSE 0
    BY <1>1, <2>1, <2>2, <2>3 DEF Booked, FoundFor, Exists
  <2>5. \A y \in Refs : y # ref => Booked(u)'[y] = Booked(u)[y]
    BY <2>1 DEF Booked, FoundFor, Exists
  <2> QED BY <1>1, <2>4, <2>5
<1>4. ASSUME ReversalCreated(r, UserOf[r], ref, ReversalRef[ref], AmountOf[r]), NEW u \in Users
      PROVE  /\ Booked(u)'[ReversalRef[ref]]
                  = Booked(u)[ReversalRef[ref]] + (IF u = UserOf[r] THEN AmountOf[r] ELSE 0)
             /\ \A y \in Refs : y # ReversalRef[ref] => Booked(u)'[y] = Booked(u)[y]
  <2> DEFINE rev == ReversalRef[ref]
             table == WithStatus(rows, ref, "reversed")
             row == [id |-> r, user |-> UserOf[r], type |-> "reversal",
                     amount |-> AmountOf[r], status |-> "success"]
  <2>1. table \in [Refs -> Row \cup {NoRow}]
    BY <1>1, WithStatusFacts
  <2>2. rows[rev] = NoRow /\ rows' = [table EXCEPT ![rev] = row]
    BY <1>4 DEF ReversalCreated, CanInsert, Exists
  <2>3. rows'[rev] = row /\ \A y \in Refs : y # rev => rows'[y] = table[y]
    BY <1>1, <2>1, <2>2
  <2>4. row # NoRow /\ row.user = UserOf[r] /\ row.type = "reversal" /\ row.amount = AmountOf[r]
    BY DEF NoRow
  <2>5. Booked(u)[rev] = 0 /\ Booked(u)'[rev] = IF u = UserOf[r] THEN AmountOf[r] ELSE 0
    <3> HIDE DEF row, rev
    <3>1. rev \in Refs
      BY <1>1 DEF rev
    <3> QED BY <2>2, <2>3, <2>4, <3>1 DEF Booked, FoundFor, Exists
  <2>6. ASSUME NEW y \in Refs, y # rev PROVE Booked(u)'[y] = Booked(u)[y]
    <3>1. /\ rows'[y] = NoRow <=> rows[y] = NoRow
          /\ rows[y] # NoRow => /\ rows'[y].user = rows[y].user /\ rows'[y].type = rows[y].type
                                /\ rows'[y].amount = rows[y].amount
      BY <1>1, <2>3, <2>6, StatusMovesNothing
    <3> QED BY <3>1 DEF Booked, FoundFor, Exists
  <2> QED BY <1>1, <2>5, <2>6
<1> QED BY <1>2, <1>3, <1>4

\* Without faults, whatever a step of r does to the wallet it does to the books: a step
\* of a request with a positive amount.
LEMMA PositiveMoves ==
  ASSUME Faults = {}, TypeOK, SettleInv, WithinFunds,
         NEW r \in Requests, AmountOf[r] > 0, live[r], ExecuteVAS(r)
  PROVE  \E b, e, n \in Int : b = e - n /\ Moves(r, b, e, n)
<1> DEFINE a == AmountOf[r]
           fb == FallbackRef[RefOf[r]]
<1>1. /\ pc \in [Requests -> Labels] /\ balance \in [Users -> Int] /\ a \in Int /\ -a \in Int
      /\ UserOf[r] \in Users /\ balance[UserOf[r]] \in Int
      /\ RefOf[r] \in Refs /\ RefOf[r] \in DebitRefs /\ fb \in Refs /\ fb \in DebitRefs
      /\ "success" \in Statuses /\ "reversed" \in Statuses
      /\ ReversalRef[RefOf[r]] \in Refs /\ ReversalRef[fb] \in Refs
  BY RefTypes DEF TypeOK, RepoTypeOK, Statuses
<1>2. ~Fails(r) /\ ~AckLost(r)
  BY DEF Fails, AckLost
<1>3. \E l \in Labels : pc' = [pc EXCEPT ![r] = l]
  BY DEF ExecuteVAS, Lookup, FindWallet, Refind, Confirm, Insert, InsertFallback, Primary, Goto, Answer,
         Fallback, Settle, SettleFallback, Debit, Redebit, Compensate, Reverse, AfterReversal,
         ReverseFallback, Labels
<1>4. PICK l \in Labels : pc' = [pc EXCEPT ![r] = l]
  BY <1>3
<1>5. pc'[r] = l
  BY <1>1, <1>4
<1>others. \A s \in Requests : s # r => held'[s] = held[s]
  BY StepFacts
<1> HIDE DEF a, fb
\* A step that moves nothing.
<1>6. ASSUME UNCHANGED balance, pc[r] \in NotBooked <=> l \in NotBooked, NEW ref \in DebitRefs,
             UNCHANGED rows \/ (\E st \in Statuses : rows' = WithStatus(rows, ref, st))
      PROVE  Moves(r, 0, 0, 0)
  <2>1. \A u \in Users, y \in Refs : Booked(u)'[y] = Booked(u)[y]
    BY <1>6, BookedMoves
  <2>2. \A u \in Users : Booked(u)[RefOf[r]] \in Int
    <3>1. TypeOK'
      BY TypeStep DEF Next
    <3> QED BY <1>1, <3>1, BooksAdd DEF Summable
  <2>3. balance' = [balance EXCEPT ![UserOf[r]] = @ + 0]
    BY <1>1, <1>6
  <2>4. PICK n \in Int : n = 0
    OBVIOUS
  <2>5. \A u \in Users :
          /\ Unbooked(u)'[r] = Unbooked(u)[r] + (IF u = UserOf[r] THEN n ELSE 0)
          /\ \A s \in Requests : s # r => Unbooked(u)'[s] = Unbooked(u)[s]
    BY ONLY TypeOK, AmountOf[r] > 0, r \in Requests, <1>4, <1>6, <2>4, <1>others, UnbookedMoves
  <2> QED BY <1>1, <2>1, <2>2, <2>3, <2>4, <2>5 DEF Moves
\* Steps that move money without a row: a debit and a compensating credit.
<1>7. ASSUME UNCHANGED rows, NEW n \in Int,
             balance' = [balance EXCEPT ![UserOf[r]] = @ - n],
             \/ n = AmountOf[r] /\ pc[r] \notin NotBooked /\ l \in NotBooked
             \/ n = -AmountOf[r] /\ pc[r] \in NotBooked /\ l \notin NotBooked
      PROVE  Moves(r, -n, 0, n)
  <2>1. \A u \in Users, y \in Refs : Booked(u)'[y] = Booked(u)[y]
    BY <1>1, <1>7, BookedMoves
  <2>2. \A u \in Users : Booked(u)[RefOf[r]] \in Int
    <3>1. TypeOK'
      BY TypeStep DEF Next
    <3> QED BY <1>1, <3>1, BooksAdd DEF Summable
  <2>3. balance' = [balance EXCEPT ![UserOf[r]] = @ + (-n)]
    BY <1>1, <1>7
  <2>4. \A u \in Users :
          /\ Unbooked(u)'[r] = Unbooked(u)[r] + (IF u = UserOf[r] THEN n ELSE 0)
          /\ \A s \in Requests : s # r => Unbooked(u)'[s] = Unbooked(u)[s]
    BY ONLY TypeOK, AmountOf[r] > 0, r \in Requests, <1>4, <1>7, <1>others, UnbookedMoves
  <2> QED BY <1>1, <2>1, <2>2, <2>3, <2>4 DEF Moves
\* The insert of a debit row.
<1>8. ASSUME UNCHANGED balance, pc[r] \in NotBooked, l \notin NotBooked,
             NEW ref \in DebitRefs, InsertTransaction(ref, DebitRow(r))
      PROVE  Moves(r, 0, -a, -a)
  <2>1. ref \in Refs
    BY DebitRefsAreRefs
  <2>2. \A u \in Users :
          /\ Booked(u)'[ref] = Booked(u)[ref] + (IF u = UserOf[r] THEN -a ELSE 0)
          /\ \A y \in Refs : y # ref => Booked(u)'[y] = Booked(u)[y]
    BY <1>8, BookedMoves DEF a
  <2>3. balance' = [balance EXCEPT ![UserOf[r]] = @ + 0]
    BY <1>1, <1>8
  <2>4. PICK n \in Int : n = -a
    BY <1>1
  <2>5. \A u \in Users :
          /\ Unbooked(u)'[r] = Unbooked(u)[r] + (IF u = UserOf[r] THEN n ELSE 0)
          /\ \A s \in Requests : s # r => Unbooked(u)'[s] = Unbooked(u)[s]
    <3>1. n = -AmountOf[r]
      BY <2>4 DEF a
    <3> QED BY ONLY TypeOK, AmountOf[r] > 0, r \in Requests, <1>4, <1>8, <3>1, <1>others, UnbookedMoves
  <2>6. Moves(r, 0, -a, n)
    BY <2>1, <2>2, <2>3, <2>5 DEF Moves
  <2> QED BY <2>4, <2>6
\* A reversal that is booked now.
<1>9. ASSUME pc[r] \notin NotBooked, l \notin NotBooked, NEW ref \in DebitRefs,
             ReversalCreated(r, UserOf[r], ref, ReversalRef[ref], AmountOf[r])
      PROVE  Moves(r, a, a, 0)
  <2>1. ReversalRef[ref] \in Refs
    BY DebitRefsAreRefs, ReferenceAssumption
  <2>2. \A u \in Users :
          /\ Booked(u)'[ReversalRef[ref]]
               = Booked(u)[ReversalRef[ref]] + (IF u = UserOf[r] THEN a ELSE 0)
          /\ \A y \in Refs : y # ReversalRef[ref] => Booked(u)'[y] = Booked(u)[y]
    BY <1>9, BookedMoves DEF a
  <2>3. balance' = [balance EXCEPT ![UserOf[r]] = @ + a]
    BY <1>9 DEF ReversalCreated, CreditBalance, a
  <2>4. PICK n \in Int : n = 0
    OBVIOUS
  <2>5. \A u \in Users :
          /\ Unbooked(u)'[r] = Unbooked(u)[r] + (IF u = UserOf[r] THEN n ELSE 0)
          /\ \A s \in Requests : s # r => Unbooked(u)'[s] = Unbooked(u)[s]
    BY ONLY TypeOK, AmountOf[r] > 0, r \in Requests, <1>4, <1>9, <2>4, <1>others, UnbookedMoves
  <2> QED BY <2>1, <2>2, <2>3, <2>4, <2>5 DEF Moves
<1>10. CASE Lookup(r) \/ FindWallet(r) \/ Refind(r) \/ Confirm(r) \/ Primary(r) \/ Fallback(r)
  <2>1. /\ UNCHANGED balance /\ UNCHANGED rows /\ pc[r] \notin NotBooked /\ l \notin NotBooked
    BY <1>1, <1>5, <1>10 DEF Lookup, FindWallet, Refind, Confirm, Primary, Fallback, Goto, Answer,
       NotBooked, wallets
  <2> QED BY <1>1, <1>6, <2>1
<1>11. CASE Debit(r) \/ Redebit(r)
  <2>1. CASE Take(r)
    <3>1. /\ balance' = [balance EXCEPT ![UserOf[r]] = @ - a] /\ UNCHANGED rows
          /\ pc[r] \notin NotBooked /\ l \in NotBooked
      BY <1>1, <1>2, <1>5, <1>11, <2>1, TakeFacts DEF Debit, Redebit, Goto, NotBooked, a, Take, DebitWithLock,
         wallets
    <3>2. Moves(r, -a, 0, a)
      BY <1>1, <1>7, <3>1 DEF a
    <3>3. -a = 0 - a
      BY <1>1
    <3> QED BY <1>1, <3>2, <3>3
  <2>2. CASE UNCHANGED wallets
    <3>1. UNCHANGED balance /\ UNCHANGED rows
      BY <1>11, <2>2 DEF Debit, Redebit, wallets
    <3>2. pc[r] \notin NotBooked /\ l \notin NotBooked
      <4>1. ~Take(r)
        BY <1>1, <2>2, TakeFacts, RefTypes DEF wallets
      <4> QED BY <1>1, <1>2, <1>5, <1>11, <4>1 DEF Debit, Redebit, Answer, NotBooked
    <3> QED BY <1>1, <1>6, <3>1, <3>2
  <2> QED BY <1>2, <1>11, <2>1, <2>2 DEF Debit, Redebit
<1>12. CASE Insert(r)
  <2>1. pc[r] \in NotBooked /\ UNCHANGED balance
    BY <1>12 DEF Insert, NotBooked, wallets
  <2>2. CASE InsertTransaction(RefOf[r], DebitRow(r)) /\ Goto(r, "primary")
    <3>1. l \notin NotBooked
      BY <1>1, <1>5, <2>2 DEF Goto, NotBooked
    <3>2. Moves(r, 0, -a, -a)
      BY <1>1, <1>8, <2>1, <2>2, <3>1
    <3>3. 0 = (-a) - (-a)
      BY <1>1
    <3> QED BY <1>1, <3>2, <3>3
  <2>3. CASE Goto(r, "compensate") /\ UNCHANGED rows
    <3>1. l \in NotBooked
      BY <1>1, <1>5, <2>3 DEF Goto, NotBooked
    <3> QED BY <1>1, <1>6, <2>1, <2>3, <3>1
  <2> QED BY <1>2, <1>12, <2>2, <2>3 DEF Insert
<1>13. CASE Compensate(r)
  <2>1. /\ balance' = [balance EXCEPT ![UserOf[r]] = @ + a] /\ UNCHANGED rows
        /\ pc[r] \in NotBooked /\ l \notin NotBooked
    <3>1. CanCredit(UserOf[r], AmountOf[r])
      BY RefTypes DEF CanCredit, WithinFunds, TypeOK, RepoTypeOK
    <3> QED BY <1>1, <1>2, <1>5, <1>13, <3>1, GiveBackFacts DEF Compensate, Goto, Answer, NotBooked, a
  <2>2. balance' = [balance EXCEPT ![UserOf[r]] = @ - (-a)]
    <3>1. balance[UserOf[r]] + a = balance[UserOf[r]] - (-a)
      BY <1>1
    <3> QED BY <2>1, <3>1, Zenon
  <2>3. PICK n \in Int : n = -a
    BY <1>1
  <2>4. Moves(r, -n, 0, n)
    BY <1>1, <1>7, <2>1, <2>2, <2>3 DEF a
  <2>5. -n \in Int /\ 0 \in Int /\ -n = 0 - n
    BY <2>3
  <2> QED BY <2>4, <2>5
<1>14. CASE InsertFallback(r)
  <2>1. /\ pc[r] = "insertFb" /\ pc[r] \in NotBooked /\ UNCHANGED balance /\ l \notin NotBooked
    BY <1>1, <1>5, <1>14 DEF InsertFallback, NotBooked, wallets, Goto
  <2>2. CanInsert(fb, AmountOf[r])
    BY <2>1 DEF SettleInv, CanInsert, fb
  <2>3. InsertTransaction(fb, DebitRow(r))
    BY <1>2, <1>14, <2>2 DEF InsertFallback, fb
  <2>4. Moves(r, 0, -a, -a)
    BY <1>1, <1>8, <2>1, <2>3
  <2>5. 0 = (-a) - (-a)
    BY <1>1
  <2> QED BY <1>1, <2>4, <2>5
<1>15. CASE Settle(r) \/ SettleFallback(r)
  <2>1. /\ UNCHANGED balance /\ pc[r] \notin NotBooked /\ l \notin NotBooked
        /\ rows' = WithStatus(rows, RefOf[r], "success") \/ rows' = WithStatus(rows, fb, "success")
    BY <1>1, <1>2, <1>5, <1>15 DEF Settle, SettleFallback, UpdateTransactionStatus, Answer, NotBooked,
       wallets, fb
  <2>2. Moves(r, 0, 0, 0)
    BY <1>1, <1>6, <2>1
  <2> QED BY <2>2
<1>16. CASE Reverse(r) \/ ReverseFallback(r)
  <2>1. pc[r] \notin NotBooked /\ l \notin NotBooked
    BY <1>1, <1>5, <1>16 DEF Reverse, ReverseFallback, AfterReversal, Goto, Answer, NotBooked
  <2>2. CASE UNCHANGED <<wallets, rows>>
    BY <1>1, <1>6, <2>1, <2>2 DEF wallets
  <2>3. ASSUME NEW ref \in DebitRefs, Reversed(r, ref)
        PROVE  \E b, e, n \in Int : b = e - n /\ Moves(r, b, e, n)
    <3>1. CASE ReversalExists(UserOf[r], ref, ReversalRef[ref])
      <4>1. UNCHANGED balance /\ rows' = WithStatus(rows, ref, "reversed")
        BY <3>1 DEF ReversalExists
      <4>2. Moves(r, 0, 0, 0)
        BY <1>1, <1>6, <2>1, <4>1
      <4> QED BY <4>2
    <3>2. CASE ReversalCreated(r, UserOf[r], ref, ReversalRef[ref], AmountOf[r])
      <4>1. Moves(r, a, a, 0) /\ a = a - 0
        BY <1>1, <1>9, <2>1, <3>2
      <4> QED BY <1>1, <4>1
    <3> QED BY <2>3, <3>1, <3>2 DEF Reversed
  <2>4. UNCHANGED <<wallets, rows>> \/ Reversed(r, RefOf[r]) \/ Reversed(r, fb)
    BY <1>16 DEF Reverse, ReverseFallback, fb
  <2> QED BY <1>1, <2>2, <2>3, <2>4
<1> QED BY <1>10, <1>11, <1>12, <1>13, <1>14, <1>15, <1>16 DEF ExecuteVAS

\* A step of a request with a negative amount stores no row: it moves money, if any,
\* outside the books.
LEMMA NegativeMoves ==
  ASSUME TypeOK, NEW r \in Requests, AmountOf[r] < 0, ExecuteVAS(r)
  PROVE  \E b, e, n \in Int : b = e - n /\ Moves(r, b, e, n)
<1>1. /\ balance \in [Users -> Int] /\ held \in [Requests -> Int] /\ UserOf[r] \in Users
      /\ RefOf[r] \in DebitRefs /\ FallbackRef[RefOf[r]] \in DebitRefs /\ RefOf[r] \in Refs
      /\ "success" \in Statuses /\ "reversed" \in Statuses /\ AmountOf[r] \in Int
  BY RefTypes DEF TypeOK, RepoTypeOK, Statuses
<1>2. /\ \A ref : ~InsertTransaction(ref, DebitRow(r))
      /\ \A ref : ~ReversalCreated(r, UserOf[r], ref, ReversalRef[ref], AmountOf[r])
  <2>1. DebitRow(r).amount = AmountOf[r] /\ ~(AmountOf[r] > 0)
    BY <1>1, DebitRowType
  <2> QED BY <2>1 DEF InsertTransaction, ReversalCreated, CanInsert
<1>3. PICK ref \in DebitRefs : UNCHANGED rows \/ \E st \in Statuses : rows' = WithStatus(rows, ref, st)
  <2> USE DEF wallets
  <2>1. CASE \/ Lookup(r) \/ FindWallet(r) \/ Refind(r) \/ Confirm(r) \/ Primary(r) \/ Fallback(r)
             \/ Debit(r) \/ Redebit(r) \/ Compensate(r)
    BY <1>1, <2>1 DEF Lookup, FindWallet, Refind, Confirm, Primary, Fallback, Debit, Redebit, Compensate
  <2>2. CASE Insert(r) \/ InsertFallback(r)
    BY <1>1, <1>2, <2>2 DEF Insert, InsertFallback
  <2>3. CASE Settle(r) \/ SettleFallback(r)
    BY <1>1, <2>3 DEF Settle, SettleFallback, UpdateTransactionStatus
  <2>4. CASE Reverse(r) \/ ReverseFallback(r)
    BY <1>1, <1>2, <2>4 DEF Reverse, ReverseFallback, Reversed, ReversalExists
  <2> QED BY <2>1, <2>2, <2>3, <2>4 DEF ExecuteVAS
<1>4. PICK n \in Int : /\ balance' = [balance EXCEPT ![UserOf[r]] = @ - n]
                       /\ held' = [held EXCEPT ![r] = @ + n]
  <2>1. CASE UNCHANGED <<balance, held>>
    <3>1. PICK n \in Int : n = 0
      OBVIOUS
    <3>2. /\ balance' = [balance EXCEPT ![UserOf[r]] = @ - n]
          /\ held' = [held EXCEPT ![r] = @ + n]
      BY <1>1, <2>1, <3>1
    <3> QED BY <3>2
  <2>2. CASE Take(r)
    BY <1>1, <2>2, TakeFacts
  <2>3. CASE GiveBack(r)
    <3>1. /\ balance' = [balance EXCEPT ![UserOf[r]] = @ - (-AmountOf[r])]
          /\ held' = [held EXCEPT ![r] = @ + (-AmountOf[r])]
      <4>1. /\ balance[UserOf[r]] + AmountOf[r] = balance[UserOf[r]] - (-AmountOf[r])
            /\ held[r] - AmountOf[r] = held[r] + (-AmountOf[r])
        BY <1>1
      <4> QED BY <2>3, <4>1, GiveBackFacts, Zenon
    <3>2. -AmountOf[r] \in Int
      BY <1>1
    <3> QED BY <3>1, <3>2
  <2>4. UNCHANGED <<balance, held>> \/ Take(r) \/ GiveBack(r)
    BY <1>2 DEF ExecuteVAS, Lookup, FindWallet, Refind, Confirm, Insert, InsertFallback, Primary, Fallback,
       Settle, SettleFallback, Debit, Redebit, Compensate, Reverse, ReverseFallback, Reversed,
       ReversalExists, wallets
  <2> QED BY <2>1, <2>2, <2>3, <2>4
<1>5. Moves(r, -n, 0, n)
  <2>1. balance' = [balance EXCEPT ![UserOf[r]] = @ + (-n)]
    BY <1>1, <1>4
  <2>2. \A u \in Users, y \in Refs : Booked(u)'[y] = Booked(u)[y]
    BY <1>3, BookedMoves
  <2>3. \A u \in Users : Booked(u)[RefOf[r]] \in Int
    <3>1. TypeOK'
      BY TypeStep DEF Next
    <3> QED BY <1>1, <3>1, BooksAdd DEF Summable
  <2>4. \A s \in Requests : s # r => pc'[s] = pc[s]
    BY StepFacts
  <2>5. \A u \in Users :
          /\ Unbooked(u)'[r] = Unbooked(u)[r] + (IF u = UserOf[r] THEN n ELSE 0)
          /\ \A s \in Requests : s # r => Unbooked(u)'[s] = Unbooked(u)[s]
    BY <1>4, <2>4, UnbookedOfNegative
  <2> QED BY <1>1, <2>1, <2>2, <2>3, <2>5 DEF Moves
<1> QED BY <1>5

LEMMA StepMoves ==
  ASSUME Faults = {}, TypeOK, SettleInv, WithinFunds, NEW r \in Requests, live[r], ExecuteVAS(r)
  PROVE  \E b, e, n \in Int : b = e - n /\ Moves(r, b, e, n)
<1>1. CASE AmountOf[r] > 0
  BY <1>1, PositiveMoves
<1>2. CASE AmountOf[r] < 0
  BY <1>2, NegativeMoves
<1>3. AmountOf[r] > 0 \/ AmountOf[r] < 0
  BY RefTypes
<1> QED BY <1>1, <1>2, <1>3, Zenon

\* A step that touches neither wallets nor rows, and books nothing, keeps the books.
LEMMA QuietKeepsBooks ==
  ASSUME LedgerExplainsBalance, UNCHANGED <<balance, rows, held>>,
         \A r \in Requests : pc'[r] \in NotBooked <=> pc[r] \in NotBooked
  PROVE  LedgerExplainsBalance'
<1> SUFFICES ASSUME NEW u \in Users
             PROVE  balance'[u] = InitBalance[u] + SumFunction(Booked(u))' - SumFunction(Unbooked(u))'
  BY DEF LedgerExplainsBalance
<1>1. Booked(u)' = Booked(u) /\ Unbooked(u)' = Unbooked(u)
  BY DEF Booked, Unbooked, FoundFor, Exists, NotBooked
<1>2. /\ SumFunction(Booked(u))' = SumFunction(Booked(u))
      /\ SumFunction(Unbooked(u))' = SumFunction(Unbooked(u))
  BY <1>1 DEF SumFunction
<1>3. balance[u] = InitBalance[u] + SumFunction(Booked(u)) - SumFunction(Unbooked(u))
  BY DEF LedgerExplainsBalance
<1> QED BY <1>2, <1>3

\* Without faults no request loses its context, and every step keeps the books.
LEMMA BooksStep ==
  ASSUME Faults = {}, TypeOK, SettleInv, WithinFunds, LedgerExplainsBalance,
         \A r \in Requests : live[r], [Next]_vars
  PROVE  LedgerExplainsBalance' /\ \A r \in Requests : live'[r]
<1>1. TypeOK'
  BY TypeStep
<1>2. live' = live
  <2>1. \A r \in Requests : ~Disconnect(r) /\ ~Crash(r)
    BY DEF Disconnect, Crash
  <2>2. ASSUME NEW r \in Requests, ExecuteVAS(r) PROVE live' = live
    BY <2>2 DEF ExecuteVAS, Lookup, FindWallet, Debit, Insert, Compensate, Refind, Primary, Confirm,
       Settle, Reverse, Redebit, InsertFallback, Fallback, SettleFallback, ReverseFallback, control
  <2> QED BY <2>1, <2>2 DEF Next, Midnight, vars
<1>3. ASSUME NEW r \in Requests, ExecuteVAS(r) PROVE LedgerExplainsBalance'
  <2>1. PICK b, e, n \in Int : b = e - n /\ Moves(r, b, e, n)
    BY <1>3, StepMoves
  <2> QED BY <1>1, <2>1, MovesKeepBooks
<1>4. CASE ~\E r \in Requests : ExecuteVAS(r)
  <2>1. UNCHANGED <<balance, rows, held, pc>>
    <3>1. \A r \in Requests : ~Disconnect(r) /\ ~Crash(r)
      BY DEF Disconnect, Crash
    <3> QED BY <1>4, <3>1 DEF Next, Midnight, ResetDailySpend, vars
  <2> QED BY <1>2, <2>1, QuietKeepsBooks
<1> QED BY <1>2, <1>3, <1>4

LEMMA BooksAtStart == Init => LedgerExplainsBalance
<1> SUFFICES ASSUME Init, NEW u \in Users
             PROVE  balance[u] = InitBalance[u] + SumFunction(Booked(u)) - SumFunction(Unbooked(u))
  BY DEF LedgerExplainsBalance
<1>1. balance = InitBalance /\ InitBalance[u] \in Int
  BY WalletAssumption DEF Init, RepoInit
<1>2. /\ \A ref \in Refs : rows[ref] = NoRow
      /\ \A r \in Requests : pc[r] \in {"lookup", "wallet"} /\ held[r] = 0
  BY DEF Init, RepoInit
<1>3. Booked(u) = [ref \in Refs |-> 0] /\ Unbooked(u) = [r \in Requests |-> 0]
  BY <1>2 DEF Booked, Unbooked, FoundFor, Exists
<1>4. SumFunction(Booked(u)) = 0 /\ SumFunction(Unbooked(u)) = 0
  BY <1>3, FiniteAssumption, TotalOfZeros DEF SumFunction
<1> QED BY <1>1, <1>4

\* Without faults, and when no client reference equals the fallback reference of
\* another, every kobo of every wallet is accounted for, for amounts of either sign: by
\* the transactions table, by the debits about to be booked and by what negative top-ups
\* put in (executeVAS and ExecuteWithFallback).
THEOREM BooksBalance == NoCollision /\ Faults = {} => (Spec => []LedgerExplainsBalance)
<1> SUFFICES ASSUME NoCollision, Faults = {} PROVE Spec => []LedgerExplainsBalance
  OBVIOUS
<1> DEFINE Inv == LedgerExplainsBalance /\ \A r \in Requests : live[r]
<1>1. Init => Inv
  BY BooksAtStart DEF Init
<1>2. TypeOK /\ SettleInv /\ WithinFunds /\ Inv /\ [Next]_vars => Inv'
  BY BooksStep
<1>3. Spec => []SettleInv
  BY SettleSafe
<1> QED BY <1>1, <1>2, <1>3, TypeCorrect, FundsSafe, PTL DEF Spec

-------------------------------------------------------------------------------
(* Betting top-ups.                                                           *)

\* A row is written by a request that has taken the money, and the fallback row of
\* a reference by the request that wrote the row itself.
Writers ==
  /\ \A r \in Requests : pc[r] \in {"lookup", "wallet", "debit", "insert"} =>
       \A ref \in Refs : Exists(ref) => rows[ref].id # r
  /\ \A c \in ClientRefs : Exists(FallbackRef[c]) => rows[FallbackRef[c]].id = rows[c].id

\* Something more than half of r's amount has been topped up before r.
Precedent(r) ==
  \/ scene.past.max * 2 > AmountOf[r]
  \/ \E ref \in Refs : /\ Exists(ref) /\ rows[ref].user = UserOf[r] /\ rows[ref].id # r
                       /\ rows[ref].status = "success" /\ rows[ref].amount * 2 > AmountOf[r]

\* A request that the guard has not passed has done nothing, and it passes nothing
\* high and unconfirmed without a precedent.
Guarded(r) ==
  /\ guard[r] = "open" => pc[r] \in {"lookup", "wallet"}
  /\ guard[r] \in {"challenged", "error"} => pc[r] = "done"
  /\ guard[r] # "passed" => accepted[r] = {}
  /\ guard[r] = "passed" /\ r \in Bets \ Confirmed /\ AmountOf[r] >= HighValue => Precedent(r)

GuardInv == GuardTypeOK /\ Writers /\ \A r \in Requests : Guarded(r)

\* A stored row keeps its id, user and amount; one that is no debit row is never
\* written again; a new row bears the id of the request that writes it.
LEMMA RowsEvolve ==
  ASSUME TypeOK, NEW r \in Requests, ExecuteVAS(r), NEW d \in Refs
  PROVE  /\ rows[d] # NoRow => /\ rows'[d] # NoRow /\ rows'[d].id = rows[d].id
                               /\ rows'[d].user = rows[d].user /\ rows'[d].amount = rows[d].amount
         /\ rows[d] # NoRow /\ d \notin DebitRefs => rows'[d] = rows[d]
         /\ rows[d] = NoRow /\ rows'[d] # NoRow =>
              /\ rows'[d].id = r
              /\ pc[r] \in {"insert", "insertFb", "reverse", "reverseFb"}
<1>1. /\ rows \in [Refs -> Row \cup {NoRow}] /\ RefOf[r] \in DebitRefs
      /\ FallbackRef[RefOf[r]] \in DebitRefs /\ "success" \in Statuses /\ "reversed" \in Statuses
  BY RefTypes DEF TypeOK, RepoTypeOK, Statuses
<1>2. ASSUME NEW ref \in DebitRefs, NEW st \in Statuses
      PROVE  LET new == WithStatus(rows, ref, st) IN
             /\ new \in [Refs -> Row \cup {NoRow}]
             /\ new[d] = NoRow <=> rows[d] = NoRow
             /\ rows[d] # NoRow => /\ new[d].id = rows[d].id /\ new[d].user = rows[d].user
                                   /\ new[d].amount = rows[d].amount
             /\ d # ref => new[d] = rows[d]
  BY <1>1, DebitRefsAreRefs, WithStatusFacts
<1>3. CASE UNCHANGED rows
  BY <1>3
<1>4. ASSUME NEW ref \in DebitRefs, InsertTransaction(ref, DebitRow(r)), pc[r] \in {"insert", "insertFb"}
      PROVE  /\ rows[d] # NoRow => rows'[d] = rows[d]
             /\ rows[d] = NoRow /\ rows'[d] # NoRow => rows'[d].id = r
  <2>1. rows[ref] = NoRow /\ rows' = [rows EXCEPT ![ref] = DebitRow(r)]
    BY <1>4 DEF InsertTransaction, CanInsert, Exists
  <2> QED BY <1>1, <2>1, DebitRowType
<1>5. CASE Insert(r) \/ InsertFallback(r)
  <2>1. pc[r] \in {"insert", "insertFb"}
    BY <1>5 DEF Insert, InsertFallback
  <2>2. CASE InsertTransaction(RefOf[r], DebitRow(r)) \/ InsertTransaction(FallbackRef[RefOf[r]], DebitRow(r))
    BY <1>1, <1>4, <2>1, <2>2
  <2> QED BY <1>3, <1>5, <2>2 DEF Insert, InsertFallback
<1>6. CASE Settle(r) \/ SettleFallback(r)
  <2>1. \/ UNCHANGED rows
        \/ rows' = WithStatus(rows, RefOf[r], "success")
        \/ rows' = WithStatus(rows, FallbackRef[RefOf[r]], "success")
    BY <1>6 DEF Settle, SettleFallback, UpdateTransactionStatus
  <2> QED BY <1>1, <1>2, <1>3, <2>1
<1>7. CASE Reverse(r) \/ ReverseFallback(r)
  <2>1. pc[r] \in {"reverse", "reverseFb"}
    BY <1>7 DEF Reverse, ReverseFallback
  <2>2. ASSUME NEW ref \in DebitRefs, ReversalExists(UserOf[r], ref, ReversalRef[ref])
        PROVE  rows' = WithStatus(rows, ref, "reversed")
    BY <2>2 DEF ReversalExists
  <2>3. ASSUME NEW ref \in DebitRefs, ReversalCreated(r, UserOf[r], ref, ReversalRef[ref], AmountOf[r])
        PROVE  /\ ReversalRef[ref] \in Refs /\ rows[ReversalRef[ref]] = NoRow
               /\ rows'[ReversalRef[ref]].id = r
               /\ d # ReversalRef[ref] => rows'[d] = WithStatus(rows, ref, "reversed")[d]
    <3>1. ReversalRef[ref] \in Refs
      BY DebitRefsAreRefs, ReferenceAssumption
    <3>2. /\ rows[ReversalRef[ref]] = NoRow
          /\ rows' = [WithStatus(rows, ref, "reversed") EXCEPT ![ReversalRef[ref]] =
               [id |-> r, user |-> UserOf[r], type |-> "reversal",
                amount |-> AmountOf[r], status |-> "success"]]
      BY <2>3 DEF ReversalCreated, CanInsert, Exists
    <3>3. WithStatus(rows, ref, "reversed") \in [Refs -> Row \cup {NoRow}]
      BY <1>1, <1>2
    <3> QED BY <3>1, <3>2, <3>3
  <2>4. ASSUME NEW ref \in DebitRefs, Reversed(r, ref)
        PROVE  /\ rows[d] # NoRow => /\ rows'[d] # NoRow /\ rows'[d].id = rows[d].id
                                     /\ rows'[d].user = rows[d].user /\ rows'[d].amount = rows[d].amount
               /\ rows[d] # NoRow /\ d \notin DebitRefs => rows'[d] = rows[d]
               /\ rows[d] = NoRow /\ rows'[d] # NoRow => rows'[d].id = r
    BY <1>1, <1>2, <2>2, <2>3, <2>4 DEF Reversed
  <2>5. UNCHANGED rows \/ Reversed(r, RefOf[r]) \/ Reversed(r, FallbackRef[RefOf[r]])
    BY <1>7 DEF Reverse, ReverseFallback
  <2> QED BY <1>1, <1>3, <2>1, <2>4, <2>5
<1>8. CASE \/ Lookup(r) \/ FindWallet(r) \/ Refind(r) \/ Confirm(r) \/ Primary(r) \/ Fallback(r)
           \/ Debit(r) \/ Redebit(r) \/ Compensate(r)
  BY <1>3, <1>8 DEF Lookup, FindWallet, Refind, Confirm, Primary, Fallback, Debit, Redebit, Compensate
<1> QED BY <1>5, <1>6, <1>7, <1>8 DEF ExecuteVAS

\* A top-up that succeeded stays successful.
LEMMA SuccessStays ==
  ASSUME TypeOK, RowInv, SettleInv, NEW r \in Requests, ExecuteVAS(r),
         NEW d \in Refs, rows[d] # NoRow, rows[d].status = "success"
  PROVE  rows'[d].status = "success"
<1>1. CASE rows' = rows
  BY <1>1
<1>2. CASE d \notin DebitRefs
  BY <1>2, RowsEvolve
<1>3. CASE rows' # rows /\ d \in DebitRefs
  <2>1. /\ rows[Touched(r)].status \in {"absent", "processing"}
        /\ \A c \in DebitRefs : c # Touched(r) => rows'[c] = rows[c]
    BY <1>3, TouchedUnsettled, RowChange
  <2> QED BY <1>3, <2>1
<1> QED BY <1>1, <1>2, <1>3

\* A purchase step writes only rows of its own request.
LEMMA WritersStep ==
  ASSUME NoCollision, TypeOK, RowInv, SettleInv, Writers, NEW r \in Requests, ExecuteVAS(r)
  PROVE  Writers'
<1>1. pc \in [Requests -> Labels]
  BY DEF TypeOK
<1>2. ASSUME NEW s \in Requests, pc'[s] \in {"lookup", "wallet", "debit", "insert"},
             NEW ref \in Refs, rows'[ref] # NoRow
      PROVE  rows'[ref].id # s
  <2>1. pc[s] \in {"lookup", "wallet", "debit", "insert"} /\ (s = r => pc[r] \in {"lookup", "wallet", "debit"})
    <3>1. CASE s = r
      BY <1>1, <1>2, <3>1 DEF ExecuteVAS, Lookup, FindWallet, Refind, Confirm, Insert, InsertFallback, Primary,
         Fallback, Settle, SettleFallback, Debit, Redebit, Compensate, Reverse, AfterReversal, ReverseFallback,
         Goto, Answer
    <3>2. CASE s # r
      BY <1>2, <3>2, StepFacts
    <3> QED BY <3>1, <3>2
  <2>2. CASE rows[ref] # NoRow
    <3>1. rows'[ref].id = rows[ref].id
      BY <2>2, RowsEvolve
    <3> QED BY <2>1, <2>2, <3>1 DEF Writers, Exists
  <2>3. CASE rows[ref] = NoRow
    <3>1. rows'[ref].id = r /\ pc[r] \in {"insert", "insertFb", "reverse", "reverseFb"}
      BY <1>2, <2>3, RowsEvolve
    <3> QED BY <2>1, <3>1
  <2> QED BY <2>2, <2>3
<1>3. ASSUME NEW c \in ClientRefs, rows'[FallbackRef[c]] # NoRow
      PROVE  rows'[FallbackRef[c]].id = rows'[c].id
  <2>1. c \in Refs /\ FallbackRef[c] \in Refs /\ c \in DebitRefs /\ FallbackRef[c] \in DebitRefs
    BY ReferenceAssumption, DebitRefsAreRefs DEF DebitRefs
  <2>2. CASE rows[FallbackRef[c]] # NoRow
    <3>1. rows[c] # NoRow /\ rows[FallbackRef[c]].id = rows[c].id
      BY <2>2 DEF SettleInv, Writers, Exists
    <3> QED BY <2>1, <2>2, <3>1, RowsEvolve
  <2>3. CASE rows[FallbackRef[c]] = NoRow
    <3>1. rows' # rows
      BY <1>3, <2>3
    <3>2. FallbackRef[c] = Touched(r) /\ RowInserted(r)
      BY <1>3, <2>1, <2>3, <3>1, RowChange DEF RowSettled, RowReversed
    <3>3. RefOf[r] # FallbackRef[c]
      BY DEF NoCollision, ClientRefs
    <3>4. pc[r] = "insertFb" /\ FallbackRef[RefOf[r]] = FallbackRef[c]
      BY <3>2, <3>3 DEF Touched, RowInserted
    <3>5. RefOf[r] = c
      BY <3>4, RefTypes, ReferenceAssumption
    <3>6. rows[c] # NoRow /\ rows[c].id = r
      BY <3>4, <3>5 DEF RowInv, Owns, Exists, EngineLabels, AfterRedebit
    <3>7. rows'[c].id = r
      BY <2>1, <3>6, RowsEvolve
    <3>8. rows'[FallbackRef[c]].id = r
      BY <1>3, <2>1, <2>3, RowsEvolve
    <3> QED BY <3>7, <3>8
  <2> QED BY <2>2, <2>3
<1> QED BY <1>2, <1>3 DEF Writers, Exists

\* The guard passes a high top-up without confirmation only if it has a precedent.
LEMMA PassedHasPrecedent ==
  ASSUME TypeOK, GuardInv, NEW r \in Requests, guard[r] = "open", AmountOf[r] >= HighValue,
         ~RequiresBettingRiskChallenge(AmountOf[r], CategorySpendStats(UserOf[r]))
  PROVE  Precedent(r)
<1> DEFINE own == SuccessfulBets(UserOf[r])
           amounts == {rows[ref].amount : ref \in own} \cup {scene.past.max}
           stats == CategorySpendStats(UserOf[r])
<1>1. own \subseteq Refs /\ \A ref \in own : rows[ref].amount \in Nat
  BY DEF SuccessfulBets, TypeOK, RepoTypeOK, Row, Exists
<1>2. scene.past.max \in Nat
  BY BettingAssumption DEF GuardInv, GuardTypeOK
<1>3. IsFiniteSet(own)
  BY <1>1, FiniteAssumption, FS_Subset
<1> HIDE DEF own
<1>4. IsFiniteSet({rows[ref].amount : ref \in own})
  <2> DEFINE f == [ref \in own |-> rows[ref].amount]
             T == {rows[ref].amount : ref \in own}
  <2>1. f \in Surjection(own, T)
    BY DEF Surjection
  <2> HIDE DEF f, T
  <2>2. IsFiniteSet(T)
    BY <1>3, <2>1, FS_Surjection
  <2> QED BY <2>2 DEF T
<1>5. IsFiniteSet(amounts) /\ amounts \subseteq Int /\ amounts # {}
  <2>1. IsFiniteSet({scene.past.max})
    BY FS_Singleton
  <2>2. IsFiniteSet({rows[ref].amount : ref \in own} \cup {scene.past.max})
    BY <1>4, <2>1, FS_Union
  <2> QED BY <1>1, <1>2, <2>2
<1>6. Max(amounts) \in amounts
  <2> HIDE DEF amounts
  <2> QED BY <1>5, MaxIsGreatest
<1>7. stats.max = Max(amounts) /\ stats.count = Cardinality(own) + scene.past.count
  BY DEF CategorySpendStats, own
<1>8. stats.count \in Int
  <2>1. Cardinality(own) \in Nat /\ scene.past.count \in Nat
    BY <1>3, FS_CardinalityType, BettingAssumption DEF GuardInv, GuardTypeOK
  <2> QED BY <1>7, <2>1
<1> HIDE DEF stats
<1>9. ~(AmountOf[r] >= stats.max * 2)
  <2>1. ~RequiresBettingRiskChallenge(AmountOf[r], stats)
    BY DEF stats
  <2> QED BY <1>8, <2>1 DEF RequiresBettingRiskChallenge
<1>10. PICK m \in amounts : ~(AmountOf[r] >= m * 2)
  <2> HIDE DEF amounts
  <2> QED BY <1>6, <1>7, <1>9
<1>11. m \in Nat /\ m * 2 > AmountOf[r]
  BY <1>1, <1>2, <1>10, RefTypes
<1>12. CASE m = scene.past.max
  BY <1>11, <1>12 DEF Precedent
<1>13. ASSUME NEW ref \in own, m = rows[ref].amount PROVE Precedent(r)
  <2>1. /\ ref \in Refs /\ Exists(ref) /\ rows[ref].user = UserOf[r] /\ rows[ref].status = "success"
    BY DEF own, SuccessfulBets
  <2>2. rows[ref].id # r
    BY <2>1 DEF GuardInv, Guarded, Writers
  <2> QED BY <1>11, <1>13, <2>1, <2>2 DEF Precedent
<1> QED BY <1>10, <1>12, <1>13

\* A refusal of the guard ends a request that has done nothing.
LEMMA RefusalKeeps ==
  ASSUME TypeOK, RowInv, SettleInv, Writers, NEW r \in Requests, pc[r] \in {"lookup", "wallet"},
         Answer(r, "error"), UNCHANGED <<wallets, rows, control>>
  PROVE  TypeOK' /\ RowInv' /\ SettleInv' /\ Writers'
<1>1. /\ \A s \in Requests : s # r => pc'[s] = pc[s]
      /\ pc'[r] = "done" /\ UNCHANGED <<balance, dailySpend, held, rows, live, accepted>>
  BY DEF TypeOK, Answer, wallets, control
<1>2. TypeOK'
  BY <1>1 DEF TypeOK, RepoTypeOK, Answer, Labels, Results
<1>3. RowInv'
  BY <1>1 DEF RowInv, Owns, Exists, EngineLabels, BeforeReversal, AfterRedebit
<1>4. SettleInv'
  BY <1>1 DEF SettleInv, ReversedIffReversalRow, Exists, BeforeReversal, AfterRedebit
<1>5. Writers'
  BY <1>1 DEF Writers, Exists
<1> QED BY <1>2, <1>3, <1>4, <1>5

\* A precedent lasts.
LEMMA PrecedentStays ==
  ASSUME TypeOK, RowInv, SettleInv, NEW r \in Requests, ExecuteVAS(r), UNCHANGED scene,
         NEW s \in Requests, Precedent(s)
  PROVE  Precedent(s)'
<1>1. CASE scene.past.max * 2 > AmountOf[s]
  BY <1>1 DEF Precedent
<1>2. ASSUME NEW ref \in Refs, Exists(ref), rows[ref].user = UserOf[s], rows[ref].id # s,
             rows[ref].status = "success", rows[ref].amount * 2 > AmountOf[s]
      PROVE  Precedent(s)'
  <2>1. /\ rows'[ref] # NoRow /\ rows'[ref].id = rows[ref].id
        /\ rows'[ref].user = rows[ref].user /\ rows'[ref].amount = rows[ref].amount
    BY <1>2, RowsEvolve DEF Exists
  <2>2. rows'[ref].status = "success"
    BY <1>2, SuccessStays DEF Exists
  <2> QED BY <1>2, <2>1, <2>2 DEF Precedent, Exists
<1> QED BY <1>1, <1>2 DEF Precedent

\* Every step of a guarded purchase keeps the invariants of the purchase and its own.
LEMMA GuardedStep ==
  ASSUME NoCollision, TypeOK, RowInv, SettleInv, GuardInv, [GuardedNext]_allVars
  PROVE  TypeOK' /\ RowInv' /\ SettleInv' /\ GuardInv'
<1>1. /\ guard \in [Requests -> {"open", "passed", "challenged", "error"}] /\ scene \in Scenes
      /\ Writers /\ \A s \in Requests : Guarded(s)
  BY DEF GuardInv, GuardTypeOK
<1>2. ASSUME NEW r \in Requests, EnforceBettingRiskGuard(r)
      PROVE  TypeOK' /\ RowInv' /\ SettleInv' /\ GuardInv'
  <2> USE <1>2
  <2>1. /\ guard[r] = "open" /\ pc[r] \in {"lookup", "wallet"} /\ accepted[r] = {}
        /\ UNCHANGED <<rows, accepted, scene>> /\ UNCHANGED <<wallets, rows, control>>
    BY <1>1 DEF EnforceBettingRiskGuard, Guarded, control
  <2>2. \A s \in Requests : Precedent(s)' <=> Precedent(s)
    BY <2>1 DEF Precedent, Exists
  <2>3. Bets' = Bets
    BY <2>1 DEF Bets
  <2>4. CASE guard' = [guard EXCEPT ![r] = "passed"] /\ UNCHANGED <<pc, result>>
    <3>1. /\ RequiresBettingRiskChallenge(AmountOf[r], CategorySpendStats(UserOf[r])) => r \in Confirmed
      BY <1>1, <2>1, <2>4 DEF EnforceBettingRiskGuard, Decide
    <3>2. [Next]_vars
      BY <2>1, <2>4 DEF vars, wallets, control
    <3>3. TypeOK' /\ RowInv' /\ SettleInv'
      BY <3>2, TypeStep, RowStep, SettleStep
    <3>4. Writers'
      BY <1>1, <2>1, <2>4 DEF Writers, Exists
    <3>5. Guarded(r)'
      <4>1. r \in Bets \ Confirmed /\ AmountOf[r] >= HighValue => Precedent(r)
        BY <2>1, <3>1, PassedHasPrecedent
      <4>2. guard'[r] = "passed"
        BY <1>1, <2>4
      <4> QED BY <2>2, <2>3, <4>1, <4>2 DEF Guarded
    <3>6. ASSUME NEW s \in Requests, s # r PROVE Guarded(s)'
      BY <1>1, <2>1, <2>2, <2>3, <2>4, <3>6 DEF Guarded
    <3>7. GuardTypeOK'
      BY <1>1, <2>1, <2>4 DEF GuardTypeOK
    <3>8. \A s \in Requests : Guarded(s)'
      BY <3>5, <3>6
    <3> QED BY <3>3, <3>4, <3>7, <3>8 DEF GuardInv
  <2>5. ASSUME NEW decision \in {"challenged", "error"}, guard' = [guard EXCEPT ![r] = decision],
               Answer(r, "error")
        PROVE  TypeOK' /\ RowInv' /\ SettleInv' /\ GuardInv'
    <3>1. TypeOK' /\ RowInv' /\ SettleInv' /\ Writers'
      BY <1>1, <2>1, <2>5, RefusalKeeps
    <3>2. pc'[r] = "done" /\ \A s \in Requests : s # r => pc'[s] = pc[s]
      BY <2>5 DEF TypeOK, Answer
    <3>3. guard'[r] = decision /\ \A s \in Requests : s # r => guard'[s] = guard[s]
      BY <1>1, <2>5
    <3>4. \A s \in Requests : Guarded(s)'
      BY <1>1, <2>1, <2>2, <2>3, <3>2, <3>3 DEF Guarded
    <3>5. GuardTypeOK'
      BY <1>1, <2>1, <2>5 DEF GuardTypeOK
    <3> QED BY <3>1, <3>4, <3>5 DEF GuardInv
  <2> QED BY <2>4, <2>5 DEF EnforceBettingRiskGuard, Decide
<1>3. ASSUME NEW r \in Requests, guard[r] = "passed", ExecuteVAS(r), UNCHANGED guardVars
      PROVE  TypeOK' /\ RowInv' /\ SettleInv' /\ GuardInv'
  <2> USE <1>3
  <2>1. TypeOK' /\ RowInv' /\ SettleInv'
    BY TypeStep, RowStep, SettleStep DEF Next
  <2>2. Writers'
    BY <1>1, WritersStep
  <2>3. guard' = guard /\ scene' = scene /\ Bets' = Bets
    BY DEF guardVars, Bets
  <2>4. \A s \in Requests : Precedent(s) => Precedent(s)'
    BY <2>3, PrecedentStays
  <2>5. \A s \in Requests : s # r => pc'[s] = pc[s] /\ accepted'[s] = accepted[s]
    BY StepFacts
  <2>6. ASSUME NEW s \in Requests PROVE Guarded(s)'
    <3>1. Guarded(s)
      BY <1>1
    <3>2. CASE s = r
      BY <2>3, <2>4, <3>1, <3>2 DEF Guarded
    <3>3. CASE s # r
      BY <2>3, <2>4, <2>5, <3>1, <3>3 DEF Guarded
    <3> QED BY <3>2, <3>3
  <2>7. GuardTypeOK'
    BY <1>1, <2>3 DEF GuardTypeOK
  <2> QED BY <2>1, <2>2, <2>6, <2>7 DEF GuardInv
<1>4. ASSUME UNCHANGED <<pc, rows, accepted>>, UNCHANGED guardVars, [Next]_vars
      PROVE  TypeOK' /\ RowInv' /\ SettleInv' /\ GuardInv'
  <2>1. TypeOK' /\ RowInv' /\ SettleInv'
    BY <1>4, TypeStep, RowStep, SettleStep
  <2>2. GuardInv'
    BY <1>1, <1>4 DEF GuardInv, GuardTypeOK, Guarded, Writers, Precedent, Exists, Bets, guardVars
  <2> QED BY <2>1, <2>2
<1>5. CASE Midnight /\ UNCHANGED guardVars
  BY <1>4, <1>5 DEF Midnight, ResetDailySpend, Next
<1>6. CASE UNCHANGED allVars
  BY <1>4, <1>6 DEF allVars, vars
<1> QED BY <1>2, <1>3, <1>5, <1>6 DEF GuardedNext, Purchase

LEMMA GuardedStart == GuardedInit => TypeOK /\ RowInv /\ SettleInv /\ GuardInv
<1> SUFFICES ASSUME GuardedInit PROVE TypeOK /\ RowInv /\ SettleInv /\ GuardInv
  OBVIOUS
<1>1. Init /\ scene \in Scenes /\ guard = [r \in Requests |-> IF r \in Bets THEN "open" ELSE "passed"]
  BY DEF GuardedInit
<1>2. TypeOK /\ RowInv /\ SettleInv
  BY <1>1, TypeAtStart, RowsAtStart, SettleAtStart
<1>3. /\ \A ref \in Refs : rows[ref] = NoRow
      /\ \A r \in Requests : pc[r] \in {"lookup", "wallet"} /\ accepted[r] = {}
  BY <1>1 DEF Init, RepoInit
<1>4. Writers
  <2>1. \A c \in ClientRefs : FallbackRef[c] \in Refs
    BY DebitRefsAreRefs DEF DebitRefs
  <2> QED BY <1>3, <2>1 DEF Writers, Exists
<1>5. GuardTypeOK
  BY <1>1 DEF GuardTypeOK
<1>6. \A r \in Requests : Guarded(r)
  BY <1>1, <1>3 DEF Guarded
<1> QED BY <1>2, <1>4, <1>5, <1>6 DEF GuardInv

\* The purchases that a guard precedes keep the invariants of all purchases.
THEOREM GuardedSafe == NoCollision => (GuardedSpec => [](TypeOK /\ RowInv /\ SettleInv /\ GuardInv))
<1> SUFFICES ASSUME NoCollision PROVE GuardedSpec => [](TypeOK /\ RowInv /\ SettleInv /\ GuardInv)
  OBVIOUS
<1>1. (TypeOK /\ RowInv /\ SettleInv /\ GuardInv) /\ [GuardedNext]_allVars
        => (TypeOK /\ RowInv /\ SettleInv /\ GuardInv)'
  BY GuardedStep
<1> QED BY <1>1, GuardedStart, PTL DEF GuardedSpec

\* No provider is asked for a high top-up that the user did not confirm unless one of
\* more than half its amount succeeded before, for any number of top-ups of any users
\* that run, retry and fall back at once, and when the database fails
\* (enforceBettingRiskGuard).
THEOREM UnusualBetsConfirmed == NoCollision => (GuardedSpec => []UnusualBetsAreConfirmed)
<1> SUFFICES ASSUME NoCollision PROVE GuardedSpec => []UnusualBetsAreConfirmed
  OBVIOUS
<1>1. TypeOK /\ RowInv /\ SettleInv /\ GuardInv => UnusualBetsAreConfirmed
  <2> SUFFICES ASSUME RowInv, SettleInv, GuardInv, NEW r \in Bets \ Confirmed,
                      accepted[r] # {}, AmountOf[r] >= HighValue
               PROVE  \/ scene.past.max * 2 > AmountOf[r]
                      \/ \E ref \in Refs \ {RefOf[r], FallbackRef[RefOf[r]]} :
                           /\ Exists(ref) /\ rows[ref].user = UserOf[r] /\ rows[ref].status = "success"
                           /\ rows[ref].amount * 2 > AmountOf[r]
    BY DEF UnusualBetsAreConfirmed, GuardInv
  <2>1. r \in Requests
    BY BettingAssumption DEF GuardInv, GuardTypeOK, Bets
  <2>2. Precedent(r)
    BY <2>1 DEF GuardInv, Guarded
  <2>3. rows[RefOf[r]].id = r
    BY <2>1 DEF RowInv, Owns
  <2>4. Exists(FallbackRef[RefOf[r]]) => rows[FallbackRef[RefOf[r]]].id = r
    BY <2>1, <2>3, RefTypes DEF GuardInv, Writers
  <2> QED BY <2>2, <2>3, <2>4 DEF Precedent
<1>2. GuardedSpec => [](TypeOK /\ RowInv /\ SettleInv /\ GuardInv)
  BY GuardedSafe
<1> QED BY <1>1, <1>2, PTL

\* The guard's refusals move no money: the books balance for guarded purchases too, the
\* top-ups of negative amounts that the guard lets pass among them.
THEOREM GuardedBooksBalance == NoCollision /\ Faults = {} => (GuardedSpec => []LedgerExplainsBalance)
<1> SUFFICES ASSUME NoCollision, Faults = {} PROVE GuardedSpec => []LedgerExplainsBalance
  OBVIOUS
<1> DEFINE Safe == TypeOK /\ RowInv /\ SettleInv /\ GuardInv
           Inv == LedgerExplainsBalance /\ WithinFunds /\ \A r \in Requests : live[r]
<1>1. GuardedInit => Inv
  BY BooksAtStart, FundsAtStart DEF GuardedInit, Init
<1>2. Safe /\ Inv /\ [GuardedNext]_allVars => Inv'
  <2> SUFFICES ASSUME Safe, Inv, [GuardedNext]_allVars PROVE Inv'
    OBVIOUS
  <2>1. CASE [Next]_vars
    BY <2>1, BooksStep, FundsStep
  <2>2. ASSUME NEW r \in Requests, EnforceBettingRiskGuard(r), Answer(r, "error") PROVE Inv'
    <3>1. UNCHANGED <<balance, dailySpend, rows, held, live>>
      BY <2>2 DEF EnforceBettingRiskGuard, wallets, control
    <3>2. pc[r] \in {"lookup", "wallet"}
      BY <2>2 DEF EnforceBettingRiskGuard, GuardInv, Guarded
    <3>3. \A s \in Requests : pc'[s] \in NotBooked <=> pc[s] \in NotBooked
      BY <2>2, <3>2 DEF Answer, TypeOK, NotBooked
    <3>4. WithinFunds'
      BY <3>1 DEF WithinFunds
    <3> QED BY <3>1, <3>3, <3>4, QuietKeepsBooks
  <2>3. ASSUME NEW r \in Requests, EnforceBettingRiskGuard(r) PROVE [Next]_vars \/ Answer(r, "error")
    BY <2>3 DEF EnforceBettingRiskGuard, vars, wallets, control
  <2> QED BY <2>1, <2>2, <2>3 DEF GuardedNext, Purchase, Next, allVars
<1>3. GuardedSpec => []Safe
  BY GuardedSafe
<1> QED BY <1>1, <1>2, <1>3, PTL DEF GuardedSpec
===============================================================================
