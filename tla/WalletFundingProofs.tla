------------------------- MODULE WalletFundingProofs -------------------------
(***************************************************************************)
(* Theorems about WalletFunding for every set of users, checkouts, webhook *)
(* deliveries and calls, every amount and every conversion of naira.       *)
(***************************************************************************)
EXTENDS WalletFunding, TLAPS

\* The status update of one reference keeps the table well formed, creates and
\* deletes no row, changes nothing but the status, and touches no other reference.
LEMMA WithStatusFacts ==
  ASSUME NEW table \in [Refs -> Row \cup {NoRow}], NEW ref \in Refs, NEW status \in Statuses
  PROVE  LET new == WithStatus(table, ref, status) IN
         /\ new \in [Refs -> Row \cup {NoRow}]
         /\ \A d \in Refs : d # ref => new[d] = table[d]
         /\ \A d \in Refs : new[d] = NoRow <=> table[d] = NoRow
         /\ \A d \in Refs : table[d] # NoRow =>
              /\ new[d].id = table[d].id /\ new[d].user = table[d].user
              /\ new[d].type = table[d].type /\ new[d].amount = table[d].amount
         /\ table[ref] # NoRow => new[ref].status = status
<1>1. \A x \in Row : x # NoRow /\ x.status # "absent"
  BY DEF Row, NoRow, Statuses
<1>2. \A x \in Row : /\ [x EXCEPT !.status = status] \in Row
                     /\ [x EXCEPT !.status = status] # NoRow
                     /\ [x EXCEPT !.status = status].id = x.id
                     /\ [x EXCEPT !.status = status].user = x.user
                     /\ [x EXCEPT !.status = status].type = x.type
                     /\ [x EXCEPT !.status = status].amount = x.amount
                     /\ [x EXCEPT !.status = status].status = status
  BY <1>1 DEF Row
<1>3. table[ref] \in Row \cup {NoRow}
  OBVIOUS
<1>4. CASE table[ref] = NoRow
  BY <1>4 DEF WithStatus
<1>5. CASE table[ref] \in Row
  BY <1>1, <1>2, <1>5 DEF WithStatus
<1> QED BY <1>3, <1>4, <1>5

\* Rows belong to checkouts and calls and keep the amount they were written with.
RowsMatch ==
  \A ref \in Refs : Exists(ref) => ref \in Fundings \cup Calls /\ rows[ref].amount = AmountOf[ref]

\* A delivery that is about to settle has read a row of its amount.
WritesMatch ==
  \A d \in Deliveries : pc[d] = "write" =>
    /\ FundingOf[d] \in Fundings /\ Exists(FundingOf[d])
    /\ AmountKobo(d) = AmountOf[FundingOf[d]]

\* A payment reference is on a successful row only, on that of a checkout only
\* when the gateway reported it for this checkout, and on one row at most.
ExtMatch ==
  /\ \A ref \in Refs : ext[ref] # "none" => Exists(ref) /\ rows[ref].status = "success"
  /\ \A ref \in Fundings : ext[ref] # "none" =>
       \E d \in Deliveries : FundingOf[d] = ref /\ PaymentOf[d] = ext[ref]
  /\ \A r, s \in Refs : ext[r] = ext[s] /\ ext[r] # "none" => r = s

\* A payment is credited exactly when its reference is on a row.
MoneyMatches == \A x \in Payments : credited[x] > 0 <=> \E ref \in Refs : ext[ref] = x

FundingInv == RowsMatch /\ WritesMatch /\ ExtMatch /\ MoneyMatches

\* Deliveries that wait for each other: the row a delivery is about to settle is
\* still pending, and a booked payment has been credited with its row's amount.
InTurn ==
  ~env.overlap =>
    /\ \A d \in Deliveries : pc[d] = "write" =>
         /\ rows[FundingOf[d]].status = "pending"
         /\ \A e \in Deliveries : FundingOf[e] = FundingOf[d] /\ pc[e] = "write" => e = d
    /\ \A ref \in Refs : ext[ref] # "none" => credited[ext[ref]] = AmountOf[ref]

LEMMA DeliveryFacts ==
  ASSUME NEW d \in Deliveries
  PROVE  /\ FundingOf[d] \in Refs /\ FundingOf[d] \notin Calls
         /\ PaymentOf[d] \in Payments /\ PaymentOf[d] # "none"
         /\ d \in Workers /\ d \notin Calls
BY FundingAssumption DEF Workers, Payments

LEMMA CallFacts ==
  ASSUME NEW c \in Calls
  PROVE  /\ c \in Refs /\ c \notin Fundings /\ CreditRow(c, "success") \in Row
         /\ CreditRow(c, "success").status = "success" /\ CreditRow(c, "success").amount = AmountOf[c]
         /\ PaymentOf[c] \in Payments /\ PaymentOf[c] # "none"
         /\ OwnerOf[c] \in Users /\ AmountOf[c] \in Nat /\ AmountOf[c] > 0
         /\ c \in Workers /\ c \notin Deliveries
<1>1. c \in Refs /\ c \in RowIds /\ c \notin Fundings /\ c \in Workers /\ c \notin Deliveries
  BY FundingAssumption DEF Workers
<1>2. PaymentOf[c] \in Payments /\ PaymentOf[c] # "none"
  BY <1>1, FundingAssumption DEF Payments
<1>3. OwnerOf[c] \in Users /\ AmountOf[c] \in Nat /\ AmountOf[c] > 0
  <2>1. OwnerOf[c] \in Users /\ AmountOf[c] \in Nat \ {0}
    BY FundingAssumption
  <2> QED BY <2>1
<1>4. /\ CreditRow(c, "success") \in Row
      /\ CreditRow(c, "success").status = "success" /\ CreditRow(c, "success").amount = AmountOf[c]
  BY <1>1, <1>3 DEF CreditRow, Row, TxTypes, Statuses
<1> QED BY <1>1, <1>2, <1>3, <1>4

LEMMA CheckoutFacts ==
  ASSUME NEW f \in Fundings
  PROVE  /\ f \in Refs /\ f \notin Calls /\ CreditRow(f, "pending") \in Row
         /\ CreditRow(f, "pending").status = "pending" /\ CreditRow(f, "pending").amount = AmountOf[f]
         /\ AmountOf[f] \in Nat /\ AmountOf[f] > 0
<1>1. f \in Refs /\ f \in RowIds /\ f \notin Calls
  BY FundingAssumption
<1>2. OwnerOf[f] \in Users /\ AmountOf[f] \in Nat \ {0}
  BY FundingAssumption
<1> QED BY <1>1, <1>2 DEF CreditRow, Row, TxTypes, Statuses

\* Adding to one argument of a function of numbers.
LEMMA AddInt ==
  ASSUME NEW S, NEW f \in [S -> Int], NEW u \in S, NEW a \in Nat
  PROVE  [f EXCEPT ![u] = @ + a] \in [S -> Int]
OBVIOUS

LEMMA AddNat ==
  ASSUME NEW S, NEW f \in [S -> Nat], NEW u \in S, NEW a \in Nat
  PROVE  LET g == [f EXCEPT ![u] = @ + a] IN
         /\ g \in [S -> Nat] /\ f[u] \in Nat /\ g[u] = f[u] + a
         /\ \A v \in S : v # u => g[v] = f[v]
OBVIOUS

LEMMA RowIsPresent == NoRow \notin Row
BY DEF NoRow, Row, Statuses

\* The committed transaction of a delivery: it turns its checkout's row to
\* success, writes the payment reference on it and credits the row's amount.
LEMMA SettlementFacts ==
  ASSUME TypeOK, FundingInv, NEW d \in Deliveries, pc[d] = "write", CommitSettlement(d)
  PROVE  LET ref == FundingOf[d]  x == PaymentOf[d] IN
         /\ RepoTypeOK' /\ ext' \in [Refs -> Payments \cup {"none"}] /\ credited' \in [Payments -> Nat]
         /\ ref \in Fundings /\ rows[ref] # NoRow
         /\ \A r \in Refs : r # ref => rows'[r] = rows[r] /\ ext'[r] = ext[r]
         /\ rows'[ref] # NoRow /\ rows'[ref].status = "success" /\ rows'[ref].amount = rows[ref].amount
         /\ ext'[ref] = x /\ ext[ref] \in {"none", x}
         /\ \A r \in Refs : r # ref => ext[r] # x
         /\ \A y \in Payments : y # x => credited'[y] = credited[y]
         /\ credited'[x] = credited[x] + AmountOf[ref] /\ AmountOf[ref] > 0 /\ credited[x] \in Nat
<1> DEFINE ref == FundingOf[d]
           x == PaymentOf[d]
<1>1. /\ ref \in Fundings /\ ref \in Refs /\ rows[ref] # NoRow /\ AmountKobo(d) = AmountOf[ref]
      /\ AmountOf[ref] \in Nat /\ AmountOf[ref] > 0 /\ x \in Payments /\ x # "none"
  BY DeliveryFacts, CheckoutFacts DEF FundingInv, WritesMatch, Exists
<1>2. /\ balance \in [Users -> Int] /\ dailySpend \in [Users -> Nat] /\ rows \in [Refs -> Row \cup {NoRow}]
      /\ ext \in [Refs -> Payments \cup {"none"}] /\ credited \in [Payments -> Nat]
  BY DEF TypeOK, RepoTypeOK
<1>3. rows[ref].user \in Users
  BY <1>1, <1>2 DEF Row
<1>4. /\ balance' = [balance EXCEPT ![rows[ref].user] = @ + AmountOf[ref]] /\ dailySpend' = dailySpend
      /\ rows' = WithStatus(rows, ref, "success")
      /\ ext' = [ext EXCEPT ![ref] = x]
      /\ credited' = [credited EXCEPT ![x] = @ + AmountOf[ref]]
      /\ \A r \in Refs : r # ref => ext[r] # x
  BY <1>1 DEF CommitSettlement, CreditBalance, UpdateTransactionStatus, ExternalRefFree
<1>5. balance' \in [Users -> Int] /\ dailySpend' \in [Users -> Nat]
  <2>1. /\ balance' = [balance EXCEPT ![rows[ref].user] = @ + AmountOf[ref]] /\ dailySpend' = dailySpend
        /\ balance \in [Users -> Int] /\ rows[ref].user \in Users /\ AmountOf[ref] \in Nat
        /\ dailySpend \in [Users -> Nat]
    BY <1>1, <1>2, <1>3, <1>4
  <2> HIDE DEF ref
  <2> QED BY <2>1, AddInt
<1>6. /\ rows' \in [Refs -> Row \cup {NoRow}] /\ \A r \in Refs : r # ref => rows'[r] = rows[r]
      /\ rows'[ref] # NoRow /\ rows'[ref].status = "success" /\ rows'[ref].amount = rows[ref].amount
  <2>1. "success" \in Statuses
    BY DEF Statuses
  <2>2. /\ WithStatus(rows, ref, "success") \in [Refs -> Row \cup {NoRow}]
        /\ \A r \in Refs : r # ref => WithStatus(rows, ref, "success")[r] = rows[r]
        /\ WithStatus(rows, ref, "success")[ref] # NoRow
        /\ WithStatus(rows, ref, "success")[ref].status = "success"
        /\ WithStatus(rows, ref, "success")[ref].amount = rows[ref].amount
    <3>1. rows \in [Refs -> Row \cup {NoRow}] /\ ref \in Refs /\ rows[ref] # NoRow
      BY <1>1, <1>2
    <3> HIDE DEF ref
    <3> QED BY <2>1, <3>1, WithStatusFacts
  <2> QED BY <1>4, <2>2
<1>7. ext' \in [Refs -> Payments \cup {"none"}] /\ ext'[ref] = x /\ \A r \in Refs : r # ref => ext'[r] = ext[r]
  BY <1>1, <1>2, <1>4
<1>8. /\ credited' \in [Payments -> Nat] /\ credited'[x] = credited[x] + AmountOf[ref] /\ credited[x] \in Nat
      /\ \A y \in Payments : y # x => credited'[y] = credited[y]
  <2>1. /\ credited' = [credited EXCEPT ![x] = @ + AmountOf[ref]]
        /\ credited \in [Payments -> Nat] /\ x \in Payments /\ AmountOf[ref] \in Nat
    BY <1>1, <1>2, <1>4
  <2> HIDE DEF ref, x
  <2> QED BY <2>1, AddNat
<1>9. ext[ref] \in {"none", x}
  <2>1. ext[ref] # "none" => \E e \in Deliveries : FundingOf[e] = ref /\ PaymentOf[e] = ext[ref]
    BY <1>1 DEF FundingInv, ExtMatch
  <2> QED BY <2>1, FundingAssumption
<1> QED BY <1>1, <1>4, <1>5, <1>6, <1>7, <1>8, <1>9 DEF RepoTypeOK

\* The committed transaction of a call of FundWallet: a successful row of its own.
LEMMA CreditFacts ==
  ASSUME TypeOK, FundingInv, NEW c \in Calls, CommitCredit(c)
  PROVE  LET x == PaymentOf[c] IN
         /\ RepoTypeOK' /\ ext' \in [Refs -> Payments \cup {"none"}] /\ credited' \in [Payments -> Nat]
         /\ rows[c] = NoRow
         /\ \A r \in Refs : r # c => rows'[r] = rows[r] /\ ext'[r] = ext[r]
         /\ rows'[c] # NoRow /\ rows'[c].status = "success" /\ rows'[c].amount = AmountOf[c]
         /\ ext'[c] = x /\ ext[c] = "none"
         /\ \A r \in Refs : r # c => ext[r] # x
         /\ \A y \in Payments : y # x => credited'[y] = credited[y]
         /\ credited'[x] = credited[x] + AmountOf[c] /\ credited[x] \in Nat
<1> DEFINE x == PaymentOf[c]
<1> USE CallFacts
<1>1. /\ balance \in [Users -> Int] /\ dailySpend \in [Users -> Nat] /\ rows \in [Refs -> Row \cup {NoRow}]
      /\ ext \in [Refs -> Payments \cup {"none"}] /\ credited \in [Payments -> Nat]
  BY DEF TypeOK, RepoTypeOK
<1>2. /\ balance' = [balance EXCEPT ![OwnerOf[c]] = @ + AmountOf[c]] /\ dailySpend' = dailySpend
      /\ rows[c] = NoRow /\ rows' = [rows EXCEPT ![c] = CreditRow(c, "success")]
      /\ ext' = [ext EXCEPT ![c] = x]
      /\ credited' = [credited EXCEPT ![x] = @ + AmountOf[c]]
      /\ \A r \in Refs : r # c => ext[r] # x
  BY DEF CommitCredit, CreditBalance, InsertTransaction, CanInsert, Exists, ExternalRefFree
<1>3. balance' \in [Users -> Int] /\ dailySpend' \in [Users -> Nat]
  BY <1>1, <1>2, AddInt
<1>4. /\ rows' \in [Refs -> Row \cup {NoRow}] /\ \A r \in Refs : r # c => rows'[r] = rows[r]
      /\ rows'[c] # NoRow /\ rows'[c].status = "success" /\ rows'[c].amount = AmountOf[c]
  BY <1>1, <1>2, RowIsPresent
<1>5. ext' \in [Refs -> Payments \cup {"none"}] /\ ext'[c] = x /\ \A r \in Refs : r # c => ext'[r] = ext[r]
  BY <1>1, <1>2
<1>6. /\ credited' \in [Payments -> Nat] /\ credited'[x] = credited[x] + AmountOf[c] /\ credited[x] \in Nat
      /\ \A y \in Payments : y # x => credited'[y] = credited[y]
  <2>1. /\ credited' = [credited EXCEPT ![x] = @ + AmountOf[c]]
        /\ credited \in [Payments -> Nat] /\ x \in Payments /\ AmountOf[c] \in Nat
    BY <1>1, <1>2
  <2> HIDE CallFacts DEF x
  <2> QED BY <2>1, AddNat
<1>7. ext[c] = "none"
  BY <1>2 DEF FundingInv, ExtMatch, Exists
<1> QED BY <1>2, <1>3, <1>4, <1>5, <1>6, <1>7 DEF RepoTypeOK

\* The steps of a worker: it moves on by itself, and either commits its
\* transaction, which it does from "write" only, or changes no table.
Commits(w) ==
  \/ w \in Deliveries /\ pc[w] = "write" /\ CommitSettlement(w)
  \/ w \in Calls /\ pc[w] = "write" /\ CommitCredit(w)

Runs(w) == (w \in Deliveries /\ ProcessFundingWebhook(w)) \/ (w \in Calls /\ (CheckExisting(w) \/ FundWallet(w)))

LEMMA WorkerStep ==
  ASSUME TypeOK, NEW w \in Workers, Runs(w)
  PROVE  /\ env' = env
         /\ pc' = [pc EXCEPT ![w] = pc'[w]] /\ answer' = [answer EXCEPT ![w] = answer'[w]]
         /\ pc'[w] \in {"idle", "write", "done"} /\ answer'[w] \in Answers
         /\ \/ Commits(w) /\ pc'[w] = "done"
            \/ UNCHANGED <<balance, dailySpend, rows, ext, credited>>
         /\ w \in Deliveries /\ pc'[w] = "write" =>
              /\ pc[w] = "idle" /\ Arrives(w) /\ Exists(FundingOf[w]) /\ rows[FundingOf[w]].status = "pending"
              /\ rows[FundingOf[w]].amount = AmountKobo(w) /\ rows' = rows
<1> USE DeliveryFacts, CallFacts DEF Answer, Proceed, Answers
<1>1. pc \in [Workers -> {"idle", "write", "done"}] /\ answer \in [Workers -> Answers]
  BY DEF TypeOK
<1>2. CASE w \in Deliveries /\ ReadTransaction(w)
  BY <1>1, <1>2 DEF ReadTransaction
<1>3. CASE w \in Deliveries /\ SettleFunding(w)
  BY <1>1, <1>3 DEF SettleFunding, Rollback, Commits
<1>4. CASE w \in Calls /\ CheckExisting(w)
  BY <1>1, <1>4 DEF CheckExisting
<1>5. CASE w \in Calls /\ FundWallet(w)
  BY <1>1, <1>5 DEF FundWallet, Rollback, Commits
<1> QED BY <1>2, <1>3, <1>4, <1>5 DEF Runs, ProcessFundingWebhook

LEMMA NextRuns ==
  ASSUME [Next]_vars
  PROVE  \/ \E f \in Fundings : InitializeFunding(f)
         \/ \E w \in Workers : Runs(w)
         \/ UNCHANGED vars
BY DEF Next, Runs, Workers

-------------------------------------------------------------------------------
\* What InitializeFunding does: a pending row where there was none.
LEMMA CheckoutStep ==
  ASSUME TypeOK, NEW f \in Fundings, InitializeFunding(f)
  PROVE  /\ UNCHANGED <<env, balance, dailySpend, ext, pc, answer, credited>>
         /\ rows' \in [Refs -> Row \cup {NoRow}]
         /\ rows[f] = NoRow /\ rows'[f] # NoRow /\ rows'[f].amount = AmountOf[f]
         /\ \A r \in Refs : r # f => rows'[r] = rows[r]
<1>1. /\ UNCHANGED <<env, balance, dailySpend, ext, pc, answer, credited>>
      /\ rows' = [rows EXCEPT ![f] = CreditRow(f, "pending")] /\ rows[f] = NoRow
      /\ rows \in [Refs -> Row \cup {NoRow}]
  BY DEF InitializeFunding, InsertTransaction, CanInsert, Exists, TypeOK, RepoTypeOK
<1> QED BY <1>1, CheckoutFacts, RowIsPresent

\* The row that worker w books its payment on.
BookedOn(w) == IF w \in Deliveries THEN FundingOf[w] ELSE w

\* What a committed transaction of either kind does.
LEMMA CommitFacts ==
  ASSUME TypeOK, FundingInv, NEW w \in Workers, Commits(w),
         NEW ref, ref = BookedOn(w), NEW x, x = PaymentOf[w]
  PROVE  /\ ref \in Refs /\ ref \in Fundings \cup Calls /\ x \in Payments /\ x # "none"
         /\ ref \in Fundings => \E d \in Deliveries : FundingOf[d] = ref /\ PaymentOf[d] = x
         /\ \A r \in Refs : r # ref => rows'[r] = rows[r] /\ ext'[r] = ext[r] /\ ext[r] # x
         /\ rows'[ref] # NoRow /\ rows'[ref].status = "success" /\ rows'[ref].amount = AmountOf[ref]
         /\ ext'[ref] = x /\ ext[ref] \in {"none", x}
         /\ \A y \in Payments : y # x => credited'[y] = credited[y]
         /\ credited'[x] = credited[x] + AmountOf[ref]
         /\ credited[x] \in Nat /\ AmountOf[ref] \in Nat /\ AmountOf[ref] > 0
         /\ RepoTypeOK' /\ ext' \in [Refs -> Payments \cup {"none"}] /\ credited' \in [Payments -> Nat]
<1>1. CASE w \in Deliveries /\ pc[w] = "write" /\ CommitSettlement(w)
  <2>1. ref = FundingOf[w] /\ ref \in Refs
    BY <1>1, DeliveryFacts DEF BookedOn
  <2>2. /\ ref \in Fundings /\ rows[ref] # NoRow
        /\ \A r \in Refs : r # ref => rows'[r] = rows[r] /\ ext'[r] = ext[r] /\ ext[r] # x
        /\ rows'[ref] # NoRow /\ rows'[ref].status = "success" /\ rows'[ref].amount = rows[ref].amount
        /\ ext'[ref] = x /\ ext[ref] \in {"none", x}
    BY <1>1, <2>1, SettlementFacts
  <2>3. /\ \A y \in Payments : y # x => credited'[y] = credited[y]
        /\ credited'[x] = credited[x] + AmountOf[ref] /\ credited[x] \in Nat
        /\ RepoTypeOK' /\ ext' \in [Refs -> Payments \cup {"none"}] /\ credited' \in [Payments -> Nat]
    BY <1>1, <2>1, SettlementFacts
  <2>4. rows[ref].amount = AmountOf[ref]
    BY <2>1, <2>2 DEF FundingInv, RowsMatch, Exists
  <2>5. AmountOf[ref] \in Nat /\ AmountOf[ref] > 0
    BY <2>2, CheckoutFacts
  <2>6. x \in Payments /\ x # "none" /\ \E d \in Deliveries : FundingOf[d] = ref /\ PaymentOf[d] = x
    BY <1>1, <2>1, DeliveryFacts
  <2> QED BY <2>1, <2>2, <2>3, <2>4, <2>5, <2>6
<1>2. CASE w \in Calls /\ pc[w] = "write" /\ CommitCredit(w)
  <2>1. /\ ref = w /\ ref \in Refs /\ ref \notin Fundings /\ x \in Payments /\ x # "none"
        /\ AmountOf[ref] \in Nat /\ AmountOf[ref] > 0
    BY <1>2, CallFacts DEF BookedOn
  <2>2. /\ \A r \in Refs : r # ref => rows'[r] = rows[r] /\ ext'[r] = ext[r] /\ ext[r] # x
        /\ rows'[ref] # NoRow /\ rows'[ref].status = "success" /\ rows'[ref].amount = AmountOf[ref]
        /\ ext'[ref] = x /\ ext[ref] \in {"none", x}
    BY <1>2, <2>1, CreditFacts
  <2>3. /\ \A y \in Payments : y # x => credited'[y] = credited[y]
        /\ credited'[x] = credited[x] + AmountOf[ref] /\ credited[x] \in Nat
        /\ RepoTypeOK' /\ ext' \in [Refs -> Payments \cup {"none"}] /\ credited' \in [Payments -> Nat]
    BY <1>2, <2>1, CreditFacts
  <2> QED BY <1>2, <2>1, <2>2, <2>3
<1> QED BY <1>1, <1>2 DEF Commits

\* A committed transaction keeps rows, references and money in step.
LEMMA CommitKeeps ==
  ASSUME TypeOK, FundingInv, NEW w \in Workers, Commits(w)
  PROVE  RowsMatch' /\ ExtMatch' /\ MoneyMatches' /\ \A r \in Refs : rows[r] # NoRow => rows'[r] # NoRow
<1> DEFINE x == PaymentOf[w]
           ref == BookedOn(w)
<1>1. /\ ref \in Refs /\ ref \in Fundings \cup Calls /\ x \in Payments /\ x # "none"
      /\ ref \in Fundings => \E d \in Deliveries : FundingOf[d] = ref /\ PaymentOf[d] = x
      /\ \A r \in Refs : r # ref => rows'[r] = rows[r] /\ ext'[r] = ext[r] /\ ext[r] # x
      /\ rows'[ref] # NoRow /\ rows'[ref].status = "success" /\ rows'[ref].amount = AmountOf[ref]
      /\ ext'[ref] = x /\ ext[ref] \in {"none", x}
      /\ \A y \in Payments : y # x => credited'[y] = credited[y]
  BY CommitFacts
<1>0. credited'[x] > 0
  <2>1. credited'[x] = credited[x] + AmountOf[ref] /\ credited[x] \in Nat /\ AmountOf[ref] \in Nat /\ AmountOf[ref] > 0
    BY CommitFacts
  <2> HIDE DEF x, ref
  <2> QED BY <2>1
<1> HIDE DEF x, ref
<1>2. RowsMatch'
  BY <1>1 DEF FundingInv, RowsMatch, Exists
<1>3. ExtMatch'
  <2>1. ASSUME NEW r \in Refs, ext'[r] # "none" PROVE rows'[r] # NoRow /\ rows'[r].status = "success"
    BY <1>1, <2>1 DEF FundingInv, ExtMatch, Exists
  <2>2. ASSUME NEW r \in Fundings, ext'[r] # "none"
        PROVE  \E d \in Deliveries : FundingOf[d] = r /\ PaymentOf[d] = ext'[r]
    BY <1>1, <2>2, CheckoutFacts DEF FundingInv, ExtMatch
  <2>3. ASSUME NEW r \in Refs, NEW s \in Refs, ext'[r] = ext'[s], ext'[r] # "none" PROVE r = s
    BY <1>1, <2>3 DEF FundingInv, ExtMatch
  <2> QED BY <2>1, <2>2, <2>3 DEF ExtMatch, Exists
<1>4. MoneyMatches'
  <2> SUFFICES ASSUME NEW y \in Payments PROVE credited'[y] > 0 <=> \E r \in Refs : ext'[r] = y
    BY DEF MoneyMatches
  <2>1. CASE y = x
    BY <1>0, <1>1, <2>1
  <2>2. CASE y # x
    <3>1. \A r \in Refs : ext'[r] = y <=> ext[r] = y
      BY <1>1, <2>2, FundingAssumption
    <3>2. credited'[y] = credited[y]
      BY <1>1, <2>2
    <3> QED BY <3>1, <3>2 DEF FundingInv, MoneyMatches
  <2> QED BY <2>1, <2>2
<1>5. \A r \in Refs : rows[r] # NoRow => rows'[r] # NoRow
  BY <1>1
<1> QED BY <1>2, <1>3, <1>4, <1>5

\* The books invariant.  It takes all four parts: that a delivery settles the row it
\* read needs the amounts of the rows, that a second payment reference never
\* replaces a first one needs to know who wrote the first.
THEOREM BooksKept == Spec => [](TypeOK /\ FundingInv)
<1>1. Init => TypeOK /\ FundingInv
  <2> SUFFICES ASSUME Init PROVE TypeOK /\ FundingInv
    OBVIOUS
  <2>1. RepoTypeOK
    BY WalletAssumption DEF Init, RepoInit, RepoTypeOK
  <2>2. TypeOK
    BY <2>1 DEF Init, TypeOK, Answers
  <2>3. \A ref \in Refs : ~Exists(ref) /\ ext[ref] = "none"
    BY DEF Init, RepoInit, Exists
  <2>4. RowsMatch /\ ExtMatch
    BY <2>3, CheckoutFacts DEF RowsMatch, ExtMatch
  <2>5. WritesMatch
    BY DeliveryFacts DEF Init, WritesMatch
  <2>6. MoneyMatches
    BY <2>3, FundingAssumption DEF Init, MoneyMatches
  <2> QED BY <2>2, <2>4, <2>5, <2>6 DEF FundingInv
<1>2. TypeOK /\ FundingInv /\ [Next]_vars => TypeOK' /\ FundingInv'
  <2> SUFFICES ASSUME TypeOK, FundingInv, [Next]_vars PROVE TypeOK' /\ FundingInv'
    OBVIOUS
  <2>1. ASSUME NEW f \in Fundings, InitializeFunding(f) PROVE TypeOK' /\ FundingInv'
    <3>1. f \in Refs /\ f \in Fundings
      BY CheckoutFacts
    <3>2. TypeOK'
      BY <2>1, CheckoutStep DEF TypeOK, RepoTypeOK
    <3>3. RowsMatch' /\ \A r \in Refs : rows[r] # NoRow => rows'[r] = rows[r]
      BY <2>1, <3>1, CheckoutStep DEF FundingInv, RowsMatch, Exists
    <3>4. WritesMatch'
      BY <2>1, <3>3, CheckoutStep, DeliveryFacts DEF FundingInv, WritesMatch, AmountKobo, Exists
    <3>5. ExtMatch' /\ MoneyMatches'
      BY <2>1, <3>3, CheckoutStep DEF FundingInv, ExtMatch, MoneyMatches, Exists
    <3> QED BY <3>2, <3>3, <3>4, <3>5 DEF FundingInv
  <2>2. ASSUME NEW w \in Workers, Runs(w) PROVE TypeOK' /\ FundingInv'
    <3>1. env' \in Environments /\ pc' \in [Workers -> {"idle", "write", "done"}] /\ answer' \in [Workers -> Answers]
      BY <2>2, WorkerStep DEF TypeOK
    <3>2. RepoTypeOK' /\ ext' \in [Refs -> Payments \cup {"none"}] /\ credited' \in [Payments -> Nat]
      <4>1. CASE UNCHANGED <<balance, dailySpend, rows, ext, credited>>
        BY <4>1 DEF TypeOK, RepoTypeOK
      <4>2. CASE Commits(w)
        BY <4>2, CommitFacts
      <4> QED BY <2>2, <4>1, <4>2, WorkerStep
    <3>3. /\ RowsMatch' /\ ExtMatch' /\ MoneyMatches'
          /\ \A r \in Refs : rows[r] # NoRow => rows'[r] # NoRow
      <4>1. CASE UNCHANGED <<balance, dailySpend, rows, ext, credited>>
        BY <4>1 DEF FundingInv, RowsMatch, ExtMatch, MoneyMatches, Exists
      <4>2. CASE Commits(w)
        BY <4>2, CommitKeeps
      <4> QED BY <2>2, <4>1, <4>2, WorkerStep
    <3>4. WritesMatch'
      <4> SUFFICES ASSUME NEW d \in Deliveries, pc'[d] = "write"
                   PROVE  /\ FundingOf[d] \in Fundings /\ rows'[FundingOf[d]] # NoRow
                          /\ AmountKobo(d) = AmountOf[FundingOf[d]]
        BY DEF WritesMatch, AmountKobo, Exists
      <4>1. FundingOf[d] \in Refs /\ FundingOf[d] \notin Calls /\ d \in Workers
        BY DeliveryFacts
      <4>2. CASE d = w
        <5>1. rows[FundingOf[d]] # NoRow /\ rows[FundingOf[d]].amount = AmountKobo(d) /\ rows' = rows
          BY <2>2, <4>2, WorkerStep DEF Exists
        <5> QED BY <4>1, <5>1 DEF FundingInv, RowsMatch, Exists
      <4>3. CASE d # w
        <5>1. pc[d] = "write"
          BY <2>2, <4>1, <4>3, WorkerStep DEF TypeOK
        <5> QED BY <3>3, <4>1, <5>1 DEF FundingInv, WritesMatch, Exists
      <4> QED BY <4>2, <4>3
    <3> QED BY <3>1, <3>2, <3>3, <3>4 DEF TypeOK, FundingInv
  <2>3. CASE UNCHANGED vars
    BY <2>3 DEF vars, TypeOK, RepoTypeOK, FundingInv, RowsMatch, WritesMatch, ExtMatch, MoneyMatches,
           AmountKobo, Exists
  <2> QED BY <2>1, <2>2, <2>3, NextRuns
<1> QED BY <1>1, <1>2, PTL DEF Spec

\* Money and books move together: whatever fails and however deliveries and calls
\* race, a payment has been credited exactly when one successful row carries it.
THEOREM CreditsBooked == Spec => []CreditedIffBooked
<1>1. TypeOK /\ FundingInv => CreditedIffBooked
  <2> SUFFICES ASSUME TypeOK, FundingInv PROVE CreditedIffBooked
    OBVIOUS
  <2>1. "none" \notin Payments
    BY FundingAssumption
  <2> QED BY <2>1 DEF FundingInv, ExtMatch, MoneyMatches, CreditedIffBooked
<1> QED BY <1>1, BooksKept, PTL

-------------------------------------------------------------------------------
\* A committed transaction credits a payment that was not credited before, as long
\* as deliveries wait for each other.
LEMMA CommitInTurn ==
  ASSUME TypeOK, FundingInv, InTurn, ~env.overlap, NEW w \in Workers, Commits(w)
  PROVE  credited'[PaymentOf[w]] = AmountOf[BookedOn(w)]
<1> DEFINE x == PaymentOf[w]
           ref == BookedOn(w)
<1>1. /\ ref \in Refs /\ x \in Payments /\ x # "none" /\ ext[ref] \in {"none", x}
      /\ \A r \in Refs : r # ref => ext[r] # x
  BY CommitFacts
<1>2. credited'[x] = credited[x] + AmountOf[ref] /\ credited[x] \in Nat /\ AmountOf[ref] \in Nat
  BY CommitFacts
<1>3. ext[ref] = "none"
  <2>1. CASE w \in Deliveries /\ pc[w] = "write"
    <3>1. rows[ref].status = "pending"
      BY <2>1 DEF InTurn, BookedOn
    <3> HIDE DEF ref
    <3> QED BY <1>1, <3>1 DEF FundingInv, ExtMatch
  <2>2. CASE w \in Calls /\ CommitCredit(w)
    BY <2>2, CreditFacts, CallFacts DEF BookedOn
  <2> QED BY <2>1, <2>2 DEF Commits
<1> HIDE DEF x, ref
<1>4. credited[x] = 0
  <2>1. ~(credited[x] > 0)
    BY <1>1, <1>3 DEF FundingInv, MoneyMatches
  <2> QED BY <1>2, <2>1
<1>5. credited'[x] = AmountOf[ref]
  BY <1>2, <1>4
<1> QED BY <1>5 DEF x, ref

\* No payment is credited twice by deliveries that wait for the answer of an
\* earlier one, however calls of FundWallet race with them and whatever fails.
THEOREM CreditsOnce == Spec => []CreditedAtMostOnce
<1>1. Init => InTurn
  BY DeliveryFacts DEF Init, InTurn
<1>2. TypeOK /\ FundingInv /\ InTurn /\ [Next]_vars => InTurn'
  <2> SUFFICES ASSUME TypeOK, FundingInv, InTurn, [Next]_vars PROVE InTurn'
    OBVIOUS
  <2>1. ASSUME NEW f \in Fundings, InitializeFunding(f) PROVE InTurn'
    <3>1. \A d \in Deliveries : pc[d] = "write" => rows'[FundingOf[d]] = rows[FundingOf[d]]
      BY <2>1, CheckoutStep, DeliveryFacts DEF FundingInv, WritesMatch, Exists
    <3> QED BY <2>1, <3>1, CheckoutStep DEF InTurn
  <2>2. ASSUME NEW w \in Workers, Runs(w) PROVE InTurn'
    <3> SUFFICES ASSUME ~env.overlap
                 PROVE  /\ \A d \in Deliveries : pc'[d] = "write" =>
                             /\ rows'[FundingOf[d]].status = "pending"
                             /\ \A e \in Deliveries : FundingOf[e] = FundingOf[d] /\ pc'[e] = "write" => e = d
                        /\ \A ref \in Refs : ext'[ref] # "none" => credited'[ext'[ref]] = AmountOf[ref]
      BY <2>2, WorkerStep DEF InTurn
    <3>1. \A d \in Deliveries : d # w => pc'[d] = pc[d]
      BY <2>2, WorkerStep, DeliveryFacts DEF TypeOK
    <3>2. CASE Commits(w) /\ pc'[w] = "done"
      <4> DEFINE x == PaymentOf[w]
                 ref == BookedOn(w)
      <4>1. /\ ref \in Refs /\ x \in Payments
            /\ \A r \in Refs : r # ref => rows'[r] = rows[r] /\ ext'[r] = ext[r] /\ ext[r] # x
            /\ ext'[ref] = x
            /\ \A y \in Payments : y # x => credited'[y] = credited[y]
        BY <3>2, CommitFacts
      <4>2. credited'[x] = AmountOf[ref]
        BY <3>2, CommitInTurn
      <4>3. ASSUME NEW d \in Deliveries, pc'[d] = "write"
            PROVE  pc[d] = "write" /\ FundingOf[d] # ref /\ FundingOf[d] \in Refs
        <5>1. d # w /\ pc[d] = "write" /\ FundingOf[d] \in Refs /\ FundingOf[d] \notin Calls
          BY <3>1, <3>2, <4>3, DeliveryFacts
        <5>2. CASE w \in Deliveries
          <6>1. pc[w] = "write"
            BY <3>2 DEF Commits
          <6>2. FundingOf[d] # FundingOf[w]
            BY <5>1, <5>2, <6>1 DEF InTurn
          <6> QED BY <5>1, <5>2, <6>2 DEF BookedOn
        <5>3. CASE w \in Calls
          BY <5>1, <5>3, CallFacts DEF BookedOn
        <5> QED BY <5>2, <5>3 DEF Workers
      <4> HIDE DEF x, ref
      <4>4. ASSUME NEW d \in Deliveries, pc'[d] = "write"
            PROVE  /\ rows'[FundingOf[d]].status = "pending"
                   /\ \A e \in Deliveries : FundingOf[e] = FundingOf[d] /\ pc'[e] = "write" => e = d
        <5>1. rows'[FundingOf[d]] = rows[FundingOf[d]]
          BY <4>1, <4>3, <4>4
        <5> QED BY <4>3, <4>4, <5>1 DEF InTurn
      <4>5. ASSUME NEW r \in Refs, ext'[r] # "none" PROVE credited'[ext'[r]] = AmountOf[r]
        <5>1. CASE r = ref
          BY <4>1, <4>2, <5>1
        <5>2. CASE r # ref
          <6>1. ext'[r] = ext[r] /\ ext[r] # x
            BY <4>1, <5>2
          <6>2. ext[r] \in Payments
            BY <4>5, <6>1 DEF TypeOK
          <6> QED BY <4>1, <4>5, <6>1, <6>2 DEF InTurn
        <5> QED BY <5>1, <5>2
      <4> QED BY <4>4, <4>5
    <3>3. CASE UNCHANGED <<balance, dailySpend, rows, ext, credited>>
      <4>1. ASSUME NEW d \in Deliveries, pc'[d] = "write", pc[d] = "write" PROVE rows[FundingOf[d]].status = "pending"
        BY <4>1 DEF InTurn
      <4>2. ASSUME w \in Deliveries, pc'[w] = "write"
            PROVE  /\ rows[FundingOf[w]].status = "pending"
                   /\ \A e \in Deliveries : FundingOf[e] = FundingOf[w] => pc[e] # "write"
        BY <2>2, <4>2, WorkerStep DEF Arrives
      <4>3. ASSUME NEW d \in Deliveries, pc'[d] = "write", NEW e \in Deliveries, pc'[e] = "write",
                   FundingOf[e] = FundingOf[d]
            PROVE  e = d
        BY <3>1, <4>2, <4>3 DEF InTurn
      <4> QED BY <3>1, <3>3, <4>1, <4>2, <4>3 DEF InTurn
    <3> QED BY <2>2, <3>2, <3>3, WorkerStep
  <2>3. CASE UNCHANGED vars
    BY <2>3 DEF vars, InTurn
  <2> QED BY <2>1, <2>2, <2>3, NextRuns
<1>3. TypeOK /\ FundingInv /\ InTurn => CreditedAtMostOnce
  <2> SUFFICES ASSUME TypeOK, FundingInv, InTurn, ~env.overlap, NEW x \in Payments, credited[x] # 0
               PROVE  \E r \in Refs : ext[r] = x /\ credited[x] = AmountOf[r]
    BY DEF CreditedAtMostOnce, CreditedOnce
  <2>1. credited[x] > 0 /\ x # "none"
    BY FundingAssumption DEF TypeOK
  <2> QED BY <2>1 DEF FundingInv, MoneyMatches, InTurn
<1> QED BY <1>1, <1>2, <1>3, BooksKept, PTL DEF Spec

===============================================================================
