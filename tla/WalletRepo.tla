------------------------------ MODULE WalletRepo ------------------------------
(***************************************************************************)
(* The wallets and transactions tables, and the operations of              *)
(* WalletRepository on them (internal/repository/postgres/wallet_repo.go). *)
(* Each operator is the committed effect of one repository call that       *)
(* succeeds; the services decide in which order they are called and what   *)
(* happens when one of them fails.                                         *)
(*                                                                         *)
(* A wallet is a balance and the amount spent today, in kobo.  A           *)
(* transactions row is identified by its unique reference; its id stands   *)
(* for the primary key, and is the request (or payment) that created it.   *)
(***************************************************************************)
EXTENDS Integers

CONSTANTS Users,        \* every user owns one wallet (unique user_id)
          RowIds,       \* primary keys of transactions rows
          Refs,         \* transaction references
          DailyLimit,   \* wallets.daily_limit of each user
          InitBalance   \* balance of each wallet at the start

ASSUME WalletAssumption ==
  /\ DailyLimit \in [Users -> Nat \ {0}]
  /\ InitBalance \in [Users -> Nat]

VARIABLES balance, dailySpend, rows

TxTypes == {"debit", "credit", "reversal"}

Statuses == {"pending", "processing", "success", "failed", "reversed"}

Row == [id: RowIds, user: Users, type: TxTypes, amount: Nat \ {0}, status: Statuses]

\* The value of rows[ref] when no row has that reference.
NoRow == [status |-> "absent"]

RepoTypeOK ==
  /\ balance \in [Users -> Int]
  /\ dailySpend \in [Users -> Nat]
  /\ rows \in [Refs -> Row \cup {NoRow}]

RepoInit ==
  /\ balance = InitBalance
  /\ dailySpend = [u \in Users |-> 0]
  /\ rows = [ref \in Refs |-> NoRow]

Exists(ref) == rows[ref] # NoRow

\* FindTransactionByReference(userID, reference) returns a row.
FoundFor(u, ref) == Exists(ref) /\ rows[ref].user = u

\* Mutant: the daily limit is compared before the amount is added.
Bug_CanDebitLimit(u, amount) == balance[u] >= amount /\ dailySpend[u] < DailyLimit[u]

\* The two refusals of DebitWithLock, evaluated under SELECT ... FOR UPDATE (the first
\* also keeps the UPDATE within CHECK (balance >= 0)), and CHECK (daily_spend >= 0),
\* which only a negative amount meets: DebitWithLock does not look at the sign.
CanDebit(u, amount) ==
  /\ balance[u] >= amount
  /\ dailySpend[u] + amount <= DailyLimit[u]
  /\ dailySpend[u] + amount >= 0

\* The row lock makes check and update one atomic step.
DebitWithLock(u, amount) ==
  /\ CanDebit(u, amount)
  /\ balance' = [balance EXCEPT ![u] = @ - amount]
  /\ dailySpend' = [dailySpend EXCEPT ![u] = @ + amount]


\* CHECK (balance >= 0) refuses to credit a negative amount that is spent already.
CanCredit(u, amount) == balance[u] + amount >= 0

\* A credit does not give back any of the day's allowance.
CreditBalance(u, amount) ==
  /\ CanCredit(u, amount)
  /\ balance' = [balance EXCEPT ![u] = @ + amount]
  /\ UNCHANGED dailySpend

\* The unique index on transactions(reference), and CHECK (amount > 0).
CanInsert(ref, amount) == ~Exists(ref) /\ amount > 0

InsertTransaction(ref, row) ==
  /\ CanInsert(ref, row.amount)
  /\ rows' = [rows EXCEPT ![ref] = row]

\* UPDATE ... WHERE reference = ref: no effect when there is no such row.
WithStatus(table, ref, status) ==
  [table EXCEPT ![ref] = IF @ = NoRow THEN @ ELSE [@ EXCEPT !.status = status]]

UpdateTransactionStatus(ref, status) == rows' = WithStatus(rows, ref, status)

\* ReverseDebitIfNeeded when the reversal row is already there: the original
\* is marked reversed and nothing is credited.
ReversalExists(u, ref, revRef) ==
  /\ FoundFor(u, revRef)
  /\ rows' = WithStatus(rows, ref, "reversed")
  /\ UNCHANGED <<balance, dailySpend>>

\* ReverseDebitIfNeeded when it is not: reversal row, wallet credit and status
\* of the original in one database transaction.  reversed_tx_id is a foreign
\* key, so the insert fails unless the original row itself is stored.
ReversalCreated(id, u, ref, revRef, amount) ==
  /\ ~FoundFor(u, revRef)
  /\ CanInsert(revRef, amount)
  /\ Exists(ref) /\ rows[ref].id = id
  /\ rows' = [WithStatus(rows, ref, "reversed") EXCEPT ![revRef] =
       [id |-> id, user |-> u, type |-> "reversal", amount |-> amount, status |-> "success"]]
  /\ CreditBalance(u, amount)

\* reset_daily_spend(), run by an external scheduler at midnight.
ResetDailySpend ==
  /\ \E u \in Users : dailySpend[u] > 0
  /\ dailySpend' = [u \in Users |-> 0]
  /\ UNCHANGED <<balance, rows>>
===============================================================================
