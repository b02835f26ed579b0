----------------------------- MODULE WalletFunding -----------------------------
(***************************************************************************)
(* Money coming in: InitializeFunding, ProcessFundingWebhook and           *)
(* FundWallet of internal/services/wallet/wallet_service.go, and the       *)
(* webhook handlers that call the second one                               *)
(* (internal/handlers/webhooks/webhook_handler.go).                        *)
(*                                                                         *)
(* A checkout is initialised as a pending credit row.  When the user has   *)
(* paid, the gateway delivers an event, possibly several times and with    *)
(* deliveries in flight at the same time.  Each delivery runs one READ     *)
(* COMMITTED transaction: a plain read of the row, then, under the lock    *)
(* that UPDATE takes on the wallet row and keeps, the writes and the       *)
(* commit.  The writes are therefore one step and the read is another.     *)
(***************************************************************************)
EXTENDS WalletRepo

CONSTANTS Fundings,    \* initialised checkouts; also their references
          Deliveries,  \* webhook requests of the payment gateways
          Calls,       \* POST /wallet/fund requests; also the reference each generates
          OwnerOf,     \* user of a checkout or call
          AmountOf,    \* kobo of a checkout or call
          FundingOf,   \* the reference a delivery names
          PaymentOf,   \* gateway payment reference of a delivery or call
          ToKobo,      \* kobo -> int64(naira * 100), naira the nearest float64
          Environments \* whether deliveries of one payment may overlap, and which
                       \* faults may happen: {} or {"db"}

Workers == Deliveries \cup Calls
Payments == {PaymentOf[w] : w \in Workers}

ASSUME FundingAssumption ==
  /\ Fundings \cup Calls \subseteq RowIds
  /\ RowIds = Refs
  /\ Deliveries \cap Calls = {} /\ Fundings \cap Calls = {}
  /\ OwnerOf \in [Fundings \cup Calls -> Users]
  /\ AmountOf \in [Fundings \cup Calls -> Nat \ {0}]
  /\ FundingOf \in [Deliveries -> Refs \ Calls]
  /\ DOMAIN PaymentOf = Workers
  /\ "none" \notin Payments  \* never empty: FundWallet's binding:"required", the gateway's own number
  /\ \A f \in Fundings : ToKobo[AmountOf[f]] \in Nat
  /\ Environments \subseteq [overlap: BOOLEAN, faults: SUBSET {"db"}]
  /\ \A d, e \in Deliveries : FundingOf[d] = FundingOf[e] <=> PaymentOf[d] = PaymentOf[e]

VARIABLES env,       \* the environment of this behaviour
          ext,       \* external_ref of each row, "none" when it is empty
          pc,        \* the next step of each delivery and call
          answer,    \* how it ended
          credited   \* kobo credited to some wallet for each gateway payment

vars == <<env, balance, dailySpend, rows, ext, pc, answer, credited>>

Answers == {"none", "credited", "alreadyDone", "error"}

TypeOK ==
  /\ RepoTypeOK
  /\ env \in Environments
  /\ ext \in [Refs -> Payments \cup {"none"}]
  /\ pc \in [Workers -> {"idle", "write", "done"}]
  /\ answer \in [Workers -> Answers]
  /\ credited \in [Payments -> Nat]

Init ==
  /\ RepoInit
  /\ env \in Environments
  /\ ext = [ref \in Refs |-> "none"]
  /\ pc = [w \in Workers |-> "idle"]
  /\ answer = [w \in Workers |-> "none"]
  /\ credited = [x \in Payments |-> 0]

-------------------------------------------------------------------------------
Failing == "db" \in env.faults

Answer(w, res) ==
  /\ pc' = [pc EXCEPT ![w] = "done"]
  /\ answer' = [answer EXCEPT ![w] = res]

Proceed(w) == pc' = [pc EXCEPT ![w] = "write"] /\ UNCHANGED answer

\* The transaction of w is rolled back (or never began).
Rollback(w) ==
  /\ Answer(w, "error")
  /\ UNCHANGED <<balance, dailySpend, rows, ext, credited>>

CreditRow(ref, status) ==
  [id |-> ref, user |-> OwnerOf[ref], type |-> "credit", amount |-> AmountOf[ref], status |-> status]

\* The partial unique index on external_ref of credit rows.
ExternalRefFree(ref, x) == \A other \in Refs \ {ref} : ext[other] # x

\* The pending placeholder; a lost acknowledgement leaves it behind unpaid.
InitializeFunding(f) ==
  /\ InsertTransaction(f, CreditRow(f, "pending"))
  /\ UNCHANGED <<env, balance, dailySpend, ext, pc, answer, credited>>

-------------------------------------------------------------------------------
(* ProcessFundingWebhook.  Whatever it returns, the handler answers 200 and   *)
(* the gateway does not retry.                                                *)

\* A delivery arrives once the checkout is known to the gateway; without
\* overlap it means that the gateway waits for the answer of an earlier one.
Arrives(d) ==
  /\ FundingOf[d] \in Fundings => Exists(FundingOf[d])
  /\ env.overlap \/ \A e \in Deliveries : FundingOf[e] = FundingOf[d] => pc[e] # "write"

\* Mutant: the amount in naira is taken for kobo.
Bug_AmountKobo(d) == AmountOf[FundingOf[d]] \div 100

\* amountKobo of the handlers: the gateway sends naira as a float.
AmountKobo(d) == ToKobo[AmountOf[FundingOf[d]]]

\* The checks of ProcessFundingWebhook on the row it read without a lock.
ReadTransaction(d) ==
  LET ref == FundingOf[d] IN
  /\ pc[d] = "idle" /\ Arrives(d)
  /\ \/ /\ Exists(ref) /\ rows[ref].status = "pending" /\ rows[ref].amount = AmountKobo(d)
        /\ Proceed(d)
     \/ /\ Exists(ref) /\ rows[ref].status = "pending" /\ rows[ref].amount # AmountKobo(d)
        /\ Answer(d, "error")
     \/ Exists(ref) /\ rows[ref].status = "success" /\ Answer(d, "alreadyDone")
     \/ ~Exists(ref) /\ Answer(d, "error")
     \/ Failing /\ Answer(d, "error")
  /\ UNCHANGED <<env, balance, dailySpend, rows, ext, credited>>

\* CreditBalance, UpdateTransactionBalances, UpdateTransactionStatus, commit.
CommitSettlement(d) ==
  LET ref == FundingOf[d] IN
  /\ ExternalRefFree(ref, PaymentOf[d])
  /\ CreditBalance(rows[ref].user, AmountKobo(d))
  /\ UpdateTransactionStatus(ref, "success")
  /\ ext' = [ext EXCEPT ![ref] = PaymentOf[d]]
  /\ credited' = [credited EXCEPT ![PaymentOf[d]] = @ + AmountKobo(d)]

\* Mutant: the row is left pending.
Bug_SettleFunding(d) ==
  /\ pc[d] = "write"
  /\ CreditBalance(rows[FundingOf[d]].user, AmountKobo(d))
  /\ credited' = [credited EXCEPT ![PaymentOf[d]] = @ + AmountKobo(d)]
  /\ Answer(d, "credited")
  /\ UNCHANGED <<env, rows, ext>>

\* The AwardPoints goroutine it starts earns nothing: the rate of wallet
\* funding is zero (Loyalty).
SettleFunding(d) ==
  /\ pc[d] = "write"
  /\ \/ CommitSettlement(d) /\ Answer(d, "credited")
     \/ Failing /\ CommitSettlement(d) /\ Answer(d, "error")
     \/ (Failing \/ ~ExternalRefFree(FundingOf[d], PaymentOf[d])) /\ Rollback(d)
  /\ UNCHANGED env

-------------------------------------------------------------------------------
(* FundWallet.                                                                *)

FindCreditByExternalRef(x) == \E ref \in Refs : Exists(ref) /\ rows[ref].type = "credit" /\ ext[ref] = x

\* A failed lookup is taken for "not credited yet".
CheckExisting(c) ==
  /\ pc[c] = "idle"
  /\ \/ FindCreditByExternalRef(PaymentOf[c]) /\ Answer(c, "alreadyDone")
     \/ (~FindCreditByExternalRef(PaymentOf[c]) \/ Failing) /\ Proceed(c)
  /\ UNCHANGED <<env, balance, dailySpend, rows, ext, credited>>

\* CreditBalance and InsertTransaction in one database transaction.
CommitCredit(c) ==
  /\ ExternalRefFree(c, PaymentOf[c])
  /\ CreditBalance(OwnerOf[c], AmountOf[c])
  /\ InsertTransaction(c, CreditRow(c, "success"))
  /\ ext' = [ext EXCEPT ![c] = PaymentOf[c]]
  /\ credited' = [credited EXCEPT ![PaymentOf[c]] = @ + AmountOf[c]]

\* Mutant: without WithinTx the credit outlives the refused insert.
Bug_FundWallet(c) ==
  /\ pc[c] = "write"
  /\ \/ CommitCredit(c) /\ Answer(c, "credited")
     \/ /\ Failing \/ ~ExternalRefFree(c, PaymentOf[c])
        /\ CreditBalance(OwnerOf[c], AmountOf[c])
        /\ credited' = [credited EXCEPT ![PaymentOf[c]] = @ + AmountOf[c]]
        /\ Answer(c, "error")
        /\ UNCHANGED <<rows, ext>>
  /\ UNCHANGED env

FundWallet(c) ==
  /\ pc[c] = "write"
  /\ \/ CommitCredit(c) /\ Answer(c, "credited")
     \/ Failing /\ CommitCredit(c) /\ Answer(c, "error")
     \/ (Failing \/ ~ExternalRefFree(c, PaymentOf[c])) /\ Rollback(c)
  /\ UNCHANGED env

-------------------------------------------------------------------------------
ProcessFundingWebhook(d) == ReadTransaction(d) \/ SettleFunding(d)

Next ==
  \/ \E f \in Fundings : InitializeFunding(f)
  \/ \E d \in Deliveries : ProcessFundingWebhook(d)
  \/ \E c \in Calls : CheckExisting(c) \/ FundWallet(c)

Spec == Init /\ [][Next]_vars

\* The gateway keeps delivering until it is answered, and a handler that runs
\* keeps running.
FairSpec == Spec /\ \A d \in Deliveries : WF_vars(ProcessFundingWebhook(d))

-------------------------------------------------------------------------------
(* What the code is meant to guarantee.                                       *)

\* "credit the user's wallet exactly once (idempotent on payment ref)"
\* (webhook_handler.go:5-6), its first half: no payment is credited twice.
CreditedOnce ==
  \A x \in Payments : credited[x] \in {0} \cup {AmountOf[ref] : ref \in {r \in Refs : ext[r] = x}}

\* It holds of redeliveries that wait for the answer of an earlier one, however
\* calls of FundWallet race with them and whatever fails.
CreditedAtMostOnce == ~env.overlap => CreditedOnce

\* Its second half: without faults every delivered payment whose amount survives
\* the conversion to kobo is credited, also when FundWallet comes first.
PaidIsCredited ==
  \A d \in {e \in Deliveries : FundingOf[e] \in Fundings} :
    LET amount == AmountOf[FundingOf[d]] IN
    env.faults = {} /\ Exists(FundingOf[d]) /\ ToKobo[amount] = amount
      ~> credited[PaymentOf[d]] > 0

\* Whatever fails and whoever comes first, money and books move together: a
\* payment has been credited exactly when one successful row carries its
\* reference (WithinTx and the unique index on external_ref).
CreditedIffBooked ==
  /\ TypeOK
  /\ \A x \in Payments :
       /\ credited[x] > 0 <=> \E ref \in Refs : ext[ref] = x /\ rows[ref].status = "success"
       /\ \A r, s \in Refs : ext[r] = x /\ ext[s] = x => r = s
===============================================================================
