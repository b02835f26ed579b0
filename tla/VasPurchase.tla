------------------------------ MODULE VasPurchase ------------------------------
(***************************************************************************)
(* A bill purchase (airtime, data, electricity, betting): executeVAS of    *)
(* internal/services/utilities/utility_service.go, and the reconciliation  *)
(* engine it calls, internal/services/reconciliation/engine.go.            *)
(*                                                                         *)
(* Every request runs on a goroutine of its own, so requests interleave at *)
(* every database statement and provider call.  A request is a sequence of *)
(* such calls; pc[r] names the next one.  The calls of the repository are  *)
(* those of WalletRepo.                                                    *)
(***************************************************************************)
EXTENDS WalletRepo, FiniteSetsExt

CONSTANTS Requests,     \* HTTP requests, a client's retries included
          UserOf,       \* the authenticated user of a request
          AmountOf,     \* its amount in kobo; only a betting top-up may be negative
          RefOf,        \* vasReference(userID, clientReference)
          Idempotent,   \* whether the client sent a client_reference
          FallbackRef,  \* reference -> reference + "_FB"
          ReversalRef,  \* reference -> "REV_" + reference
          HasFallback,  \* whether a second bill provider is configured
          Faults        \* which faults may happen

\* References of the debit rows the engine can write.
ClientRefs == {RefOf[r] : r \in Requests}
DebitRefs  == ClientRefs \cup {FallbackRef[c] : c \in ClientRefs}

\* A generated reference is new; the two derived references are injective, and
\* no debit reference starts with "REV_" (vasReference starts them with "FB-").
ASSUME RequestAssumption ==
  /\ Requests \subseteq RowIds
  /\ UserOf \in [Requests -> Users]
  /\ AmountOf \in [Requests -> Int \ {0}]
  /\ RefOf \in [Requests -> Refs]
  /\ Idempotent \in [Requests -> BOOLEAN]
  /\ HasFallback \in BOOLEAN
  /\ Faults \subseteq {"db", "disconnect", "crash"}
  /\ \A r, s \in Requests : ~Idempotent[r] /\ RefOf[r] = RefOf[s] => r = s

ASSUME ReferenceAssumption ==
  /\ FallbackRef \in [Refs -> Refs]
  /\ ReversalRef \in [Refs -> Refs]
  /\ \A c, d \in ClientRefs : FallbackRef[c] = FallbackRef[d] => c = d
  /\ \A c \in ClientRefs : FallbackRef[c] # c
  /\ \A c, d \in DebitRefs : ReversalRef[c] = ReversalRef[d] => c = d
  /\ \A c, d \in DebitRefs : ReversalRef[c] # d

\* A reference is a VARCHAR(100) and a request has a UUID for its row.
ASSUME FiniteAssumption == IsFiniteSet(Refs) /\ IsFiniteSet(Requests)

\* normalizeReference keeps '_', so a client reference may equal the fallback
\* reference of another one.  This says that no two requests do that.
NoCollision == \A r, s \in Requests : RefOf[r] # FallbackRef[RefOf[s]]

VARIABLES pc,        \* the next call of each request
          result,    \* what the handler answered
          live,      \* FALSE once the request's context is cancelled
          accepted,  \* the bill providers that accepted the request's purchase
          held       \* kobo taken from the wallet for the request, less what was given back

vars == <<balance, dailySpend, rows, pc, result, live, accepted, held>>

Labels == {"lookup", "wallet", "debit", "insert", "compensate", "refind",
           "primary", "confirm", "settle", "reverse",
           "redebit", "insertFb", "fallback", "settleFb", "reverseFb",
           "done", "crashed"}

Ended == {"done", "crashed"}

\* The four error returns of ExecuteWithFallback, after each of which executeVAS
\* sends the refund SMS.
EngineErrors == {"reversalFailed", "refunded", "redebitFailed", "refundedAll"}

Results == {"none", "existing", "error", "success"} \cup EngineErrors

TypeOK ==
  /\ RepoTypeOK
  /\ pc \in [Requests -> Labels]
  /\ result \in [Requests -> Results]
  /\ live \in [Requests -> BOOLEAN]
  /\ accepted \in [Requests -> SUBSET {"primary", "fallback"}]
  /\ held \in [Requests -> Int]

Init ==
  /\ RepoInit
  /\ pc = [r \in Requests |-> IF Idempotent[r] THEN "lookup" ELSE "wallet"]
  /\ result = [r \in Requests |-> "none"]
  /\ live = [r \in Requests |-> TRUE]
  /\ accepted = [r \in Requests |-> {}]
  /\ held = [r \in Requests |-> 0]

-------------------------------------------------------------------------------
(* How a call can end.  Every call carries the request's context: once it is  *)
(* cancelled no statement is sent any more.  A failing database either        *)
(* refuses the statement or commits it and loses the answer.                  *)

Succeeds(r) == live[r]
Fails(r) == "db" \in Faults \/ ~live[r]
AckLost(r) == "db" \in Faults /\ live[r]

Goto(r, label) == pc' = [pc EXCEPT ![r] = label] /\ UNCHANGED result

Answer(r, res) ==
  /\ pc' = [pc EXCEPT ![r] = "done"]
  /\ result' = [result EXCEPT ![r] = res]

\* The wallet is debited, or credited, on behalf of r.
Take(r) ==
  /\ DebitWithLock(UserOf[r], AmountOf[r])
  /\ held' = [held EXCEPT ![r] = @ + AmountOf[r]]

GiveBack(r) ==
  /\ CreditBalance(UserOf[r], AmountOf[r])
  /\ held' = [held EXCEPT ![r] = @ - AmountOf[r]]

\* Mutant: a status the tx_status enum does not have.
Bug_DebitRow(r) ==
  [id |-> r, user |-> UserOf[r], type |-> "debit", amount |-> AmountOf[r], status |-> "initiated"]

DebitRow(r) ==
  [id |-> r, user |-> UserOf[r], type |-> "debit", amount |-> AmountOf[r], status |-> "processing"]

wallets == <<balance, dailySpend, held>>
control == <<live, accepted>>

-------------------------------------------------------------------------------
(* executeVAS up to the call of the engine.                                   *)

Lookup(r) ==
  /\ pc[r] = "lookup"
  /\ \/ Succeeds(r) /\ FoundFor(UserOf[r], RefOf[r]) /\ Answer(r, "existing")
     \/ Succeeds(r) /\ ~FoundFor(UserOf[r], RefOf[r]) /\ Goto(r, "wallet")
     \/ Fails(r) /\ Answer(r, "error")
  /\ UNCHANGED <<wallets, rows, control>>

\* FindByUserID: the balance it returns only fills balance_before/after.
FindWallet(r) ==
  /\ pc[r] = "wallet"
  /\ \/ Succeeds(r) /\ Goto(r, "debit")
     \/ Fails(r) /\ Answer(r, "error")
  /\ UNCHANGED <<wallets, rows, control>>

Debit(r) ==
  /\ pc[r] = "debit"
  /\ \/ Succeeds(r) /\ Take(r) /\ Goto(r, "insert")
     \/ AckLost(r) /\ Take(r) /\ Answer(r, "error")
     \/ Fails(r) /\ Answer(r, "error") /\ UNCHANGED wallets
     \/ /\ Succeeds(r) /\ ~CanDebit(UserOf[r], AmountOf[r])
        /\ Answer(r, "error") /\ UNCHANGED wallets
  /\ UNCHANGED <<rows, control>>

\* Mutant: a failed insert is ignored and the purchase goes on.
Bug_Insert(r) ==
  /\ pc[r] = "insert"
  /\ \/ Succeeds(r) /\ InsertTransaction(RefOf[r], DebitRow(r)) /\ Goto(r, "primary")
     \/ /\ Fails(r) \/ ~CanInsert(RefOf[r], AmountOf[r])
        /\ Goto(r, "primary") /\ UNCHANGED rows
  /\ UNCHANGED <<wallets, control>>

Insert(r) ==
  /\ pc[r] = "insert"
  /\ \/ Succeeds(r) /\ InsertTransaction(RefOf[r], DebitRow(r)) /\ Goto(r, "primary")
     \/ AckLost(r) /\ InsertTransaction(RefOf[r], DebitRow(r)) /\ Goto(r, "compensate")
     \/ Fails(r) /\ Goto(r, "compensate") /\ UNCHANGED rows
     \/ Succeeds(r) /\ ~CanInsert(RefOf[r], AmountOf[r]) /\ Goto(r, "compensate") /\ UNCHANGED rows
  /\ UNCHANGED <<wallets, control>>

\* Mutant: a request that lost the insert race keeps the money.
Bug_Compensate(r) ==
  /\ pc[r] = "compensate"
  /\ IF Idempotent[r] THEN Goto(r, "refind") ELSE Answer(r, "error")
  /\ UNCHANGED <<wallets, rows, control>>

\* The error of the compensating CreditBalance is dropped, so success and a
\* lost acknowledgement are the same here, and so are a failure and a refusal.
Compensate(r) ==
  /\ pc[r] = "compensate"
  /\ \/ Succeeds(r) /\ GiveBack(r)
     \/ (Fails(r) \/ ~CanCredit(UserOf[r], AmountOf[r])) /\ UNCHANGED wallets
  /\ IF Idempotent[r] THEN Goto(r, "refind") ELSE Answer(r, "error")
  /\ UNCHANGED <<rows, control>>

Refind(r) ==
  /\ pc[r] = "refind"
  /\ \/ Succeeds(r) /\ FoundFor(UserOf[r], RefOf[r]) /\ Answer(r, "existing")
     \/ Succeeds(r) /\ ~FoundFor(UserOf[r], RefOf[r]) /\ Answer(r, "error")
     \/ Fails(r) /\ Answer(r, "error")
  /\ UNCHANGED <<wallets, rows, control>>

-------------------------------------------------------------------------------
(* The providers, seen from the client: a purchase is accepted and answered,  *)
(* accepted with the answer lost, or refused.                                 *)

Accept(r, provider) == accepted' = [accepted EXCEPT ![r] = @ \cup {provider}]

Primary(r) ==
  /\ pc[r] = "primary"
  /\ \/ live[r] /\ Accept(r, "primary") /\ Goto(r, "confirm")
     \/ live[r] /\ Accept(r, "primary") /\ Goto(r, "reverse")
     \/ UNCHANGED accepted /\ Goto(r, "reverse")
  /\ UNCHANGED <<wallets, rows, live>>

\* Mutant: the poll has no deadline.
Bug_Confirm(r) ==
  /\ pc[r] = "confirm"
  /\ live[r] /\ Goto(r, "settle")
  /\ UNCHANGED <<wallets, rows, control>>

\* The provider may answer that r was delivered, to a context that is not cancelled;
\* "pending" and errors are all the same to the poll.
CheckBillStatus(r) == live[r]

\* confirmProviderDelivery polls until the provider reports success or the
\* engine's deadline, or the client's context, ends the poll.
Confirm(r) ==
  /\ pc[r] = "confirm"
  /\ \/ CheckBillStatus(r) /\ Goto(r, "settle")
     \/ Goto(r, "reverse")
  /\ UNCHANGED <<wallets, rows, control>>

-------------------------------------------------------------------------------
(* ExecuteWithFallback after the primary call.                                *)

\* Mutant: the status is never written.
Bug_Settle(r) ==
  /\ pc[r] = "settle"
  /\ Answer(r, "success")
  /\ UNCHANGED <<wallets, rows, control>>

\* The error of UpdateTransactionStatus is dropped.
Settle(r) ==
  /\ pc[r] = "settle"
  /\ \/ Succeeds(r) /\ UpdateTransactionStatus(RefOf[r], "success")
     \/ Fails(r) /\ UNCHANGED rows
  /\ Answer(r, "success")
  /\ UNCHANGED <<wallets, control>>

\* reverseDebit of the row ref that r inserted, when it commits.
Reversed(r, ref) ==
  \/ ReversalExists(UserOf[r], ref, ReversalRef[ref]) /\ UNCHANGED held
  \/ /\ ReversalCreated(r, UserOf[r], ref, ReversalRef[ref], AmountOf[r])
     /\ held' = [held EXCEPT ![r] = @ - AmountOf[r]]

\* Whether it can commit at all: a new reversal needs the original row.
CanReverse(r, ref) ==
  \/ FoundFor(UserOf[r], ReversalRef[ref])
  \/ CanInsert(ReversalRef[ref], AmountOf[r]) /\ Exists(ref) /\ rows[ref].id = r

AfterReversal(r) == IF HasFallback THEN Goto(r, "redebit") ELSE Answer(r, "refunded")

\* Mutant: the engine goes on to the fallback when the reversal failed.
Bug_Reverse(r) ==
  /\ pc[r] = "reverse"
  /\ \/ Succeeds(r) /\ Reversed(r, RefOf[r]) /\ AfterReversal(r)
     \/ Fails(r) /\ AfterReversal(r) /\ UNCHANGED <<wallets, rows>>
  /\ UNCHANGED control

Reverse(r) ==
  /\ pc[r] = "reverse"
  /\ \/ Succeeds(r) /\ Reversed(r, RefOf[r]) /\ AfterReversal(r)
     \/ AckLost(r) /\ Reversed(r, RefOf[r]) /\ Answer(r, "reversalFailed")
     \/ /\ Fails(r) \/ ~CanReverse(r, RefOf[r])
        /\ Answer(r, "reversalFailed") /\ UNCHANGED <<wallets, rows>>
  /\ UNCHANGED control

Redebit(r) ==
  /\ pc[r] = "redebit"
  /\ \/ Succeeds(r) /\ Take(r) /\ Goto(r, "insertFb")
     \/ AckLost(r) /\ Take(r) /\ Answer(r, "redebitFailed")
     \/ Fails(r) /\ Answer(r, "redebitFailed") /\ UNCHANGED wallets
     \/ /\ Succeeds(r) /\ ~CanDebit(UserOf[r], AmountOf[r])
        /\ Answer(r, "redebitFailed") /\ UNCHANGED wallets
  /\ UNCHANGED <<rows, control>>

\* Mutant: the second debit is not booked.
Bug_InsertFallback(r) ==
  /\ pc[r] = "insertFb"
  /\ Goto(r, "fallback")
  /\ UNCHANGED <<wallets, rows, control>>

\* The error of this insert is dropped.
InsertFallback(r) ==
  /\ pc[r] = "insertFb"
  /\ \/ Succeeds(r) /\ InsertTransaction(FallbackRef[RefOf[r]], DebitRow(r))
     \/ (Fails(r) \/ ~CanInsert(FallbackRef[RefOf[r]], AmountOf[r])) /\ UNCHANGED rows
  /\ Goto(r, "fallback")
  /\ UNCHANGED <<wallets, control>>

\* The fallback's status check never turns an accepted purchase into an error.
Fallback(r) ==
  /\ pc[r] = "fallback"
  /\ \/ live[r] /\ Accept(r, "fallback") /\ Goto(r, "settleFb")
     \/ live[r] /\ Accept(r, "fallback") /\ Goto(r, "reverseFb")
     \/ UNCHANGED accepted /\ Goto(r, "reverseFb")
  /\ UNCHANGED <<wallets, rows, live>>

\* Mutant: the original reference is marked successful, not the fallback's.
Bug_SettleFallback(r) ==
  /\ pc[r] = "settleFb"
  /\ Succeeds(r) /\ UpdateTransactionStatus(RefOf[r], "success")
  /\ Answer(r, "success")
  /\ UNCHANGED <<wallets, control>>

SettleFallback(r) ==
  /\ pc[r] = "settleFb"
  /\ \/ Succeeds(r) /\ UpdateTransactionStatus(FallbackRef[RefOf[r]], "success")
     \/ Fails(r) /\ UNCHANGED rows
  /\ Answer(r, "success")
  /\ UNCHANGED <<wallets, control>>

\* The error of this reversal is dropped too.
ReverseFallback(r) ==
  LET ref == FallbackRef[RefOf[r]] IN
  /\ pc[r] = "reverseFb"
  /\ \/ Succeeds(r) /\ Reversed(r, ref)
     \/ (Fails(r) \/ ~CanReverse(r, ref)) /\ UNCHANGED <<wallets, rows>>
  /\ Answer(r, "refundedAll")
  /\ UNCHANGED control

-------------------------------------------------------------------------------
(* The environment.                                                           *)

\* The client hangs up: the HTTP server cancels the request's context.
Disconnect(r) ==
  /\ "disconnect" \in Faults
  /\ pc[r] \notin Ended /\ live[r]
  /\ live' = [live EXCEPT ![r] = FALSE]
  /\ UNCHANGED <<wallets, rows, pc, result, accepted>>

\* The instance that serves the request dies.
Crash(r) ==
  /\ "crash" \in Faults
  /\ pc[r] \notin Ended
  /\ pc' = [pc EXCEPT ![r] = "crashed"]
  /\ UNCHANGED <<wallets, rows, control, result>>

Midnight ==
  /\ ResetDailySpend
  /\ UNCHANGED <<pc, result, live, accepted, held>>

ExecuteVAS(r) ==
  \/ Lookup(r) \/ FindWallet(r) \/ Debit(r) \/ Insert(r) \/ Compensate(r) \/ Refind(r)
  \/ Primary(r) \/ Confirm(r) \/ Settle(r) \/ Reverse(r)
  \/ Redebit(r) \/ InsertFallback(r) \/ Fallback(r) \/ SettleFallback(r) \/ ReverseFallback(r)

Next ==
  \/ \E r \in Requests : ExecuteVAS(r) \/ Disconnect(r) \/ Crash(r)
  \/ Midnight

Spec == Init /\ [][Next]_vars

\* A goroutine that is not dead keeps running: the Go scheduler is fair, every
\* provider call has a deadline and every statement returns.
FairSpec == Spec /\ \A r \in Requests : WF_vars(ExecuteVAS(r))

-------------------------------------------------------------------------------
(* What the code is meant to guarantee.                                       *)

\* However the debits of concurrent requests interleave, no wallet is
\* overdrawn and no user exceeds the daily limit (DebitWithLock).
WithinFunds ==
  \A u \in Users : balance[u] >= 0 /\ dailySpend[u] <= DailyLimit[u]

\* A request never holds anything but nothing or its amount, whatever fails: no
\* double charge by the fallback, no double refund.  A success was paid for and
\* the answer "your wallet has been refunded" is true (executeVAS,
\* ExecuteWithFallback).
AnswerMatchesCharge ==
  \A r \in Requests :
    /\ held[r] \in {0, AmountOf[r]}
    /\ result[r] = "success" => held[r] = AmountOf[r]
    /\ result[r] = "refunded" => held[r] = 0

\* Retries and concurrent duplicates of one client reference reach a bill provider at
\* most once (the lookup and the unique index of executeVAS).  RefOf is the reference
\* after normalizeReference, which makes up a new one for a reference without a letter
\* or digit: retries of such a reference are different references here as well.
OnePurchasePerReference ==
  \A r, s \in Requests :
    r # s /\ RefOf[r] = RefOf[s] => accepted[r] = {} \/ accepted[s] = {}

\* A debit row is marked reversed exactly when its reversal row is stored
\* (ReverseDebitIfNeeded commits the two together and nothing undoes either).
ReversedIffReversalRow ==
  \A d \in DebitRefs : rows[d].status = "reversed" <=> Exists(ReversalRef[d])

\* A settled row stays settled: no step of any request turns a successful
\* debit into a reversed one, or back.
SettledIsFinal ==
  [][\A d \in DebitRefs :
       rows[d].status \in {"success", "reversed"} => rows'[d].status = rows[d].status]_vars

\* Every request is answered unless its instance dies: no step waits for
\* another request and the confirmation poll has a deadline.
EveryRequestEnds == \A r \in Requests : <>(pc[r] \in Ended)

\* Without faults every debit row, the first one of a purchase and the one of its
\* fallback, ends up successful or reversed and stays so (ExecuteWithFallback).
EveryDebitSettles ==
  \A d \in DebitRefs : [](Exists(d) => <>[](rows[d].status \in {"success", "reversed"}))

\* Without faults two answered requests with one client reference are charged
\* at most once between them (the compensating credit of a lost insert race).
OneChargePerReference ==
  \A r, s \in Requests :
    r # s /\ RefOf[r] = RefOf[s] /\ pc[r] = "done" /\ pc[s] = "done"
      => held[r] <= 0 \/ held[s] <= 0

\* What the transactions table says each reference did to u's wallet.
Booked(u) ==
  [ref \in Refs |->
     IF ~FoundFor(u, ref) THEN 0
     ELSE IF rows[ref].type = "debit" THEN -rows[ref].amount ELSE rows[ref].amount]

\* What each request has taken from u's wallet without a row for it: for the moment
\* between the debit and its row, and for good when the amount is negative, since no
\* such row can be stored and the compensating credit may be refused.
Unbooked(u) ==
  [r \in Requests |->
     IF UserOf[r] # u THEN 0
     ELSE IF AmountOf[r] < 0 THEN held[r]
     ELSE IF pc[r] \in {"insert", "compensate", "insertFb"} THEN AmountOf[r] ELSE 0]

\* Without faults every kobo of the wallet is accounted for, whatever the signs of the
\* amounts: by the debits less the reversals of the transactions table, by the debits
\* just about to be booked, and by what negative top-ups have put in (executeVAS and
\* ExecuteWithFallback write the wallet and the table in separate statements).
LedgerExplainsBalance ==
  \A u \in Users :
    balance[u] = InitBalance[u] + SumFunction(Booked(u)) - SumFunction(Unbooked(u))

\* The wallet promise that the purchase implements.
Closed == [r \in Requests |-> pc[r] \in Ended]
Saga == INSTANCE PaymentSaga WITH Payments <- Requests, closed <- Closed
SagaSpec == Saga!SagaSpec

-------------------------------------------------------------------------------
(* The inductive invariants behind the theorems of VasPurchaseProofs.         *)

\* Inside ExecuteWithFallback, and inside it before the reversal commits.
BeforeReversal == {"primary", "confirm", "settle", "reverse"}
AfterRedebit == {"insertFb", "fallback", "settleFb", "reverseFb"}
EngineLabels == BeforeReversal \cup {"redebit"} \cup AfterRedebit

\* The row stored under r's reference is the one r inserted.
Owns(r) == Exists(RefOf[r]) /\ rows[RefOf[r]].id = r

\* A reversal row implies its debit row; the request that runs the engine for a
\* reference is the one that inserted its row, and no other request reverses it;
\* no bill provider is called without such a row.
RowInv ==
  /\ \A d \in DebitRefs : Exists(ReversalRef[d]) => Exists(d)
  /\ \A r \in Requests :
       /\ pc[r] \in EngineLabels => Owns(r)
       /\ pc[r] \in BeforeReversal => ~Exists(ReversalRef[RefOf[r]])
       /\ accepted[r] # {} => Owns(r)

\* Without colliding references: the engine runs with its debit row unsettled,
\* and its fallback row belongs to it alone.
SettleInv ==
  /\ ReversedIffReversalRow
  /\ \A c \in ClientRefs : Exists(FallbackRef[c]) => Exists(c)
  /\ \A r \in Requests :
       /\ pc[r] \in BeforeReversal => rows[RefOf[r]].status = "processing"
       /\ pc[r] \in BeforeReversal \cup {"redebit", "insertFb"} => ~Exists(FallbackRef[RefOf[r]])
       /\ pc[r] \in AfterRedebit => rows[FallbackRef[RefOf[r]]].status \in {"absent", "processing"}

-------------------------------------------------------------------------------
(* What the repository says of the code and a run refutes.                    *)

\* "payment failed on all aggregators - wallet refunded" (engine.go:110).
RefundClaimIsTrue ==
  \A r \in Requests : result[r] \in {"refunded", "refundedAll"} => held[r] = 0
===============================================================================
