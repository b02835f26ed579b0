# flip-bills-backend: TLA+ models, checks and proofs

This directory specifies the money-moving core of the Flip Bills backend (Go,
PostgreSQL, Redis): bill purchases, wallet funding, travel bookings,
disruption refunds, loyalty points, accounts and one-time codes, and the rate
limiter. Each module is translated from the source
named in it. TLC checks the modules on small instances; TLAPS proves their safety
properties, all that the runs check, for every value of the constants.
`PROJECT.json` holds the machine-readable part: which definition models which
lines, the runs, the mutants that show each property can fail, the hazards and
the theorems.

Paths below are relative to `src/internal/` unless they start with `src/`.

To run a check: `tlc -workers 2 -config VasFaults.cfg MCVasPurchase` (likewise for
the other runs), and `tlapm VasPurchaseProofs.tla` for the proofs (likewise for the
other `*Proofs` modules).

## 1. The system and its parts

Every HTTP request runs on a goroutine of its own. A service is a straight
sequence of repository statements and provider calls; with few exceptions each
statement is its own database transaction, and every statement carries the
context of the request, which is cancelled when the client hangs up. There is
no job that resumes or repairs anything: what a handler leaves behind when it
dies stays there.

| Part | State it keeps | Operations | Talks to |
|---|---|---|---|
| Wallet repository (`repository/postgres/wallet_repo.go`) | `wallets` (balance, daily_spend, daily_limit), `transactions` (reference unique, status, type) | debit under row lock with limit check, credit, insert, status update, reversal, daily reset | PostgreSQL |
| Bill purchases (`services/utilities`) and reconciliation engine (`services/reconciliation`) | none of their own | executeVAS, ExecuteWithFallback, FundBettingWallet and its risk guard | wallet repository, two bill providers, loyalty, SMS |
| Wallet funding and webhooks (`services/wallet`, `handlers/webhooks`) | pending credit rows, external_ref (unique for credits) | InitializeFunding, ProcessFundingWebhook, FundWallet | payment gateways, wallet repository |
| Travel (`services/travel`) | `bookings`; the operator's holds and tickets; in memory, the Amadeus access token and the offers of earlier searches | SearchFlights, BookBus, BookFlight | bus operators, Amadeus, wallet repository |
| Dispatcher (`services/dispatcher`) | `dispatcher_events`, `passenger_disruptions` | HandleDispatchEvent, RescheduleBooking, RefundBooking | bookings, wallet repository |
| Loyalty (`services/loyalty`) | `loyalty_accounts`, `loyalty_ledger` | AwardPoints (own goroutine), RedeemPoints, GetBalance (creates the account) | wallet repository |
| Accounts and KYC (`services/auth`) | `users`, the wallet's daily limit | Register, GoogleLogin, UpdateProfile, UpgradeKYC | user and wallet repository |
| One-time codes (`repository/postgres/otp_repo.go`) | `otp_tokens` | sendOTP, VerifyPhone | SMS, email |
| Rate limiter (`middleware/ratelimit.go`) | one Redis counter per client | every request | Redis |
| Provider router (`providers/router.go`) | circuit breakers under a mutex; not used: `main.go:159` builds the router and discards it, and nothing calls its methods | Select, RecordSuccess, RecordFailure | nobody (section 8) |
| Ledger and bank transfers, virtual accounts, queue, HTTP handlers, token validation, search cache | see section 8 | | |

What makes this code hard, and what a unit test with mocks hardly reaches:

- requests on one wallet interleave at every statement, retries of the same
  client reference among them;
- a statement may be refused, or commit and lose its answer; the errors of
  compensations and status updates are dropped in many places;
- what a handler does not check, such as the sign of an amount, is left to the
  constraints of the tables, which may refuse one statement of several;
- the client may hang up, or the instance die, between any two statements;
- providers accept a purchase and lose the answer; gateways deliver events
  again, also while the first delivery is being handled;
- several decisions are taken on values read in an earlier statement, or on what
  requests of other users left in the memory of the process.

`PROJECT.json` lists these as hazards, each at its line, with the properties
that would catch it going wrong. Where the code does go wrong, either a run shows
it by the violation of what the code says of itself (section 3), or the hazard
says in its note what the code does and which part of the case its properties leave
out.

## 2. The modules

| Module | Models | State and actions |
|---|---|---|
| `WalletRepo` | wallet repository, the tables and CHECK constraints behind it | `balance`, `dailySpend`, `rows` (by reference, `NoRow` when absent). Operators `DebitWithLock`, `CreditBalance`, `InsertTransaction`, `UpdateTransactionStatus`, `ReversalExists`/`ReversalCreated` (the two ways ReverseDebitIfNeeded commits), `ResetDailySpend`. Extended by the services. |
| `VasPurchase` | executeVAS and ExecuteWithFallback | `pc[r]` is the next call of request r; one action per statement or provider call; `live` is its context, `accepted` the providers that took the purchase, `held` (a history variable) the kobo taken less the kobo given back. |
| `PaymentSaga` | abstract specification | what the wallet promises any payment: charge at most once without release, release exactly what was charged, never overdraw, nothing after it is closed. |
| `WalletFunding` | funding and webhooks | checkouts, deliveries of events and calls of FundWallet; `ext` is external_ref, `credited` what a payment has been credited with in all. |
| `BettingGuard` | FundBettingWallet and enforceBettingRiskGuard | extends `VasPurchase`: `guard[r]` is what the guard decided, and the calls of `VasPurchase` follow once it passed; `scene` says which requests are top-ups and what the week before holds. |
| `AmadeusOperator` | what the requests of a process share of the flight operator | `token` (whether the code trusts it, whether Amadeus accepts it) and `offers` (by the id Amadeus gave them). Operators for the two critical sections of ensureToken and the passage of time. |
| `TravelBooking` | BookBus, BookFlight and SearchFlights | extends `WalletRepo` and `AmadeusOperator`; as VasPurchase, with `seat` at the operator, `stored` in the bookings table, `quote` (the offer priced) and `order` (the offer ordered). Buses hold a seat first and search again; flights are priced first; each call to Amadeus starts with ensureToken. |
| `Dispatcher` | events, refunds, reschedules | `status` of bookings, `disruption[e][b]`, `refunded`; events loop over the bookings they read at the start. |
| `Loyalty` | awards, redemptions, balance queries | `account`, `ledger`, the row lock, the transaction that holds it. `Kill` ends a goroutine anywhere, as a shutdown does. |
| `Accounts` | signups, logins, profile, KYC | `users`, `limit` (0 without a wallet). |
| `Otp` | one-time codes | `token`, `createdAt`; the two statements of Create's transaction apart, so that READ COMMITTED shows. |
| `RateLimit` | the limiter | key value and its expiry, ages of the requests that passed. |
| `MC*` | instances for TLC | values of the constants only. |
| `SumProofs` | lemmas about sums and maxima over finite sets | extended by `VasPurchaseProofs` and `LoyaltyProofs`. |
| `VasPurchaseProofs`, `WalletFundingProofs`, `TravelBookingProofs`, `DispatcherProofs`, `LoyaltyProofs`, `AccountsProofs` | theorems about the module of that name; the first also about `BettingGuard` | the inductive invariants stand ahead of the lemmas about them; see section 5. |
| `SafeguardProofs` | theorems about `Otp` and `RateLimit` | likewise; the two share nothing, so their names are kept apart (`LimiterSpec`). |

Conventions. A label in `pc` names the call a request makes next; the action
of that name is the call together with everything the code does up to the next
call. A call can end in up to four ways, which is where the models get their
faults from: it succeeds; it is refused by its own condition (funds, unique
index); it fails with nothing done (`Fails`: database fault or cancelled
context); it commits and its answer is lost (`AckLost`). Where the code drops
the error, the two outcomes lead to the same next call. `Crash` stops a request
anywhere. Amounts are integers of kobo; that of a purchase may be negative, because
a betting top-up has no minimum (`utility_service.go:55`). References are model values,
as normalizeReference leaves them, with the functions that derive `x_FB` and `REV_x` as
constants. A client reference without a letter or digit gets a random name
(`utility_service.go:378`), so a retry with it is a purchase of another reference.

`Loyalty`, `TravelBooking`, `WalletFunding`, `Dispatcher`, `Accounts` and `Otp` hold
the environment in a variable (`faults`, or `env` with `overlap`, `faults` and, for
`TravelBooking`, the requests that are made) that is chosen in the initial state and never changes. A run then covers
several environments, and a property says which one it needs: one that holds
only when handlers follow each other, or only without faults, says so in its
antecedent, and those without an antecedent hold in all of them. `overlap =
FALSE` is an assumption about the callers, not something the code enforces.
Section 6 says what happens without it, and the note of the hazard a property is
listed under says what the antecedent leaves out.

## 3. The runs

`VasFaultFree` takes two minutes with two workers, the others seconds to
half a minute.

| Run | Instance | Shows |
|---|---|---|
| `VasFaults` | a purchase and its retry, both 2 kobo, wallet 4, limit 5, fallback configured; every fault (20 thousand states) | `WithinFunds`, `AnswerMatchesCharge` (a request holds nothing or its amount; a success is paid), `OnePurchasePerReference`, `ReversedIffReversalRow`, `SettledIsFinal`, refinement of `PaymentSaga`, `EveryRequestEnds` |
| `VasFaultFree` (`MCBettingGuard`) | a confirmed top-up of 2 kobo, its retry and an unconfirmed one of 3 (`HighValue` is 2), after a week of none, of three small, of three with a fractional average and of three that make 3 usual; the same requests as other bills; only providers fail (107 thousand) | `OneChargePerReference`, `UnusualBetsAreConfirmed`, `EveryDebitSettles` (of the first debit row and of the fallback's) |
| `VasAmounts` (`MCBettingGuard`) | a bill of 2 kobo, its retry and a top-up of -1 kobo, wallet 3, with and without the guard having a past to compare with; only providers fail (15 thousand) | `WithinFunds`, `LedgerExplainsBalance` for amounts of either sign |
| `Funding` | two checkouts, four deliveries (a redelivery and an unknown reference among them), two calls of FundWallet (7 thousand) | `CreditedAtMostOnce` when redeliveries wait for each other; `CreditedIffBooked` always; `PaidIsCredited` without faults for amounts that convert exactly |
| `Travel` | a bus and a flight, one wallet that cannot pay both; all faults, all but lost answers, none. Two flights of one offer id and two searches, one after the other and overlapping, with restarts (404 thousand in all) | `BookedIsPaid` and refinement of `PaymentSaga` under every fault; `TicketIsPaid` while the operator's answers arrive; `BooksAgree` without faults; `BookedAsPriced` without overlap; `CallsAreAuthorised` while tokens live longer than 30 seconds |
| `Disruptions` | two events about one vehicle, two refunds and a reschedule of a booking on it; racing with and without faults, and in order (70 thousand) | `OnlyDisruptedIsSettled` always; `SettlementsAreRecorded`: a settled record is true always, and with a database that answers every settlement has one, races included; `SettledOnce` and `DisruptedIsOffered` for handlers in order |
| `LoyaltyPoints` | three awards that meet the silver and platinum thresholds exactly and pass the gold one, three redemptions; no fault, a failing database, killed goroutines (37 thousand) | `AccountMatchesLedger` (tiers included) and `PointsBecomeCredit` always; `EveryAwardArrives` while the database answers |
| `AccountsKyc` | two signups with one phone, a login and a profile update with a shared email, three upgrades (116 thousand) | `UniqueIdentity` and `TierHasDocument` always, its last part (tier and limit agree) without overlap and faults; `NeverDowngraded` without overlap, `EveryUserHasWallet` without faults |
| `OtpCodes` | three sends, three verifications (572 thousand) | `SpentIsRefused` always; `SingleUse`, `OneLiveCode`, `LastCodeIsGood` without overlap |
| `RateLimitWindow` | limit 2, window 3 ticks, at most 6 requests passed | `AtMostLimitPerWindow` while Redis answers, `RetryAfterIsHonest` |

Two runs end in a **violation**, each of one statement that a comment or an
answer of the code makes; the findings of `PROJECT.json` quote it.

| Run | Instance | Violated statement | How |
|---|---|---|---|
| `VasCollision` | client references `x` and `x_FB`, no fault of the database | `RefundClaimIsTrue`: "wallet refunded" | the fallback's row meets the other request's, and its reversal fails |
| `FundingTwice` | two deliveries at the same time | `CreditedOnce`: "exactly once" | both read the pending row |

Why the bounds are enough to be worth it. Two requests of one reference are
the smallest case of a retry race, and every interleaving of their fifteen
calls is covered; the third request of `VasFaultFree` competes for the wallet
with a reference of its own. Amounts, balances and limits are chosen so that
the second or third debit fails on the balance in some orders and on the limit
in others. In `VasAmounts` the wallet pays for one of the two positive requests, or,
while the negative top-up is in it, for both, after which the top-up cannot be taken
back. Two deliveries, two verifications, or two upgrades are
what a race needs; the third participant of `Disruptions`, `AccountsKyc` and
`OtpCodes` brings the case in which a race leaves a state behind that a later
request meets. In `Travel` one offer id is named by two searches and two flights,
so that every way of replacing an offer occurs, a fare that float64 truncates
and one that has no price among them. `MaxPassed` in `RateLimit` is three times the limit, so that
several windows are filled. Counters that only matter up to a limit are capped
there (`Incr` of `RateLimit`). What is checked here on two or
three requests is, but for progress, proved for any number (section 5).

`TravelBooking` makes one assumption about time: the 30 seconds by which
tokenExpiry precedes the end of a token are longer than a request takes from
ensureToken to its call, between which nothing waits (`TokenAges`). doJSON reads
the token without the mutex; a torn read sends a token that Amadeus refuses,
which is one of the outcomes of every call in the model. `CallsAreAuthorised` rests
on this assumption; what it adds is that no path of a request, and no request beside it,
uses a token past the check that should guard it.

Each module has a type invariant `TypeOK` (`GuardTypeOK` in `BettingGuard`, `LimiterTypeOK`
in `RateLimit`). `VasFaults` checks it by itself; elsewhere
it is the first conjunct of the module's main invariant (`UnusualBetsAreConfirmed`, `CreditedIffBooked`,
`BookedIsPaid`, `OnlyDisruptedIsSettled`, `AccountMatchesLedger`, `TierHasDocument`,
`OneLiveCode`, `AtMostLimitPerWindow`).

Deadlock checking is off where the system stops because all requests have been
answered, and on for the limiter, which always has a next step.

## 4. Fairness

- `VasPurchase` and `BettingGuard`: weak fairness of each request's calls. The Go
  scheduler runs every goroutine that can run; provider calls have deadlines
  (the engine's context, HTTP client timeouts), the confirmation poll ends with
  the engine's deadline, and statements return. Nothing is assumed of a crashed
  request, nor that clients hang up or stay.
- `WalletFunding`: weak fairness of the deliveries: the gateway delivers until it
  is answered. Nobody has to call FundWallet.
- `Dispatcher`: events are reported and handled; a passenger's request that has
  started goes on, none has to start.
- `Loyalty`: strong fairness of each transaction, because waiting for the row
  lock is not continuously enabled; PostgreSQL queues the waiters. A killed
  goroutine owes nothing, and nobody has to ask for a balance.
- `Accounts`: a signup that has started goes on.
- `TravelBooking`, `Otp`, `RateLimit`: no liveness is claimed and no fairness used.

## 5. Proofs

Every theorem holds for all values of the constants: any number of users,
requests, references, events, codes and amounts, every set of faults and every
environment. A property that names its environment in its antecedent (see
section 2) is proved with that antecedent, and where a theorem has a further
hypothesis the table shows it.

| Module | Theorem | Statement |
|---|---|---|
| `VasPurchaseProofs` | `TypeCorrect` | `Spec => []TypeOK` |
| | `FundsSafe` | `Spec => []WithinFunds` |
| | `RowsSafe` | `Spec => []RowInv`, the inductive invariant about rows |
| | `OnePurchase` | `Spec => []OnePurchasePerReference` |
| | `ChargeSafe` | `Spec => []AnswerMatchesCharge` |
| | `OneCharge` | `Faults \subseteq {"crash"} => (Spec => []OneChargePerReference)` |
| | `Refinement` | `Spec => SagaSpec`: the purchase implements `PaymentSaga` |
| | `SettleSafe` | `NoCollision => (Spec => []SettleInv)` |
| | `ReversalBooked` | `NoCollision => (Spec => []ReversedIffReversalRow)` |
| | `SettledForGood` | `NoCollision => (Spec => SettledIsFinal)`, an action property |
| | `BooksBalance` | `NoCollision /\ Faults = {} => (Spec => []LedgerExplainsBalance)` |
| | `GuardedSafe` | `NoCollision => (GuardedSpec => [](TypeOK /\ RowInv /\ SettleInv /\ GuardInv))` |
| | `UnusualBetsConfirmed` | `NoCollision => (GuardedSpec => []UnusualBetsAreConfirmed)` |
| | `GuardedBooksBalance` | `NoCollision /\ Faults = {} => (GuardedSpec => []LedgerExplainsBalance)` |
| `TravelBookingProofs` | `TypeCorrect` | `Spec => [](TypeOK /\ Places)` |
| | `BookingsPaid`, `TicketsPaid`, `StoresAgree` | `[]BookedIsPaid`, `[]TicketIsPaid`, `[]BooksAgree` |
| | `Refinement` | `Spec => SagaSpec`: a booking implements `PaymentSaga` |
| | `PriceConfirmed` | `Spec => []BookedAsPriced` |
| | `Authorisation` | `Spec => []CallsAreAuthorised` |
| `WalletFundingProofs` | `BooksKept` | `Spec => [](TypeOK /\ FundingInv)` |
| | `CreditsBooked`, `CreditsOnce` | `[]CreditedIffBooked`, `[]CreditedAtMostOnce` |
| `DispatcherProofs` | `RecordsKept` | `Spec => []DispatcherInv` |
| | `SettlementsJustified`, `SettlementsOnce` | `[]OnlyDisruptedIsSettled`, `[]SettledOnce` |
| | `SettlementsRecorded` | `Spec => []SettlementsAreRecorded` |
| `LoyaltyProofs` | `PointsKept` | `Spec => []LoyaltyInv` |
| | `NoUpdateLost`, `PointsConverted` | `[]AccountMatchesLedger`, `[]PointsBecomeCredit` |
| `AccountsProofs` | `AccountsKept` | `Spec => []AccountInv` |
| | `IdentitiesUnique`, `TiersDocumented` | `[]UniqueIdentity`, `[]TierHasDocument` |
| | `UpgradesOnlyRaise` | `Spec => NeverDowngraded`, an action property |
| `SafeguardProofs` | `CodesKept` | `Spec => []OtpInv` |
| | `CodesSingleUse`, `OneCodeAlive`, `LastCodeGood` | `[]SingleUse`, `[]OneLiveCode`, `[]LastCodeIsGood` |
| | `SpentCodesRefused` | `Spec => SpentIsRefused`, an action property |
| | `LimiterKept` | `LimiterSpec => []LimiterInv` |
| | `WindowsKept` | `LimiterSpec => []AtMostLimitPerWindow` |
| | `WaitingHelps` | `LimiterSpec => RetryAfterIsHonest`, an action property |

TLC has checked each inductive invariant on the instance of the module's run before
it was proved.

### Assumptions

The `ASSUME`s of the modules, which TLC evaluates in every run: the types of the
constants, and what the code says of names.

- `ReferenceAssumption` of `VasPurchase`: generated references are new; the two
  derivations of references are injective and no debit reference starts with
  `REV_`, which holds because vasReference starts them with `FB-`. `NoCollision`
  is not an assumption of the module but a hypothesis of the theorems that show it:
  normalizeReference does keep `_`, and `VasCollision` shows what happens without it.
- `FiniteAssumption` of `VasPurchase`: references (a VARCHAR(100) column) and requests
  (UUIDs) are finite in number, so that their amounts have a sum.
- Requests of different kinds are different requests: `Creators`, `Profiles` and
  `Upgrades` in `Accounts`, `Events` and `Requests` in `Dispatcher`, `Awards` and
  `Redemptions` in `Loyalty`.
- A value that stands for an empty column or a free lock is no name: `"none"` is no
  payment (FundWallet's binding requires a reference, `wallet_service.go:41`, and a
  gateway's event carries the number the gateway gave the payment), no phone, no event and no booking, and `"free"` is no transaction.
- Amounts of purchases are integers other than 0, which is all that `binding:"required"`
  asks of a betting top-up; other bills are positive, but no theorem needs it.
- `Sends` and `Redemptions` are finite.

### Bill purchases

None of the properties is inductive by itself.

1. `OnePurchasePerReference` needs to know who owns a row: `RowInv` says that a
   request inside the engine is the one whose id is stored under its reference,
   that its reversal does not exist before it has made it, that reversals imply
   their debit rows, and that no provider is called without such a row. Two
   requests cannot both own one row, so one of them never reaches a provider.
2. `AnswerMatchesCharge` needs the amount held at each label. `Holds(r)` states it:
   the full amount before the reversal and after the second debit, nothing
   before the debit and between reversal and second debit. `RowInv` is what makes
   the reversal give back exactly once: its row is there, is r's own, and
   has not been reversed.
   All of this is the same for negative amounts, with one exception: a compensating
   credit may be refused, which leaves such a request holding its negative amount.
3. `OneChargePerReference` adds `ChargedOwns(r)`: an answered request that still holds
   money owns its row. It needs every statement to be answered; a crash does no
   harm, because a crashed request is never answered.
4. The refinement follows from `Holds`: each debit is a `Charge`, each credit and
   new reversal a `Release`, an answer or a crash closes the payment, and all
   other steps stutter.
5. For settled rows, `SettleInv` adds that a row is unsettled while its request is
   inside the engine and that the fallback row is the request's alone. The lemma
   `RowsOfOthers` is where `NoCollision` is needed: a step of one request touches
   neither row of another.
6. The books (`BooksBalance`). A debit and its row are two statements, so the rows alone do
   not explain a balance: `Unbooked` is what a request has taken and not yet written
   down, for a negative amount for good. `StepMoves` (from `PositiveMoves` and
   `NegativeMoves`, because a negative amount never gets a row) shows for each call what it adds to the wallet (b), to one entry
   (e) and to what is unbooked (n), with b = e - n; that sums follow a change in one
   place is `TotalChanges` of `SumProofs`. The insert of the fallback row drops its
   error (`engine.go:101`); that it cannot fail here is `SettleInv`, and hence `NoCollision`.
   Without faults no context is cancelled, which is part of the invariant.
7. The betting guard (`UnusualBetsConfirmed`). The guard looks at rows of the moment and the
   property at all later states, so `GuardInv` keeps the reason why a high unconfirmed
   top-up passed: a `Precedent`, a successful top-up of more than half its amount, in the
   week before or among the rows. It lasts because a success is settled for good
   (`SuccessStays`) and is another request's, because the top-up had written nothing when
   it passed (`Writers`). A refusal touches no row and no balance (`RefusalKeeps`), so
   everything proved of `VasPurchase` step by step holds behind the guard as well.

### Travel

A booking has a reference of its own, so what is held at each label (with what the
operator and the bookings table know at that label) is inductive request by request,
and the refinement follows as above. `BookedAsPriced` compares two values that
are far apart in time: without overlap, the offer under a flight's id stays the
one it priced from the pricing to the order. `CallsAreAuthorised` says of a request
past ensureToken that the token it saw trusted is still accepted, because the
margin of 30 seconds outlasts it.

### Funding

`FundingInv` ties rows, external references and credits together: who is about to
write has read a pending row, a reference is on at most one row (the unique
index), and a payment is credited exactly when its reference is on a row,
because one transaction writes both. Deliveries that wait for each other (`InTurn`)
find their row still pending, so the credit is the row's amount and happens once.

### Dispatcher

Events open records only for bookings of their vehicle that they have read
(`EventsKeepOrder`), and a request that pays or creates a booking has found a record
(`RequestsHaveRecord`); together this gives `OnlyDisruptedIsSettled` in every
interleaving. `SettledOnce` rests on `Sequential`: a booking has at most one record,
and while that is open nothing has been paid or replaced, save by the one request
that is about to resolve it. `SettlementsRecorded` holds with races too. A record is
settled after the payment or the replacement it speaks of, and these last (`Lasting`), so
a record that says so stays true. Conversely a request that has paid or rebooked is on its
way to ResolveDisruption, which without faults settles the record it found, and no step
opens a settled record again.

### Loyalty

`ReadsAreFresh` is the point of SELECT ... FOR UPDATE: a transaction between its
read and its commit holds the row lock and what it read is still in the row. With
it, each write continues the chain of entries and adds its points to the sums
(`RowIsSum`, `Chain`). For `PointsBecomeCredit` the state alone does not tell whether a
failed redemption failed before or after its points were taken; the invariant says
that there is a set of redemptions whose points have been taken (`Taken`), and every
step either keeps the set or adds the one redemption that has just taken its points.

Both properties sum over data, with a recursive function over the ledger and a fold
over a set. The library's induction theorems cannot be instantiated here, so the
facts about sums are shown by least counterexample: a set of numbers
has a least element (`LeastNumber`, from the well-foundedness of < on Nat), a family of
finite sets has a smallest one (`SmallestSet`). From this follow that the recursive
functions exist and are unique (`TotalsExist`, `TotalsAgree`, `FoldingsExist`, `FoldingsAgree`),
what appending an entry does (`SumOfAppend`), that a fold does not depend on
its order (`TotalOfOne`) and that it adds over disjoint sets (`TotalOfUnion`). What concerns
any sum over a finite set is in `SumProofs`; the books of bill purchases use it too.

### Accounts and one-time codes

`UniqueIdentity` is the unique index, and inductive with the fact that a users row is
written by its own request only. `TierHasDocument` needs `DocumentsLinked`: an upgrade that is about to
write a tier has linked its document, and nothing unlinks it. `NeverDowngraded`
needs that upgrades in turn read a tier that stays, and the agreement of
tier and limit that the two statements apart are the only gap between them
(`LimitsFollow`).

For codes, `ClockRuns` says that created_at grows with every code. In turn, the
send that is about to insert has seen every live code (`stale`), which gives
`OneLiveCode`; a code is used up only by a verification or by a later one (`Accounted`),
which gives `LastCodeIsGood`. `SpentIsRefused` needs only that a code that verified somebody is marked used.

### Rate limiter

`AtMostLimitPerWindow` counts the requests of the last window, the code only reads a
counter. `AllCounted` says why that is enough while Redis answers: every request prolongs
the key, so the key lives at least until the youngest request that passed has left the
window, and no request of the last window is missing from the counter. `KeyOutlives` is the
other direction: a key outlives the last request by a window at most, so a client silent
for that long finds none. `RetryAfterIsHonest` follows from it alone, and so holds when
Redis has failed, too.

### Only model-checked

- Everything about progress: `EveryRequestEnds`, `EveryDebitSettles`, `PaidIsCredited`,
  `DisruptedIsOffered`, `EveryAwardArrives`, `EveryUserHasWallet`. Fairness and ENABLED are
  beyond the prover.

## 6. Known limits of the code

Met while modelling; the models have them. Two are shown by runs that end in a
violation:

- **A false refund claim** (`VasCollision`). `reconciliation/engine.go:101,109`
  drop the errors of the fallback's insert and reversal, and line 110 answers
  "payment failed on all aggregators — wallet refunded". With client references
  `x` and `x_FB` this needs no fault at all.
- **A payment credited twice** (`FundingTwice`). `wallet_service.go:251` reads the
  pending row without a lock; two deliveries in flight both credit. The handler
  says "exactly once".

The others are the reason why some properties name their environment or the amounts they
speak of:

- The amount of a betting top-up may be negative (`utility_service.go:55`, no check in
  DebitWithLock). The debit then adds to the wallet and lowers `daily_spend`, as far as the
  column's constraint allows, the row is refused by `CHECK (amount > 0)`, and the
  compensating credit takes the money back, unless it has been spent: then
  `CHECK (balance >= 0)` refuses it, and its error is dropped (215). No fault is needed;
  `VasAmounts` has this case, and `LedgerExplainsBalance` says that it is the only
  money without a row.
- A purchase is debited, its row cannot be stored and the compensating credit fails
  (`utility_service.go:215`): the user stays charged without a row.
- executeVAS sends the "has been refunded" SMS after every error of the engine,
  also when the reversal failed (`utility_service.go:254`, `sms.go:81`).
- A retry is answered "successful" with a row that is still processing or has
  been reversed (`utility_service.go:178`).
- A purchase whose instance dies, or whose status update is lost, stays
  `processing` for ever; "guaranteed delivery" (`utility_service.go:4`) has
  nothing behind it.
- A purchase through the fallback counts twice against the daily limit:
  ReverseDebitIfNeeded leaves `daily_spend` alone (`wallet_repo.go:255`).
- `int64(amount * 100)` in the webhook handlers truncates, e.g. 128.14 naira to
  12813 kobo, and the payment is refused as a mismatch (`webhook_handler.go:91`). A
  failed settlement is answered 200 and not delivered again (98).
- BookBus and BookFlight claim a refund whose error they drop (`travel_service.go:266`),
  refund a ticket whose confirmation was lost (263), leave a seat on hold on some error
  returns (229, 264), and answer a booking that could not be stored (311).
- Amadeus numbers the offers of each search from one answer, and all users share one table
  of offers: a search or a pricing of somebody else between a booking's pricing and its
  order replaces the offer, and the flight ordered is not the one priced and debited
  (`amadeus.go:86,131,144`), although the pricing step is there to prevent "price-drift
  between search and book" (`travel_service.go:352`).
- A token that lives 30 seconds or less is used for 1770 seconds
  (`amadeus.go:247`); the calls are refused and the bookings refunded meanwhile.
- When the average of a user's top-ups of the week has a fraction,
  `AVG(amount)` does not scan into an int64 and every further top-up is refused
  (`wallet_repo.go:285-293`). A top-up that fails at Flutterwave is debited again for a
  fallback that never accepts its category (`monnify_client.go:41`).
  validateTransactionPIN accepts every PIN (`utility_service.go:311`).
- Overlapping refunds, or a refund and a reschedule, of one disruption are both carried
  out (`dispatcher_service.go:288`), and overlapping events open two records for a booking,
  which can be settled one after the other (114). `BookingCancelled` is "canceled"
  (`models/travel.go:15`), which the database enum (`'cancelled'`) refuses, so a refunded or
  rescheduled booking is never cancelled.
- A disruption record without the booking's status, or the reverse, after a failure
  inside the loop of an event shuts the passenger out (`dispatcher_service.go:157`).
- Redeemed points are gone when the wallet credit fails: two transactions
  (`loyalty_service.go:151-161`). A shutdown does not wait for AwardPoints
  goroutines, whose points are then lost (`src/cmd/api/main.go:316`).
- Of two overlapping upgrades the lower one can win (`auth_service.go:316`). A failed
  limit update leaves tier and limit apart (337). A user whose wallet insert fails has
  none and cannot register again (127-147). The documented tier 1 limit is ₦50k
  (`models/user.go:15`), the code sets ₦200k (`auth_service.go:326`).
- Overlapping verifications can use one code twice, overlapping sends leave two
  live codes (`otp_repo.go:31,71`).
- The limiter restarts the counter's life with every request, so it is not a
  sliding window: a steady client is refused below the limit (`ratelimit.go:26`).

## 7. Plan

The model covers the parts of section 1 that are in use; every safety property of the runs is proved and
the properties about progress are model-checked. Nothing of the plan is left. What the
next change of the code would need:

- a proof of progress, when a prover for fairness is at hand;
- a module for `ledger/ledger.go` once DebitAtomic runs, for virtual accounts once
  their rows are stored, and for the provider router once something calls it (section 8).

## 8. Not modelled

- **Ledger and bank transfers** (`ledger/ledger.go`, `services/transfer`): no state of
  it can be reached. DebitAtomic combines an aggregate with FOR UPDATE, which
  PostgreSQL rejects, so no transfer passes its first statement; nothing ever
  credits `ledger_entries`, and HandleWebhook, which would settle a transfer, has
  no caller.
- **Virtual accounts** (`services/virtualaccount`): the handler reads the context key
  `user_id` while the Auth middleware sets `userID`. Every select and insert then
  runs with an empty string for a UUID column and fails, so no row is ever stored.
- **Provider router** (`providers/router.go`): main.go assigns it to `_` (159), and nothing
  calls Select, RecordSuccess or RecordFailure. How its callers would use it, on which every
  property of its breakers depends, is nowhere in the code.
- **Queue** (`queue/`): main.go builds the producer, but nothing calls PublishEvent,
  and no binary builds the consumer.
- **Token validation** (`middleware/auth.go`, `src/pkg/jwt`): stateless; RequireKYC is
  mounted on no route.
- **Handlers, configuration, start-up**: binding and formatting. The answers that
  matter are the results in the models.
- **Paystack and OPay clients, notifications**: HTTP plumbing and output; they
  appear as outcomes of the calls the models make.
- **Search cache** and SearchBus: read-only for everything modelled. BookBus asks
  the operator again and charges the live price, whatever the cache showed.
- Inside modelled parts: read-only listings and catalogues, AmadeusOperator.Cancel
  (no caller), receipts and other
  metadata, balance_before/after (never read back by a decision), login and
  SetPIN, PruneExpired and CreditWithTransaction (no caller).
