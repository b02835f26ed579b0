----------------------------- MODULE TravelBooking -----------------------------
(***************************************************************************)
(* BookBus, BookFlight and SearchFlights of                                *)
(* internal/services/travel/travel_service.go.  Both bookings debit the    *)
(* wallet, store the debit row and ask the operator for a ticket; BookBus  *)
(* first puts the seat on hold, BookFlight first has Amadeus confirm the   *)
(* price.  Requests run on goroutines of their own and interleave at every *)
(* call.                                                                   *)
(*                                                                         *)
(* The reference of a booking's transactions row is generated, so the      *)
(* booking itself serves as row id and as reference.                       *)
(***************************************************************************)
EXTENDS WalletRepo, AmadeusOperator

CONSTANTS Bookings,     \* booking requests
          Buses,        \* those of them that go through BookBus
          Searches,     \* requests that go through SearchFlights
          UserOf,       \* the authenticated user of a booking
          AmountOf,     \* the live price in kobo
          GdsRefOf,     \* the offer a flight booking names
          FareOf,       \* the fare Amadeus confirms for it
          FoundBy,      \* the offers Amadeus answers a search with
          Environments  \* the requests made, whether requests to Amadeus overlap, and
                        \* the faults that may happen

Flights == Bookings \ Buses
Requests == Bookings \cup Searches

ASSUME BookingAssumption ==
  /\ Bookings \subseteq RowIds /\ Bookings \subseteq Refs
  /\ Buses \subseteq Bookings /\ Searches \cap Bookings = {}
  /\ UserOf \in [Bookings -> Users]
  /\ AmountOf \in [Bookings -> Nat \ {0}]
  /\ GdsRefOf \in [Flights -> OfferIds]
  /\ FareOf \in [Flights -> DOMAIN ToKobo]
  /\ \A f \in Flights : AmountOf[f] = ToKobo[FareOf[f]]
  /\ \A s \in Searches : FoundBy[s] \in [OfferIds -> Offer]
  /\ Environments \subseteq
       [requests: SUBSET Requests, overlap: BOOLEAN,
        faults: SUBSET {"db", "disconnect", "crash", "lostAnswer", "shortToken"}]

VARIABLES env,     \* the environment of this behaviour
          pc,      \* the next call of each request
          result,  \* what the handler answered
          live,    \* FALSE once the request's context is cancelled
          quote,   \* the offer PriceOffer works on and returns
          order,   \* the offer in the flight order sent to Amadeus
          seat,    \* the seat at the operator
          stored,  \* whether travel_bookings has the row
          held     \* kobo taken from the wallet for the booking, less what was given back

vars == <<env, balance, dailySpend, rows, token, offers, pc, result, live, quote, order,
          seat, stored, held>>

\* Where ensureToken is called, and where the request goes on afterwards.
AfterAuth == [searchAuth |-> "search", priceAuth |-> "priceRead", bookAuth |-> "confirm"]
FetchOf == [searchAuth |-> "searchFetch", priceAuth |-> "priceFetch", bookAuth |-> "bookFetch"]
AfterFetch == [searchFetch |-> "search", priceFetch |-> "priceRead", bookFetch |-> "confirm"]

Labels == {"hold", "offer", "wallet", "pricing", "debit", "insert", "compensate", "release",
           "refund", "markReversed", "settle", "persist", "done", "crashed"}
          \cup DOMAIN AfterAuth \cup DOMAIN AfterFetch \cup {"search", "priceRead", "confirm"}

Ended == {"done", "crashed"}

\* The first label of a request.
First(r) == IF r \in Buses THEN "hold" ELSE IF r \in Flights THEN "wallet" ELSE "searchAuth"

TypeOK ==
  /\ RepoTypeOK /\ AmadeusTypeOK
  /\ env \in Environments
  /\ pc \in [Requests -> Labels]
  /\ result \in [Requests -> {"none", "error", "refunded", "booked", "found"}]
  /\ live \in [Requests -> BOOLEAN]
  /\ quote \in [Flights -> Offer \cup {NoOffer}]
  /\ order \in [Flights -> Offer \cup {NoOffer}]
  /\ seat \in [Bookings -> {"free", "held", "ticketed"}]
  /\ stored \in [Bookings -> BOOLEAN]
  /\ held \in [Bookings -> Int]

\* The process has just started, or an earlier search has filled the offers.
Init ==
  /\ RepoInit
  /\ env \in Environments
  /\ \/ token = {} /\ offers = NoOffers
     \/ /\ token = {"trusted", "accepted"}
        /\ \E s \in Searches : offers = KeptOffers(NoOffers, FoundBy[s])
  /\ pc = [r \in Requests |-> First(r)]
  /\ result = [r \in Requests |-> "none"]
  /\ live = [r \in Requests |-> TRUE]
  /\ quote = [f \in Flights |-> NoOffer]
  /\ order = [f \in Flights |-> NoOffer]
  /\ seat = [b \in Bookings |-> "free"]
  /\ stored = [b \in Bookings |-> FALSE]
  /\ held = [b \in Bookings |-> 0]

-------------------------------------------------------------------------------
Succeeds(r) == live[r]
Fails(r) == "db" \in env.faults \/ ~live[r]
AckLost(r) == "db" \in env.faults /\ live[r]
AnswerLost(r) == "lostAnswer" \in env.faults /\ live[r]

Goto(r, label) == pc' = [pc EXCEPT ![r] = label] /\ UNCHANGED result

Answer(r, res) ==
  /\ pc' = [pc EXCEPT ![r] = "done"]
  /\ result' = [result EXCEPT ![r] = res]

InFlight(r) == pc[r] \notin Ended \cup {First(r)}

\* Without overlap a search or a flight booking waits for the others to end.
Begins(r) == env.overlap \/ \A q \in Requests \ (Buses \cup {r}) : ~InFlight(q)

\* An error after the hold: BookBus cancels the hold, BookFlight has none.
GiveUp(b) == IF b \in Buses THEN Goto(b, "release") ELSE Answer(b, "error")

wallets == <<balance, dailySpend, held>>
ticket == <<seat, stored>>
flight == <<token, offers, quote, order>>

Take(b) ==
  /\ DebitWithLock(UserOf[b], AmountOf[b])
  /\ held' = [held EXCEPT ![b] = @ + AmountOf[b]]

GiveBack(b) ==
  /\ CreditBalance(UserOf[b], AmountOf[b])
  /\ held' = [held EXCEPT ![b] = @ - AmountOf[b]]

DebitRow(b) ==
  [id |-> b, user |-> UserOf[b], type |-> "debit", amount |-> AmountOf[b], status |-> "processing"]

-------------------------------------------------------------------------------
(* The bus operator, seen through the BusOperator interface.                  *)

Seat(b, s) == seat' = [seat EXCEPT ![b] = s]

\* op.Hold; when the answer is lost the hold reference is unknown.
Hold(b) ==
  /\ pc[b] = "hold"
  /\ \/ live[b] /\ Seat(b, "held") /\ Goto(b, "offer")
     \/ AnswerLost(b) /\ Seat(b, "held") /\ Answer(b, "error")
     \/ UNCHANGED seat /\ Answer(b, "error")
  /\ UNCHANGED <<env, flight, wallets, rows, live, stored>>

\* findLiveBusOffer: the trip is searched again and the seat must be on offer.
LiveOffer(b) ==
  /\ b \in Buses /\ pc[b] = "offer"
  /\ (live[b] /\ Goto(b, "wallet")) \/ GiveUp(b)
  /\ UNCHANGED <<env, flight, wallets, rows, live, ticket>>

\* op.Cancel, whose error is dropped.
Release(b) ==
  /\ pc[b] = "release"
  /\ \/ live[b] /\ Seat(b, "free")
     \/ UNCHANGED seat
  /\ Answer(b, "error")
  /\ UNCHANGED <<env, flight, wallets, rows, live, stored>>

\* Mutant: every outcome of the call is taken for a failure.
Bug_Confirm(b) ==
  /\ pc[b] = "confirm"
  /\ live[b] /\ Seat(b, "ticketed") /\ Goto(b, "refund")
  /\ UNCHANGED <<env, flight, wallets, rows, live, stored>>

\* op.Confirm.
Confirm(b) ==
  /\ b \in Buses /\ pc[b] = "confirm"
  /\ \/ live[b] /\ Seat(b, "ticketed") /\ Goto(b, "settle")
     \/ AnswerLost(b) /\ Seat(b, "ticketed") /\ Goto(b, "refund")
     \/ UNCHANGED seat /\ Goto(b, "refund")
  /\ UNCHANGED <<env, wallets, rows, flight, live, stored>>

-------------------------------------------------------------------------------
(* The calls of the flight operator.  Each starts with ensureToken.           *)

\* The token is looked up under the read lock, which is then released.
EnsureToken(r) ==
  /\ pc[r] \in DOMAIN AfterAuth
  /\ r \in Searches => Begins(r)
  /\ Goto(r, IF Trusted THEN AfterAuth[pc[r]] ELSE FetchOf[pc[r]])
  /\ UNCHANGED <<env, wallets, rows, flight, live, ticket>>

\* A booking that has been paid for is refunded, any other request is over.
AmadeusFails(r) == IF pc[r] \in {"bookFetch", "confirm"} THEN Goto(r, "refund") ELSE Answer(r, "error")

\* Several requests may fetch at once; each stores the token it got.
FetchToken(r) ==
  /\ pc[r] \in DOMAIN AfterFetch
  /\ \/ live[r] /\ StoreToken /\ Goto(r, AfterFetch[pc[r]])
     \/ UNCHANGED token /\ AmadeusFails(r)
  /\ UNCHANGED <<env, wallets, rows, offers, quote, order, live, ticket>>

\* The answer of a search, of which at least one offer must be mappable.
SearchFlights(s) ==
  /\ pc[s] = "search"
  /\ \/ /\ live[s] /\ Accepted
        /\ \E id \in OfferIds : Mappable(FoundBy[s][id])
        /\ StoreOffers(FoundBy[s]) /\ Answer(s, "found")
     \/ UNCHANGED offers /\ AmadeusFails(s)
  /\ UNCHANGED <<env, wallets, rows, token, quote, order, live, ticket>>

\* PriceOffer reads the offer under the lock and sends it to be priced.
PriceRead(f) ==
  LET offer == offers[GdsRefOf[f]] IN
  /\ pc[f] = "priceRead"
  /\ \/ /\ live[f] /\ Accepted /\ offer # NoOffer
        /\ quote' = [quote EXCEPT ![f] = offer] /\ Goto(f, "pricing")
     \/ UNCHANGED quote /\ AmadeusFails(f)
  /\ UNCHANGED <<env, wallets, rows, amadeus, order, live, ticket>>

\* Mutant: the confirmed offer is not kept.
Bug_PriceOffer(f) ==
  /\ pc[f] = "pricing" /\ live[f]
  /\ quote' = [quote EXCEPT ![f].fare = FareOf[f]] /\ Goto(f, "debit")
  /\ UNCHANGED <<env, wallets, rows, amadeus, order, live, ticket>>

\* Its answer replaces whatever is stored under the id by now.
PriceOffer(f) ==
  LET priced == [quote[f] EXCEPT !.fare = FareOf[f]] IN
  /\ pc[f] = "pricing"
  /\ \/ /\ live[f] /\ Mappable(priced)
        /\ quote' = [quote EXCEPT ![f] = priced]
        /\ StoreOffer(GdsRefOf[f], priced) /\ Goto(f, "debit")
     \/ UNCHANGED <<quote, offers>> /\ AmadeusFails(f)
  /\ UNCHANGED <<env, wallets, rows, token, order, live, ticket>>

\* Book orders the offer that is stored under the id now.
BookFlight(f) ==
  LET offer == offers[GdsRefOf[f]] IN
  /\ f \in Flights /\ pc[f] = "confirm"
  /\ \/ /\ live[f] /\ Accepted /\ offer # NoOffer
        /\ order' = [order EXCEPT ![f] = offer] /\ Seat(f, "ticketed")
        /\ Goto(f, "settle") \/ (AnswerLost(f) /\ Goto(f, "refund"))
     \/ UNCHANGED <<order, seat>> /\ AmadeusFails(f)
  /\ UNCHANGED <<env, wallets, rows, amadeus, quote, live, stored>>

-------------------------------------------------------------------------------
(* The wallet.                                                                *)

\* When FindByUserID fails BookBus returns with the seat still on hold.
FindWallet(b) ==
  /\ pc[b] = "wallet"
  /\ b \in Flights => Begins(b)
  /\ \/ Succeeds(b) /\ Goto(b, IF b \in Buses THEN "debit" ELSE "priceAuth")
     \/ Fails(b) /\ Answer(b, "error")
  /\ UNCHANGED <<env, flight, wallets, rows, live, ticket>>

Debit(b) ==
  /\ pc[b] = "debit"
  /\ \/ Succeeds(b) /\ Take(b) /\ Goto(b, "insert")
     \/ AckLost(b) /\ Take(b) /\ GiveUp(b)
     \/ Fails(b) /\ GiveUp(b) /\ UNCHANGED wallets
     \/ Succeeds(b) /\ ~CanDebit(UserOf[b], AmountOf[b]) /\ GiveUp(b) /\ UNCHANGED wallets
  /\ UNCHANGED <<env, flight, rows, live, ticket>>

Insert(b) ==
  /\ pc[b] = "insert"
  /\ \/ /\ Succeeds(b) /\ InsertTransaction(b, DebitRow(b))
        /\ Goto(b, IF b \in Buses THEN "confirm" ELSE "bookAuth")
     \/ AckLost(b) /\ InsertTransaction(b, DebitRow(b)) /\ Goto(b, "compensate")
     \/ Fails(b) /\ Goto(b, "compensate") /\ UNCHANGED rows
  /\ UNCHANGED <<env, flight, wallets, live, ticket>>

\* The errors of the compensating credits are dropped.
Compensate(b) ==
  /\ pc[b] = "compensate"
  /\ \/ Succeeds(b) /\ GiveBack(b)
     \/ Fails(b) /\ UNCHANGED wallets
  /\ GiveUp(b)
  /\ UNCHANGED <<env, flight, rows, live, ticket>>

\* Mutant: the refund is forgotten.
Bug_Refund(b) ==
  /\ pc[b] = "refund" /\ Goto(b, "markReversed")
  /\ UNCHANGED <<env, flight, wallets, rows, live, ticket>>

Refund(b) ==
  /\ pc[b] = "refund"
  /\ \/ Succeeds(b) /\ GiveBack(b)
     \/ Fails(b) /\ UNCHANGED wallets
  /\ Goto(b, "markReversed")
  /\ UNCHANGED <<env, flight, rows, live, ticket>>

\* Mutant: a second credit instead of the status.
Bug_MarkReversed(b) ==
  /\ pc[b] = "markReversed" /\ GiveBack(b) /\ Answer(b, "refunded")
  /\ UNCHANGED <<env, flight, rows, live, ticket>>

\* No step of this path cancels the hold.
MarkReversed(b) ==
  /\ pc[b] = "markReversed"
  /\ \/ Succeeds(b) /\ UpdateTransactionStatus(b, "reversed")
     \/ Fails(b) /\ UNCHANGED rows
  /\ Answer(b, "refunded")
  /\ UNCHANGED <<env, flight, wallets, live, ticket>>

Settle(b) ==
  /\ pc[b] = "settle"
  /\ \/ Succeeds(b) /\ UpdateTransactionStatus(b, "success")
     \/ Fails(b) /\ UNCHANGED rows
  /\ Goto(b, "persist")
  /\ UNCHANGED <<env, flight, wallets, live, ticket>>

\* travelRepo.Create.
Create(b) == stored' = [stored EXCEPT ![b] = TRUE]

\* Its error is only logged; then SMS, points, answer.
Persist(b) ==
  /\ pc[b] = "persist"
  /\ \/ Succeeds(b) /\ Create(b)
     \/ Fails(b) /\ UNCHANGED stored
  /\ Answer(b, "booked")
  /\ UNCHANGED <<env, flight, wallets, rows, live, seat>>

-------------------------------------------------------------------------------
Disconnect(r) ==
  /\ "disconnect" \in env.faults
  /\ pc[r] \notin Ended /\ live[r]
  /\ live' = [live EXCEPT ![r] = FALSE]
  /\ UNCHANGED <<env, flight, wallets, rows, pc, result, ticket>>

Crash(r) ==
  /\ "crash" \in env.faults
  /\ pc[r] \notin Ended
  /\ pc' = [pc EXCEPT ![r] = "crashed"]
  /\ UNCHANGED <<env, flight, wallets, rows, result, live, ticket>>

\* A new process starts with neither a token nor offers.
Restart ==
  /\ "crash" \in env.faults
  /\ \A r \in Requests : ~InFlight(r)
  /\ amadeus # <<{}, NoOffers>>
  /\ token' = {} /\ offers' = NoOffers
  /\ UNCHANGED <<env, wallets, rows, pc, result, live, quote, order, ticket>>

\* Requests that have passed ensureToken and are about to call Amadeus.
Calling == {r \in Requests \ Buses : pc[r] \in {"search", "priceRead", "confirm"}}

\* Time passes.  Between ensureToken and the call nothing waits, so the 30 seconds
\* between the two ends of a token are longer than that.
TokenAges ==
  /\ \/ TokenNearsEnd
     \/ Calling = {} /\ TokenEnds
     \/ "shortToken" \in env.faults /\ ShortTokenEnds
  /\ UNCHANGED <<env, wallets, rows, offers, pc, result, live, quote, order, ticket>>

Midnight ==
  /\ ResetDailySpend
  /\ UNCHANGED <<env, flight, pc, result, live, ticket, held>>

Book(b) ==
  \/ Hold(b) \/ LiveOffer(b) \/ FindWallet(b) \/ Debit(b) \/ Insert(b) \/ Compensate(b)
  \/ Release(b) \/ Confirm(b) \/ Refund(b) \/ MarkReversed(b) \/ Settle(b) \/ Persist(b)
  \/ PriceRead(b) \/ PriceOffer(b) \/ BookFlight(b)

Next ==
  \/ \E b \in Bookings \cap env.requests : Book(b)
  \/ \E s \in Searches \cap env.requests : SearchFlights(s)
  \/ \E r \in env.requests : EnsureToken(r) \/ FetchToken(r) \/ Disconnect(r) \/ Crash(r)
  \/ Restart \/ TokenAges \/ Midnight

Spec == Init /\ [][Next]_vars

-------------------------------------------------------------------------------
(* What the code is meant to guarantee.                                       *)

\* Whatever fails, a booking holds nothing or its price, an answered ticket is
\* paid for, and a row marked successful belongs to a paid ticket
\* (BookBus, BookFlight).
BookedIsPaid ==
  /\ TypeOK
  /\ \A b \in Bookings :
       /\ held[b] \in {0, AmountOf[b]}
       /\ result[b] = "booked" \/ (Exists(b) /\ rows[b].status = "success")
            => held[b] = AmountOf[b] /\ seat[b] = "ticketed"

\* As long as the operator's answers arrive, nobody travels for free: a ticket
\* stays paid for, whatever else fails (BookBus, BookFlight).
TicketIsPaid ==
  "lostAnswer" \notin env.faults =>
    \A b \in Bookings : seat[b] = "ticketed" => held[b] = AmountOf[b]

\* Without faults wallet, transactions row, operator and bookings table agree
\* about every answered booking.
BooksAgree ==
  \A b \in Bookings : env.faults = {} /\ pc[b] = "done" =>
    \/ /\ result[b] = "booked" /\ held[b] = AmountOf[b] /\ seat[b] = "ticketed" /\ stored[b]
       /\ rows[b].status = "success"
    \/ /\ result[b] = "refunded" /\ held[b] = 0 /\ seat[b] # "ticketed" /\ ~stored[b]
       /\ rows[b].status = "reversed"
    \/ result[b] = "error" /\ held[b] = 0 /\ seat[b] # "ticketed" /\ ~stored[b] /\ ~Exists(b)

\* "Price confirmation step (prevents price-drift between search and book)"
\* (travel_service.go:352): as long as no other request to Amadeus runs beside the
\* booking, the flight ordered is the one that was priced, at the fare that was
\* debited, whatever earlier searches and bookings left under its id.
BookedAsPriced ==
  \A f \in Flights : ~env.overlap /\ order[f] # NoOffer =>
    order[f] = quote[f] /\ ToKobo[order[f].fare] = AmountOf[f]

\* As long as tokens live longer than 30 seconds, no request reaches its call to
\* Amadeus with a token that has run out, however the refreshes of others
\* interleave with it (ensureToken, doJSON).
CallsAreAuthorised == "shortToken" \notin env.faults /\ Calling # {} => Accepted

\* The wallet promise that the bookings implement.
Closed == [b \in Bookings |-> pc[b] \in Ended]
Saga == INSTANCE PaymentSaga WITH Payments <- Bookings, closed <- Closed
SagaSpec == Saga!SagaSpec

===============================================================================
