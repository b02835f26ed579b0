------------------------- MODULE TravelBookingProofs -------------------------
(***************************************************************************)
(* Theorems about TravelBooking for every set of users, bookings, searches *)
(* and offers, every price, and every choice of faults.                    *)
(***************************************************************************)
EXTENDS TravelBooking, TLAPS

\* The status update of one reference keeps the table well formed, creates and
\* deletes no row, changes nothing but the status, and touches no other reference.
LEMMA WithStatusFacts ==
  ASSUME NEW table \in [Refs -> Row \cup {NoRow}], NEW ref \in Refs, NEW status \in Statuses
  PROVE  LET new == WithStatus(table, ref, status) IN
         /\ new \in [Refs -> Row \cup {NoRow}]
         /\ \A d \in Refs : d # ref => new[d] = table[d]
         /\ \A d \in Refs : new[d] = NoRow <=> table[d] = NoRow
         /\ \A d \in Refs : table[d] # NoRow =>
              /\ new[d].id = table[d].id /\ new[d].user = table[d].user
              /\ new[d].type = table[d].type /\ new[d].amount = table[d].amount
         /\ table[ref] # NoRow => new[ref].status = status
<1>1. \A x \in Row : x # NoRow /\ x.status # "absent"
  BY DEF Row, NoRow, Statuses
<1>2. \A x \in Row : /\ [x EXCEPT !.status = status] \in Row
                     /\ [x EXCEPT !.status = status] # NoRow
                     /\ [x EXCEPT !.status = status].id = x.id
                     /\ [x EXCEPT !.status = status].user = x.user
                     /\ [x EXCEPT !.status = status].type = x.type
                     /\ [x EXCEPT !.status = status].amount = x.amount
                     /\ [x EXCEPT !.status = status].status = status
  BY <1>1 DEF Row
<1>3. table[ref] \in Row \cup {NoRow}
  OBVIOUS
<1>4. CASE table[ref] = NoRow
  BY <1>4 DEF WithStatus
<1>5. CASE table[ref] \in Row
  BY <1>1, <1>2, <1>5 DEF WithStatus
<1> QED BY <1>3, <1>4, <1>5

\* The labels that the requests of each kind pass.
BusLabels == {"hold", "offer", "wallet", "debit", "insert", "compensate", "release", "confirm",
              "refund", "markReversed", "settle", "persist", "done", "crashed"}
FlightLabels == {"wallet", "priceAuth", "priceFetch", "priceRead", "pricing", "debit", "insert",
                 "compensate", "bookAuth", "bookFetch", "confirm", "refund", "markReversed",
                 "settle", "persist", "done", "crashed"}
SearchLabels == {"searchAuth", "searchFetch", "search", "done", "crashed"}

LabelsOf(r) == IF r \in Buses THEN BusLabels ELSE IF r \in Flights THEN FlightLabels ELSE SearchLabels

\* Every request is at a label of its kind, and an offer is priced only once read.
Places ==
  /\ \A r \in Requests : pc[r] \in LabelsOf(r)
  /\ \A f \in Flights : pc[f] = "pricing" => quote[f] \in Offer

\* A step of request r itself.
Moves(r) ==
  \/ r \in Bookings /\ Book(r)
  \/ r \in Searches /\ SearchFlights(r)
  \/ EnsureToken(r) \/ FetchToken(r) \/ Disconnect(r) \/ Crash(r)

LEMMA NextMoves ==
  ASSUME TypeOK, [Next]_vars
  PROVE  \/ \E r \in Requests : Moves(r)
         \/ Restart \/ TokenAges \/ Midnight \/ UNCHANGED vars
BY BookingAssumption DEF TypeOK, Next, Moves, Requests

LEMMA Constants ==
  ASSUME NEW b \in Bookings
  PROVE  /\ b \in Refs /\ b \in RowIds /\ b \in Requests /\ b \notin Searches
         /\ UserOf[b] \in Users /\ AmountOf[b] \in Nat /\ AmountOf[b] # 0
         /\ b \in Buses \/ b \in Flights
         /\ b \in Flights => b \notin Buses /\ GdsRefOf[b] \in OfferIds /\ FareOf[b] \in DOMAIN ToKobo
BY BookingAssumption DEF Requests, Flights

LEMMA DebitRowType ==
  ASSUME NEW b \in Bookings
  PROVE  DebitRow(b) \in Row /\ DebitRow(b) # NoRow /\ DebitRow(b).status = "processing"
BY Constants, BookingAssumption DEF DebitRow, Row, TxTypes, Statuses, NoRow

\* What a debit and a credit on behalf of b do.
LEMMA TakeFacts ==
  ASSUME TypeOK, NEW b \in Bookings, Take(b)
  PROVE  /\ balance' \in [Users -> Int] /\ dailySpend' \in [Users -> Nat]
         /\ held' \in [Bookings -> Int]
         /\ held' = [held EXCEPT ![b] = @ + AmountOf[b]]
         /\ balance[UserOf[b]] >= AmountOf[b]
         /\ balance' = [balance EXCEPT ![UserOf[b]] = @ - AmountOf[b]]
BY Constants DEF Take, DebitWithLock, CanDebit, TypeOK, RepoTypeOK

LEMMA GiveBackFacts ==
  ASSUME TypeOK, NEW b \in Bookings, GiveBack(b)
  PROVE  /\ balance' \in [Users -> Int] /\ dailySpend' = dailySpend
         /\ held' \in [Bookings -> Int]
         /\ held' = [held EXCEPT ![b] = @ - AmountOf[b]]
         /\ balance[UserOf[b]] + AmountOf[b] >= 0
         /\ balance' = [balance EXCEPT ![UserOf[b]] = @ + AmountOf[b]]
BY Constants DEF GiveBack, CreditBalance, CanCredit, TypeOK, RepoTypeOK

\* Where ensureToken leads to.
LEMMA AuthLabels ==
  /\ DOMAIN AfterAuth = {"searchAuth", "priceAuth", "bookAuth"}
  /\ DOMAIN AfterFetch = {"searchFetch", "priceFetch", "bookFetch"}
  /\ AfterAuth["searchAuth"] = "search" /\ FetchOf["searchAuth"] = "searchFetch"
  /\ AfterAuth["priceAuth"] = "priceRead" /\ FetchOf["priceAuth"] = "priceFetch"
  /\ AfterAuth["bookAuth"] = "confirm" /\ FetchOf["bookAuth"] = "bookFetch"
  /\ AfterFetch["searchFetch"] = "search" /\ AfterFetch["priceFetch"] = "priceRead"
  /\ AfterFetch["bookFetch"] = "confirm"
BY DEF AfterAuth, FetchOf, AfterFetch

LEMMA LabelsOfKinds ==
  /\ \A r \in Buses : LabelsOf(r) = BusLabels
  /\ \A r \in Flights : LabelsOf(r) = FlightLabels
  /\ \A r \in Searches : LabelsOf(r) = SearchLabels
  /\ \A r \in Requests : LabelsOf(r) \subseteq Labels /\ {"done", "crashed"} \subseteq LabelsOf(r)
  /\ Flights \subseteq Bookings /\ Buses \subseteq Bookings /\ Flights \cap Buses = {}
  /\ Requests = Buses \cup Flights \cup Searches
<1>1. Flights \subseteq Bookings /\ Buses \subseteq Bookings /\ Flights \cap Buses = {}
      /\ Searches \cap Bookings = {} /\ Requests = Buses \cup Flights \cup Searches
  BY BookingAssumption DEF Flights, Requests
<1>2. BusLabels \cup FlightLabels \cup SearchLabels \subseteq Labels
  BY AuthLabels DEF BusLabels, FlightLabels, SearchLabels, Labels
<1>3. \A l \in {"done", "crashed"} : l \in BusLabels /\ l \in FlightLabels /\ l \in SearchLabels
  BY DEF BusLabels, FlightLabels, SearchLabels
<1> QED BY <1>1, <1>2, <1>3 DEF LabelsOf

Results == {"none", "error", "refunded", "booked", "found"}

\* A step of r moves r to a label of its kind and nobody else.
LEMMA ControlStep ==
  ASSUME TypeOK, Places, NEW r \in Requests, Moves(r)
  PROVE  /\ pc' = [pc EXCEPT ![r] = pc'[r]] /\ pc'[r] \in LabelsOf(r)
         /\ result' = [result EXCEPT ![r] = result'[r]] /\ result'[r] \in Results
         /\ pc[r] \notin Ended
         /\ env' = env
<1> USE DEF Goto, Answer
<1>1. /\ pc \in [Requests -> Labels] /\ result \in [Requests -> Results] /\ pc[r] \in LabelsOf(r)
  BY DEF TypeOK, Places, Results
<1>2. ASSUME NEW l, Goto(r, l)
      PROVE  /\ pc' = [pc EXCEPT ![r] = pc'[r]] /\ pc'[r] = l
             /\ result' = [result EXCEPT ![r] = result'[r]] /\ result'[r] \in Results
  BY <1>1, <1>2
<1>3. ASSUME NEW res \in Results, Answer(r, res)
      PROVE  /\ pc' = [pc EXCEPT ![r] = pc'[r]] /\ pc'[r] = "done"
             /\ result' = [result EXCEPT ![r] = result'[r]] /\ result'[r] \in Results
  BY <1>1, <1>3
<1> HIDE DEF Goto, Answer
<1>4. {"error", "refunded", "booked", "found"} \subseteq Results /\ {"done", "crashed"} \subseteq LabelsOf(r)
  BY LabelsOfKinds DEF Results
<1>5. CASE r \in Buses /\ Book(r)
  <2> USE LabelsOfKinds DEF BusLabels, Ended
  <2>1. CASE Hold(r) \/ LiveOffer(r) \/ Release(r) \/ Confirm(r) \/ FindWallet(r) \/ Persist(r)
    BY <1>1, <1>2, <1>3, <1>4, <1>5, <2>1 DEF Hold, LiveOffer, Release, Confirm, FindWallet, Persist, GiveUp
  <2>2. CASE Debit(r) \/ Compensate(r) \/ Refund(r) \/ Insert(r) \/ MarkReversed(r) \/ Settle(r)
    BY <1>1, <1>2, <1>3, <1>4, <1>5, <2>2 DEF Debit, Compensate, Refund, Insert, MarkReversed, Settle, GiveUp
  <2>3. CASE PriceRead(r) \/ PriceOffer(r) \/ BookFlight(r)
    BY <1>1, <1>5, <2>3 DEF PriceRead, PriceOffer, BookFlight
  <2> QED BY <1>5, <2>1, <2>2, <2>3 DEF Book
<1>6. CASE r \in Flights /\ Book(r)
  <2> USE LabelsOfKinds DEF FlightLabels, Ended
  <2>1. CASE Hold(r) \/ LiveOffer(r) \/ Release(r) \/ Confirm(r)
    BY <1>1, <1>6, <2>1 DEF Hold, LiveOffer, Release, Confirm
  <2>2. CASE Debit(r) \/ Compensate(r) \/ Refund(r) \/ Insert(r) \/ MarkReversed(r) \/ Settle(r)
             \/ FindWallet(r) \/ Persist(r)
    BY <1>1, <1>2, <1>3, <1>4, <1>6, <2>2
       DEF Debit, Compensate, Refund, Insert, MarkReversed, Settle, FindWallet, Persist, GiveUp
  <2>3. CASE PriceRead(r) \/ PriceOffer(r) \/ BookFlight(r)
    BY <1>1, <1>2, <1>3, <1>4, <1>6, <2>3 DEF PriceRead, PriceOffer, BookFlight, AmadeusFails
  <2> QED BY <1>6, <2>1, <2>2, <2>3 DEF Book
<1>7. CASE r \in Searches /\ SearchFlights(r)
  BY <1>1, <1>2, <1>3, <1>4, <1>7 DEF SearchFlights, AmadeusFails, Ended
<1>8. CASE EnsureToken(r)
  BY <1>1, <1>2, <1>4, <1>8, AuthLabels, LabelsOfKinds
     DEF EnsureToken, Ended, BusLabels, FlightLabels, SearchLabels
<1>9. CASE FetchToken(r)
  BY <1>1, <1>2, <1>3, <1>4, <1>9, AuthLabels, LabelsOfKinds
     DEF FetchToken, AmadeusFails, Ended, BusLabels, FlightLabels, SearchLabels
<1>10. CASE Disconnect(r) \/ Crash(r)
  BY <1>1, <1>4, <1>10 DEF Disconnect, Crash
<1>11. r \in Bookings => r \in Buses \/ r \in Flights
  BY LabelsOfKinds, Constants
<1> QED BY <1>5, <1>6, <1>7, <1>8, <1>9, <1>10, <1>11 DEF Moves

\* A step of r keeps the data in its types and writes only what is r's own.
LEMMA DataStep ==
  ASSUME TypeOK, Places, NEW r \in Requests, Moves(r)
  PROVE  /\ RepoTypeOK' /\ AmadeusTypeOK' /\ live' \in [Requests -> BOOLEAN]
         /\ quote' \in [Flights -> Offer \cup {NoOffer}] /\ order' \in [Flights -> Offer \cup {NoOffer}]
         /\ seat' \in [Bookings -> {"free", "held", "ticketed"}]
         /\ stored' \in [Bookings -> BOOLEAN] /\ held' \in [Bookings -> Int]
         /\ \A b \in Bookings : b # r =>
              /\ rows'[b] = rows[b] /\ held'[b] = held[b]
              /\ seat'[b] = seat[b] /\ stored'[b] = stored[b]
         /\ \A f \in Flights : f # r => quote'[f] = quote[f] /\ order'[f] = order[f]
         /\ pc'[r] = "pricing" /\ r \in Flights => quote'[r] \in Offer
<1> USE DEF wallets, ticket, flight, amadeus
<1>1. /\ rows \in [Refs -> Row \cup {NoRow}] /\ offers \in [OfferIds -> Offer \cup {NoOffer}]
      /\ quote \in [Flights -> Offer \cup {NoOffer}] /\ order \in [Flights -> Offer \cup {NoOffer}]
      /\ seat \in [Bookings -> {"free", "held", "ticketed"}] /\ stored \in [Bookings -> BOOLEAN]
      /\ held \in [Bookings -> Int] /\ live \in [Requests -> BOOLEAN]
      /\ pc \in [Requests -> Labels] /\ RepoTypeOK /\ AmadeusTypeOK
  BY DEF TypeOK, RepoTypeOK, AmadeusTypeOK
<1>2. pc' = [pc EXCEPT ![r] = pc'[r]]
  BY ControlStep
<1>3. CASE /\ UNCHANGED <<balance, dailySpend, rows, held, token, offers, quote, order, seat, stored>>
           /\ live' \in [Requests -> BOOLEAN] /\ pc'[r] # "pricing"
  BY <1>1, <1>3 DEF RepoTypeOK, AmadeusTypeOK
<1>4. CASE LiveOffer(r) \/ FindWallet(r) \/ EnsureToken(r) \/ Disconnect(r) \/ Crash(r)
  <2>1. UNCHANGED <<balance, dailySpend, rows, held, token, offers, quote, order, seat, stored>>
    BY <1>4 DEF LiveOffer, FindWallet, EnsureToken, Disconnect, Crash
  <2>2. live' \in [Requests -> BOOLEAN]
    BY <1>1, <1>4 DEF LiveOffer, FindWallet, EnsureToken, Disconnect, Crash
  <2>3. CASE Disconnect(r)
    BY <1>1, <2>1, <2>2, <2>3 DEF Disconnect, Places, RepoTypeOK, AmadeusTypeOK
  <2>4. CASE ~Disconnect(r)
    <3>1. pc'[r] # "pricing"
      BY <1>1, <1>4, <2>4, AuthLabels DEF LiveOffer, FindWallet, EnsureToken, Crash, Goto, Answer, GiveUp
    <3> QED BY <1>3, <2>1, <2>2, <3>1
  <2> QED BY <2>3, <2>4
<1>5. CASE r \in Bookings /\ (Hold(r) \/ Release(r) \/ Confirm(r) \/ Persist(r))
  <2>1. UNCHANGED <<balance, dailySpend, rows, held, token, offers, quote, order, live>> /\ pc'[r] # "pricing"
    BY <1>1, <1>5 DEF Hold, Release, Confirm, Persist, Goto, Answer
  <2>2. /\ seat' \in [Bookings -> {"free", "held", "ticketed"}] /\ stored' \in [Bookings -> BOOLEAN]
        /\ \A b \in Bookings : b # r => seat'[b] = seat[b] /\ stored'[b] = stored[b]
    BY <1>1, <1>5 DEF Hold, Release, Confirm, Persist, Seat, Create
  <2> QED BY <1>1, <2>1, <2>2 DEF RepoTypeOK, AmadeusTypeOK
<1>6. CASE r \in Bookings /\ (Debit(r) \/ Compensate(r) \/ Refund(r))
  <2>1. UNCHANGED <<rows, token, offers, quote, order, live, seat, stored>> /\ pc'[r] # "pricing"
    BY <1>1, <1>6 DEF Debit, Compensate, Refund, Goto, Answer, GiveUp
  <2>2. /\ balance' \in [Users -> Int] /\ dailySpend' \in [Users -> Nat] /\ held' \in [Bookings -> Int]
        /\ \A b \in Bookings : b # r => held'[b] = held[b]
    <3>1. CASE Take(r)
      BY <1>1, <1>6, <3>1, TakeFacts
    <3>2. CASE GiveBack(r)
      BY <1>1, <1>6, <3>2, GiveBackFacts DEF RepoTypeOK
    <3>3. CASE UNCHANGED <<balance, dailySpend, held>>
      BY <1>1, <3>3 DEF RepoTypeOK
    <3> QED BY <1>6, <3>1, <3>2, <3>3 DEF Debit, Compensate, Refund
  <2> QED BY <1>1, <2>1, <2>2 DEF RepoTypeOK, AmadeusTypeOK
<1>7. CASE r \in Bookings /\ (Insert(r) \/ MarkReversed(r) \/ Settle(r))
  <2>1. UNCHANGED <<balance, dailySpend, held, token, offers, quote, order, live, seat, stored>> /\ pc'[r] # "pricing"
    BY <1>1, <1>7 DEF Insert, MarkReversed, Settle, Goto, Answer
  <2>2. r \in Refs /\ DebitRow(r) \in Row /\ Bookings \subseteq Refs
    BY <1>7, Constants, DebitRowType, BookingAssumption
  <2>3. rows' \in [Refs -> Row \cup {NoRow}] /\ \A b \in Bookings : b # r => rows'[b] = rows[b]
    <3>1. CASE InsertTransaction(r, DebitRow(r))
      BY <1>1, <2>2, <3>1 DEF InsertTransaction
    <3>2. CASE UpdateTransactionStatus(r, "reversed") \/ UpdateTransactionStatus(r, "success")
      BY <1>1, <2>2, <3>2, WithStatusFacts DEF UpdateTransactionStatus, Statuses
    <3>3. CASE UNCHANGED rows
      BY <1>1, <3>3
    <3> QED BY <1>7, <3>1, <3>2, <3>3 DEF Insert, MarkReversed, Settle
  <2> QED BY <1>1, <2>1, <2>3 DEF RepoTypeOK, AmadeusTypeOK
<1>8. CASE FetchToken(r)
  <2>1. /\ UNCHANGED <<balance, dailySpend, rows, held, offers, quote, order, live, seat, stored>>
        /\ token' \subseteq {"trusted", "accepted"}
    BY <1>1, <1>8 DEF FetchToken, StoreToken, AmadeusTypeOK
  <2>2. pc'[r] # "pricing"
    BY <1>1, <1>8, AuthLabels DEF FetchToken, AmadeusFails, Goto, Answer
  <2> QED BY <1>1, <2>1, <2>2 DEF RepoTypeOK, AmadeusTypeOK
<1>9. CASE r \in Searches /\ SearchFlights(r)
  <2>1. UNCHANGED <<balance, dailySpend, rows, held, token, quote, order, live, seat, stored>> /\ pc'[r] # "pricing"
    BY <1>1, <1>9 DEF SearchFlights, AmadeusFails, Goto, Answer
  <2>2. offers' \in [OfferIds -> Offer \cup {NoOffer}]
    BY <1>1, <1>9, BookingAssumption DEF SearchFlights, StoreOffers, KeptOffers
  <2> QED BY <1>1, <2>1, <2>2 DEF RepoTypeOK, AmadeusTypeOK
<1>10. ASSUME r \in Bookings, pc[r] \in {"priceRead", "pricing"} \/ BookFlight(r) PROVE r \in Flights
  BY <1>10, LabelsOfKinds, Constants DEF Places, BusLabels, BookFlight
<1>11. CASE r \in Bookings /\ PriceRead(r)
  <2>1. UNCHANGED <<balance, dailySpend, rows, held, token, offers, order, live, seat, stored>>
    BY <1>11 DEF PriceRead
  <2>2. r \in Flights /\ GdsRefOf[r] \in OfferIds
    BY <1>10, <1>11, Constants DEF PriceRead
  <2>3. CASE quote' = [quote EXCEPT ![r] = offers[GdsRefOf[r]]] /\ offers[GdsRefOf[r]] # NoOffer
    BY <1>1, <2>1, <2>2, <2>3 DEF RepoTypeOK, AmadeusTypeOK
  <2>4. CASE UNCHANGED quote /\ AmadeusFails(r)
    <3>1. pc'[r] # "pricing"
      BY <1>1, <1>11, <2>4 DEF PriceRead, AmadeusFails, Answer
    <3> QED BY <1>1, <2>1, <2>4, <3>1 DEF RepoTypeOK, AmadeusTypeOK
  <2> QED BY <1>11, <2>3, <2>4 DEF PriceRead
<1>12. CASE r \in Bookings /\ PriceOffer(r)
  <2> DEFINE priced == [quote[r] EXCEPT !.fare = FareOf[r]]
  <2>1. UNCHANGED <<balance, dailySpend, rows, held, token, order, live, seat, stored>> /\ pc'[r] # "pricing"
    BY <1>1, <1>12 DEF PriceOffer, AmadeusFails, Goto, Answer
  <2>2. r \in Flights /\ GdsRefOf[r] \in OfferIds /\ FareOf[r] \in DOMAIN ToKobo /\ quote[r] \in Offer
    BY <1>10, <1>12, Constants DEF PriceOffer, Places
  <2>3. priced \in Offer
    BY <2>2 DEF Offer
  <2>4. CASE quote' = [quote EXCEPT ![r] = priced] /\ StoreOffer(GdsRefOf[r], priced)
    <3>1. quote' \in [Flights -> Offer \cup {NoOffer}] /\ \A f \in Flights : f # r => quote'[f] = quote[f]
      BY <1>1, <2>2, <2>3, <2>4
    <3>2. offers' \in [OfferIds -> Offer \cup {NoOffer}]
      BY <1>1, <2>2, <2>3, <2>4 DEF StoreOffer
    <3> QED BY <1>1, <2>1, <3>1, <3>2 DEF RepoTypeOK, AmadeusTypeOK
  <2>5. CASE UNCHANGED <<quote, offers>>
    BY <1>1, <2>1, <2>5 DEF RepoTypeOK, AmadeusTypeOK
  <2> QED BY <1>12, <2>4, <2>5 DEF PriceOffer
<1>13. CASE r \in Bookings /\ BookFlight(r)
  <2>1. UNCHANGED <<balance, dailySpend, rows, held, token, offers, quote, live, stored>> /\ pc'[r] # "pricing"
    BY <1>1, <1>13 DEF BookFlight, AmadeusFails, Goto, Answer
  <2>2. r \in Flights /\ GdsRefOf[r] \in OfferIds
    BY <1>10, <1>13, Constants
  <2>3. /\ order' \in [Flights -> Offer \cup {NoOffer}] /\ seat' \in [Bookings -> {"free", "held", "ticketed"}]
        /\ \A f \in Flights : f # r => order'[f] = order[f]
        /\ \A b \in Bookings : b # r => seat'[b] = seat[b]
    BY <1>1, <1>13, <2>2 DEF BookFlight, Seat
  <2> QED BY <1>1, <2>1, <2>3 DEF RepoTypeOK, AmadeusTypeOK
<1> QED BY <1>4, <1>5, <1>6, <1>7, <1>8, <1>9, <1>11, <1>12, <1>13 DEF Moves, Book

\* The steps of nobody: a new process, the token's clock, midnight.
LEMMA WorldStep ==
  ASSUME TypeOK, Restart \/ TokenAges \/ Midnight \/ UNCHANGED vars
  PROVE  /\ UNCHANGED <<env, balance, rows, pc, result, live, quote, order, seat, stored, held>>
         /\ RepoTypeOK' /\ AmadeusTypeOK'
<1> USE DEF wallets, ticket, flight, TypeOK, RepoTypeOK, AmadeusTypeOK
<1>1. CASE Restart
  BY <1>1 DEF Restart, NoOffers
<1>2. CASE TokenAges
  BY <1>2 DEF TokenAges, TokenNearsEnd, TokenEnds, ShortTokenEnds
<1>3. CASE Midnight
  BY <1>3 DEF Midnight, ResetDailySpend
<1>4. CASE UNCHANGED vars
  BY <1>4 DEF vars
<1> QED BY <1>1, <1>2, <1>3, <1>4

\* Type correctness, and every request at a label of its kind, whatever fails.
THEOREM TypeCorrect == Spec => [](TypeOK /\ Places)
<1>1. Init => TypeOK /\ Places
  <2> SUFFICES ASSUME Init PROVE TypeOK /\ Places
    OBVIOUS
  <2>1. RepoTypeOK
    BY WalletAssumption DEF Init, RepoInit, RepoTypeOK
  <2>2. AmadeusTypeOK
    BY BookingAssumption DEF Init, AmadeusTypeOK, NoOffers, KeptOffers
  <2>3. \A r \in Requests : First(r) \in LabelsOf(r) /\ First(r) # "pricing" /\ First(r) \in Labels
    BY LabelsOfKinds DEF First, LabelsOf, BusLabels, FlightLabels, SearchLabels
  <2>4. Places
    BY <2>3, LabelsOfKinds DEF Init, Places
  <2> QED BY <2>1, <2>2, <2>3, <2>4 DEF Init, TypeOK
<1>2. TypeOK /\ Places /\ [Next]_vars => TypeOK' /\ Places'
  <2> SUFFICES ASSUME TypeOK, Places, [Next]_vars PROVE TypeOK' /\ Places'
    OBVIOUS
  <2>1. ASSUME NEW r \in Requests, Moves(r) PROVE TypeOK' /\ Places'
    <3>1. pc \in [Requests -> Labels] /\ result \in [Requests -> Results] /\ env \in Environments
      BY DEF TypeOK, Results
    <3>2. pc' \in [Requests -> Labels] /\ \A q \in Requests : pc'[q] \in LabelsOf(q)
      BY <2>1, <3>1, ControlStep, LabelsOfKinds DEF Places
    <3>3. result' \in [Requests -> Results] /\ env' \in Environments
      BY <2>1, <3>1, ControlStep
    <3>4. \A f \in Flights : f # r => pc'[f] = pc[f] /\ quote'[f] = quote[f]
      BY <2>1, <3>1, ControlStep, DataStep, LabelsOfKinds
    <3>5. Places'
      BY <2>1, <3>2, <3>4, DataStep DEF Places
    <3>6. TypeOK'
      BY <2>1, <3>2, <3>3, DataStep DEF TypeOK, Results
    <3> QED BY <3>5, <3>6
  <2>2. CASE Restart \/ TokenAges \/ Midnight \/ UNCHANGED vars
    BY <2>2, WorldStep DEF TypeOK, Places
  <2> QED BY <2>1, <2>2, NextMoves
<1> QED BY <1>1, <1>2, PTL DEF Spec

-------------------------------------------------------------------------------
Unpaid == {"hold", "offer", "wallet", "priceAuth", "priceFetch", "priceRead", "pricing", "debit"}
Paid == {"insert", "compensate", "bookAuth", "bookFetch", "confirm", "refund", "settle", "persist"}
PaidFor(b) == held[b] = AmountOf[b] /\ seat[b] = "ticketed"

\* The payment invariant of one booking: what it holds, what the operator has for
\* it and what its row says, by the label it has reached.
Pays(b) ==
  /\ held[b] \in {0, AmountOf[b]}
  /\ pc[b] \in Unpaid => held[b] = 0
  /\ pc[b] \in Paid => held[b] = AmountOf[b]
  /\ seat[b] = "ticketed" =>
       /\ pc[b] \in {"settle", "persist", "refund", "markReversed"} \cup Ended
       /\ "lostAnswer" \notin env.faults => held[b] = AmountOf[b] /\ pc[b] \notin {"refund", "markReversed"}
  /\ pc[b] \in {"settle", "persist"} => seat[b] = "ticketed"
  /\ result[b] # "none" => pc[b] = "done"
  /\ result[b] = "booked" => PaidFor(b)
  /\ rows[b].status = "success" => PaidFor(b) /\ pc[b] \in {"persist"} \cup Ended

\* Without faults, the row and the bookings table by label.
Agrees(b) ==
  env.faults = {} =>
    /\ live[b] /\ pc[b] \notin {"compensate", "crashed"}
    /\ pc[b] \in Unpaid \cup {"insert", "release"} => rows[b] = NoRow
    /\ pc[b] \in {"bookAuth", "bookFetch", "confirm", "refund", "settle", "markReversed"} => rows[b] # NoRow
    /\ pc[b] = "persist" => rows[b].status = "success"
    /\ pc[b] \in {"release", "markReversed"} => held[b] = 0
    /\ pc[b] # "done" => ~stored[b]
    /\ pc[b] = "done" =>
         \/ result[b] = "booked" /\ PaidFor(b) /\ stored[b] /\ rows[b].status = "success"
         \/ /\ result[b] = "refunded" /\ held[b] = 0 /\ seat[b] # "ticketed" /\ ~stored[b]
            /\ rows[b].status = "reversed"
         \/ result[b] = "error" /\ held[b] = 0 /\ seat[b] # "ticketed" /\ ~stored[b] /\ rows[b] = NoRow

\* Without overlap at most one request is under way at Amadeus.
OneAtATime ==
  ~env.overlap => \A q, r \in Requests \ Buses : InFlight(q) /\ InFlight(r) => q = r

\* Without overlap the offer under a booking's id stays the one that was priced.
Priced(f) ==
  ~env.overlap =>
    /\ pc[f] \in {"debit", "insert", "bookAuth", "bookFetch", "confirm"} =>
         /\ quote[f].fare = FareOf[f]
         /\ offers[GdsRefOf[f]] = quote[f]
    /\ order[f] # NoOffer =>
         /\ order[f] = quote[f] /\ quote[f].fare = FareOf[f]
         /\ pc[f] \in {"settle", "persist", "refund", "markReversed"} \cup Ended

\* A token that the code trusts is one that Amadeus accepts.
Authorised ==
  "shortToken" \notin env.faults => (Trusted \/ Calling # {} => Accepted)

\* What a step of b does to b's row.
LEMMA RowStep ==
  ASSUME TypeOK, Places, NEW b \in Bookings, Moves(b)
  PROVE  \/ rows'[b] = rows[b]
         \/ pc[b] = "insert" /\ rows[b] = NoRow /\ rows'[b] # NoRow /\ rows'[b].status = "processing"
         \/ pc[b] = "markReversed" /\ rows[b] # NoRow /\ rows'[b] # NoRow /\ rows'[b].status = "reversed"
         \/ pc[b] = "settle" /\ rows[b] # NoRow /\ rows'[b] # NoRow /\ rows'[b].status = "success"
<1> USE DEF wallets, ticket, flight, amadeus
<1>1. rows \in [Refs -> Row \cup {NoRow}] /\ b \in Refs
  BY Constants DEF TypeOK, RepoTypeOK
<1>2. CASE Insert(b)
  BY <1>1, <1>2, DebitRowType DEF Insert, InsertTransaction, CanInsert, Exists
<1>3. CASE MarkReversed(b)
  <2>1. CASE rows' = WithStatus(rows, b, "reversed")
    BY <1>1, <1>3, <2>1, WithStatusFacts DEF MarkReversed, Statuses
  <2> QED BY <1>3, <2>1 DEF MarkReversed, UpdateTransactionStatus
<1>4. CASE Settle(b)
  <2>1. CASE rows' = WithStatus(rows, b, "success")
    BY <1>1, <1>4, <2>1, WithStatusFacts DEF Settle, Statuses
  <2> QED BY <1>4, <2>1 DEF Settle, UpdateTransactionStatus
<1>5. CASE ~(Insert(b) \/ MarkReversed(b) \/ Settle(b))
  <2>1. UNCHANGED rows
    BY <1>5 DEF Moves, Book, SearchFlights, EnsureToken, FetchToken, Disconnect, Crash, Hold, LiveOffer,
       FindWallet, Debit, Compensate, Release, Confirm, Refund, Persist, PriceRead, PriceOffer, BookFlight
  <2> QED BY <2>1
<1> QED BY <1>2, <1>3, <1>4, <1>5

\* What a step of b does to the money b holds.
LEMMA MoneyStep ==
  ASSUME TypeOK, Places, NEW b \in Bookings, Moves(b)
  PROVE  \/ /\ UNCHANGED <<balance, held>> /\ held'[b] = held[b]
            /\ pc[b] = "debit" => pc'[b] # "insert"
         \/ /\ pc[b] = "debit" /\ Take(b) /\ held'[b] = held[b] + AmountOf[b]
            /\ pc'[b] = "insert" \/ "db" \in env.faults
         \/ pc[b] \in {"compensate", "refund"} /\ GiveBack(b) /\ held'[b] = held[b] - AmountOf[b]
<1> USE DEF wallets, ticket, flight, amadeus
<1>1. held \in [Bookings -> Int] /\ pc \in [Requests -> Labels] /\ b \in Requests
  BY Constants DEF TypeOK
<1>2. CASE Debit(b)
  BY <1>1, <1>2, TakeFacts DEF Debit, AckLost, GiveUp, Goto, Answer
<1>3. CASE Compensate(b) \/ Refund(b)
  BY <1>1, <1>3, GiveBackFacts DEF Compensate, Refund
<1>4. CASE ~(Debit(b) \/ Compensate(b) \/ Refund(b))
  <2> USE DEF Moves, Book, SearchFlights, EnsureToken, FetchToken, Disconnect, Crash, Hold, LiveOffer,
       FindWallet, Insert, Release, Confirm, MarkReversed, Settle, Persist, PriceRead, PriceOffer, BookFlight
  <2>1. UNCHANGED <<balance, held>>
    BY <1>4
  <2>2. pc[b] = "debit" => Disconnect(b) \/ Crash(b)
    BY <1>4, AuthLabels
  <2> QED BY <1>1, <2>1, <2>2
<1> QED BY <1>2, <1>3, <1>4

\* A step of b keeps the payment invariant of b.
LEMMA PaysStep ==
  ASSUME TypeOK, Places, NEW b \in Bookings, Moves(b), Pays(b)
  PROVE  Pays(b)'
<1> USE Constants
<1>1. /\ pc \in [Requests -> Labels] /\ result \in [Requests -> Results] /\ held \in [Bookings -> Int]
      /\ seat \in [Bookings -> {"free", "held", "ticketed"}] /\ env' = env
      /\ b \in Requests /\ b \notin Searches /\ pc[b] \notin Ended
  BY ControlStep DEF TypeOK, Results
<1>2. held[b] \in Int /\ AmountOf[b] \in Nat
  BY <1>1
<1>3. CASE Hold(b) \/ LiveOffer(b) \/ Release(b) \/ FindWallet(b) \/ Persist(b) \/ Confirm(b)
  <2> USE DEF Hold, LiveOffer, Release, FindWallet, Persist, Confirm, wallets, ticket, flight
  <2>1. UNCHANGED <<held, rows>>
    BY <1>3
  <2> QED BY <1>1, <1>3, <2>1 DEF Pays, Unpaid, Paid, PaidFor, Ended, Goto, Answer, GiveUp, Seat,
             AnswerLost, Create
<1>4. CASE Debit(b) \/ Compensate(b) \/ Refund(b)
  <2>1. UNCHANGED <<seat, rows>>
    BY <1>4 DEF Debit, Compensate, Refund, ticket
  <2>2. \/ held'[b] = held[b] /\ (pc[b] = "debit" => pc'[b] # "insert")
        \/ pc[b] = "debit" /\ held'[b] = held[b] + AmountOf[b]
        \/ pc[b] \in {"compensate", "refund"} /\ held'[b] = held[b] - AmountOf[b]
    BY MoneyStep
  <2>3. \/ pc[b] = "debit" /\ pc'[b] \in {"insert", "release", "done"}
        \/ pc[b] = "compensate" /\ pc'[b] \in {"release", "done"}
        \/ pc[b] = "refund" /\ pc'[b] = "markReversed"
    BY <1>1, <1>4 DEF Debit, Compensate, Refund, Goto, Answer, GiveUp
  <2>4. result'[b] # "none" => result'[b] = "error" /\ pc'[b] = "done"
    BY <1>1, <1>4 DEF Debit, Compensate, Refund, Goto, Answer, GiveUp, Pays
  <2> QED BY <1>1, <1>2, <2>1, <2>2, <2>3, <2>4 DEF Pays, Unpaid, Paid, PaidFor, Ended
<1>5. CASE Insert(b) \/ MarkReversed(b) \/ Settle(b)
  <2>1. UNCHANGED <<held, seat>>
    BY <1>5 DEF Insert, MarkReversed, Settle, wallets, ticket
  <2> QED BY <1>1, <1>5, <2>1, RowStep DEF Insert, MarkReversed, Settle, Goto, Answer, Pays, Unpaid, Paid, PaidFor, Ended
<1>6. CASE PriceRead(b) \/ PriceOffer(b) \/ BookFlight(b)
  <2>1. UNCHANGED <<held, rows>>
    BY <1>6 DEF PriceRead, PriceOffer, BookFlight, wallets
  <2> QED BY <1>1, <1>6, <2>1 DEF PriceRead, PriceOffer, BookFlight, AmadeusFails, Goto, Answer, Seat, ticket,
             AnswerLost, Pays, Unpaid, Paid, PaidFor, Ended
<1>7. CASE EnsureToken(b) \/ FetchToken(b)
  <2>1. UNCHANGED <<held, rows, seat>>
    BY <1>7 DEF EnsureToken, FetchToken, wallets, ticket
  <2> QED BY <1>1, <1>7, <2>1, AuthLabels DEF EnsureToken, FetchToken, AmadeusFails, Goto, Answer,
             Pays, Unpaid, Paid, PaidFor, Ended
<1>8. CASE Disconnect(b) \/ Crash(b)
  BY <1>1, <1>8 DEF Disconnect, Crash, wallets, ticket, Pays, Unpaid, Paid, PaidFor, Ended
<1> QED BY <1>1, <1>3, <1>4, <1>5, <1>6, <1>7, <1>8 DEF Moves, Book

LEMMA PaysEverywhere == Spec => [](\A b \in Bookings : Pays(b))
<1> DEFINE All == \A b \in Bookings : Pays(b)
<1>1. Init => All
  BY Constants DEF Init, RepoInit, First, NoRow, Pays, Unpaid, Paid, PaidFor, Ended
<1>2. TypeOK /\ Places /\ All /\ [Next]_vars => All'
  <2> SUFFICES ASSUME TypeOK, Places, All, [Next]_vars, NEW b \in Bookings PROVE Pays(b)'
    OBVIOUS
  <2>1. ASSUME NEW r \in Requests, Moves(r) PROVE Pays(b)'
    <3>1. CASE r = b
      BY <2>1, <3>1, PaysStep
    <3>2. CASE r # b
      <4>1. pc \in [Requests -> Labels] /\ result \in [Requests -> Results] /\ b \in Requests
        BY Constants DEF TypeOK, Results
      <4>2. pc'[b] = pc[b] /\ result'[b] = result[b] /\ env' = env
        BY <2>1, <3>2, <4>1, ControlStep
      <4>3. rows'[b] = rows[b] /\ held'[b] = held[b] /\ seat'[b] = seat[b]
        BY <2>1, <3>2, DataStep
      <4> QED BY <4>2, <4>3 DEF Pays, PaidFor
    <3> QED BY <3>1, <3>2
  <2>2. CASE Restart \/ TokenAges \/ Midnight \/ UNCHANGED vars
    BY <2>2, WorldStep DEF Pays, PaidFor
  <2> QED BY <2>1, <2>2, NextMoves
<1> QED BY <1>1, <1>2, TypeCorrect, PTL DEF Spec

\* Bookings are paid for: whatever fails, a booking holds its price or nothing,
\* and what BookBus or BookFlight answers as booked, or marks successful in the
\* transactions table, is a ticket whose price stays with the operator.
THEOREM BookingsPaid == Spec => []BookedIsPaid
<1>1. TypeOK /\ (\A b \in Bookings : Pays(b)) => BookedIsPaid
  BY DEF BookedIsPaid, Pays, PaidFor
<1> QED BY <1>1, TypeCorrect, PaysEverywhere, PTL

\* Nobody travels for free unless an answer of the operator is lost.
THEOREM TicketsPaid == Spec => []TicketIsPaid
<1>1. (\A b \in Bookings : Pays(b)) => TicketIsPaid
  BY DEF TicketIsPaid, Pays
<1> QED BY <1>1, PaysEverywhere, PTL

-------------------------------------------------------------------------------
\* A step of b keeps the agreement of wallet, row, operator and table about b.
LEMMA AgreesStep ==
  ASSUME TypeOK, Places, NEW b \in Bookings, Moves(b), Pays(b), Agrees(b)
  PROVE  Agrees(b)'
<1> USE Constants
<1>1. /\ pc \in [Requests -> Labels] /\ result \in [Requests -> Results] /\ held \in [Bookings -> Int]
      /\ seat \in [Bookings -> {"free", "held", "ticketed"}] /\ stored \in [Bookings -> BOOLEAN] /\ env' = env
      /\ b \in Requests /\ b \notin Searches /\ pc[b] \notin Ended
  BY ControlStep DEF TypeOK, Results
<1> SUFFICES ASSUME env.faults = {} PROVE Agrees(b)'
  BY <1>1 DEF Agrees
<1>2. live[b] /\ ~Fails(b) /\ ~AckLost(b) /\ ~AnswerLost(b) /\ ~Disconnect(b) /\ ~Crash(b)
  BY DEF Agrees, Fails, AckLost, AnswerLost, Disconnect, Crash
<1>3. UNCHANGED live
  BY <1>2 DEF Moves, Book, SearchFlights, EnsureToken, FetchToken, Hold, LiveOffer, FindWallet, Debit,
     Insert, Compensate, Release, Confirm, Refund, MarkReversed, Settle, Persist, PriceRead, PriceOffer,
     BookFlight
<1> USE DEF Agrees, Pays, Unpaid, Paid, PaidFor, Ended
<1>4. CASE Hold(b) \/ LiveOffer(b) \/ Release(b) \/ FindWallet(b) \/ Persist(b) \/ Confirm(b)
  <2> USE DEF Hold, LiveOffer, Release, FindWallet, Persist, Confirm, wallets, ticket, flight
  <2>1. UNCHANGED <<held, rows>>
    BY <1>4
  <2> QED BY <1>1, <1>2, <1>3, <1>4, <2>1 DEF Goto, Answer, GiveUp, Seat, Create
<1>5. CASE Debit(b) \/ Compensate(b) \/ Refund(b)
  <2>1. UNCHANGED <<seat, stored, rows>>
    BY <1>5 DEF Debit, Compensate, Refund, ticket
  <2>2. CASE Debit(b)
    BY <1>1, <1>2, <1>3, <2>1, <2>2, MoneyStep DEF Debit, GiveUp, Goto, Answer, wallets
  <2>3. CASE Refund(b)
    <3>1. held'[b] = held[b] - AmountOf[b] /\ pc[b] = "refund"
      BY <1>1, <1>2, <2>3, GiveBackFacts DEF Refund
    <3> QED BY <1>1, <1>2, <1>3, <2>1, <2>3, <3>1 DEF Refund, Goto
  <2>4. CASE Compensate(b)
    BY <2>4 DEF Compensate
  <2> QED BY <1>5, <2>2, <2>3, <2>4
<1>6. CASE Insert(b) \/ MarkReversed(b) \/ Settle(b)
  <2>1. UNCHANGED <<held, seat, stored>>
    BY <1>6 DEF Insert, MarkReversed, Settle, wallets, ticket
  <2>2. rows \in [Refs -> Row \cup {NoRow}]
    BY DEF TypeOK, RepoTypeOK
  <2>3. CASE Insert(b)
    <3>1. rows'[b] # NoRow
      BY <1>2, <2>2, <2>3, DebitRowType DEF Insert, InsertTransaction
    <3> QED BY <1>1, <1>2, <1>3, <2>1, <2>3, <3>1 DEF Insert, Goto
  <2>4. CASE MarkReversed(b)
    <3>1. rows'[b].status = "reversed"
      BY <1>2, <2>2, <2>4, WithStatusFacts DEF MarkReversed, UpdateTransactionStatus, Statuses
    <3> QED BY <1>1, <1>2, <1>3, <2>1, <2>4, <3>1 DEF MarkReversed, Answer
  <2>5. CASE Settle(b)
    <3>1. rows'[b].status = "success"
      BY <1>2, <2>2, <2>5, WithStatusFacts DEF Settle, UpdateTransactionStatus, Statuses
    <3> QED BY <1>1, <1>2, <1>3, <2>1, <2>5, <3>1 DEF Settle, Goto
  <2> QED BY <1>6, <2>3, <2>4, <2>5
<1>7. CASE PriceRead(b) \/ PriceOffer(b) \/ BookFlight(b)
  <2>1. UNCHANGED <<held, rows, stored>>
    BY <1>7 DEF PriceRead, PriceOffer, BookFlight, wallets, ticket
  <2> QED BY <1>1, <1>2, <1>3, <1>7, <2>1
          DEF PriceRead, PriceOffer, BookFlight, AmadeusFails, Goto, Answer, Seat, ticket
<1>8. CASE EnsureToken(b) \/ FetchToken(b)
  <2>1. UNCHANGED <<held, rows, seat, stored>>
    BY <1>8 DEF EnsureToken, FetchToken, wallets, ticket
  <2>2. pc[b] \in BusLabels \cup FlightLabels
    BY LabelsOfKinds DEF Places
  <2>3. \/ pc[b] \in {"priceAuth", "priceFetch"} /\ pc'[b] \in {"priceFetch", "priceRead"}
        \/ pc[b] = "priceFetch" /\ pc'[b] = "done" /\ result'[b] = "error"
        \/ pc[b] \in {"bookAuth", "bookFetch"} /\ pc'[b] \in {"bookFetch", "confirm", "refund"}
    BY <1>1, <1>8, <2>2, AuthLabels
       DEF EnsureToken, FetchToken, AmadeusFails, Goto, Answer, BusLabels, FlightLabels
  <2> QED BY <1>2, <1>3, <2>1, <2>3
<1> QED BY <1>1, <1>2, <1>4, <1>5, <1>6, <1>7, <1>8 DEF Moves, Book

\* Without faults the wallet, the transactions row, the operator and the bookings
\* table tell the same story about every booking that has been answered.
THEOREM StoresAgree == Spec => []BooksAgree
<1> DEFINE All == \A b \in Bookings : Agrees(b)
           Paying == \A b \in Bookings : Pays(b)
<1>1. Init => All
  BY Constants DEF Init, RepoInit, First, Agrees, Unpaid
<1>2. TypeOK /\ Places /\ Paying /\ All /\ [Next]_vars => All'
  <2> SUFFICES ASSUME TypeOK, Places, Paying, All, [Next]_vars, NEW b \in Bookings PROVE Agrees(b)'
    OBVIOUS
  <2>1. ASSUME NEW r \in Requests, Moves(r) PROVE Agrees(b)'
    <3>1. CASE r = b
      BY <2>1, <3>1, AgreesStep
    <3>2. CASE r # b
      <4>1. /\ pc \in [Requests -> Labels] /\ result \in [Requests -> Results] /\ live \in [Requests -> BOOLEAN]
            /\ b \in Requests
        BY Constants DEF TypeOK, Results
      <4>2. pc'[b] = pc[b] /\ result'[b] = result[b] /\ env' = env
        BY <2>1, <3>2, <4>1, ControlStep
      <4>3. rows'[b] = rows[b] /\ held'[b] = held[b] /\ seat'[b] = seat[b] /\ stored'[b] = stored[b]
        BY <2>1, <3>2, DataStep
      <4>4. live'[b] = live[b]
        <5>1. CASE Disconnect(r)
          BY <3>2, <4>1, <5>1 DEF Disconnect
        <5>2. CASE ~Disconnect(r)
          BY <2>1, <5>2 DEF Moves, Book, SearchFlights, EnsureToken, FetchToken, Crash, Hold, LiveOffer,
             FindWallet, Debit, Insert, Compensate, Release, Confirm, Refund, MarkReversed, Settle, Persist,
             PriceRead, PriceOffer, BookFlight
        <5> QED BY <5>1, <5>2
      <4> QED BY <4>2, <4>3, <4>4 DEF Agrees, PaidFor
    <3> QED BY <3>1, <3>2
  <2>2. CASE Restart \/ TokenAges \/ Midnight \/ UNCHANGED vars
    BY <2>2, WorldStep DEF Agrees, PaidFor
  <2> QED BY <2>1, <2>2, NextMoves
<1>3. All => BooksAgree
  BY DEF Agrees, BooksAgree, PaidFor, Exists
<1> QED BY <1>1, <1>2, <1>3, TypeCorrect, PaysEverywhere, PTL DEF Spec

-------------------------------------------------------------------------------
\* A step of a booking is a step of the wallet promise, or leaves it alone.
LEMMA SagaStep ==
  ASSUME TypeOK, Places, NEW b \in Bookings, Moves(b), Pays(b)
  PROVE  [Saga!SagaNext]_Saga!sagaVars
<1>1. /\ pc \in [Requests -> Labels] /\ held \in [Bookings -> Int] /\ held[b] \in Int
      /\ balance \in [Users -> Int] /\ AmountOf[b] \in Nat /\ UserOf[b] \in Users
      /\ b \in Requests /\ Bookings \subseteq Requests
  BY Constants DEF TypeOK, RepoTypeOK
<1>2. pc[b] \notin Ended /\ \A c \in Bookings : c # b => pc'[c] = pc[c]
  BY <1>1, ControlStep
<1>3. ~Closed[b] /\ \E last \in BOOLEAN : Closed' = [Closed EXCEPT ![b] = last]
  <2>1. CASE pc'[b] \in Ended
    <3>1. Closed' = [Closed EXCEPT ![b] = TRUE]
      BY <1>1, <1>2, <2>1 DEF Closed
    <3> QED BY <1>2, <3>1 DEF Closed
  <2>2. CASE pc'[b] \notin Ended
    <3>1. \A c \in Bookings : pc'[c] \in Ended <=> pc[c] \in Ended
      BY <1>1, <1>2, <2>2
    <3>2. Closed' = Closed
      BY <3>1 DEF Closed
    <3>3. Closed \in [Bookings -> BOOLEAN] /\ Closed[b] = FALSE
      <4>1. Closed \in [Bookings -> BOOLEAN]
        BY DEF Closed
      <4>2. ~Closed[b]
        BY <1>2 DEF Closed
      <4> QED BY <4>1, <4>2
    <3>4. Closed = [Closed EXCEPT ![b] = FALSE]
      BY <3>3
    <3> QED BY <3>2, <3>3, <3>4
  <2> QED BY <2>1, <2>2
<1>last. PICK last \in BOOLEAN : Closed' = [Closed EXCEPT ![b] = last]
  BY <1>3
<1>4. CASE UNCHANGED <<balance, held>>
  <2>1. CASE last = TRUE
    <3>1. Closed' = [Closed EXCEPT ![b] = TRUE]
      BY <1>last, <2>1
    <3> QED BY <1>3, <1>4, <3>1 DEF Saga!SagaNext, Saga!Close
  <2>2. CASE last = FALSE
    <3>1. Closed \in [Bookings -> BOOLEAN] /\ Closed[b] = FALSE
      BY <1>3 DEF Closed
    <3>2. Closed' = Closed
      BY <1>last, <2>2, <3>1
    <3> QED BY <1>4, <3>2 DEF Saga!sagaVars
  <2> QED BY <2>1, <2>2
<1>5. CASE pc[b] = "debit" /\ Take(b)
  <2>1. held[b] = 0
    BY <1>5 DEF Pays, Unpaid
  <2>2. /\ held' = [held EXCEPT ![b] = AmountOf[b]]
        /\ balance[UserOf[b]] >= AmountOf[b]
        /\ balance' = [balance EXCEPT ![UserOf[b]] = @ - AmountOf[b]]
    BY <1>1, <1>5, <2>1, TakeFacts
  <2>3. Saga!Charge(b, last)
    BY <1>3, <1>last, <2>1, <2>2 DEF Saga!Charge
  <2> QED BY <2>3 DEF Saga!SagaNext
<1>6. CASE pc[b] \in {"compensate", "refund"} /\ GiveBack(b)
  <2>1. held[b] = AmountOf[b]
    BY <1>6 DEF Pays, Paid
  <2>2. held[b] - AmountOf[b] = 0
    BY <1>1, <2>1
  <2>3. /\ held' = [held EXCEPT ![b] = 0]
        /\ balance[UserOf[b]] + AmountOf[b] >= 0
        /\ balance' = [balance EXCEPT ![UserOf[b]] = @ + AmountOf[b]]
    BY <1>6, <2>2, GiveBackFacts
  <2>4. Saga!Release(b, last)
    BY <1>3, <1>last, <2>1, <2>3 DEF Saga!Release
  <2> QED BY <2>4 DEF Saga!SagaNext
<1> QED BY <1>4, <1>5, <1>6, MoneyStep

\* Bookings implement the wallet promise of PaymentSaga: money moves only by
\* charging an open booking its price, or by giving exactly that back.
THEOREM Refinement == Spec => SagaSpec
<1> DEFINE Paying == \A b \in Bookings : Pays(b)
<1>1. Init => Saga!SagaInit
  <2> SUFFICES ASSUME Init PROVE Saga!SagaInit
    OBVIOUS
  <2>1. \A b \in Bookings : (pc[b] \in Ended) = FALSE
    BY Constants DEF Init, First, Ended
  <2>2. Closed = [b \in Bookings |-> FALSE]
    BY <2>1 DEF Closed
  <2> QED BY <2>2 DEF Init, RepoInit, Saga!SagaInit
<1>2. TypeOK /\ Places /\ Paying /\ [Next]_vars => [Saga!SagaNext]_Saga!sagaVars
  <2> SUFFICES ASSUME TypeOK, Places, Paying, [Next]_vars PROVE [Saga!SagaNext]_Saga!sagaVars
    OBVIOUS
  <2>1. ASSUME NEW b \in Bookings, Moves(b) PROVE [Saga!SagaNext]_Saga!sagaVars
    BY <2>1, SagaStep
  <2>2. ASSUME NEW s \in Searches, Moves(s) PROVE [Saga!SagaNext]_Saga!sagaVars
    <3>1. s \in Requests /\ s \notin Bookings /\ Bookings \subseteq Requests /\ pc \in [Requests -> Labels]
      BY BookingAssumption DEF Requests, TypeOK
    <3>2. \A b \in Bookings : pc'[b] = pc[b]
      BY <2>2, <3>1, ControlStep
    <3>3. UNCHANGED <<balance, held>>
      BY <2>2, <3>1 DEF Moves, SearchFlights, EnsureToken, FetchToken, Disconnect, Crash, wallets
    <3> QED BY <3>2, <3>3 DEF Saga!sagaVars, Closed
  <2>3. CASE Restart \/ TokenAges \/ Midnight \/ UNCHANGED vars
    BY <2>3, WorldStep DEF Saga!sagaVars, Closed
  <2> QED BY <2>1, <2>2, <2>3, NextMoves DEF Requests
<1> QED BY <1>1, <1>2, TypeCorrect, PaysEverywhere, PTL DEF Spec, SagaSpec, Saga!SagaSpec

-------------------------------------------------------------------------------
\* Where a request waits for the others: only its first step makes it run at Amadeus.
LEMMA FirstStep ==
  ASSUME TypeOK, Places, NEW r \in Requests \ Buses, Moves(r), InFlight(r)', ~InFlight(r)
  PROVE  Begins(r)
<1>1. pc \in [Requests -> Labels] /\ pc[r] \notin Ended /\ pc' = [pc EXCEPT ![r] = pc'[r]]
  BY ControlStep DEF TypeOK
<1>2. (r \in Flights /\ r \notin Searches) \/ (r \in Searches /\ r \notin Bookings)
  BY BookingAssumption DEF Requests, Flights
<1>3. pc[r] = First(r) /\ pc'[r] # First(r) /\ pc'[r] \notin Ended
  BY <1>1 DEF InFlight, First
<1>4. ~Disconnect(r) /\ ~Crash(r)
  BY <1>1, <1>3 DEF Disconnect, Crash, Ended
<1>5. CASE r \in Flights
  <2>1. pc[r] = "wallet" /\ r \in Bookings
    BY <1>3, <1>5, LabelsOfKinds DEF First
  <2>2. FindWallet(r)
    BY <1>2, <1>4, <1>5, <2>1, AuthLabels DEF Moves, Book, SearchFlights, EnsureToken, FetchToken, Hold,
       LiveOffer, Debit, Insert, Compensate, Release, Confirm, Refund, MarkReversed, Settle, Persist,
       PriceRead, PriceOffer, BookFlight
  <2> QED BY <1>5, <2>2 DEF FindWallet
<1>6. CASE r \in Searches
  <2>1. pc[r] = "searchAuth" /\ r \notin Bookings
    BY <1>2, <1>3, <1>6, LabelsOfKinds DEF First
  <2>2. EnsureToken(r)
    BY <1>4, <1>6, <2>1, AuthLabels DEF Moves, SearchFlights, FetchToken
  <2> QED BY <1>6, <2>2 DEF EnsureToken
<1> QED BY <1>2, <1>5, <1>6

\* Only an answered search and a confirmed price write the offers.
LEMMA OffersStep ==
  ASSUME TypeOK, Places, NEW r \in Requests, Moves(r)
  PROVE  offers' = offers \/ (r \notin Buses /\ InFlight(r))
<1>1. CASE r \in Bookings /\ PriceOffer(r)
  BY <1>1, LabelsOfKinds, Constants DEF PriceOffer, Places, BusLabels, InFlight, First, Ended
<1>2. CASE r \in Searches /\ SearchFlights(r)
  BY <1>2, LabelsOfKinds, BookingAssumption DEF SearchFlights, InFlight, First, Ended
<1>3. CASE ~(r \in Bookings /\ PriceOffer(r)) /\ ~(r \in Searches /\ SearchFlights(r))
  BY <1>3 DEF Moves, Book, EnsureToken, FetchToken, Disconnect, Crash, Hold, LiveOffer, FindWallet, Debit,
     Insert, Compensate, Release, Confirm, Refund, MarkReversed, Settle, Persist, PriceRead, BookFlight,
     flight, amadeus
<1> QED BY <1>1, <1>2, <1>3

LEMMA OneAtATimeAlways == Spec => []OneAtATime
<1>1. Init => OneAtATime
  BY DEF Init, OneAtATime, InFlight
<1>2. TypeOK /\ Places /\ OneAtATime /\ [Next]_vars => OneAtATime'
  <2> SUFFICES ASSUME TypeOK, Places, OneAtATime, [Next]_vars PROVE OneAtATime'
    OBVIOUS
  <2>1. ASSUME NEW r \in Requests, Moves(r) PROVE OneAtATime'
    <3> SUFFICES ASSUME ~env.overlap, NEW p \in Requests \ Buses, NEW q \in Requests \ Buses,
                        InFlight(p)', InFlight(q)', p # q
                 PROVE  FALSE
      BY <2>1, ControlStep DEF OneAtATime
    <3>1. \A t \in Requests : t # r => (InFlight(t)' <=> InFlight(t))
      BY <2>1, ControlStep DEF TypeOK, InFlight, First
    <3>2. InFlight(p) \/ (p = r /\ Begins(r))
      BY <2>1, <3>1, FirstStep
    <3>3. InFlight(q) \/ (q = r /\ Begins(r))
      BY <2>1, <3>1, FirstStep
    <3> QED BY <3>1, <3>2, <3>3 DEF OneAtATime, Begins
  <2>2. CASE Restart \/ TokenAges \/ Midnight \/ UNCHANGED vars
    BY <2>2, WorldStep DEF OneAtATime, InFlight, First
  <2> QED BY <2>1, <2>2, NextMoves
<1> QED BY <1>1, <1>2, TypeCorrect, PTL DEF Spec

\* A step of f keeps the price confirmed for f.
LEMMA PricedStep ==
  ASSUME TypeOK, Places, NEW f \in Flights, Moves(f), Priced(f)
  PROVE  Priced(f)'
<1>1. /\ pc \in [Requests -> Labels] /\ offers \in [OfferIds -> Offer \cup {NoOffer}]
      /\ quote \in [Flights -> Offer \cup {NoOffer}] /\ order \in [Flights -> Offer \cup {NoOffer}]
      /\ f \in Requests /\ f \in Bookings /\ f \notin Searches /\ f \notin Buses
      /\ GdsRefOf[f] \in OfferIds /\ FareOf[f] \in DOMAIN ToKobo
      /\ env' = env /\ pc[f] \notin Ended /\ pc[f] \in FlightLabels
  BY Constants, LabelsOfKinds, ControlStep DEF TypeOK, AmadeusTypeOK, Places
<1>2. CASE PriceOffer(f)
  <2>1. pc[f] = "pricing" /\ quote[f] \in Offer
    BY <1>2 DEF PriceOffer, Places
  <2>2. order'[f] = order[f]
    BY <1>2 DEF PriceOffer
  <2>3. CASE pc'[f] = "debit"
    <3>1. /\ quote'[f] = [quote[f] EXCEPT !.fare = FareOf[f]]
          /\ offers'[GdsRefOf[f]] = [quote[f] EXCEPT !.fare = FareOf[f]]
      BY <1>1, <1>2, <2>3 DEF PriceOffer, StoreOffer, AmadeusFails, Answer
    <3>2. quote'[f].fare = FareOf[f]
      BY <2>1, <3>1 DEF Offer
    <3> QED BY <1>1, <2>1, <2>2, <2>3, <3>1, <3>2 DEF Priced, Ended
  <2>4. CASE pc'[f] # "debit"
    BY <1>1, <1>2, <2>1, <2>2, <2>4 DEF PriceOffer, AmadeusFails, Goto, Answer, Priced, Ended
  <2> QED BY <2>3, <2>4
<1>3. CASE BookFlight(f)
  <2>1. UNCHANGED <<offers, quote>> /\ pc[f] = "confirm"
    BY <1>3 DEF BookFlight, amadeus
  <2>2. pc'[f] \in {"settle", "refund"} /\ (order'[f] = order[f] \/ order'[f] = offers[GdsRefOf[f]])
    BY <1>1, <1>3 DEF BookFlight, AmadeusFails, Goto
  <2> QED BY <1>1, <2>1, <2>2 DEF Priced, Ended
<1>4. CASE PriceRead(f)
  <2>1. pc[f] = "priceRead" /\ pc'[f] \in {"pricing", "done"} /\ order' = order
    BY <1>1, <1>4 DEF PriceRead, AmadeusFails, Goto, Answer
  <2> QED BY <1>1, <2>1 DEF Priced, Ended
<1>5. CASE ~(PriceOffer(f) \/ BookFlight(f) \/ PriceRead(f))
  <2>1. UNCHANGED <<offers, quote, order>>
    BY <1>1, <1>5 DEF Moves, Book, EnsureToken, FetchToken, Disconnect, Crash, Hold, LiveOffer, FindWallet,
       Debit, Insert, Compensate, Release, Confirm, Refund, MarkReversed, Settle, Persist, flight
  <2>2. /\ pc'[f] \in {"debit", "insert", "bookAuth", "bookFetch", "confirm"} =>
             pc[f] \in {"debit", "insert", "bookAuth", "bookFetch", "confirm"}
        /\ pc[f] \in {"settle", "persist", "refund", "markReversed"} =>
             pc'[f] \in {"settle", "persist", "refund", "markReversed"} \cup Ended
    <3> USE DEF Goto, Answer, GiveUp, Ended
    <3>1. CASE Debit(f) \/ Insert(f) \/ Compensate(f) \/ Refund(f) \/ MarkReversed(f) \/ Settle(f)
               \/ Persist(f) \/ FindWallet(f)
      BY <1>1, <3>1 DEF Debit, Insert, Compensate, Refund, MarkReversed, Settle, Persist, FindWallet
    <3>2. CASE Hold(f) \/ LiveOffer(f) \/ Release(f) \/ Confirm(f)
      BY <1>1, <3>2 DEF Hold, LiveOffer, Release, Confirm, FlightLabels
    <3>3. CASE EnsureToken(f) \/ FetchToken(f)
      BY <1>1, <3>3, AuthLabels DEF EnsureToken, FetchToken, AmadeusFails, FlightLabels
    <3>4. CASE Disconnect(f) \/ Crash(f)
      BY <1>1, <3>4 DEF Disconnect, Crash
    <3> QED BY <1>1, <1>5, <3>1, <3>2, <3>3, <3>4 DEF Moves, Book
  <2> QED BY <1>1, <2>1, <2>2 DEF Priced
<1> QED BY <1>2, <1>3, <1>4, <1>5

\* The price confirmation holds what its comment promises as long as requests to
\* Amadeus do not overlap: the flight ordered is the one priced, at the price debited.
THEOREM PriceConfirmed == Spec => []BookedAsPriced
<1> DEFINE All == \A f \in Flights : Priced(f)
<1>1. Init => All
  BY Constants, LabelsOfKinds DEF Init, First, Priced
<1>2. TypeOK /\ Places /\ OneAtATime /\ All /\ [Next]_vars => All'
  <2> SUFFICES ASSUME TypeOK, Places, OneAtATime, All, [Next]_vars, NEW f \in Flights PROVE Priced(f)'
    OBVIOUS
  <2>0. f \in Requests /\ f \notin Buses /\ First(f) = "wallet" /\ f \in Bookings
        /\ pc \in [Requests -> Labels]
    BY Constants, LabelsOfKinds DEF First, TypeOK
  <2>1. ASSUME NEW r \in Requests, Moves(r) PROVE Priced(f)'
    <3>1. CASE r = f
      BY <2>1, <3>1, PricedStep
    <3>2. CASE r # f
      <4>1. pc'[f] = pc[f] /\ env' = env /\ quote'[f] = quote[f] /\ order'[f] = order[f]
        BY <2>0, <2>1, <3>2, ControlStep, DataStep
      <4>2. ~env.overlap /\ InFlight(f) => offers' = offers
        BY <2>0, <2>1, <3>2, OffersStep DEF OneAtATime
      <4> QED BY <2>0, <4>1, <4>2 DEF Priced, InFlight, Ended
    <3> QED BY <3>1, <3>2
  <2>2. CASE Restart
    <3>1. pc[f] \in Ended \cup {"wallet"}
      BY <2>0, <2>2 DEF Restart, InFlight
    <3> QED BY <2>2, <3>1, WorldStep DEF Priced, Ended
  <2>3. CASE TokenAges \/ Midnight \/ UNCHANGED vars
    <3>1. offers' = offers
      BY <2>3 DEF TokenAges, Midnight, flight, vars
    <3> QED BY <2>3, <3>1, WorldStep DEF Priced
  <2> QED BY <2>1, <2>2, <2>3, NextMoves
<1>3. All => BookedAsPriced
  BY BookingAssumption DEF Priced, BookedAsPriced
<1> QED BY <1>1, <1>2, <1>3, TypeCorrect, OneAtATimeAlways, PTL DEF Spec

-------------------------------------------------------------------------------
\* A request reaches its call with a token that was trusted when it was looked up,
\* or with the one it has just fetched.
LEMMA CallingStep ==
  ASSUME TypeOK, Places, NEW r \in Requests, Moves(r), "shortToken" \notin env.faults, Authorised
  PROVE  Trusted' \/ Calling' # {} => Accepted'
<1>1. pc \in [Requests -> Labels] /\ pc' = [pc EXCEPT ![r] = pc'[r]] /\ pc[r] \in LabelsOf(r)
  BY ControlStep DEF TypeOK, Places
<1>2. CASE token' = {"trusted", "accepted"}
  BY <1>2 DEF Accepted
<1>3. CASE token' = token /\ Trusted
  BY <1>3 DEF Accepted, Trusted, Authorised
<1>4. CASE token' = token /\ ~Trusted /\ (r \in Buses \/ pc'[r] \notin {"search", "priceRead", "confirm"} \/ pc'[r] = pc[r])
  <2>1. Calling' \subseteq Calling
    BY <1>1, <1>4 DEF Calling
  <2> QED BY <1>4, <2>1 DEF Authorised, Trusted, Accepted
<1> USE DEF Goto, Answer, GiveUp
<1>5. CASE r \in Bookings /\ Book(r)
  <2>1. token' = token
    BY <1>5 DEF Book, Hold, LiveOffer, FindWallet, Debit, Insert, Compensate, Release, Confirm, Refund,
       MarkReversed, Settle, Persist, PriceRead, PriceOffer, BookFlight, flight, amadeus
  <2>2. r \in Buses \/ pc'[r] \notin {"search", "priceRead", "confirm"}
    BY <1>1, <1>5, Constants DEF Book, Hold, LiveOffer, FindWallet, Debit, Insert, Compensate, Release, Confirm,
       Refund, MarkReversed, Settle, Persist, PriceRead, PriceOffer, BookFlight, AmadeusFails
  <2> QED BY <1>3, <1>4, <2>1, <2>2
<1>6. CASE SearchFlights(r)
  BY <1>1, <1>3, <1>4, <1>6 DEF SearchFlights, AmadeusFails
<1>7. CASE EnsureToken(r)
  BY <1>1, <1>3, <1>4, <1>7, AuthLabels DEF EnsureToken, flight
<1>8. CASE FetchToken(r)
  BY <1>1, <1>2, <1>3, <1>4, <1>8, AuthLabels DEF FetchToken, StoreToken, AmadeusFails
<1>9. CASE Disconnect(r) \/ Crash(r)
  BY <1>1, <1>3, <1>4, <1>9 DEF Disconnect, Crash, flight
<1> QED BY <1>5, <1>6, <1>7, <1>8, <1>9 DEF Moves

\* However the refreshes of the token interleave, no request calls Amadeus with a
\* token that has run out, as long as tokens live longer than the 30 seconds by
\* which ensureToken renews them early.
THEOREM Authorisation == Spec => []CallsAreAuthorised
<1>1. Init => Authorised
  <2> SUFFICES ASSUME Init PROVE Authorised
    OBVIOUS
  <2>1. \A r \in Requests : First(r) \notin {"search", "priceRead", "confirm"}
    BY DEF First
  <2>2. Calling = {}
    BY <2>1 DEF Init, Calling
  <2> QED BY <2>2 DEF Init, Authorised, Trusted, Accepted
<1>2. TypeOK /\ Places /\ Authorised /\ [Next]_vars => Authorised'
  <2> SUFFICES ASSUME TypeOK, Places, Authorised, [Next]_vars PROVE Authorised'
    OBVIOUS
  <2>0. env' = env
    <3>1. CASE \E r \in Requests : Moves(r)
      BY <3>1, ControlStep
    <3>2. CASE Restart \/ TokenAges \/ Midnight \/ UNCHANGED vars
      BY <3>2, WorldStep
    <3> QED BY <3>1, <3>2, NextMoves
  <2> SUFFICES ASSUME "shortToken" \notin env.faults PROVE Trusted' \/ Calling' # {} => Accepted'
    BY <2>0 DEF Authorised
  <2>1. ASSUME NEW r \in Requests, Moves(r) PROVE Trusted' \/ Calling' # {} => Accepted'
    BY <2>1, CallingStep
  <2>2. CASE Restart \/ TokenAges \/ Midnight \/ UNCHANGED vars
    <3>1. Calling' = Calling
      BY <2>2, WorldStep DEF Calling
    <3>2. CASE Restart
      <4>1. \A r \in Requests : pc[r] \notin {"search", "priceRead", "confirm"}
        BY <3>2 DEF Restart, InFlight, First, Ended
      <4>2. Calling = {}
        BY <4>1 DEF Calling
      <4> QED BY <3>1, <3>2, <4>2 DEF Restart, Trusted
    <3>3. CASE TokenAges
      BY <3>1, <3>3 DEF TokenAges, TokenNearsEnd, TokenEnds, Authorised, Trusted, Accepted
    <3>4. CASE Midnight \/ UNCHANGED vars
      BY <3>1, <3>4 DEF Midnight, flight, vars, Authorised, Trusted, Accepted
    <3> QED BY <2>2, <3>2, <3>3, <3>4
  <2> QED BY <2>1, <2>2, NextMoves
<1>3. Authorised => CallsAreAuthorised
  BY DEF Authorised, CallsAreAuthorised
<1> QED BY <1>1, <1>2, <1>3, TypeCorrect, PTL DEF Spec

===============================================================================
