---------------------------- MODULE AmadeusOperator ----------------------------
(***************************************************************************)
(* What the requests of one process share of the flight operator,          *)
(* internal/services/travel/operators/amadeus.go: the access token and the *)
(* offers of earlier searches.  Both live in memory, are guarded by one    *)
(* RWMutex that no request holds across a call to Amadeus, and are lost    *)
(* when the process restarts.                                              *)
(*                                                                         *)
(* The key of an offer is the id Amadeus gave it in the answer to one      *)
(* search; searches of other users put their offers under the same keys.   *)
(***************************************************************************)
EXTENDS Integers

CONSTANTS OfferIds,  \* ids of flight offers, the gds_ref of a booking
          Trips,     \* itineraries
          ToKobo     \* fare in kobo -> int64(naira * 100), naira the nearest float64

VARIABLES token,     \* what holds of the access token: the code trusts it, Amadeus accepts it
          offers     \* the offer last stored under each id

amadeus == <<token, offers>>

Offer == [trip: Trips, fare: DOMAIN ToKobo]
NoOffer == [trip |-> "none", fare |-> 0]

AmadeusTypeOK ==
  /\ token \subseteq {"trusted", "accepted"}
  /\ offers \in [OfferIds -> Offer \cup {NoOffer}]

NoOffers == [id \in OfferIds |-> NoOffer]

\* mapAmadeusOffer refuses an offer without a price.
Mappable(offer) == ToKobo[offer.fare] > 0

StoreOffer(id, offer) == offers' = [offers EXCEPT ![id] = offer]

\* Search stores every offer it could map.  It locks for each of them, which no
\* reader of a single id can tell from one step.
KeptOffers(old, found) == [id \in OfferIds |-> IF Mappable(found[id]) THEN found[id] ELSE old[id]]

StoreOffers(found) == offers' = KeptOffers(offers, found)

\* The first check of ensureToken.
Trusted == "trusted" \in token

\* Amadeus accepts what doJSON sends.  A token that is being replaced may be read
\* torn (doJSON takes no lock); the refused call is one of the outcomes of a call.
Accepted == "accepted" \in token

StoreToken == token' = {"trusted", "accepted"}

\* Mutant: tokenExpiry is the end of the token's life, not 30 seconds before it.
Bug_TokenNearsEnd == Trusted /\ token' = {}

\* tokenExpiry has come: 30 seconds before Amadeus stops accepting the token.
TokenNearsEnd == Trusted /\ token' = token \ {"trusted"}

\* The token's life is over.
TokenEnds == Accepted /\ ~Trusted /\ token' = {}

\* A token that lives 30 seconds or less is kept for 1770.
ShortTokenEnds == Accepted /\ Trusted /\ token' = {"trusted"}
===============================================================================
