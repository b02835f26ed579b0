--------------------------- MODULE MCTravelBooking ---------------------------
(* Small instances of TravelBooking for TLC.                                  *)
EXTENDS TravelBooking, TLC

MCUsers == {"ada"}

\* A bus and a flight compete for one wallet, which cannot pay for both; the
\* flights f1 and f2 name the same offer id.
MCBookings == {"b1", "f1", "f2"}
MCBuses == {"b1"}
MCSearches == {"s1", "s2"}

\* The fare of 3 kobo becomes 2 in float64, the fare of 0 has no price.
MCToKobo == [fare \in 0..3 |-> IF fare = 3 THEN 2 ELSE fare]
MCTrips == {"LOS-ABV", "LOS-PHC"}
MCFoundBy == [s \in Searches |->
  IF s = "s1" THEN ("1" :> [trip |-> "LOS-ABV", fare |-> 1]) @@ ("2" :> [trip |-> "LOS-PHC", fare |-> 0])
              ELSE ("1" :> [trip |-> "LOS-PHC", fare |-> 3]) @@ ("2" :> [trip |-> "LOS-ABV", fare |-> 2])]

MCUserOf == [b \in Bookings |-> "ada"]
MCFareOf == [f \in Flights |-> IF f = "f1" THEN 3 ELSE 1]
MCAmountOf == [b \in Bookings |-> IF b = "f1" THEN 2 ELSE 1]
MCGdsRefOf == [f \in Flights |-> "1"]
MCDailyLimit == [u \in Users |-> 3]
MCInitBalance == [u \in Users |-> 2]

\* A bus and a flight under every fault, every fault but lost answers, and none;
\* flights and searches one after the other, and all at once.
Env(requests, overlap, faults) == [requests |-> requests, overlap |-> overlap, faults |-> faults]
MCEnvironments ==
  {Env({"b1", "f1"}, TRUE, {"db", "disconnect", "crash", "lostAnswer", "shortToken"}),
   Env({"b1", "f1"}, TRUE, {"db", "disconnect", "crash"}),
   Env({"b1", "f1"}, TRUE, {}),
   Env({"f1", "f2", "s1", "s2"}, FALSE, {"crash"}),
   Env({"f1", "s1"}, FALSE, {"disconnect", "crash"}),
   Env({"f1", "f2", "s1"}, TRUE, {})}
===============================================================================
