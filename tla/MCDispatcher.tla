----------------------------- MODULE MCDispatcher -----------------------------
(* Small instances of Dispatcher for TLC.                                     *)
EXTENDS Dispatcher

\* b1 is sold on vehicle v, n1 is its replacement on vehicle w.
MCBookings == {"b1", "n1"}
MCSold == {"b1"}
MCPrice == [b \in Bookings |-> 2]
MCVehicle == [b \in Bookings |-> IF b = "n1" THEN "w" ELSE "v"]

\* Two reports about v.
MCEvents == {"e1", "e2"}
MCEventVehicle == [e \in Events |-> "v"]

\* Racing handlers with and without failing statements; handlers one after the other.
MCEnvironments == {[overlap |-> TRUE, faults |-> {"db"}], [overlap |-> TRUE, faults |-> {}],
                   [overlap |-> FALSE, faults |-> {}]}

\* Two refunds and a reschedule of b1.
MCRequests == {"q1", "q2", "q3"}
MCBookingOf == [q \in Requests |-> "b1"]
MCReplacement == [q \in Requests |-> IF q = "q3" THEN "n1" ELSE "none"]
===============================================================================
