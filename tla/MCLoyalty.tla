------------------------------ MODULE MCLoyalty ------------------------------
(* Small instances of Loyalty for TLC.                                        *)
EXTENDS Loyalty

MCUsers == {"ada"}

\* A flight of N1,000 earns 10,000 points, exactly the silver threshold;
\* N190,000.50 of airtime earn 190,000, which is gold, and the two together exactly
\* the platinum threshold; funding earns nothing.
MCAwards == {"a1", "a2", "a3"}
MCCategory ==
  [a \in Awards |-> CASE a = "a1" -> "flight" [] a = "a2" -> "airtime" [] OTHER -> "wallet_funding"]
MCKobo == [a \in Awards |-> IF a = "a2" THEN 19000050 ELSE 100000]

\* q1 can be paid after either award, q2 after both and if q1 has not been paid;
\* q3 is no whole naira.
MCRedemptions == {"q1", "q2", "q3"}
MCPoints == [q \in Redemptions |-> CASE q = "q1" -> 200 [] q = "q2" -> 199900 [] OTHER -> 150]

MCFaultSets == {{}, {"db"}, {"kill"}}

MCUserOf == [w \in Awards \cup Redemptions |-> "ada"]
===============================================================================
