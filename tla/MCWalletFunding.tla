--------------------------- MODULE MCWalletFunding ---------------------------
(* Small instances of WalletFunding for TLC.                                  *)
EXTENDS WalletFunding

MCUsers == {"ada", "bola"}
MCFundings == {"f1", "f2"}
MCDeliveries == {"d1", "d2", "d3", "d4"}
MCCalls == {"c1", "c2"}

\* "u" is a reference that this system never issued.
MCRefs == MCFundings \cup MCCalls \cup {"u"}
MCOwnerOf == [k \in Fundings \cup Calls |-> IF k \in {"f2", "c2"} THEN "bola" ELSE "ada"]

\* d1 and d2 report the payment of f1, d3 that of an unknown checkout and d4
\* that of f2; the calls name the payment of f1 as well.
MCFundingOf == [d \in Deliveries |-> CASE d = "d3" -> "u" [] d = "d4" -> "f2" [] OTHER -> "f1"]
MCPaymentOf ==
  [w \in Deliveries \cup Calls |-> CASE w = "d3" -> "y" [] w = "d4" -> "z" [] OTHER -> "x"]

TwoDeliveries == {"d1", "d2"}

\* 100.00 and 128.14 naira.  As float64 the second is just below 128.14, and
\* its product with 100 is truncated to 12813.
MCAmountOf == [k \in Fundings \cup Calls |-> IF k = "f2" THEN 12814 ELSE 10000]
Truncated == {12814, 12817, 12820, 12823}
MCToKobo == [a \in 10000 .. 13000 |-> IF a \in Truncated THEN a - 1 ELSE a]

\* Deliveries that wait for each other, and overlapping ones with and without
\* faults.
MCEnvironments ==
  {[overlap |-> FALSE, faults |-> {"db"}], [overlap |-> TRUE, faults |-> {"db"}],
   [overlap |-> TRUE, faults |-> {}]}
OverlapOnly == {[overlap |-> TRUE, faults |-> {}]}

MCDailyLimit == [u \in Users |-> 1]
MCInitBalance == [u \in Users |-> 0]
===============================================================================
