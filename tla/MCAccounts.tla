------------------------------ MODULE MCAccounts ------------------------------
(* Small instances of Accounts for TLC.                                       *)
EXTENDS Accounts

\* s1 and s2 share a phone, s1 and g1 an email; p1 moves the account of s2 to
\* the email of s1.
MCSignups == {"s1", "s2"}
MCLogins == {"g1"}
MCProfiles == {"p1"}
MCPhoneOf == [q \in Signups \cup Logins |-> IF q \in {"s1", "s2"} THEN "080" ELSE "made-up"]
MCEmailOf == [q \in Signups \cup Logins \cup Profiles |-> IF q = "s2" THEN "b@x" ELSE "a@x"]

\* k1 brings a BVN, k2 a NIN and k3 both.
MCUpgrades == {"k1", "k2", "k3"}
MCDocuments ==
  [k \in Upgrades |-> CASE k = "k1" -> {"bvn"} [] k = "k2" -> {"nin"} [] OTHER -> {"bvn", "nin"}]
MCAccountOf == [r \in Profiles \cup Upgrades |-> IF r = "p1" THEN "s2" ELSE "s1"]

\* Everything races and may fail; upgrades run alone, with and without faults.
MCEnvironments ==
  {[overlap |-> TRUE, faults |-> {"db"}], [overlap |-> FALSE, faults |-> {"db"}],
   [overlap |-> TRUE, faults |-> {}], [overlap |-> FALSE, faults |-> {}]}
===============================================================================
