-------------------------------- MODULE Loyalty --------------------------------
(***************************************************************************)
(* The loyalty programme: AwardPoints and RedeemPoints of                  *)
(* internal/services/loyalty/loyalty_service.go on the accounts of         *)
(* internal/repository/postgres/loyalty_repo.go.                           *)
(*                                                                         *)
(* Purchases and bookings start an AwardPoints goroutine each; redemptions *)
(* are HTTP requests.  Both change an account in a transaction that locks  *)
(* its row (SELECT ... FOR UPDATE), computes the new balance from what it  *)
(* read and writes it together with an entry of the points ledger.         *)
(***************************************************************************)
EXTENDS Integers, Sequences, FiniteSetsExt

CONSTANTS Users,
          Awards,       \* AwardPoints goroutines, one per paid transaction
          Redemptions,  \* POST /loyalty/redeem requests
          UserOf,       \* user of an award or redemption
          Category,     \* service category of an award
          Kobo,         \* amount of an award's transaction
          Points,       \* points a redemption asks for
          FaultSets     \* the combinations of faults to consider

Workers == Awards \cup Redemptions

PointsRatePerNaira ==
  [airtime |-> 1, data |-> 1, electricity |-> 2, cable_tv |-> 2, betting |-> 1,
   bus_travel |-> 5, flight |-> 10, wallet_funding |-> 0, transfer |-> 0]

ASSUME LoyaltyAssumption ==
  /\ Awards \cap Redemptions = {}
  /\ UserOf \in [Workers -> Users]
  /\ Category \in [Awards -> DOMAIN PointsRatePerNaira]
  /\ Kobo \in [Awards -> Nat \ {0}]
  /\ Points \in [Redemptions -> Nat \ {0}]
  /\ FaultSets \subseteq SUBSET {"db", "kill"}
  /\ "free" \notin Workers
  /\ IsFiniteSet(Redemptions)

\* Whole naira only: the division is an integer division.
CalculatePointsEarned(category, amountKobo) == (amountKobo \div 100) * PointsRatePerNaira[category]

PointsRedemptionRate == 100
PointsToKobo(points) == (points * 100) \div PointsRedemptionRate

\* The thresholds are tried from the highest one down.
TierThresholds ==
  << [min |-> 200000, tier |-> "platinum"], [min |-> 50000, tier |-> "gold"],
     [min |-> 10000, tier |-> "silver"], [min |-> 0, tier |-> "bronze"] >>

CalculateTier(lifetime) ==
  LET reached == {i \in DOMAIN TierThresholds : lifetime >= TierThresholds[i].min}
  IN  TierThresholds[CHOOSE i \in reached : \A j \in reached : i <= j].tier

VARIABLES faults,   \* the faults that may happen in this behaviour
          account,  \* loyalty_accounts row of each user, NoAccount at first
          ledger,   \* loyalty_transactions of each user, in order of commit
          lock,     \* the transaction that holds the account's row lock
          seen,     \* the account each transaction read under the lock
          pc,       \* next statement of each award and redemption
          credited  \* kobo each redemption has credited to the wallet

vars == <<faults, account, ledger, lock, seen, pc, credited>>

NoAccount == [balance |-> 0, lifetime |-> 0, tier |-> "none"]
NewAccount == [balance |-> 0, lifetime |-> 0, tier |-> "bronze"]

Account == [balance: Nat, lifetime: Nat, tier: {"none", "bronze", "silver", "gold", "platinum"}]
LedgerEntry == [type: {"earn", "redeem"}, points: Nat, before: Nat, after: Nat]

TypeOK ==
  /\ faults \in FaultSets
  /\ account \in [Users -> Account]
  /\ ledger \in [Users -> Seq(LedgerEntry)]
  /\ lock \in [Users -> Workers \cup {"free"}]
  /\ seen \in [Workers -> Account]
  /\ pc \in [Workers -> {"start", "account", "lock", "write", "credit", "insert",
                         "done", "failed", "killed"}]
  /\ credited \in [Redemptions -> Nat]

Init ==
  /\ faults \in FaultSets
  /\ account = [u \in Users |-> NoAccount]
  /\ ledger = [u \in Users |-> <<>>]
  /\ lock = [u \in Users |-> "free"]
  /\ seen = [w \in Workers |-> NoAccount]
  /\ pc = [w \in Workers |-> "start"]
  /\ credited = [q \in Redemptions |-> 0]

-------------------------------------------------------------------------------
Failing == "db" \in faults
HasAccount(u) == account[u] # NoAccount
Goto(w, label) == pc' = [pc EXCEPT ![w] = label]

\* AwardPoints returns at once when the transaction earns nothing.
StartAward(a) ==
  /\ pc[a] = "start"
  /\ Goto(a, IF CalculatePointsEarned(Category[a], Kobo[a]) = 0 THEN "done" ELSE "account")
  /\ UNCHANGED <<faults, account, ledger, lock, seen, credited>>

\* The check that the points are whole naira.
StartRedeem(q) ==
  /\ pc[q] = "start"
  /\ Goto(q, IF Points[q] % 100 = 0 THEN "lock" ELSE "failed")
  /\ UNCHANGED <<faults, account, ledger, lock, seen, credited>>

\* ON CONFLICT DO NOTHING lets two goroutines create one account.
GetOrCreate(u) == account' = [account EXCEPT ![u] = IF HasAccount(u) THEN @ ELSE NewAccount]

\* Reading the balance creates the account, too.
GetBalance(u) ==
  /\ ~HasAccount(u) /\ GetOrCreate(u)
  /\ UNCHANGED <<faults, ledger, lock, seen, pc, credited>>

EnsureAccount(a) ==
  /\ pc[a] = "account"
  /\ \/ GetOrCreate(UserOf[a]) /\ Goto(a, "lock")
     \/ Failing /\ Goto(a, "failed") /\ UNCHANGED account
  /\ UNCHANGED <<faults, ledger, lock, seen, credited>>

\* Mutant: the account is read without FOR UPDATE.
Bug_LockAccount(w) ==
  /\ pc[w] = "lock" /\ HasAccount(UserOf[w])
  /\ seen' = [seen EXCEPT ![w] = account[UserOf[w]]]
  /\ Goto(w, "write")
  /\ UNCHANGED <<faults, account, ledger, lock, credited>>

\* SELECT ... FOR UPDATE waits for the holder of the lock.
LockAccount(w) ==
  LET u == UserOf[w] IN
  /\ pc[w] = "lock"
  /\ \/ /\ HasAccount(u) /\ lock[u] = "free"
        /\ lock' = [lock EXCEPT ![u] = w]
        /\ seen' = [seen EXCEPT ![w] = account[u]]
        /\ Goto(w, "write")
     \/ /\ ~HasAccount(u) \/ Failing
        /\ Goto(w, "failed") /\ UNCHANGED <<lock, seen>>
  /\ UNCHANGED <<faults, account, ledger, credited>>

Entry(type, points, before, after) ==
  [type |-> type, points |-> points, before |-> before, after |-> after]

\* Mutant: an early return leaves the transaction open.
Bug_Unlock(w) == UNCHANGED lock

\* Commit, or the deferred rollback.
Unlock(w) == lock' = [u \in Users |-> IF lock[u] = w THEN "free" ELSE lock[u]]

\* The rest of the transaction fails and is rolled back.
Rollback(w) ==
  /\ Unlock(w) /\ Goto(w, "failed")
  /\ UNCHANGED <<account, ledger>>

\* EarnPoints from the update on, and its commit.
EarnPoints(a) ==
  LET u == UserOf[a]
      points == CalculatePointsEarned(Category[a], Kobo[a])
      balance == seen[a].balance + points
      lifetime == seen[a].lifetime + points
  IN
  /\ pc[a] = "write"
  /\ \/ /\ account' = [account EXCEPT ![u] = [balance |-> balance, lifetime |-> lifetime,
                                             tier |-> CalculateTier(lifetime)]]
        /\ ledger' = [ledger EXCEPT ![u] = Append(@, Entry("earn", points, seen[a].balance, balance))]
        /\ Unlock(a)
        /\ (Goto(a, "done") \/ (Failing /\ Goto(a, "failed")))
     \/ Failing /\ Rollback(a)
  /\ UNCHANGED <<faults, seen, credited>>

\* RedeemPoints of the repository, from its check on.
RedeemPoints(q) ==
  LET u == UserOf[q]
      balance == seen[q].balance - Points[q]
  IN
  /\ pc[q] = "write"
  /\ \/ /\ balance >= 0
        /\ account' = [account EXCEPT ![u].balance = balance]
        /\ ledger' = [ledger EXCEPT ![u] =
                        Append(@, Entry("redeem", Points[q], seen[q].balance, balance))]
        /\ Unlock(q)
        /\ (Goto(q, "credit") \/ (Failing /\ Goto(q, "failed")))
     \/ (balance < 0 \/ Failing) /\ Rollback(q)
  /\ UNCHANGED <<faults, seen, credited>>

\* Mutant: kobo and naira are mixed up.
Bug_CreditRedemption(q) ==
  /\ pc[q] = "credit"
  /\ credited' = [credited EXCEPT ![q] = @ + Points[q] * 100]
  /\ Goto(q, "insert")
  /\ UNCHANGED <<faults, account, ledger, lock, seen>>

\* FindByUserID and CreditBalance: on an error the points are gone.
CreditRedemption(q) ==
  /\ pc[q] = "credit"
  /\ \/ /\ credited' = [credited EXCEPT ![q] = @ + PointsToKobo(Points[q])]
        /\ (Goto(q, "insert") \/ (Failing /\ Goto(q, "failed")))
     \/ Failing /\ Goto(q, "failed") /\ UNCHANGED credited
  /\ UNCHANGED <<faults, account, ledger, lock, seen>>

\* The error of this InsertTransaction is dropped.
InsertRedemption(q) ==
  /\ pc[q] = "insert" /\ Goto(q, "done")
  /\ UNCHANGED <<faults, account, ledger, lock, seen, credited>>

\* The process dies, or shuts down: srv.Shutdown waits ten seconds for requests and
\* not at all for AwardPoints goroutines.  The database rolls back.
Kill(w) ==
  /\ "kill" \in faults
  /\ pc[w] \notin {"start", "done", "failed", "killed"}
  /\ Unlock(w) /\ Goto(w, "killed")
  /\ UNCHANGED <<faults, account, ledger, seen, credited>>

-------------------------------------------------------------------------------
AwardPoints(a) == StartAward(a) \/ EnsureAccount(a) \/ LockAccount(a) \/ EarnPoints(a)

Redeem(q) ==
  \/ StartRedeem(q) \/ LockAccount(q) \/ RedeemPoints(q) \/ CreditRedemption(q) \/ InsertRedemption(q)

Next ==
  \/ \E a \in Awards : AwardPoints(a)
  \/ \E q \in Redemptions : Redeem(q)
  \/ \E w \in Workers : Kill(w)
  \/ \E u \in Users : GetBalance(u)

Spec == Init /\ [][Next]_vars

\* Goroutines keep running; a row lock is granted again and again, so that a
\* waiting transaction gets it eventually.
FairSpec ==
  /\ Spec
  /\ \A a \in Awards : SF_vars(AwardPoints(a))
  /\ \A q \in Redemptions : SF_vars(Redeem(q))

-------------------------------------------------------------------------------
(* What the code is meant to guarantee.                                       *)

Sum(entries, type) ==
  LET total[i \in 0 .. Len(entries)] ==
        IF i = 0 THEN 0
        ELSE total[i - 1] + IF entries[i].type = type THEN entries[i].points ELSE 0
  IN  total[Len(entries)]

\* The tier that a number of lifetime points deserves, at the thresholds too.
Deserved(points) ==
  CHOOSE t \in {"bronze", "silver", "gold", "platinum"} :
    \/ t = "bronze" /\ points < 10000
    \/ t = "silver" /\ 10000 <= points /\ points < 50000
    \/ t = "gold" /\ 50000 <= points /\ points < 200000
    \/ t = "platinum" /\ points >= 200000

\* No update is lost, however awards and redemptions race and fail: every account
\* equals the sum of its ledger and is not overspent, the entries form a chain of
\* balances, and lifetime points and tier follow from what was earned and are
\* not lowered by redeeming (EarnPoints, RedeemPoints and their row lock).
AccountMatchesLedger ==
  /\ TypeOK
  /\ \A u \in Users : HasAccount(u) =>
       LET entries == ledger[u] IN
       /\ account[u].balance = Sum(entries, "earn") - Sum(entries, "redeem")
       /\ account[u].lifetime = Sum(entries, "earn")
       /\ account[u].tier = Deserved(account[u].lifetime)
       /\ \A i \in 1 .. Len(entries) - 1 : entries[i].after = entries[i + 1].before

\* While the database answers, every award that is worth points arrives unless its
\* own goroutine is killed; one that dies holding the row lock stops no other.
EveryAwardArrives ==
  \A a \in Awards : "db" \notin faults => <>(pc[a] \in {"done", "killed"})

\* Redemptions of u whose points are taken and not paid out.
Unpaid(u) ==
  {q \in Redemptions : UserOf[q] = u /\ credited[q] = 0 /\ pc[q] \in {"credit", "failed", "killed"}}

\* The points that a set of redemptions asks for.
Worth(set) == MapThenSumSet(LAMBDA q : Points[q], set)

\* "RedeemPoints converts points to wallet credit at 100 points = N1"
\* (loyalty_service.go:132): whatever fails, what was paid out is exactly what the
\* points were worth, less some redemptions that failed or died between their two
\* transactions; without faults nothing is missing but the ones on their way.
PointsBecomeCredit ==
  \A u \in Users :
    LET paid == {q \in Redemptions : UserOf[q] = u /\ credited[q] > 0}
    IN
    /\ \A q \in paid : credited[q] = Points[q]
    /\ \A q \in Redemptions : UserOf[q] = u /\ pc[q] \in {"insert", "done"} => q \in paid
    /\ \E missing \in SUBSET Unpaid(u) :
         /\ Sum(ledger[u], "redeem") = Worth(paid) + Worth(missing)
         /\ faults = {} => missing = {q \in Unpaid(u) : pc[q] = "credit"}
===============================================================================
