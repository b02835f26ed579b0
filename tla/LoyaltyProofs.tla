----------------------------- MODULE LoyaltyProofs -----------------------------
(***************************************************************************)
(* The points of every account are the sum of its ledger, and what was     *)
(* taken from it is what its conversions credit to the wallet, for every   *)
(* number of users, awards and redemptions and every amount.               *)
(*                                                                         *)
(* Sum is defined by recursion over the ledger.  What it does when an      *)
(* entry is appended follows from two facts about such a definition, that  *)
(* a function of running totals exists and that it is the only one, both   *)
(* shown by taking the smallest index at which they fail.                  *)
(***************************************************************************)
EXTENDS Loyalty, SumProofs

-------------------------------------------------------------------------------
(* Running totals.                                                            *)

Term(s, t, i) == IF s[i].type = t THEN s[i].points ELSE 0

\* f holds the totals of the first 0, 1, ..., n entries of s.
Totals(f, s, t, n) == f = [i \in 0 .. n |-> IF i = 0 THEN 0 ELSE f[i - 1] + Term(s, t, i)]

LEMMA SumIsTotal ==
  ASSUME NEW s, NEW t
  PROVE  Sum(s, t) = (CHOOSE f : Totals(f, s, t, Len(s)))[Len(s)]
BY Zenon DEF Sum, Totals, Term

LEMMA TermIsNat ==
  ASSUME NEW s \in Seq(LedgerEntry), NEW t, NEW i \in 1 .. Len(s)
  PROVE  Term(s, t, i) \in Nat
<1>1. s[i] \in LedgerEntry
  OBVIOUS
<1>. QED BY <1>1 DEF Term, LedgerEntry

\* Totals as equations.
LEMMA TotalsAre ==
  ASSUME NEW f, NEW s, NEW t, NEW n \in Nat, Totals(f, s, t, n)
  PROVE  /\ f[0] = 0
         /\ \A i \in 1 .. n : f[i] = f[i - 1] + Term(s, t, i)
BY DEF Totals

\* A function of running totals exists.
LEMMA TotalsExist ==
  ASSUME NEW s \in Seq(LedgerEntry), NEW t, NEW n \in 0 .. Len(s)
  PROVE  \E f : Totals(f, s, t, n)
<1>. DEFINE T == {m \in 0 .. Len(s) : ~ \E f : Totals(f, s, t, m)}
<1>1. SUFFICES ASSUME T # {} PROVE FALSE
  OBVIOUS
<1>2. PICK m \in T : \A k \in T : m <= k
  <2>1. T \subseteq Nat
    OBVIOUS
  <2>. HIDE DEF T
  <2>. QED BY <1>1, <2>1, LeastNumber
<1>3. m \in 0 .. Len(s) /\ ~ \E f : Totals(f, s, t, m)
  OBVIOUS
<1>4. m # 0
  <2>1. Totals([i \in 0 .. 0 |-> 0], s, t, 0)
    BY DEF Totals
  <2>. QED BY <1>3, <2>1
<1>5. m - 1 \in 0 .. Len(s) /\ m - 1 \notin T
  <2>1. m - 1 \in 0 .. Len(s)
    BY <1>3, <1>4
  <2>2. ~ (m <= m - 1)
    BY <1>3
  <2>. HIDE DEF T
  <2>. QED BY <1>2, <2>1, <2>2
<1>6. PICK f : Totals(f, s, t, m - 1)
  BY <1>5
<1>. DEFINE g == [i \in 0 .. m |-> IF i = m THEN f[m - 1] + Term(s, t, m) ELSE f[i]]
<1>7. m \in Nat /\ m - 1 \in Nat
  BY <1>3, <1>4
<1>8. f[0] = 0 /\ \A i \in 1 .. m - 1 : f[i] = f[i - 1] + Term(s, t, i)
  BY <1>6, <1>7, TotalsAre
<1>9. ASSUME NEW i \in 0 .. m
      PROVE  g[i] = IF i = 0 THEN 0 ELSE g[i - 1] + Term(s, t, i)
  <2>1. CASE i = 0
    BY <1>4, <1>7, <1>8, <2>1
  <2>2. CASE i = m
    <3>1. i # 0 /\ i - 1 # m /\ i - 1 \in 0 .. m
      BY <1>4, <1>7, <2>2
    <3>2. g[i - 1] = f[i - 1] /\ g[i] = f[m - 1] + Term(s, t, m)
      BY <2>2, <3>1
    <3>. QED BY <2>2, <3>1, <3>2
  <2>3. CASE i # 0 /\ i # m
    <3>1. i \in 1 .. m - 1 /\ i - 1 \in 0 .. m /\ i - 1 # m
      BY <1>7, <2>3
    <3>2. g[i] = f[i] /\ g[i - 1] = f[i - 1]
      BY <2>3, <3>1
    <3>. QED BY <1>8, <2>3, <3>1, <3>2
  <2>. QED BY <2>1, <2>2, <2>3
<1>10. Totals(g, s, t, m)
  BY <1>9 DEF Totals
<1>. QED BY <1>3, <1>10

\* Running totals are natural numbers, and what they are at i depends on the first
\* i entries only.
LEMMA TotalsAgree ==
  ASSUME NEW s \in Seq(LedgerEntry), NEW r \in Seq(LedgerEntry), NEW t,
         Len(s) <= Len(r), \A i \in 1 .. Len(s) : r[i] = s[i],
         NEW f, Totals(f, s, t, Len(s)),
         NEW g, Totals(g, r, t, Len(r))
  PROVE  \A i \in 0 .. Len(s) : f[i] \in Nat /\ g[i] = f[i]
<1>. DEFINE T == {i \in 0 .. Len(s) : ~ (f[i] \in Nat /\ g[i] = f[i])}
<1>1. SUFFICES ASSUME T # {} PROVE FALSE
  OBVIOUS
<1>2. PICK m \in T : \A k \in T : m <= k
  <2>1. T \subseteq Nat
    OBVIOUS
  <2>. HIDE DEF T
  <2>. QED BY <1>1, <2>1, LeastNumber
<1>3. m \in 0 .. Len(s) /\ ~ (f[m] \in Nat /\ g[m] = f[m])
  OBVIOUS
<1>4. Len(s) \in Nat /\ Len(r) \in Nat
  OBVIOUS
<1>5. f[0] = 0 /\ \A i \in 1 .. Len(s) : f[i] = f[i - 1] + Term(s, t, i)
  BY <1>4, TotalsAre
<1>6. g[0] = 0 /\ \A i \in 1 .. Len(r) : g[i] = g[i - 1] + Term(r, t, i)
  BY <1>4, TotalsAre
<1>7. m # 0
  BY <1>3, <1>5, <1>6
<1>8. m \in 1 .. Len(s) /\ m \in 1 .. Len(r) /\ m - 1 \in 0 .. Len(s)
  BY <1>3, <1>4, <1>7
<1>9. f[m - 1] \in Nat /\ g[m - 1] = f[m - 1]
  <2>1. ~ (m <= m - 1)
    BY <1>8
  <2>2. m - 1 \notin T
    <3>. HIDE DEF T
    <3>. QED BY <1>2, <2>1
  <2>. QED BY <1>8, <2>2
<1>10. Term(r, t, m) = Term(s, t, m) /\ Term(s, t, m) \in Nat
  BY <1>8, TermIsNat DEF Term
<1>. QED BY <1>3, <1>5, <1>6, <1>8, <1>9, <1>10

-------------------------------------------------------------------------------
(* What Sum returns.                                                          *)

LEMMA SumOfNothing == \A t : Sum(<<>>, t) = 0
<1>. SUFFICES ASSUME NEW t PROVE Sum(<<>>, t) = 0
  OBVIOUS
<1>1. <<>> \in Seq(LedgerEntry) /\ Len(<<>>) = 0
  OBVIOUS
<1>2. \E f : Totals(f, <<>>, t, Len(<<>>))
  <2>1. Len(<<>>) \in 0 .. Len(<<>>)
    BY <1>1
  <2>. QED BY <1>1, <2>1, TotalsExist
<1>. DEFINE F == CHOOSE f : Totals(f, <<>>, t, Len(<<>>))
<1>3. Totals(F, <<>>, t, Len(<<>>))
  BY <1>2
<1>4. Sum(<<>>, t) = F[Len(<<>>)]
  BY SumIsTotal
<1>. HIDE DEF F
<1>5. F[0] = 0
  BY <1>1, <1>3, TotalsAre
<1>. QED BY <1>1, <1>4, <1>5

\* Appending an entry adds its points to the sum of its type and to no other.
LEMMA SumOfAppend ==
  ASSUME NEW s \in Seq(LedgerEntry), NEW e \in LedgerEntry, NEW t
  PROVE  /\ Sum(s, t) \in Nat
         /\ Sum(Append(s, e), t) = Sum(s, t) + IF e.type = t THEN e.points ELSE 0
<1>. DEFINE r == Append(s, e)
            n == Len(s)
<1>1. /\ r \in Seq(LedgerEntry) /\ Len(r) = n + 1 /\ n \in Nat
      /\ r[n + 1] = e /\ \A i \in 1 .. n : r[i] = s[i]
  OBVIOUS
<1>. HIDE DEF r
<1>. DEFINE F == CHOOSE f : Totals(f, s, t, n)
            G == CHOOSE f : Totals(f, r, t, Len(r))
<1>2. Totals(F, s, t, n)
  <2>1. n \in 0 .. n
    BY <1>1
  <2>2. \E f : Totals(f, s, t, n)
    BY <2>1, TotalsExist
  <2>. QED BY <2>2
<1>3. Totals(G, r, t, Len(r))
  <2>1. Len(r) \in 0 .. Len(r)
    BY <1>1
  <2>2. \E f : Totals(f, r, t, Len(r))
    BY <1>1, <2>1, TotalsExist
  <2>. QED BY <2>2
<1>4. Sum(s, t) = F[n] /\ Sum(r, t) = G[Len(r)]
  BY SumIsTotal
<1>. HIDE DEF F, G
<1>5. \A i \in 0 .. n : F[i] \in Nat /\ G[i] = F[i]
  <2>1. n <= Len(r)
    BY <1>1
  <2>. QED BY <1>1, <1>2, <1>3, <2>1, TotalsAgree
<1>6. F[n] \in Nat /\ G[n] = F[n]
  BY <1>1, <1>5
<1>7. G[n + 1] = G[n] + Term(r, t, n + 1)
  <2>1. \A i \in 1 .. Len(r) : G[i] = G[i - 1] + Term(r, t, i)
    BY <1>1, <1>3, TotalsAre
  <2>2. n + 1 \in 1 .. Len(r) /\ (n + 1) - 1 = n
    BY <1>1
  <2>. QED BY <2>1, <2>2
<1>8. Term(r, t, n + 1) = IF e.type = t THEN e.points ELSE 0
  BY <1>1 DEF Term
<1>. QED BY <1>1, <1>4, <1>6, <1>7, <1>8 DEF r

-------------------------------------------------------------------------------
(* The points of a set of redemptions.                                        *)

LEMMA WorthIsTotal ==
  /\ Summable(Points, Redemptions)
  /\ \A S : Worth(S) = SumFunctionOnSet(Points, S)
<1>1. Summable(Points, Redemptions)
  BY LoyaltyAssumption DEF Summable
<1>2. ASSUME NEW S PROVE Worth(S) = SumFunctionOnSet(Points, S)
  BY Zenon DEF Worth, MapThenSumSet, SumFunctionOnSet, FoldFunctionOnSet
<1>. QED BY <1>1, <1>2

LEMMA WorthOfNothing == Worth({}) = 0
BY WorthIsTotal, TotalOfNothing

LEMMA WorthOfMore ==
  ASSUME NEW S \in SUBSET Redemptions, NEW q \in Redemptions \ S
  PROVE  Worth(S \cup {q}) = Worth(S) + Points[q]
BY WorthIsTotal, TotalOfMore

\* The points of disjoint sets add up.
LEMMA WorthOfUnion ==
  ASSUME NEW A \in SUBSET Redemptions, NEW B \in SUBSET Redemptions, A \cap B = {}
  PROVE  Worth(A \cup B) = Worth(A) + Worth(B)
BY WorthIsTotal, TotalOfUnion

-------------------------------------------------------------------------------
(* Points and tiers.                                                          *)

LEMMA RatesAreNumbers ==
  \A c \in DOMAIN PointsRatePerNaira : PointsRatePerNaira[c] \in Nat
BY DEF PointsRatePerNaira

LEMMA NatTimesNat == \A m, n \in Nat : m * n \in Nat
OBVIOUS

LEMMA EarnedIsNat ==
  \A a \in Awards : CalculatePointsEarned(Category[a], Kobo[a]) \in Nat
<1>. SUFFICES ASSUME NEW a \in Awards
              PROVE  CalculatePointsEarned(Category[a], Kobo[a]) \in Nat
  OBVIOUS
<1>1. PointsRatePerNaira[Category[a]] \in Nat
  BY LoyaltyAssumption, RatesAreNumbers
<1>2. Kobo[a] \div 100 \in Nat
  BY LoyaltyAssumption
<1>. QED BY <1>1, <1>2, NatTimesNat DEF CalculatePointsEarned

LEMMA KoboIsNat == \A q \in Redemptions : PointsToKobo(Points[q]) \in Nat
BY LoyaltyAssumption, SMT DEF PointsToKobo, PointsRedemptionRate

\* The loop over the thresholds finds the tier that the points deserve.
LEMMA TierIsDeserved ==
  ASSUME NEW n \in Nat
  PROVE  /\ CalculateTier(n) = Deserved(n)
         /\ Deserved(n) \in {"bronze", "silver", "gold", "platinum"}
<1>. DEFINE reached == {i \in DOMAIN TierThresholds : n >= TierThresholds[i].min}
            first == CHOOSE i \in reached : \A j \in reached : i <= j
<1>1. /\ DOMAIN TierThresholds = 1 .. 4
      /\ TierThresholds[1] = [min |-> 200000, tier |-> "platinum"]
      /\ TierThresholds[2] = [min |-> 50000, tier |-> "gold"]
      /\ TierThresholds[3] = [min |-> 10000, tier |-> "silver"]
      /\ TierThresholds[4] = [min |-> 0, tier |-> "bronze"]
  BY SMT DEF TierThresholds
<1>2. reached \subseteq 1 .. 4 /\ 4 \in reached
  BY <1>1, SMT
<1>3. /\ 1 \in reached <=> n >= 200000
      /\ 2 \in reached <=> n >= 50000
      /\ 3 \in reached <=> n >= 10000
  BY <1>1, SMT
<1>4. CalculateTier(n) = TierThresholds[first].tier
  BY SMT DEF CalculateTier
<1>. HIDE DEF reached
<1>5. /\ Deserved(n) \in {"bronze", "silver", "gold", "platinum"}
      /\ \/ Deserved(n) = "bronze" /\ n < 10000
         \/ Deserved(n) = "silver" /\ 10000 <= n /\ n < 50000
         \/ Deserved(n) = "gold" /\ 50000 <= n /\ n < 200000
         \/ Deserved(n) = "platinum" /\ n >= 200000
  <2>. DEFINE S == {"bronze", "silver", "gold", "platinum"}
              P(t) == \/ t = "bronze" /\ n < 10000
                      \/ t = "silver" /\ 10000 <= n /\ n < 50000
                      \/ t = "gold" /\ 50000 <= n /\ n < 200000
                      \/ t = "platinum" /\ n >= 200000
  <2>1. P("bronze") \/ P("silver") \/ P("gold") \/ P("platinum")
    BY SMT
  <2>2. \E t \in S : P(t)
    <3>1. "bronze" \in S /\ "silver" \in S /\ "gold" \in S /\ "platinum" \in S
      OBVIOUS
    <3>. HIDE DEF P, S
    <3>. QED BY <2>1, <3>1
  <2>3. Deserved(n) = CHOOSE t \in S : P(t)
    BY SMT DEF Deserved
  <2>4. Deserved(n) \in S /\ P(Deserved(n))
    <3>. HIDE DEF P, S
    <3>. QED BY <2>2, <2>3
  <2>. QED BY <2>4
<1>6. CASE n >= 200000
  <2>1. 1 \in reached /\ \A j \in reached : 1 <= j
    BY <1>2, <1>3, <1>6, SMT
  <2>2. \A i \in reached : (\A j \in reached : i <= j) => i = 1
    BY <1>2, <2>1, SMT
  <2>3. first = 1
    BY <2>1, <2>2, SMT
  <2>. HIDE DEF first
  <2>4. CalculateTier(n) = "platinum"
    BY <1>1, <1>4, <2>3, SMT
  <2>5. Deserved(n) = "platinum"
    BY <1>6, <1>5, SMT
  <2>. QED BY <2>4, <2>5
<1>7. CASE n < 200000 /\ n >= 50000
  <2>1. 2 \in reached /\ \A j \in reached : 2 <= j
    BY <1>2, <1>3, <1>7, SMT
  <2>2. \A i \in reached : (\A j \in reached : i <= j) => i = 2
    BY <1>2, <2>1, SMT
  <2>3. first = 2
    BY <2>1, <2>2, SMT
  <2>. HIDE DEF first
  <2>4. CalculateTier(n) = "gold"
    BY <1>1, <1>4, <2>3, SMT
  <2>5. Deserved(n) = "gold"
    BY <1>7, <1>5, SMT
  <2>. QED BY <2>4, <2>5
<1>8. CASE n < 50000 /\ n >= 10000
  <2>1. 3 \in reached /\ \A j \in reached : 3 <= j
    BY <1>2, <1>3, <1>8, SMT
  <2>2. \A i \in reached : (\A j \in reached : i <= j) => i = 3
    BY <1>2, <2>1, SMT
  <2>3. first = 3
    BY <2>1, <2>2, SMT
  <2>. HIDE DEF first
  <2>4. CalculateTier(n) = "silver"
    BY <1>1, <1>4, <2>3, SMT
  <2>5. Deserved(n) = "silver"
    BY <1>8, <1>5, SMT
  <2>. QED BY <2>4, <2>5
<1>9. CASE n < 10000
  <2>1. 4 \in reached /\ \A j \in reached : 4 <= j
    BY <1>2, <1>3, <1>9, SMT
  <2>2. \A i \in reached : (\A j \in reached : i <= j) => i = 4
    BY <1>2, <2>1, SMT
  <2>3. first = 4
    BY <2>1, <2>2, SMT
  <2>. HIDE DEF first
  <2>4. CalculateTier(n) = "bronze"
    BY <1>1, <1>4, <2>3, SMT
  <2>5. Deserved(n) = "bronze"
    BY <1>9, <1>5, SMT
  <2>. QED BY <2>4, <2>5
<1>10. n >= 200000 \/ (n < 200000 /\ n >= 50000) \/ (n < 50000 /\ n >= 10000) \/ n < 10000
  BY SMT
<1>. QED BY <1>6, <1>7, <1>8, <1>9, <1>10, SMT

-------------------------------------------------------------------------------
(* The inductive invariant.                                                   *)

\* A transaction between its read and its commit holds the row lock of its user
\* and has read what is still in the row.
ReadsAreFresh ==
  \A w \in Workers : pc[w] = "write" =>
    /\ lock[UserOf[w]] = w
    /\ HasAccount(UserOf[w])
    /\ seen[w] = account[UserOf[w]]

\* A user without an account has no entries.
NoEntriesBefore == \A u \in Users : account[u].tier = "none" => account[u] = NoAccount /\ ledger[u] = <<>>

\* The row is the sum of the entries, and the tier that of the points earned.
RowIsSum ==
  \A u \in Users :
    /\ account[u].balance = Sum(ledger[u], "earn") - Sum(ledger[u], "redeem")
    /\ account[u].lifetime = Sum(ledger[u], "earn")
    /\ account[u].tier # "none" => account[u].tier = Deserved(account[u].lifetime)

\* The entries form a chain that ends at the balance.
Chained(entries, balance) ==
  /\ \A i \in 1 .. Len(entries) - 1 : entries[i].after = entries[i + 1].before
  /\ entries # <<>> => entries[Len(entries)].after = balance

Chain == \A u \in Users : Chained(ledger[u], account[u].balance)

LoyaltyInv == TypeOK /\ ReadsAreFresh /\ NoEntriesBefore /\ RowIsSum /\ Chain


\* Initially nobody has an account.
LEMMA InitEstablishes == Init => LoyaltyInv
<1>. SUFFICES ASSUME Init PROVE LoyaltyInv
  OBVIOUS
<1>1. TypeOK
  <2>1. NoAccount \in Account
    BY DEF NoAccount, Account
  <2>2. <<>> \in Seq(LedgerEntry)
    OBVIOUS
  <2>. QED BY <2>1, <2>2 DEF Init, TypeOK
<1>2. ReadsAreFresh /\ NoEntriesBefore
  BY DEF Init, ReadsAreFresh, NoEntriesBefore
<1>3. RowIsSum
  <2>. SUFFICES ASSUME NEW u \in Users
                PROVE  /\ account[u].balance = Sum(ledger[u], "earn") - Sum(ledger[u], "redeem")
                       /\ account[u].lifetime = Sum(ledger[u], "earn")
                       /\ account[u].tier # "none" => account[u].tier = Deserved(account[u].lifetime)
    BY DEF RowIsSum
  <2>1. account[u].balance = 0 /\ account[u].lifetime = 0 /\ account[u].tier = "none" /\ ledger[u] = <<>>
    BY DEF Init, NoAccount
  <2>2. Sum(ledger[u], "earn") = 0 /\ Sum(ledger[u], "redeem") = 0
    BY <2>1, SumOfNothing
  <2>. QED BY <2>1, <2>2
<1>4. Chain
  BY DEF Init, Chain, Chained
<1>. QED BY <1>1, <1>2, <1>3, <1>4 DEF LoyaltyInv

\* HasAccount tells the rows that exist from those that do not.
LEMMA HasAccountIs ==
  ASSUME LoyaltyInv, NEW u \in Users
  PROVE  HasAccount(u) <=> account[u].tier # "none"
BY DEF LoyaltyInv, NoEntriesBefore, HasAccount, NoAccount

-------------------------------------------------------------------------------
(* Steps that leave rows and locks alone, and steps that end a transaction.   *)

Labels == {"start", "account", "lock", "write", "credit", "insert", "done", "failed", "killed"}

\* w goes on to label l, and no row changes; its lock may be released.
Ends(w, l) ==
  /\ l \in Labels \ {"write"}
  /\ Goto(w, l)
  /\ UNCHANGED <<faults, account, ledger, seen>>
  /\ UNCHANGED lock \/ Unlock(w)
  /\ credited' \in [Redemptions -> Nat]

LEMMA EndsPreserves ==
  ASSUME LoyaltyInv, NEW w \in Workers, NEW l, Ends(w, l)
  PROVE  LoyaltyInv'
<1>. USE DEF LoyaltyInv
<1>1. TypeOK'
  BY DEF TypeOK, Ends, Goto, Unlock, Labels
<1>2. ReadsAreFresh'
  <2>. SUFFICES ASSUME NEW v \in Workers, pc'[v] = "write"
                PROVE  /\ lock'[UserOf[v]] = v
                       /\ HasAccount(UserOf[v])'
                       /\ seen'[v] = account'[UserOf[v]]
    BY DEF ReadsAreFresh
  <2>1. v # w /\ pc[v] = "write"
    BY DEF TypeOK, Ends, Goto
  <2>2. lock[UserOf[v]] = v /\ HasAccount(UserOf[v]) /\ seen[v] = account[UserOf[v]]
    BY <2>1 DEF ReadsAreFresh
  <2>3. UserOf[v] \in Users
    BY LoyaltyAssumption
  <2>4. lock'[UserOf[v]] = v
    BY <2>1, <2>2, <2>3 DEF Ends, Unlock
  <2>. QED BY <2>2, <2>4 DEF Ends, HasAccount
<1>3. NoEntriesBefore' /\ RowIsSum' /\ Chain'
  <2>1. account' = account /\ ledger' = ledger
    BY DEF Ends
  <2>. QED BY <2>1 DEF NoEntriesBefore, RowIsSum, Chain
<1>. QED BY <1>1, <1>2, <1>3

\* An account is created for a user who had none.
Creates(u) ==
  /\ GetOrCreate(u)
  /\ UNCHANGED <<faults, ledger, lock, seen, credited>>
  /\ pc' \in [Workers -> Labels]
  /\ \A w \in Workers : pc'[w] = "write" => pc[w] = "write"

LEMMA CreatesPreserves ==
  ASSUME LoyaltyInv, NEW u \in Users, Creates(u)
  PROVE  LoyaltyInv'
<1>. USE DEF LoyaltyInv
<1>1. /\ account \in [Users -> Account]
      /\ account' = [account EXCEPT ![u] = IF HasAccount(u) THEN account[u] ELSE NewAccount]
      /\ ledger' = ledger /\ lock' = lock /\ seen' = seen
  BY DEF TypeOK, Creates, GetOrCreate
<1>2. NewAccount \in Account
  BY DEF NewAccount, Account
<1>3. TypeOK'
  BY <1>1, <1>2 DEF TypeOK, Creates, Labels
<1>4. \A v \in Users : HasAccount(v) => account'[v] = account[v]
  BY <1>1
<1>5. \A v \in Users : account'[v] = account[v] \/ (~HasAccount(v) /\ account'[v] = NewAccount)
  BY <1>1
<1>6. ReadsAreFresh'
  <2>. SUFFICES ASSUME NEW w \in Workers, pc'[w] = "write"
                PROVE  /\ lock'[UserOf[w]] = w
                       /\ HasAccount(UserOf[w])'
                       /\ seen'[w] = account'[UserOf[w]]
    BY DEF ReadsAreFresh
  <2>1. lock[UserOf[w]] = w /\ HasAccount(UserOf[w]) /\ seen[w] = account[UserOf[w]]
    BY DEF ReadsAreFresh, Creates
  <2>2. UserOf[w] \in Users
    BY LoyaltyAssumption
  <2>. QED BY <1>1, <1>4, <2>1, <2>2 DEF HasAccount
<1>7. NewAccount.tier = "bronze" /\ NewAccount.balance = 0 /\ NewAccount.lifetime = 0
  BY DEF NewAccount
<1>8. NoEntriesBefore'
  BY <1>1, <1>5, <1>7 DEF NoEntriesBefore
<1>9. \A v \in Users : ~HasAccount(v) => account[v].tier = "none" /\ ledger[v] = <<>>
  BY DEF NoEntriesBefore, HasAccount, NoAccount
<1>10. RowIsSum'
  <2>. SUFFICES ASSUME NEW v \in Users
                PROVE  /\ account'[v].balance = Sum(ledger'[v], "earn") - Sum(ledger'[v], "redeem")
                       /\ account'[v].lifetime = Sum(ledger'[v], "earn")
                       /\ account'[v].tier # "none" => account'[v].tier = Deserved(account'[v].lifetime)
    BY DEF RowIsSum
  <2>1. CASE account'[v] = account[v]
    BY <1>1, <2>1 DEF RowIsSum
  <2>2. CASE ~HasAccount(v) /\ account'[v] = NewAccount
    <3>1. ledger'[v] = <<>>
      BY <1>1, <1>9, <2>2
    <3>2. Sum(ledger'[v], "earn") = 0 /\ Sum(ledger'[v], "redeem") = 0
      BY <3>1, SumOfNothing
    <3>3. Deserved(0) = "bronze"
      BY SMT, TierIsDeserved DEF Deserved
    <3>. QED BY <1>7, <2>2, <3>2, <3>3
  <2>. QED BY <1>5, <2>1, <2>2
<1>11. Chain'
  <2>. SUFFICES ASSUME NEW v \in Users PROVE Chained(ledger'[v], account'[v].balance)
    BY DEF Chain
  <2>1. CASE account'[v] = account[v]
    BY <1>1, <2>1 DEF Chain
  <2>2. CASE ~HasAccount(v) /\ account'[v] = NewAccount
    BY <1>1, <1>9, <2>2 DEF Chained
  <2>. QED BY <1>5, <2>1, <2>2
<1>. QED BY <1>3, <1>6, <1>8, <1>10, <1>11

-------------------------------------------------------------------------------
(* The transaction: the read under the lock, and the write.                   *)

Reads(w) ==
  /\ HasAccount(UserOf[w]) /\ lock[UserOf[w]] = "free"
  /\ lock' = [lock EXCEPT ![UserOf[w]] = w]
  /\ seen' = [seen EXCEPT ![w] = account[UserOf[w]]]
  /\ Goto(w, "write")
  /\ UNCHANGED <<faults, account, ledger, credited>>

\* The lock is free: no other transaction on the row is between read and commit.
LEMMA ReadsPreserves ==
  ASSUME LoyaltyInv, NEW w \in Workers, Reads(w)
  PROVE  LoyaltyInv'
<1>. USE DEF LoyaltyInv
<1>1. UserOf[w] \in Users
  BY LoyaltyAssumption
<1>2. TypeOK'
  BY <1>1 DEF TypeOK, Reads, Goto
<1>3. ReadsAreFresh'
  <2>. SUFFICES ASSUME NEW v \in Workers, pc'[v] = "write"
                PROVE  /\ lock'[UserOf[v]] = v
                       /\ HasAccount(UserOf[v])'
                       /\ seen'[v] = account'[UserOf[v]]
    BY DEF ReadsAreFresh
  <2>1. CASE v = w
    BY <1>1, <2>1 DEF TypeOK, Reads, HasAccount
  <2>2. CASE v # w
    <3>1. pc[v] = "write"
      BY <2>2 DEF TypeOK, Reads, Goto
    <3>2. lock[UserOf[v]] = v /\ HasAccount(UserOf[v]) /\ seen[v] = account[UserOf[v]]
      BY <3>1 DEF ReadsAreFresh
    <3>3. UserOf[v] # UserOf[w]
      BY <3>2, LoyaltyAssumption DEF Reads
    <3>4. UserOf[v] \in Users
      BY LoyaltyAssumption
    <3>. QED BY <1>1, <2>2, <3>2, <3>3, <3>4 DEF TypeOK, Reads, HasAccount
  <2>. QED BY <2>1, <2>2
<1>4. NoEntriesBefore' /\ RowIsSum' /\ Chain'
  <2>1. account' = account /\ ledger' = ledger
    BY DEF Reads
  <2>. QED BY <2>1 DEF NoEntriesBefore, RowIsSum, Chain
<1>. QED BY <1>2, <1>3, <1>4

\* The entry e and the row r that it leads to are written from the row it found.
FollowsFrom(r, e, old) ==
  /\ r \in Account /\ e \in LedgerEntry /\ r.tier # "none"
  /\ e.before = old.balance /\ e.after = r.balance
  /\ \/ /\ e.type = "earn"
        /\ r.balance = old.balance + e.points /\ r.lifetime = old.lifetime + e.points
        /\ r.tier = Deserved(r.lifetime)
     \/ /\ e.type = "redeem"
        /\ r.balance = old.balance - e.points /\ r.lifetime = old.lifetime
        /\ r.tier = old.tier

Writes(w, l, r, e) ==
  /\ pc[w] = "write" /\ l \in Labels \ {"write"}
  /\ FollowsFrom(r, e, seen[w])
  /\ account' = [account EXCEPT ![UserOf[w]] = r]
  /\ ledger' = [ledger EXCEPT ![UserOf[w]] = Append(@, e)]
  /\ Unlock(w)
  /\ Goto(w, l)
  /\ UNCHANGED <<faults, seen, credited>>

\* What w read is what is in the row: the sums and the chain go on.
LEMMA WritesPreserves ==
  ASSUME LoyaltyInv, NEW w \in Workers, NEW l, NEW r, NEW e, Writes(w, l, r, e)
  PROVE  LoyaltyInv'
<1>. USE DEF LoyaltyInv
<1>. DEFINE u == UserOf[w]
<1>1. u \in Users
  BY LoyaltyAssumption
<1>2. /\ account \in [Users -> Account] /\ ledger \in [Users -> Seq(LedgerEntry)]
      /\ pc[w] = "write" /\ r \in Account /\ e \in LedgerEntry
      /\ account' = [account EXCEPT ![u] = r]
      /\ ledger' = [ledger EXCEPT ![u] = Append(ledger[u], e)]
  BY DEF TypeOK, Writes, FollowsFrom
<1>3. lock[u] = w /\ HasAccount(u) /\ seen[w] = account[u]
  BY <1>2 DEF ReadsAreFresh
<1>4. FollowsFrom(r, e, account[u])
  BY <1>3 DEF Writes
<1>5. account'[u] = r /\ ledger'[u] = Append(ledger[u], e)
  BY <1>1, <1>2
<1>6. \A v \in Users \ {u} : account'[v] = account[v] /\ ledger'[v] = ledger[v]
  BY <1>2
<1>7. ledger[u] \in Seq(LedgerEntry) /\ account[u] \in Account
  BY <1>1, <1>2
<1>8. TypeOK'
  <2>1. Append(ledger[u], e) \in Seq(LedgerEntry)
    BY <1>2, <1>7
  <2>2. account' \in [Users -> Account] /\ ledger' \in [Users -> Seq(LedgerEntry)]
    BY <1>2, <2>1
  <2>. QED BY <2>2 DEF TypeOK, Writes, Unlock, Goto, Labels
<1>9. ReadsAreFresh'
  <2>. SUFFICES ASSUME NEW v \in Workers, pc'[v] = "write"
                PROVE  /\ lock'[UserOf[v]] = v
                       /\ HasAccount(UserOf[v])'
                       /\ seen'[v] = account'[UserOf[v]]
    BY DEF ReadsAreFresh
  <2>1. v # w /\ pc[v] = "write"
    BY DEF TypeOK, Writes, Goto
  <2>2. lock[UserOf[v]] = v /\ HasAccount(UserOf[v]) /\ seen[v] = account[UserOf[v]]
    BY <2>1 DEF ReadsAreFresh
  <2>3. UserOf[v] \in Users \ {u}
    BY <1>3, <2>1, <2>2, LoyaltyAssumption
  <2>4. lock'[UserOf[v]] = v
    BY <2>1, <2>2, <2>3 DEF Writes, Unlock
  <2>5. seen' = seen /\ account'[UserOf[v]] = account[UserOf[v]]
    BY <1>6, <2>3 DEF Writes
  <2>. QED BY <2>2, <2>4, <2>5 DEF HasAccount
<1>10. NoEntriesBefore'
  <2>1. r.tier # "none"
    BY <1>4 DEF FollowsFrom
  <2>. QED BY <1>5, <1>6, <2>1 DEF NoEntriesBefore
<1>11. RowIsSum'
  <2>. DEFINE earned == Sum(ledger[u], "earn")
              spent == Sum(ledger[u], "redeem")
  <2>1. /\ earned \in Nat /\ spent \in Nat
        /\ Sum(Append(ledger[u], e), "earn") = earned + IF e.type = "earn" THEN e.points ELSE 0
        /\ Sum(Append(ledger[u], e), "redeem") = spent + IF e.type = "redeem" THEN e.points ELSE 0
    BY <1>2, <1>7, SumOfAppend
  <2>2. /\ account[u].balance = earned - spent /\ account[u].lifetime = earned
        /\ account[u].tier # "none" => account[u].tier = Deserved(account[u].lifetime)
    BY <1>1 DEF RowIsSum
  <2>3. e.points \in Nat
    BY <1>2 DEF LedgerEntry
  <2>. HIDE DEF earned, spent
  <2>4. /\ r.balance = Sum(Append(ledger[u], e), "earn") - Sum(Append(ledger[u], e), "redeem")
        /\ r.lifetime = Sum(Append(ledger[u], e), "earn")
    <3>1. CASE e.type = "earn"
      BY <1>4, <2>1, <2>2, <2>3, <3>1 DEF FollowsFrom
    <3>2. CASE e.type = "redeem"
      BY <1>4, <2>1, <2>2, <2>3, <3>2 DEF FollowsFrom
    <3>. QED BY <1>4, <3>1, <3>2 DEF FollowsFrom
  <2>5. r.tier = Deserved(r.lifetime)
    BY <1>4, <2>2 DEF FollowsFrom
  <2>. QED BY <1>5, <1>6, <2>4, <2>5 DEF RowIsSum
<1>12. Chain'
  <2>1. Chained(ledger[u], account[u].balance)
    BY <1>1 DEF Chain
  <2>2. Chained(Append(ledger[u], e), r.balance)
    <3>. DEFINE s == ledger[u]
                n == Len(s)
    <3>1. /\ n \in Nat /\ Len(Append(s, e)) = n + 1
          /\ Append(s, e)[n + 1] = e /\ \A i \in 1 .. n : Append(s, e)[i] = s[i]
      BY <1>2, <1>7
    <3>2. e.before = account[u].balance /\ e.after = r.balance
      BY <1>4 DEF FollowsFrom
    <3>3. ASSUME NEW i \in 1 .. n PROVE Append(s, e)[i].after = Append(s, e)[i + 1].before
      <4>1. CASE i = n
        <5>1. s # <<>>
          BY <3>1, <4>1
        <5>. QED BY <2>1, <3>1, <3>2, <4>1, <5>1 DEF Chained
      <4>2. CASE i # n
        <5>1. i \in 1 .. Len(s) - 1 /\ i + 1 \in 1 .. n
          BY <3>1, <4>2
        <5>. QED BY <2>1, <3>1, <5>1 DEF Chained
      <4>. QED BY <4>1, <4>2
    <3>4. Len(Append(s, e)) - 1 = n
      BY <3>1
    <3>. QED BY <3>1, <3>2, <3>3, <3>4 DEF Chained
  <2>. QED BY <1>5, <1>6, <2>2 DEF Chain
<1>. QED BY <1>8, <1>9, <1>10, <1>11, <1>12

-------------------------------------------------------------------------------
(* Every step of an award or a redemption is one of these.                    *)

Steps(w) ==
  \/ \E l \in Labels : Ends(w, l)
  \/ Creates(UserOf[w])
  \/ Reads(w)
  \/ \E l \in Labels, r \in Account, e \in LedgerEntry : Writes(w, l, r, e)

LEMMA LockSteps ==
  ASSUME TypeOK, NEW w \in Workers, LockAccount(w)
  PROVE  Steps(w)
<1>1. CASE Reads(w)
  BY <1>1 DEF Steps
<1>2. CASE ~ Reads(w)
  <2>1. Ends(w, "failed")
    BY <1>2 DEF TypeOK, LockAccount, Reads, Ends, Labels
  <2>. QED BY <2>1 DEF Steps, Labels
<1>. QED BY <1>1, <1>2

LEMMA EarnSteps ==
  ASSUME LoyaltyInv, NEW a \in Awards, EarnPoints(a)
  PROVE  Steps(a)
<1>. DEFINE points == CalculatePointsEarned(Category[a], Kobo[a])
            old == seen[a]
            lifetime == old.lifetime + points
            r == [balance |-> old.balance + points, lifetime |-> lifetime, tier |-> CalculateTier(lifetime)]
            e == Entry("earn", points, old.balance, old.balance + points)
<1>1. a \in Workers /\ credited \in [Redemptions -> Nat] /\ seen \in [Workers -> Account]
  BY DEF LoyaltyInv, TypeOK, Workers
<1>2. old \in Account
  BY <1>1
<1>3. old.balance \in Nat /\ old.lifetime \in Nat /\ points \in Nat
  BY <1>2, EarnedIsNat DEF Account
<1>4. \/ /\ pc[a] = "write"
         /\ account' = [account EXCEPT ![UserOf[a]] = r]
         /\ ledger' = [ledger EXCEPT ![UserOf[a]] = Append(@, e)]
         /\ Unlock(a)
         /\ Goto(a, "done") \/ Goto(a, "failed")
         /\ UNCHANGED <<faults, seen, credited>>
      \/ Rollback(a) /\ UNCHANGED <<faults, seen, credited>>
  BY Zenon DEF EarnPoints
<1>. HIDE DEF points
<1>5. lifetime \in Nat /\ old.balance + points \in Nat
  BY <1>3
<1>6. FollowsFrom(r, e, old)
  <2>1. CalculateTier(lifetime) = Deserved(lifetime)
        /\ Deserved(lifetime) \in {"bronze", "silver", "gold", "platinum"}
    <3>. HIDE DEF lifetime
    <3>. QED BY <1>5, TierIsDeserved
  <2>2. r \in Account /\ r.tier # "none" /\ r.balance = old.balance + points /\ r.lifetime = lifetime
        /\ r.tier = Deserved(r.lifetime)
    BY <1>5, <2>1 DEF Account
  <2>3. /\ e \in LedgerEntry /\ e.type = "earn" /\ e.points = points
        /\ e.before = old.balance /\ e.after = old.balance + points
    BY <1>3, <1>5 DEF LedgerEntry, Entry
  <2>. HIDE DEF r, e
  <2>. QED BY <2>2, <2>3 DEF FollowsFrom
<1>7. r \in Account /\ e \in LedgerEntry
  BY <1>6 DEF FollowsFrom
<1>. HIDE DEF r, e
<1>8. CASE Rollback(a) /\ UNCHANGED <<faults, seen, credited>>
  <2>1. Ends(a, "failed")
    BY <1>1, <1>8 DEF Rollback, Ends, Labels
  <2>. QED BY <2>1 DEF Steps, Labels
<1>9. CASE ~ (Rollback(a) /\ UNCHANGED <<faults, seen, credited>>)
  <2>1. Writes(a, "done", r, e) \/ Writes(a, "failed", r, e)
    BY <1>4, <1>6, <1>9 DEF Writes, Labels
  <2>. QED BY <1>7, <2>1 DEF Steps, Labels
<1>. QED BY <1>8, <1>9

LEMMA RedeemSteps ==
  ASSUME LoyaltyInv, NEW q \in Redemptions, RedeemPoints(q)
  PROVE  Steps(q)
<1>. DEFINE u == UserOf[q]
            old == seen[q]
            balance == old.balance - Points[q]
            r == [balance |-> balance, lifetime |-> old.lifetime, tier |-> old.tier]
            e == Entry("redeem", Points[q], old.balance, balance)
<1>1. /\ q \in Workers /\ credited \in [Redemptions -> Nat] /\ seen \in [Workers -> Account]
      /\ u \in Users /\ account \in [Users -> Account] /\ Points[q] \in Nat
  BY LoyaltyAssumption DEF LoyaltyInv, TypeOK, Workers
<1>2. old \in Account
  BY <1>1
<1>3. old.balance \in Nat /\ old.lifetime \in Nat
  BY <1>2 DEF Account
<1>4. pc[q] = "write"
  BY DEF RedeemPoints
<1>5. old = account[u] /\ old.tier # "none"
  <2>1. HasAccount(u) /\ old = account[u]
    BY <1>1, <1>4 DEF LoyaltyInv, ReadsAreFresh
  <2>. QED BY <1>1, <2>1, HasAccountIs
<1>6. \/ /\ balance >= 0
         /\ account' = [account EXCEPT ![u].balance = balance]
         /\ ledger' = [ledger EXCEPT ![u] = Append(@, e)]
         /\ Unlock(q)
         /\ Goto(q, "credit") \/ Goto(q, "failed")
         /\ UNCHANGED <<faults, seen, credited>>
      \/ Rollback(q) /\ UNCHANGED <<faults, seen, credited>>
  BY DEF RedeemPoints
<1>7. CASE Rollback(q) /\ UNCHANGED <<faults, seen, credited>>
  <2>1. Ends(q, "failed")
    BY <1>1, <1>7 DEF Rollback, Ends, Labels
  <2>. QED BY <2>1 DEF Steps, Labels
<1>8. CASE ~ (Rollback(q) /\ UNCHANGED <<faults, seen, credited>>)
  <2>1. account' = [account EXCEPT ![u] = r]
    <3>1. account' = [account EXCEPT ![u] = [account[u] EXCEPT !.balance = balance]]
      BY <1>6, <1>8
    <3>2. [account[u] EXCEPT !.balance = balance] = r
      BY <1>2, <1>5 DEF Account
    <3>. QED BY <3>1, <3>2
  <2>2. balance \in Nat
    BY <1>1, <1>3, <1>6, <1>8
  <2>3. FollowsFrom(r, e, old)
    <3>1. /\ r \in Account /\ r.tier # "none" /\ r.tier = old.tier
          /\ r.balance = balance /\ r.lifetime = old.lifetime
      BY <1>2, <1>3, <1>5, <2>2 DEF Account
    <3>2. /\ e \in LedgerEntry /\ e.type = "redeem" /\ e.points = Points[q]
          /\ e.before = old.balance /\ e.after = balance
      BY <1>1, <1>3, <2>2 DEF LedgerEntry, Entry
    <3>. HIDE DEF r, e
    <3>. QED BY <3>1, <3>2 DEF FollowsFrom
  <2>4. r \in Account /\ e \in LedgerEntry
    BY <2>3 DEF FollowsFrom
  <2>. HIDE DEF r, e
  <2>5. Writes(q, "credit", r, e) \/ Writes(q, "failed", r, e)
    BY <1>4, <1>6, <1>8, <2>1, <2>3 DEF Writes, Labels
  <2>. QED BY <2>4, <2>5 DEF Steps, Labels
<1>. QED BY <1>7, <1>8

\* The other steps of awards and redemptions, and the death of one.
LEMMA OtherSteps ==
  ASSUME TypeOK
  PROVE  /\ \A a \in Awards : StartAward(a) \/ EnsureAccount(a) => Steps(a)
         /\ \A q \in Redemptions : StartRedeem(q) \/ CreditRedemption(q) \/ InsertRedemption(q) => Steps(q)
         /\ \A w \in Workers : Kill(w) => Steps(w)
<1>. USE DEF TypeOK
<1>1. ASSUME NEW a \in Awards, StartAward(a) PROVE Steps(a)
  <2>1. Ends(a, "done") \/ Ends(a, "account")
    BY <1>1 DEF StartAward, Ends, Labels
  <2>. QED BY <2>1 DEF Steps, Labels
<1>2. ASSUME NEW a \in Awards, EnsureAccount(a) PROVE Steps(a)
  <2>1. CASE GetOrCreate(UserOf[a]) /\ Goto(a, "lock")
    <3>1. a \in Workers
      BY DEF Workers
    <3>2. Creates(UserOf[a])
      BY <1>2, <2>1, <3>1 DEF EnsureAccount, Creates, Goto, Labels
    <3>. QED BY <3>2 DEF Steps
  <2>2. CASE Goto(a, "failed") /\ UNCHANGED account
    <3>1. Ends(a, "failed")
      BY <1>2, <2>2 DEF EnsureAccount, Ends, Labels
    <3>. QED BY <3>1 DEF Steps, Labels
  <2>. QED BY <1>2, <2>1, <2>2 DEF EnsureAccount
<1>3. ASSUME NEW q \in Redemptions, StartRedeem(q) PROVE Steps(q)
  <2>1. Ends(q, "lock") \/ Ends(q, "failed")
    BY <1>3 DEF StartRedeem, Ends, Labels
  <2>. QED BY <2>1 DEF Steps, Labels
<1>4. ASSUME NEW q \in Redemptions, CreditRedemption(q) PROVE Steps(q)
  <2>1. PointsToKobo(Points[q]) \in Nat
    BY KoboIsNat
  <2>2. credited' \in [Redemptions -> Nat]
    BY <1>4, <2>1 DEF CreditRedemption
  <2>3. Ends(q, "insert") \/ Ends(q, "failed")
    BY <1>4, <2>2 DEF CreditRedemption, Ends, Labels
  <2>. QED BY <2>3 DEF Steps, Labels
<1>5. ASSUME NEW q \in Redemptions, InsertRedemption(q) PROVE Steps(q)
  <2>1. Ends(q, "done")
    BY <1>5 DEF InsertRedemption, Ends, Labels
  <2>. QED BY <2>1 DEF Steps, Labels
<1>6. ASSUME NEW w \in Workers, Kill(w) PROVE Steps(w)
  <2>1. Ends(w, "killed")
    BY <1>6 DEF Kill, Ends, Labels
  <2>. QED BY <2>1 DEF Steps, Labels
<1>. QED BY <1>1, <1>2, <1>3, <1>4, <1>5, <1>6

LEMMA StepsPreserve ==
  ASSUME LoyaltyInv, NEW w \in Workers, Steps(w)
  PROVE  LoyaltyInv'
<1>1. UserOf[w] \in Users
  BY LoyaltyAssumption
<1>2. CASE \E l \in Labels : Ends(w, l)
  BY <1>2, EndsPreserves
<1>3. CASE Creates(UserOf[w])
  BY <1>1, <1>3, CreatesPreserves
<1>4. CASE Reads(w)
  BY <1>4, ReadsPreserves
<1>5. CASE \E l \in Labels, r \in Account, e \in LedgerEntry : Writes(w, l, r, e)
  BY <1>5, WritesPreserves
<1>. QED BY <1>2, <1>3, <1>4, <1>5 DEF Steps

LEMMA NextPreserves == LoyaltyInv /\ [Next]_vars => LoyaltyInv'
<1>. SUFFICES ASSUME LoyaltyInv, [Next]_vars PROVE LoyaltyInv'
  OBVIOUS
<1>1. TypeOK
  BY DEF LoyaltyInv
<1>2. ASSUME NEW a \in Awards, AwardPoints(a) PROVE LoyaltyInv'
  <2>1. a \in Workers
    BY DEF Workers
  <2>2. Steps(a)
    BY <1>1, <1>2, <2>1, LockSteps, EarnSteps, OtherSteps DEF AwardPoints
  <2>. QED BY <2>1, <2>2, StepsPreserve
<1>3. ASSUME NEW q \in Redemptions, Redeem(q) PROVE LoyaltyInv'
  <2>1. q \in Workers
    BY DEF Workers
  <2>2. Steps(q)
    BY <1>1, <1>3, <2>1, LockSteps, RedeemSteps, OtherSteps DEF Redeem
  <2>. QED BY <2>1, <2>2, StepsPreserve
<1>4. ASSUME NEW w \in Workers, Kill(w) PROVE LoyaltyInv'
  <2>1. Steps(w)
    BY <1>1, <1>4, OtherSteps
  <2>. QED BY <2>1, StepsPreserve
<1>5. ASSUME NEW u \in Users, GetBalance(u) PROVE LoyaltyInv'
  <2>1. Creates(u)
    BY <1>1, <1>5 DEF GetBalance, Creates, TypeOK, Labels
  <2>. QED BY <2>1, CreatesPreserves
<1>6. CASE UNCHANGED vars
  <2>. USE <1>6 DEF vars
  <2>1. TypeOK'
    BY <1>1 DEF TypeOK
  <2>2. ReadsAreFresh'
    BY DEF LoyaltyInv, ReadsAreFresh, HasAccount
  <2>3. NoEntriesBefore' /\ RowIsSum' /\ Chain'
    BY DEF LoyaltyInv, NoEntriesBefore, RowIsSum, Chain
  <2>. QED BY <2>1, <2>2, <2>3 DEF LoyaltyInv
<1>. QED BY <1>2, <1>3, <1>4, <1>5, <1>6 DEF Next

-------------------------------------------------------------------------------
(* What becomes of the points.                                                *)

\* What a redemption has paid out is nothing or all of it, and all of it once it
\* has got past the credit.
CreditsInTurn ==
  \A q \in Redemptions :
    /\ credited[q] \in {0, Points[q]}
    /\ pc[q] \in {"insert", "done"} => credited[q] = Points[q]
    /\ pc[q] \in {"start", "lock", "write", "credit"} => credited[q] = 0

\* T are the redemptions whose points have been taken; the state alone does not say
\* of a failed one whether it failed before or after.
Taken(T) ==
  /\ \A u \in Users : Sum(ledger[u], "redeem") = Worth({q \in T : UserOf[q] = u})
  /\ \A q \in T : pc[q] \in {"credit", "insert", "done", "failed", "killed"}
  /\ \A q \in Redemptions : pc[q] \in {"credit", "insert", "done"} \/ credited[q] > 0 => q \in T
  /\ faults = {} => \A q \in T : pc[q] \notin {"failed", "killed"}

PaidInv == CreditsInTurn /\ \E T \in SUBSET Redemptions : Taken(T)

LEMMA InitPaid == Init => PaidInv
<1>. SUFFICES ASSUME Init PROVE PaidInv
  OBVIOUS
<1>1. CreditsInTurn
  BY DEF Init, CreditsInTurn, Workers
<1>2. Taken({})
  <2>1. \A u \in Users : Sum(ledger[u], "redeem") = 0 /\ {q \in {} : UserOf[q] = u} = {}
    BY SumOfNothing DEF Init
  <2>2. \A q \in Redemptions : ~ (pc[q] \in {"credit", "insert", "done"} \/ credited[q] > 0)
    BY DEF Init, Workers
  <2>. QED BY <2>1, <2>2, WorthOfNothing DEF Taken
<1>. QED BY <1>1, <1>2 DEF PaidInv

\* A step that takes no points and after which every redemption is where it was or
\* got there lawfully.
SameTaken(T) ==
  /\ faults' = faults
  /\ \A u \in Users : Sum(ledger[u], "redeem")' = Sum(ledger[u], "redeem")
  /\ \A q \in Redemptions :
       \/ pc'[q] = pc[q] /\ credited'[q] = credited[q]
       \/ /\ q \in T
          /\ pc'[q] \in {"credit", "insert", "done", "failed", "killed"}
          /\ faults = {} => pc'[q] \notin {"failed", "killed"}
       \/ /\ q \notin T
          /\ pc'[q] \notin {"credit", "insert", "done"} /\ credited'[q] = 0

LEMMA SameTakenKeeps ==
  ASSUME NEW T \in SUBSET Redemptions, Taken(T), SameTaken(T)
  PROVE  Taken(T)'
<1>1. \A u \in Users : Sum(ledger'[u], "redeem") = Worth({q \in T : UserOf[q] = u})
  BY DEF Taken, SameTaken
<1>2. \A q \in T : pc'[q] \in {"credit", "insert", "done", "failed", "killed"}
  BY DEF Taken, SameTaken
<1>3. \A q \in Redemptions : pc'[q] \in {"credit", "insert", "done"} \/ credited'[q] > 0 => q \in T
  BY DEF Taken, SameTaken
<1>4. faults' = {} => \A q \in T : pc'[q] \notin {"failed", "killed"}
  BY DEF Taken, SameTaken
<1>. QED BY <1>1, <1>2, <1>3, <1>4 DEF Taken

\* Nothing of a redemption moves.
LEMMA IdlePaid ==
  ASSUME PaidInv, faults' = faults,
         \A u \in Users : Sum(ledger[u], "redeem")' = Sum(ledger[u], "redeem"),
         \A q \in Redemptions : pc'[q] = pc[q] /\ credited'[q] = credited[q]
  PROVE  PaidInv'
<1>1. CreditsInTurn'
  BY DEF PaidInv, CreditsInTurn
<1>2. PICK T \in SUBSET Redemptions : Taken(T)
  BY DEF PaidInv
<1>3. SameTaken(T)
  BY DEF SameTaken
<1>4. Taken(T)'
  BY <1>2, <1>3, SameTakenKeeps
<1>. QED BY <1>1, <1>4 DEF PaidInv

LEMMA AwardPaid ==
  ASSUME LoyaltyInv, PaidInv, NEW a \in Awards, AwardPoints(a)
  PROVE  PaidInv'
<1>1. /\ a \in Workers /\ UserOf[a] \in Users
      /\ \A q \in Redemptions : q \in Workers /\ q # a
      /\ ledger \in [Users -> Seq(LedgerEntry)] /\ seen[a] \in Account
      /\ pc \in [Workers -> Labels]
  BY LoyaltyAssumption DEF LoyaltyInv, TypeOK, Workers, Labels
<1>2. faults' = faults /\ credited' = credited
  BY DEF AwardPoints, StartAward, EnsureAccount, LockAccount, EarnPoints
<1>3. \A q \in Redemptions : pc'[q] = pc[q]
  BY <1>1 DEF AwardPoints, StartAward, EnsureAccount, LockAccount, EarnPoints, Rollback, Goto
<1>4. \A u \in Users : Sum(ledger'[u], "redeem") = Sum(ledger[u], "redeem")
  <2>1. CASE ledger' = ledger
    BY <2>1
  <2>2. CASE ledger' # ledger
    <3>. DEFINE points == CalculatePointsEarned(Category[a], Kobo[a])
                e == Entry("earn", points, seen[a].balance, seen[a].balance + points)
    <3>1. ledger' = [ledger EXCEPT ![UserOf[a]] = Append(ledger[UserOf[a]], e)]
      BY <2>2, Zenon DEF AwardPoints, StartAward, EnsureAccount, LockAccount, EarnPoints, Rollback
    <3>2. points \in Nat
      BY EarnedIsNat
    <3>3. e \in LedgerEntry /\ e.type = "earn"
      <4>. HIDE DEF points
      <4>. QED BY <1>1, <3>2 DEF Entry, LedgerEntry, Account
    <3>. HIDE DEF e
    <3>4. /\ Sum(ledger[UserOf[a]], "redeem") \in Nat
          /\ Sum(Append(ledger[UserOf[a]], e), "redeem")
               = Sum(ledger[UserOf[a]], "redeem") + IF e.type = "redeem" THEN e.points ELSE 0
      BY <1>1, <3>3, SumOfAppend
    <3>5. Sum(Append(ledger[UserOf[a]], e), "redeem") = Sum(ledger[UserOf[a]], "redeem")
      BY <3>3, <3>4
    <3>. QED BY <1>1, <3>1, <3>5
  <2>. QED BY <2>1, <2>2
<1>. QED BY <1>2, <1>3, <1>4, IdlePaid

\* A redemption moves on, or dies, and takes no points.
Advances(q, l, paid) ==
  /\ faults' = faults /\ ledger' = ledger /\ Goto(q, l)
  /\ credited' = [credited EXCEPT ![q] = paid] /\ paid \in {0, Points[q]}
  /\ \/ /\ pc[q] \in {"credit", "insert"} /\ l \in {"insert", "done"} /\ paid = Points[q]
     \/ pc[q] \in {"credit", "insert"} /\ l = "failed" /\ faults # {}
     \/ pc[q] \in {"start", "lock", "write"} /\ l \in {"lock", "write", "failed"} /\ paid = 0
     \/ l = "killed" /\ faults # {} /\ paid = credited[q]

LEMMA AdvancePaid ==
  ASSUME LoyaltyInv, PaidInv, NEW q \in Redemptions, NEW l, NEW paid, Advances(q, l, paid)
  PROVE  PaidInv'
<1>1. pc \in [Workers -> Labels] /\ credited \in [Redemptions -> Nat] /\ faults' = faults
  BY DEF LoyaltyInv, TypeOK, Labels, Advances
<1>2. q \in Workers
  BY DEF Workers
<1>3. /\ pc'[q] = l /\ credited'[q] = paid
      /\ \A x \in Redemptions : x # q => pc'[x] = pc[x] /\ credited'[x] = credited[x]
  BY <1>1, <1>2 DEF Goto, Workers, Advances
<1>4. CreditsInTurn'
  BY <1>3 DEF PaidInv, CreditsInTurn, Advances
<1>5. PICK T \in SUBSET Redemptions : Taken(T)
  BY DEF PaidInv
<1>6. pc[q] \in {"credit", "insert", "done"} \/ credited[q] > 0 => q \in T
  BY <1>5 DEF Taken
<1>7. pc[q] \in {"start", "lock", "write"} => q \notin T
  BY <1>5 DEF Taken
<1>8. credited[q] = 0 \/ credited[q] > 0
  BY <1>1
<1>9. SameTaken(T)
  BY <1>1, <1>3, <1>6, <1>7, <1>8 DEF SameTaken, Advances
<1>20. Taken(T)'
  BY <1>5, <1>9, SameTakenKeeps
<1>. QED BY <1>4, <1>20 DEF PaidInv

\* The points of q are taken and booked.
LEMMA TakePaid ==
  ASSUME LoyaltyInv, PaidInv, NEW q \in Redemptions, NEW l, pc[q] = "write", NEW e \in LedgerEntry,
         e.type = "redeem", e.points = Points[q],
         faults' = faults, credited' = credited, Goto(q, l),
         ledger' = [ledger EXCEPT ![UserOf[q]] = Append(@, e)],
         l = "credit" \/ (l = "failed" /\ faults # {})
  PROVE  PaidInv'
<1>1. /\ q \in Workers /\ UserOf[q] \in Users /\ pc \in [Workers -> Labels]
      /\ ledger \in [Users -> Seq(LedgerEntry)] /\ credited \in [Redemptions -> Nat]
  BY LoyaltyAssumption DEF LoyaltyInv, TypeOK, Workers, Labels
<1>2. /\ pc'[q] = l
      /\ \A x \in Redemptions : x # q => pc'[x] = pc[x]
  BY <1>1 DEF Goto, Workers
<1>3. CreditsInTurn'
  BY <1>2 DEF PaidInv, CreditsInTurn
<1>4. PICK T \in SUBSET Redemptions : Taken(T)
  BY DEF PaidInv
<1>5. q \notin T
  BY <1>4 DEF Taken
<1>. DEFINE U == T \cup {q}
<1>6. U \in SUBSET Redemptions
  OBVIOUS
<1>7. \A u \in Users : Sum(ledger'[u], "redeem") = Worth({x \in U : UserOf[x] = u})
  <2>. SUFFICES ASSUME NEW u \in Users
                PROVE  Sum(ledger'[u], "redeem") = Worth({x \in U : UserOf[x] = u})
    OBVIOUS
  <2>. DEFINE before == {x \in T : UserOf[x] = u}
              after == {x \in U : UserOf[x] = u}
  <2>1. Sum(ledger[u], "redeem") = Worth(before)
    BY <1>4 DEF Taken
  <2>2. CASE u # UserOf[q]
    <3>1. ledger'[u] = ledger[u] /\ after = before
      BY <1>1, <2>2
    <3>. QED BY <2>1, <3>1
  <2>3. CASE u = UserOf[q]
    <3>1. after = before \cup {q} /\ before \in SUBSET Redemptions /\ q \in Redemptions \ before
      BY <1>5, <2>3
    <3>2. ledger'[u] = Append(ledger[u], e) /\ ledger[u] \in Seq(LedgerEntry)
      BY <1>1, <2>3
    <3>. HIDE DEF after, before
    <3>3. Worth(after) = Worth(before) + Points[q]
      BY <3>1, WorthOfMore
    <3>4. Sum(Append(ledger[u], e), "redeem")
            = Sum(ledger[u], "redeem") + IF e.type = "redeem" THEN e.points ELSE 0
      BY <3>2, SumOfAppend
    <3>5. Sum(ledger'[u], "redeem") = Worth(after)
      BY <2>1, <3>2, <3>3, <3>4
    <3>. QED BY <3>5 DEF after
  <2>. QED BY <2>2, <2>3
<1>8. \A x \in U : pc'[x] \in {"credit", "insert", "done", "failed", "killed"}
  BY <1>2, <1>4 DEF Taken
<1>9. \A x \in Redemptions : pc'[x] \in {"credit", "insert", "done"} \/ credited'[x] > 0 => x \in U
  BY <1>2, <1>4 DEF Taken
<1>10. faults' = {} => \A x \in U : pc'[x] \notin {"failed", "killed"}
  BY <1>2, <1>4 DEF Taken
<1>11. Taken(U)'
  <2>. HIDE DEF U
  <2>. QED BY <1>7, <1>8, <1>9, <1>10 DEF Taken
<1>. QED BY <1>3, <1>6, <1>11 DEF PaidInv

\* 100 points are N1, which is 100 kobo.
LEMMA PointIsKobo == \A n \in Nat : PointsToKobo(n) = n
BY SMT DEF PointsToKobo, PointsRedemptionRate

LEMMA RedemptionPaid ==
  ASSUME LoyaltyInv, PaidInv, NEW q \in Redemptions, Redeem(q)
  PROVE  PaidInv'
<1>1. /\ q \in Workers /\ pc \in [Workers -> Labels] /\ credited \in [Redemptions -> Nat]
      /\ Points[q] \in Nat \ {0} /\ faults \in SUBSET {"db", "kill"}
      /\ seen[q] \in Account
  BY LoyaltyAssumption DEF LoyaltyInv, TypeOK, Workers, Labels
<1>2. credited = [credited EXCEPT ![q] = credited[q]]
  BY <1>1
<1>3. /\ credited[q] \in {0, Points[q]}
      /\ pc[q] \in {"insert", "done"} => credited[q] = Points[q]
      /\ pc[q] \in {"start", "lock", "write", "credit"} => credited[q] = 0
  BY DEF PaidInv, CreditsInTurn
<1>4. Failing => faults # {}
  BY DEF Failing
<1>5. CASE StartRedeem(q)
  <2>1. /\ pc[q] = "start" /\ faults' = faults /\ ledger' = ledger /\ credited' = credited
        /\ Goto(q, "lock") \/ Goto(q, "failed")
    BY <1>5 DEF StartRedeem
  <2>2. credited[q] = 0 /\ credited' = [credited EXCEPT ![q] = 0]
    BY <1>2, <1>3, <2>1
  <2>3. CASE Goto(q, "lock")
    <3>1. Advances(q, "lock", 0)
      BY <2>1, <2>2, <2>3 DEF Advances
    <3>. QED BY <3>1, AdvancePaid
  <2>4. CASE Goto(q, "failed")
    <3>1. Advances(q, "failed", 0)
      BY <2>1, <2>2, <2>4 DEF Advances
    <3>. QED BY <3>1, AdvancePaid
  <2>. QED BY <2>1, <2>3, <2>4
<1>6. CASE LockAccount(q)
  <2>1. /\ pc[q] = "lock" /\ faults' = faults /\ ledger' = ledger /\ credited' = credited
        /\ Goto(q, "write") \/ Goto(q, "failed")
    BY <1>6 DEF LockAccount
  <2>2. credited[q] = 0 /\ credited' = [credited EXCEPT ![q] = 0]
    BY <1>2, <1>3, <2>1
  <2>3. CASE Goto(q, "write")
    <3>1. Advances(q, "write", 0)
      BY <2>1, <2>2, <2>3 DEF Advances
    <3>. QED BY <3>1, AdvancePaid
  <2>4. CASE Goto(q, "failed")
    <3>1. Advances(q, "failed", 0)
      BY <2>1, <2>2, <2>4 DEF Advances
    <3>. QED BY <3>1, AdvancePaid
  <2>. QED BY <2>1, <2>3, <2>4
<1>7. CASE RedeemPoints(q)
  <2>. DEFINE before == seen[q].balance
              e == Entry("redeem", Points[q], before, before - Points[q])
  <2>1. pc[q] = "write" /\ faults' = faults /\ credited' = credited
    BY <1>7 DEF RedeemPoints
  <2>2. \/ /\ before - Points[q] >= 0
           /\ ledger' = [ledger EXCEPT ![UserOf[q]] = Append(@, e)]
           /\ Goto(q, "credit") \/ (Failing /\ Goto(q, "failed"))
        \/ ledger' = ledger /\ Goto(q, "failed")
    BY <1>7 DEF RedeemPoints, Rollback
  <2>3. credited[q] = 0 /\ credited' = [credited EXCEPT ![q] = 0]
    BY <1>2, <1>3, <2>1
  <2>4. CASE ledger' = ledger /\ Goto(q, "failed")
    <3>1. Advances(q, "failed", 0)
      BY <2>1, <2>3, <2>4 DEF Advances
    <3>. QED BY <3>1, AdvancePaid
  <2>5. CASE ~ (ledger' = ledger /\ Goto(q, "failed"))
    <3>1. e \in LedgerEntry /\ e.type = "redeem" /\ e.points = Points[q]
      <4>1. before \in Nat /\ before - Points[q] \in Nat
        BY <1>1, <2>2, <2>5 DEF Account
      <4>. QED BY <1>1, <4>1 DEF Entry, LedgerEntry
    <3>2. /\ ledger' = [ledger EXCEPT ![UserOf[q]] = Append(@, e)]
          /\ Goto(q, "credit") \/ (Failing /\ Goto(q, "failed"))
      BY <2>2, <2>5
    <3>. HIDE DEF e
    <3>3. CASE Goto(q, "credit")
      BY <2>1, <3>1, <3>2, <3>3, TakePaid
    <3>4. CASE Failing /\ Goto(q, "failed")
      BY <1>4, <2>1, <3>1, <3>2, <3>4, TakePaid
    <3>. QED BY <3>2, <3>3, <3>4
  <2>. QED BY <2>4, <2>5
<1>8. CASE CreditRedemption(q)
  <2>1. pc[q] = "credit" /\ faults' = faults /\ ledger' = ledger /\ credited[q] = 0
    BY <1>3, <1>8 DEF CreditRedemption
  <2>2. PointsToKobo(Points[q]) = Points[q]
    BY <1>1, PointIsKobo
  <2>3. \/ /\ credited' = [credited EXCEPT ![q] = Points[q]]
           /\ Goto(q, "insert") \/ (Failing /\ Goto(q, "failed"))
        \/ Failing /\ Goto(q, "failed") /\ credited' = [credited EXCEPT ![q] = 0]
    <3>1. \/ /\ credited' = [credited EXCEPT ![q] = credited[q] + PointsToKobo(Points[q])]
             /\ Goto(q, "insert") \/ (Failing /\ Goto(q, "failed"))
          \/ Failing /\ Goto(q, "failed") /\ credited' = credited
      BY <1>8 DEF CreditRedemption
    <3>2. credited[q] + PointsToKobo(Points[q]) = Points[q]
      BY <1>1, <2>1, <2>2
    <3>. QED BY <1>2, <2>1, <3>1, <3>2
  <2>4. CASE credited' = [credited EXCEPT ![q] = Points[q]] /\ Goto(q, "insert")
    <3>1. Advances(q, "insert", Points[q])
      BY <2>1, <2>4 DEF Advances
    <3>. QED BY <3>1, AdvancePaid
  <2>5. CASE credited' = [credited EXCEPT ![q] = Points[q]] /\ Failing /\ Goto(q, "failed")
    <3>1. Advances(q, "failed", Points[q])
      BY <1>4, <2>1, <2>5 DEF Advances
    <3>. QED BY <3>1, AdvancePaid
  <2>6. CASE credited' = [credited EXCEPT ![q] = 0] /\ Failing /\ Goto(q, "failed")
    <3>1. Advances(q, "failed", 0)
      BY <1>4, <2>1, <2>6 DEF Advances
    <3>. QED BY <3>1, AdvancePaid
  <2>. QED BY <2>3, <2>4, <2>5, <2>6
<1>9. CASE InsertRedemption(q)
  <2>1. pc[q] = "insert" /\ faults' = faults /\ ledger' = ledger /\ credited' = credited /\ Goto(q, "done")
    BY <1>9 DEF InsertRedemption
  <2>2. credited' = [credited EXCEPT ![q] = Points[q]]
    BY <1>2, <1>3, <2>1
  <2>3. Advances(q, "done", Points[q])
    BY <2>1, <2>2 DEF Advances
  <2>. QED BY <2>3, AdvancePaid
<1>. QED BY <1>5, <1>6, <1>7, <1>8, <1>9 DEF Redeem

LEMMA KillPaid ==
  ASSUME LoyaltyInv, PaidInv, NEW w \in Workers, Kill(w)
  PROVE  PaidInv'
<1>1. /\ pc \in [Workers -> Labels] /\ credited \in [Redemptions -> Nat]
      /\ faults # {} /\ faults' = faults /\ ledger' = ledger /\ credited' = credited
      /\ Goto(w, "killed")
  BY DEF LoyaltyInv, TypeOK, Labels, Kill
<1>2. CASE w \in Redemptions
  <2>1. credited' = [credited EXCEPT ![w] = credited[w]] /\ credited[w] \in {0, Points[w]}
    BY <1>1, <1>2 DEF PaidInv, CreditsInTurn
  <2>2. Advances(w, "killed", credited[w])
    BY <1>1, <2>1 DEF Advances
  <2>. QED BY <1>2, <2>2, AdvancePaid
<1>3. CASE w \notin Redemptions
  <2>1. \A q \in Redemptions : pc'[q] = pc[q] /\ credited'[q] = credited[q]
    BY <1>1, <1>3 DEF Goto, Workers
  <2>. QED BY <1>1, <2>1, IdlePaid
<1>. QED BY <1>2, <1>3

LEMMA NextPaid == LoyaltyInv /\ PaidInv /\ [Next]_vars => PaidInv'
<1>. SUFFICES ASSUME LoyaltyInv, PaidInv, [Next]_vars PROVE PaidInv'
  OBVIOUS
<1>1. ASSUME NEW u \in Users, GetBalance(u) PROVE PaidInv'
  <2>1. faults' = faults /\ ledger' = ledger /\ pc' = pc /\ credited' = credited
    BY <1>1 DEF GetBalance
  <2>. QED BY <2>1, IdlePaid
<1>2. CASE UNCHANGED vars
  <2>1. faults' = faults /\ ledger' = ledger /\ pc' = pc /\ credited' = credited
    BY <1>2 DEF vars
  <2>. QED BY <2>1, IdlePaid
<1>. QED BY <1>1, <1>2, AwardPaid, RedemptionPaid, KillPaid DEF Next

-------------------------------------------------------------------------------
(* The theorems.                                                              *)

\* Every state of every behaviour satisfies the inductive invariant: types, fresh
\* reads under the row lock, sums and chains of entries (EarnPoints, RedeemPoints).
THEOREM PointsKept == Spec => []LoyaltyInv
<1>1. Init => LoyaltyInv
  BY InitEstablishes
<1>2. LoyaltyInv /\ [Next]_vars => LoyaltyInv'
  BY NextPreserves
<1>. QED BY <1>1, <1>2, PTL DEF Spec

\* No update of an account is lost: its balance, lifetime points and tier are those
\* of its ledger, for any number of racing awards and redemptions (EarnPoints,
\* RedeemPoints, CalculateTier).
THEOREM NoUpdateLost == Spec => []AccountMatchesLedger
<1>1. LoyaltyInv => AccountMatchesLedger
  <2>. SUFFICES ASSUME LoyaltyInv PROVE AccountMatchesLedger
    OBVIOUS
  <2>1. TypeOK
    BY DEF LoyaltyInv
  <2>2. ASSUME NEW u \in Users, HasAccount(u)
        PROVE  /\ account[u].balance = Sum(ledger[u], "earn") - Sum(ledger[u], "redeem")
               /\ account[u].lifetime = Sum(ledger[u], "earn")
               /\ account[u].tier = Deserved(account[u].lifetime)
               /\ \A i \in 1 .. Len(ledger[u]) - 1 : ledger[u][i].after = ledger[u][i + 1].before
    <3>1. account[u].tier # "none"
      BY <2>2, HasAccountIs
    <3>. QED BY <3>1 DEF LoyaltyInv, RowIsSum, Chain, Chained
  <2>. QED BY <2>1, <2>2 DEF AccountMatchesLedger
<1>. QED BY <1>1, PointsKept, PTL


\* Whatever fails or dies, the points that were taken are the points of the
\* redemptions that were paid, in full, and of some that failed or died between
\* their two transactions; without faults none is missing (RedeemPoints).
THEOREM PointsConverted == Spec => []PointsBecomeCredit
<1>1. Init => LoyaltyInv /\ PaidInv
  BY InitEstablishes, InitPaid
<1>2. LoyaltyInv /\ PaidInv /\ [Next]_vars => (LoyaltyInv /\ PaidInv)'
  BY NextPreserves, NextPaid
<1>3. LoyaltyInv /\ PaidInv => PointsBecomeCredit
  <2>. SUFFICES ASSUME LoyaltyInv, PaidInv, NEW u \in Users
                PROVE  LET paid == {q \in Redemptions : UserOf[q] = u /\ credited[q] > 0} IN
                       /\ \A q \in paid : credited[q] = Points[q]
                       /\ \A q \in Redemptions : UserOf[q] = u /\ pc[q] \in {"insert", "done"} => q \in paid
                       /\ \E missing \in SUBSET Unpaid(u) :
                            /\ Sum(ledger[u], "redeem") = Worth(paid) + Worth(missing)
                            /\ faults = {} => missing = {q \in Unpaid(u) : pc[q] = "credit"}
    BY DEF PointsBecomeCredit
  <2>. DEFINE paid == {q \in Redemptions : UserOf[q] = u /\ credited[q] > 0}
  <2>1. \A q \in Redemptions :
          /\ credited[q] \in {0, Points[q]} /\ Points[q] > 0
          /\ pc[q] \in {"insert", "done"} => credited[q] = Points[q]
          /\ pc[q] \in {"start", "lock", "write", "credit"} => credited[q] = 0
    BY LoyaltyAssumption DEF PaidInv, CreditsInTurn
  <2>2. \A q \in paid : credited[q] = Points[q]
    BY <2>1
  <2>3. \A q \in Redemptions : UserOf[q] = u /\ pc[q] \in {"insert", "done"} => q \in paid
    BY <2>1
  <2>4. PICK T \in SUBSET Redemptions : Taken(T)
    BY DEF PaidInv
  <2>. DEFINE mine == {q \in T : UserOf[q] = u}
              missing == mine \ paid
  <2>5. Sum(ledger[u], "redeem") = Worth(mine)
    BY <2>4 DEF Taken
  <2>6. paid \subseteq mine
    BY <2>4 DEF Taken
  <2>7. Worth(mine) = Worth(paid) + Worth(missing)
    <3>1. mine = paid \cup missing /\ paid \cap missing = {}
      BY <2>6
    <3>2. paid \in SUBSET Redemptions /\ missing \in SUBSET Redemptions
      BY <2>4
    <3>. HIDE DEF mine, paid, missing
    <3>. QED BY <3>1, <3>2, WorthOfUnion
  <2>8. \A q \in missing : q \in Redemptions /\ UserOf[q] = u /\ credited[q] = 0
    BY <2>1
  <2>9. missing \in SUBSET Unpaid(u)
    <3>1. \A q \in missing : pc[q] \in {"credit", "failed", "killed"}
      BY <2>1, <2>3, <2>4 DEF Taken
    <3>. HIDE DEF missing
    <3>. QED BY <2>8, <3>1 DEF Unpaid
  <2>10. faults = {} => missing = {q \in Unpaid(u) : pc[q] = "credit"}
    <3>. SUFFICES ASSUME faults = {} PROVE missing = {q \in Unpaid(u) : pc[q] = "credit"}
      OBVIOUS
    <3>1. \A q \in missing : q \in Unpaid(u) /\ pc[q] = "credit"
      BY <2>4, <2>9 DEF Taken, Unpaid
    <3>2. \A q \in Unpaid(u) : pc[q] = "credit" => q \in missing
      BY <2>4 DEF Taken, Unpaid
    <3>. HIDE DEF missing
    <3>. QED BY <3>1, <3>2
  <2>. HIDE DEF missing, mine
  <2>11. Sum(ledger[u], "redeem") = Worth(paid) + Worth(missing)
    BY <2>5, <2>7
  <2>. QED BY <2>2, <2>3, <2>9, <2>10, <2>11
<1>. QED BY <1>1, <1>2, <1>3, PTL DEF Spec
===============================================================================
