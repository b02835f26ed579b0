---------------------------- MODULE AccountsProofs ----------------------------
(***************************************************************************)
(* Proofs about Accounts: the users and wallets rows that racing signups,  *)
(* Google logins, profile updates and KYC upgrades leave behind, for any   *)
(* number of requests and accounts and in every environment.               *)
(***************************************************************************)
EXTENDS Accounts, TLAPS

CreatorLabels == {"start", "email", "create", "wallet", "done"}
ProfileLabels == {"start", "update", "done"}
UpgradeLabels == {"start", "link", "tier", "limit", "done"}

\* Every request stays inside its own handler.
Places ==
  /\ \A q \in Creators : pc[q] \in CreatorLabels
  /\ \A p \in Profiles : pc[p] \in ProfileLabels
  /\ \A k \in Upgrades : pc[k] \in UpgradeLabels

Upgrading(k) == pc[k] \in {"link", "tier", "limit"}

\* A users row is written once, by the request that creates it; whoever works on
\* an account has found its row.
RowsAppear ==
  /\ \A q \in Creators : pc[q] \in {"start", "email", "create"} => users[q] = NoUser
  /\ \A q \in Creators : pc[q] \in {"start", "email", "create", "wallet"} => limit[q] = 0
  /\ \A r \in Profiles \cup Upgrades : pc[r] \notin {"start", "done"} => Stored(AccountOf[r])

\* An upgrade that is past LinkDocument has its document stored.
DocumentsLinked ==
  /\ \A k \in Upgrades : Upgrading(k) => goal[k] \in {1, 2}
  /\ \A k \in Upgrades :
       pc[k] \in {"tier", "limit"} => DocumentFor(goal[k]) \in users[AccountOf[k]].docs

\* No tier and no limit without its document: the second part of TierHasDocument.
Documented ==
  \A q \in Creators :
    /\ users[q].tier = 1 \/ limit[q] = DailyLimitOf(1) => "bvn" \in users[q].docs
    /\ users[q].tier = 2 \/ limit[q] = DailyLimitOf(2) => "nin" \in users[q].docs

\* Upgrades that do not overlap: one at a time, on an account whose creation is
\* over, whose tier is below the goal until UpdateKYCTier and at the goal after it.
UpgradesInTurn ==
  ~env.overlap =>
    /\ \A k, j \in Upgrades : Upgrading(k) /\ Upgrading(j) => k = j
    /\ \A k \in Upgrades : Upgrading(k) => pc[AccountOf[k]] = "done"
    /\ \A k \in Upgrades : pc[k] \in {"link", "tier"} => users[AccountOf[k]].tier < goal[k]
    /\ \A k \in Upgrades : pc[k] = "limit" => users[AccountOf[k]].tier = goal[k]
    /\ \A q \in Creators : limit[q] <= DailyLimitOf(users[q].tier)

\* Without faults, the limit of an account is that of its tier, except between
\* the two statements of CreateAccount or of UpgradeKYC that write them.
LimitsFollow ==
  ~env.overlap /\ env.faults = {} =>
    \A q \in Creators : Stored(q) =>
      \/ pc[q] = "wallet" /\ users[q].tier = 0
      \/ limit[q] = DailyLimitOf(users[q].tier)
      \/ HasWallet(q) /\ \E k \in Upgrades : AccountOf[k] = q /\ pc[k] = "limit"

AccountInv ==
  /\ TypeOK /\ Places /\ RowsAppear /\ UniqueIdentity
  /\ DocumentsLinked /\ Documented /\ UpgradesInTurn /\ LimitsFollow

-------------------------------------------------------------------------------
(* The steps of one request.                                                  *)

\* Steps that only read the tables.
Reads(r) ==
  \/ r \in Creators /\ (FindByPhone(r) \/ FindByEmail(r))
  \/ r \in Profiles /\ CheckEmail(r)
  \/ r \in Upgrades /\ ReadUser(r)

\* Steps that may write a users or a wallets row.
Writes(r) ==
  \/ r \in Creators /\ (CreateUser(r) \/ CreateWallet(r))
  \/ r \in Profiles /\ StoreProfile(r)
  \/ r \in Upgrades /\ (LinkDocument(r) \/ UpdateKYCTier(r) \/ UpdateDailyLimit(r))

Steps(r) == Reads(r) \/ Writes(r)

\* Every step of the system is a step of one request.
LEMMA NextSteps == Next => \E r \in Requests : Steps(r)
BY DEF Next, CreateAccount, UpgradeKYC, Steps, Reads, Writes, Requests

\* A higher tier has a higher limit, and every tier has one.
LEMMA Limits ==
  /\ \A t \in 0 .. 2 : DailyLimitOf(t) \in Nat \ {0}
  /\ \A t, n \in 0 .. 2 : t <= n <=> DailyLimitOf(t) <= DailyLimitOf(n)
BY SMT DEF DailyLimitOf

\* A step moves its own request only, inside its own handler.
LEMMA ControlStep ==
  ASSUME TypeOK, Places, NEW r \in Requests, Steps(r)
  PROVE  /\ env' = env
         /\ pc' = [pc EXCEPT ![r] = pc'[r]]
         /\ pc' \in [Requests -> {"start", "email", "create", "wallet", "update",
                                  "link", "tier", "limit", "done"}]
         /\ answer' \in [Requests -> {"none", "ok", "refused", "error"}]
         /\ pc[r] # "done" /\ pc'[r] # "start"
         /\ Places'
<1>1. CASE Reads(r)
  BY <1>1, AccountAssumption
  DEF TypeOK, Places, Reads, FindByPhone, FindByEmail, CheckEmail, ReadUser, Goto, Answer, Requests,
      Creators, CreatorLabels, ProfileLabels, UpgradeLabels
<1>2. CASE Writes(r)
  BY <1>2, AccountAssumption
  DEF TypeOK, Places, Writes, CreateUser, CreateWallet, StoreProfile, LinkDocument, UpdateKYCTier,
      UpdateDailyLimit, Committed, Goto, Answer, Requests, Creators, CreatorLabels, ProfileLabels,
      UpgradeLabels
<1>. QED BY <1>1, <1>2 DEF Steps

\* A statement on one column of a users row.
WithEmail(u, e) == [u EXCEPT !.email = e]
WithTier(u, t) == [u EXCEPT !.tier = t]
WithDocs(u, d) == [u EXCEPT !.docs = d]
DocSets == SUBSET {"bvn", "nin"}

\* It changes that column, and a stored row stays one.
LEMMA RowUpdates ==
  \A u \in User :
    /\ u # NoUser
    /\ \A e \in Emails : LET n == WithEmail(u, e) IN
         n \in User /\ n.phone = u.phone /\ n.email = e /\ n.tier = u.tier /\ n.docs = u.docs
    /\ \A t \in 0 .. 2 : LET n == WithTier(u, t) IN
         n \in User /\ n.phone = u.phone /\ n.email = u.email /\ n.tier = t /\ n.docs = u.docs
    /\ \A d \in DocSets : LET n == WithDocs(u, d) IN
         n \in User /\ n.phone = u.phone /\ n.email = u.email /\ n.tier = u.tier /\ n.docs = d
BY AccountAssumption DEF User, NoUser, WithEmail, WithTier, WithDocs, DocSets

\* A step writes the users row of account a and no other one.
RowWritten(a) ==
  /\ a \in Creators /\ users'[a] \in User
  /\ \A c \in Creators \ {a} : users'[c] = users[c]

\* What a step does to the users rows: nothing, or one statement on one row.
LEMMA UsersStep ==
  ASSUME TypeOK, RowsAppear, DocumentsLinked, NEW r \in Requests, Steps(r)
  PROVE  /\ users' \in [Creators -> User \cup {NoUser}]
         /\ \/ users' = users /\ pc'[r] \notin {"wallet", "tier", "limit"}
            \/ /\ r \in Creators /\ pc[r] = "create" /\ CanCreate(r)
               /\ (pc'[r] = "wallet" \/ (pc'[r] = "done" /\ Failing))
               /\ RowWritten(r) /\ users'[r].phone = PhoneOf[r] /\ users'[r].email = EmailOf[r]
               /\ users'[r].tier = 0 /\ users'[r].docs = {}
            \/ LET u == users[AccountOf[r]] n == users'[AccountOf[r]] IN
               /\ r \in Profiles \cup Upgrades /\ u \in User
               /\ RowWritten(AccountOf[r]) /\ n.phone = u.phone
               /\ \/ /\ r \in Profiles /\ pc[r] = "update"
                     /\ ~EmailTaken(EmailOf[r], {AccountOf[r]})
                     /\ n.email = EmailOf[r] /\ n.tier = u.tier /\ n.docs = u.docs
                  \/ /\ r \in Upgrades /\ pc[r] = "link" /\ pc'[r] \in {"tier", "done"}
                     /\ n.docs = u.docs \cup {DocumentFor(goal[r])}
                     /\ n.email = u.email /\ n.tier = u.tier
                  \/ /\ r \in Upgrades /\ pc[r] = "tier" /\ n.tier = goal[r]
                     /\ (pc'[r] = "limit" \/ (pc'[r] = "done" /\ Failing))
                     /\ n.email = u.email /\ n.docs = u.docs
<1>1. CASE Reads(r)
  BY <1>1 DEF Reads, FindByPhone, FindByEmail, CheckEmail, ReadUser, TypeOK, Goto, Answer
<1>2. CASE r \in Creators /\ CreateUser(r)
  <2>1. [phone |-> PhoneOf[r], email |-> EmailOf[r], tier |-> 0, docs |-> {}] \in User
    BY <1>2 DEF User, Phones, Emails
  <2>2. CASE users' = users /\ Answer(r, "error")
    BY <2>2 DEF TypeOK, Answer
  <2>3. CASE /\ users' = [users EXCEPT ![r] =
                  [phone |-> PhoneOf[r], email |-> EmailOf[r], tier |-> 0, docs |-> {}]]
             /\ CanCreate(r) /\ Committed(r, "wallet")
    <3>1. RowWritten(r) /\ users' \in [Creators -> User \cup {NoUser}]
      BY <1>2, <2>1, <2>3 DEF RowWritten, TypeOK
    <3>2. users'[r] = [phone |-> PhoneOf[r], email |-> EmailOf[r], tier |-> 0, docs |-> {}]
      BY <1>2, <2>3 DEF TypeOK
    <3>. QED BY <1>2, <2>3, <3>1, <3>2 DEF CreateUser, Committed, Goto, Answer, TypeOK, Requests
  <2>. QED BY <1>2, <2>2, <2>3 DEF CreateUser
<1>3. CASE r \in Creators /\ CreateWallet(r)
  BY <1>3 DEF CreateWallet, TypeOK, Answer
<1>4. CASE r \in Profiles /\ StoreProfile(r)
  <2>1. users[AccountOf[r]] \in User /\ AccountOf[r] \in Creators
    BY <1>4, AccountAssumption DEF StoreProfile, RowsAppear, Stored, TypeOK
  <2>2. EmailOf[r] \in Emails
    BY <1>4 DEF Emails
  <2>3. CASE users' = users /\ Answer(r, "error")
    BY <2>3 DEF TypeOK, Answer
  <2>4. CASE /\ users' = [users EXCEPT ![AccountOf[r]].email = EmailOf[r]]
             /\ ~EmailTaken(EmailOf[r], {AccountOf[r]})
    <3>1. users'[AccountOf[r]] = WithEmail(users[AccountOf[r]], EmailOf[r])
      BY <2>1, <2>4 DEF TypeOK, WithEmail
    <3>2. users'[AccountOf[r]] \in User
      BY <2>1, <2>2, <3>1, RowUpdates
    <3>3. RowWritten(AccountOf[r]) /\ users' \in [Creators -> User \cup {NoUser}]
      BY <2>1, <2>4, <3>2 DEF RowWritten, TypeOK
    <3>. QED BY <1>4, <2>1, <2>2, <2>4, <3>1, <3>3, RowUpdates DEF StoreProfile
  <2>. QED BY <1>4, <2>3, <2>4 DEF StoreProfile
<1>5. CASE r \in Upgrades /\ LinkDocument(r)
  <2>1. users[AccountOf[r]] \in User /\ AccountOf[r] \in Creators
    BY <1>5, AccountAssumption DEF LinkDocument, RowsAppear, Stored, TypeOK
  <2>2. WithDocument(r) \in DocSets
    BY <2>1 DEF DocumentFor, WithDocument, User, DocSets
  <2>3. CASE users' = users /\ Answer(r, "error")
    BY <2>3 DEF TypeOK, Answer
  <2>4. CASE /\ users' = [users EXCEPT ![AccountOf[r]].docs = WithDocument(r)]
             /\ Committed(r, "tier")
    <3>1. users'[AccountOf[r]] = WithDocs(users[AccountOf[r]], WithDocument(r))
      BY <2>1, <2>4 DEF TypeOK, WithDocs
    <3>2. users'[AccountOf[r]] \in User
      BY <2>1, <2>2, <3>1, RowUpdates
    <3>3. RowWritten(AccountOf[r]) /\ users' \in [Creators -> User \cup {NoUser}]
      BY <2>1, <2>4, <3>2 DEF RowWritten, TypeOK
    <3>4. LET u == users[AccountOf[r]] n == users'[AccountOf[r]] IN
          /\ n.phone = u.phone /\ n.email = u.email /\ n.tier = u.tier
          /\ n.docs = WithDocument(r)
      BY <2>1, <2>2, <3>1, RowUpdates
    <3>5. pc'[r] \in {"tier", "done"}
      BY <2>4 DEF Committed, Goto, Answer, TypeOK
    <3>. QED BY <1>5, <2>1, <3>3, <3>4, <3>5 DEF LinkDocument, WithDocument
  <2>. QED BY <1>5, <2>3, <2>4 DEF LinkDocument
<1>6. CASE r \in Upgrades /\ UpdateKYCTier(r)
  <2>1. users[AccountOf[r]] \in User /\ AccountOf[r] \in Creators
    BY <1>6, AccountAssumption DEF UpdateKYCTier, RowsAppear, Stored, TypeOK
  <2>2. goal[r] \in 0 .. 2
    BY <1>6 DEF TypeOK
  <2>3. CASE users' = users /\ Answer(r, "error")
    BY <2>3 DEF TypeOK, Answer
  <2>4. CASE /\ users' = [users EXCEPT ![AccountOf[r]].tier = goal[r]]
             /\ Committed(r, "limit")
    <3>1. users'[AccountOf[r]] = WithTier(users[AccountOf[r]], goal[r])
      BY <2>1, <2>4 DEF TypeOK, WithTier
    <3>2. users'[AccountOf[r]] \in User
      BY <2>1, <2>2, <3>1, RowUpdates
    <3>3. RowWritten(AccountOf[r]) /\ users' \in [Creators -> User \cup {NoUser}]
      BY <2>1, <2>4, <3>2 DEF RowWritten, TypeOK
    <3>4. pc'[r] = "limit" \/ (pc'[r] = "done" /\ Failing)
      BY <2>4 DEF Committed, Goto, Answer, TypeOK
    <3>. QED BY <1>6, <2>1, <2>2, <3>1, <3>3, <3>4, RowUpdates DEF UpdateKYCTier
  <2>. QED BY <1>6, <2>3, <2>4 DEF UpdateKYCTier
<1>7. CASE r \in Upgrades /\ UpdateDailyLimit(r)
  BY <1>7 DEF UpdateDailyLimit, TypeOK, Answer
<1>. QED BY <1>1, <1>2, <1>3, <1>4, <1>5, <1>6, <1>7 DEF Steps, Writes

\* What a step does to the limits.
LEMMA LimitStep ==
  ASSUME TypeOK, Places, RowsAppear, DocumentsLinked, NEW r \in Requests, Steps(r)
  PROVE  \/ /\ limit' = limit
            /\ r \in Creators /\ pc[r] = "wallet" => Failing
            /\ r \in Upgrades /\ pc[r] = "limit" => Failing \/ ~HasWallet(AccountOf[r])
         \/ /\ r \in Creators /\ pc[r] = "wallet" /\ users' = users
            /\ limit' = [limit EXCEPT ![r] = DailyLimitOf(0)]
         \/ /\ r \in Upgrades /\ pc[r] = "limit" /\ users' = users /\ HasWallet(AccountOf[r])
            /\ limit' = [limit EXCEPT ![AccountOf[r]] = DailyLimitOf(goal[r])]
<1>. USE AccountAssumption DEF Creators
<1>1. CASE Reads(r)
  BY <1>1 DEF Reads, FindByPhone, FindByEmail, CheckEmail, ReadUser
<1>2. CASE r \in Creators /\ CreateUser(r)
  BY <1>2 DEF CreateUser
<1>3. CASE r \in Creators /\ CreateWallet(r)
  BY <1>3 DEF CreateWallet
<1>4. CASE r \in Profiles /\ StoreProfile(r)
  BY <1>4 DEF StoreProfile
<1>5. CASE r \in Upgrades /\ (LinkDocument(r) \/ UpdateKYCTier(r))
  BY <1>5 DEF LinkDocument, UpdateKYCTier
<1>6. CASE r \in Upgrades /\ UpdateDailyLimit(r)
  BY <1>6 DEF UpdateDailyLimit, TypeOK, HasWallet
<1>. QED BY <1>1, <1>2, <1>3, <1>4, <1>5, <1>6 DEF Steps, Writes

\* The statements of a handler follow each other; whoever works on an account
\* has read its row first.
LEMMA OrderStep ==
  ASSUME TypeOK, Places, NEW r \in Requests, Steps(r)
  PROVE  /\ pc'[r] \in {"email", "create"} => pc[r] \in {"start", "email"} /\ limit' = limit
         /\ pc'[r] = "wallet" => pc[r] = "create" /\ limit' = limit
         /\ pc'[r] = "update" => pc[r] = "start" /\ Stored(AccountOf[r])
         /\ pc'[r] = "link" => pc[r] = "start"
         /\ pc'[r] = "tier" => pc[r] = "link"
         /\ pc'[r] = "limit" => pc[r] = "tier"
<1>1. CASE Reads(r)
  BY <1>1, AccountAssumption
  DEF TypeOK, Places, Reads, FindByPhone, FindByEmail, CheckEmail, ReadUser, Goto, Answer, Requests,
      Creators, CreatorLabels, ProfileLabels, UpgradeLabels
<1>2. CASE Writes(r)
  BY <1>2, AccountAssumption
  DEF TypeOK, Places, Writes, CreateUser, CreateWallet, StoreProfile, LinkDocument, UpdateKYCTier,
      UpdateDailyLimit, Committed, Goto, Answer, Requests, Creators, CreatorLabels, ProfileLabels,
      UpgradeLabels
<1>. QED BY <1>1, <1>2 DEF Steps

\* What a step does to the goals of upgrades: ReadUser alone chooses one, above
\* the tier it read.
LEMMA GoalStep ==
  ASSUME TypeOK, Places, NEW r \in Requests, Steps(r)
  PROVE  /\ goal' \in [Upgrades -> 0 .. 2]
         /\ \A k \in Upgrades : k # r => goal'[k] = goal[k]
         /\ r \in Upgrades /\ pc[r] # "start" => goal'[r] = goal[r]
         /\ r \in Upgrades /\ pc[r] = "start" => pc'[r] \in {"link", "done"}
         /\ r \in Upgrades /\ pc[r] = "start" /\ pc'[r] = "link" =>
              /\ goal'[r] \in {1, 2} /\ goal'[r] > users[AccountOf[r]].tier
              /\ Stored(AccountOf[r]) /\ MayStart(r) /\ users' = users /\ limit' = limit
<1>1. CASE r \in Upgrades /\ ReadUser(r)
  <2>1. users[AccountOf[r]].tier \in 0 .. 2
    BY <1>1, AccountAssumption DEF TypeOK, User, NoUser
  <2>2. NewTier(r, users[AccountOf[r]].tier) > 0 =>
          /\ NewTier(r, users[AccountOf[r]].tier) \in {1, 2}
          /\ NewTier(r, users[AccountOf[r]].tier) > users[AccountOf[r]].tier
    BY <2>1 DEF NewTier
  <2>. QED BY <1>1, <2>2 DEF ReadUser, Goto, Answer, TypeOK, Requests
<1>2. CASE Reads(r) /\ ~(r \in Upgrades /\ ReadUser(r))
  BY <1>2, AccountAssumption DEF Reads, FindByPhone, FindByEmail, CheckEmail, TypeOK, Creators
<1>3. CASE Writes(r)
  BY <1>3, AccountAssumption
  DEF Writes, CreateUser, CreateWallet, StoreProfile, LinkDocument, UpdateKYCTier,
      UpdateDailyLimit, TypeOK, Creators
<1>. QED BY <1>1, <1>2, <1>3 DEF Steps

-------------------------------------------------------------------------------
(* The invariant.                                                             *)

LEMMA InitInv == Init => AccountInv
BY AccountAssumption, Limits
DEF Init, AccountInv, TypeOK, Places, RowsAppear, UniqueIdentity, DocumentsLinked, Documented,
    UpgradesInTurn, LimitsFollow, Upgrading, Stored, NoUser, Requests, Creators, CreatorLabels,
    ProfileLabels, UpgradeLabels

\* Every variable keeps its type.
LEMMA TypeStep ==
  ASSUME AccountInv, NEW r \in Requests, Steps(r)
  PROVE  TypeOK'
<1>1. limit' \in [Creators -> {0} \cup {DailyLimitOf(tier) : tier \in 0 .. 2}]
  BY LimitStep, AccountAssumption, Limits DEF AccountInv, TypeOK, DocumentsLinked, Upgrading
<1>. QED BY <1>1, ControlStep, UsersStep, GoalStep DEF AccountInv, TypeOK

\* Rows are created once and found before they are written.
LEMMA RowsStep ==
  ASSUME AccountInv, NEW r \in Requests, Steps(r)
  PROVE  RowsAppear'
<1>. USE DEF AccountInv
<1>1. /\ pc' = [pc EXCEPT ![r] = pc'[r]] /\ pc[r] # "done" /\ pc'[r] # "start" /\ Places'
      /\ pc \in [Requests -> {"start", "email", "create", "wallet", "update",
                              "link", "tier", "limit", "done"}]
      /\ \A q \in Requests : q # r => pc'[q] = pc[q]
  BY ControlStep DEF TypeOK
<1>2. \A q \in Creators : Stored(q) => Stored(q)'
  BY UsersStep, RowUpdates DEF RowWritten, Stored
<1>3. ASSUME NEW q \in Creators, pc'[q] \in {"start", "email", "create"}
      PROVE  users'[q] = NoUser
  <2>1. pc[q] \in {"start", "email", "create"} /\ (q = r => pc[q] # "create")
    BY <1>1, <1>3, OrderStep DEF Requests
  <2>2. users[q] = NoUser
    BY <2>1 DEF RowsAppear
  <2>3. users[AccountOf[r]] \in User => AccountOf[r] # q
    BY <2>2, RowUpdates
  <2>. QED BY <2>1, <2>2, <2>3, UsersStep DEF RowWritten
<1>4. ASSUME NEW q \in Creators, pc'[q] \in {"start", "email", "create", "wallet"}
      PROVE  limit'[q] = 0
  <2>1. pc[q] \in {"start", "email", "create", "wallet"} /\ (q = r => limit' = limit)
    BY <1>1, <1>4, OrderStep DEF Requests
  <2>2. limit[q] = 0
    BY <2>1 DEF RowsAppear
  <2>3. CASE limit' = limit
    BY <2>2, <2>3
  <2>4. CASE q # r
    <3>1. limit[AccountOf[r]] > 0 => AccountOf[r] # q
      BY <2>2
    <3>. QED BY <2>2, <2>4, <3>1, LimitStep DEF HasWallet, TypeOK
  <2>. QED BY <2>1, <2>3, <2>4
<1>5. ASSUME NEW k \in Profiles \cup Upgrades, pc'[k] \notin {"start", "done"}
      PROVE  Stored(AccountOf[k])'
  <2>1. AccountOf[k] \in Creators /\ k \in Requests
    BY AccountAssumption DEF Requests
  <2>2. Stored(AccountOf[k])
    <3>1. CASE k # r
      BY <1>1, <1>5, <2>1, <3>1 DEF RowsAppear
    <3>2. CASE k = r /\ pc[r] # "start"
      BY <1>1, <3>2 DEF RowsAppear
    <3>3. CASE k = r /\ pc[r] = "start"
      BY <1>1, <1>5, <3>3, OrderStep, GoalStep, AccountAssumption
      DEF Places, ProfileLabels, UpgradeLabels
    <3>. QED BY <3>1, <3>2, <3>3
  <2>. QED BY <1>2, <2>1, <2>2
<1>. QED BY <1>3, <1>4, <1>5 DEF RowsAppear

\* The lookups and the unique indexes keep phones and emails apart.
LEMMA IdentityStep ==
  ASSUME AccountInv, NEW r \in Requests, Steps(r)
  PROVE  UniqueIdentity'
<1>. USE DEF AccountInv
<1>1. CASE users' = users
  BY <1>1 DEF UniqueIdentity, Stored
<1>2. CASE /\ r \in Creators /\ CanCreate(r) /\ RowWritten(r)
           /\ users'[r].phone = PhoneOf[r] /\ users'[r].email = EmailOf[r]
  BY <1>2 DEF UniqueIdentity, Stored, CanCreate, PhoneTaken, EmailTaken, RowWritten
<1>3. CASE /\ r \in Profiles \cup Upgrades /\ users[AccountOf[r]] \in User
           /\ RowWritten(AccountOf[r]) /\ users'[AccountOf[r]].phone = users[AccountOf[r]].phone
           /\ \/ users'[AccountOf[r]].email = users[AccountOf[r]].email
              \/ /\ users'[AccountOf[r]].email = EmailOf[r]
                 /\ ~EmailTaken(EmailOf[r], {AccountOf[r]})
  <2>1. Stored(AccountOf[r])
    BY <1>3, RowUpdates DEF Stored
  <2>. QED BY <1>3, <2>1 DEF UniqueIdentity, Stored, EmailTaken, RowWritten
<1>. QED BY <1>1, <1>2, <1>3, UsersStep

\* Only UpdateKYCTier changes the tier of an account, to the goal of the upgrade.
LEMMA TierStep ==
  ASSUME AccountInv, NEW r \in Requests, Steps(r), NEW c \in Creators,
         users'[c].tier # users[c].tier
  PROVE  r \in Upgrades /\ pc[r] = "tier" /\ c = AccountOf[r] /\ users'[c].tier = goal[r]
<1>. USE DEF AccountInv
<1>1. r \in Creators /\ pc[r] = "create" => users[r].tier = 0
  BY DEF RowsAppear, NoUser
<1>2. users' # users
  OBVIOUS
<1>3. CASE r \in Creators /\ pc[r] = "create" /\ RowWritten(r) /\ users'[r].tier = 0
  BY <1>1, <1>3 DEF RowWritten
<1>4. CASE RowWritten(AccountOf[r]) /\ users'[AccountOf[r]].tier = users[AccountOf[r]].tier
  BY <1>4 DEF RowWritten
<1>5. CASE /\ RowWritten(AccountOf[r]) /\ r \in Upgrades /\ pc[r] = "tier"
           /\ users'[AccountOf[r]].tier = goal[r]
  BY <1>5 DEF RowWritten
<1>. QED BY <1>2, <1>3, <1>4, <1>5, UsersStep

\* A document is linked before its tier is set, and never unlinked.
LEMMA DocumentsStep ==
  ASSUME AccountInv, NEW r \in Requests, Steps(r)
  PROVE  DocumentsLinked' /\ Documented'
<1>. USE DEF AccountInv
<1>1. /\ pc \in [Requests -> {"start", "email", "create", "wallet", "update",
                              "link", "tier", "limit", "done"}]
      /\ \A q \in Requests : q # r => pc'[q] = pc[q]
  BY ControlStep DEF TypeOK
<1>2. \A c \in Creators : users[c].docs \subseteq users'[c].docs
  <2>1. pc[r] = "create" /\ r \in Creators => users[r].docs = {}
    BY DEF RowsAppear, NoUser
  <2>. QED BY <2>1, UsersStep DEF RowWritten
<1>3. ASSUME NEW k \in Upgrades, Upgrading(k)'
      PROVE  goal'[k] \in {1, 2}
  <2>1. CASE k = r /\ pc[r] = "start"
    BY <1>3, <2>1, GoalStep DEF Upgrading
  <2>2. CASE k = r /\ pc[r] # "start"
    BY <1>3, <2>2, GoalStep, OrderStep, ControlStep
    DEF Upgrading, DocumentsLinked, Places, UpgradeLabels
  <2>3. CASE k # r
    BY <1>1, <1>3, <2>3, GoalStep DEF Upgrading, DocumentsLinked, Requests
  <2>. QED BY <2>1, <2>2, <2>3
<1>4. ASSUME NEW k \in Upgrades, pc'[k] \in {"tier", "limit"}
      PROVE  DocumentFor(goal'[k]) \in users'[AccountOf[k]].docs
  <2>1. AccountOf[k] \in Creators
    BY AccountAssumption
  <2>2. CASE k # r \/ pc[k] = "tier"
    <3>1. pc[k] \in {"tier", "limit"} /\ goal'[k] = goal[k]
      BY <1>1, <1>4, <2>2, GoalStep DEF Requests
    <3>. QED BY <1>2, <2>1, <3>1 DEF DocumentsLinked
  <2>3. CASE k = r /\ pc[r] = "link"
    <3>1. goal'[k] = goal[k] /\ pc'[r] = "tier" /\ r \notin Creators /\ r \notin Profiles
      BY <1>4, <2>3, GoalStep, OrderStep, AccountAssumption
    <3>. QED BY <2>3, <3>1, UsersStep
  <2>. QED BY <1>4, <2>2, <2>3, OrderStep
<1>5. ASSUME NEW q \in Creators, NEW t \in {1, 2},
             users'[q].tier = t \/ limit'[q] = DailyLimitOf(t)
      PROVE  DocumentFor(t) \in users'[q].docs
  <2>1. CASE users[q].tier = t \/ limit[q] = DailyLimitOf(t)
    BY <1>2, <2>1 DEF Documented, DocumentFor
  <2>2. CASE r \in Upgrades /\ pc[r] = "tier" /\ AccountOf[r] = q /\ goal[r] = t
    BY <1>2, <2>2 DEF DocumentsLinked
  <2>3. CASE r \in Upgrades /\ pc[r] = "limit" /\ AccountOf[r] = q /\ DailyLimitOf(goal[r]) = DailyLimitOf(t)
    <3>1. goal[r] \in 0 .. 2 /\ t \in 0 .. 2
      BY <2>3 DEF TypeOK
    <3>2. goal[r] = t
      BY <2>3, <3>1, Limits
    <3>. QED BY <1>2, <2>3, <3>2 DEF DocumentsLinked
  <2>4. CASE users'[q].tier = t /\ users[q].tier # t
    BY <2>2, <2>4, TierStep
  <2>5. CASE limit'[q] = DailyLimitOf(t) /\ limit[q] # DailyLimitOf(t)
    <3>1. DailyLimitOf(t) # DailyLimitOf(0)
      BY Limits
    <3>. QED BY <2>3, <2>5, <3>1, LimitStep, AccountAssumption DEF TypeOK
  <2>. QED BY <1>5, <2>1, <2>4, <2>5
<1>. QED
  <2>1. DocumentsLinked'
    BY <1>3, <1>4 DEF DocumentsLinked
  <2>2. Documented'
    BY <1>5 DEF Documented, DocumentFor
  <2>. QED BY <2>1, <2>2

\* Upgrades in turn: only the running one touches its account.
LEMMA InTurnStep ==
  ASSUME AccountInv, NEW r \in Requests, Steps(r)
  PROVE  UpgradesInTurn'
<1>. USE DEF AccountInv
<1>1. /\ pc \in [Requests -> {"start", "email", "create", "wallet", "update",
                              "link", "tier", "limit", "done"}]
      /\ \A q \in Requests : q # r => pc'[q] = pc[q]
      /\ env' = env /\ pc[r] # "done" /\ pc'[r] # "start"
  BY ControlStep DEF TypeOK
<1>. SUFFICES ASSUME ~env.overlap
              PROVE  UpgradesInTurn'
  BY <1>1 DEF UpgradesInTurn
<1>2. ASSUME NEW k \in Upgrades, Upgrading(k)', ~Upgrading(k)
      PROVE  /\ k = r /\ pc'[k] = "link" /\ goal'[k] > users'[AccountOf[k]].tier
             /\ \A j \in Upgrades : j # k => ~Upgrading(j)'
             /\ pc'[AccountOf[k]] = "done"
  <2>1. k = r /\ pc[r] = "start" /\ pc'[r] = "link"
    BY <1>1, <1>2, GoalStep, OrderStep, AccountAssumption
    DEF Upgrading, Requests, Places, UpgradeLabels
  <2>2. /\ goal'[r] > users[AccountOf[r]].tier /\ users' = users
        /\ Stored(AccountOf[r]) /\ \A q \in Requests \ {r} : pc[q] \in {"start", "done"}
    BY <2>1, GoalStep DEF MayStart
  <2>3. AccountOf[k] \in Creators /\ AccountOf[k] # r
    BY <2>1, AccountAssumption
  <2>4. pc[AccountOf[k]] = "done"
    BY <2>1, <2>2, <2>3 DEF RowsAppear, Stored, Requests
  <2>. QED BY <1>1, <2>1, <2>2, <2>3, <2>4 DEF Upgrading, Requests
<1>3. ASSUME NEW k \in Upgrades, Upgrading(k)', Upgrading(k)
      PROVE  /\ pc'[AccountOf[k]] = "done"
             /\ pc'[k] \in {"link", "tier"} => users'[AccountOf[k]].tier < goal'[k]
             /\ pc'[k] = "limit" => users'[AccountOf[k]].tier = goal'[k]
  <2>1. AccountOf[k] \in Creators /\ pc[AccountOf[k]] = "done" /\ AccountOf[k] # r
    BY <1>1, <1>3, AccountAssumption DEF UpgradesInTurn
  <2>2. goal'[k] = goal[k]
    BY <1>3, GoalStep DEF Upgrading
  <2>3. CASE k # r
    <3>1. r \in Upgrades => ~Upgrading(r)
      BY <1>3, <2>3 DEF UpgradesInTurn
    <3>2. users'[AccountOf[k]].tier = users[AccountOf[k]].tier
      BY <2>1, <3>1, TierStep DEF Upgrading
    <3>. QED BY <1>1, <1>3, <2>1, <2>2, <2>3, <3>2 DEF UpgradesInTurn, Upgrading, Requests
  <2>4. CASE k = r
    <3>1. r \notin Creators /\ r \notin Profiles
      BY <2>4, AccountAssumption
    <3>2. CASE pc'[r] = "link"
      BY <1>3, <2>4, <3>2, OrderStep DEF Upgrading
    <3>3. CASE pc'[r] = "tier"
      BY <1>1, <2>1, <2>2, <2>4, <3>1, <3>3, OrderStep, UsersStep DEF UpgradesInTurn, Requests
    <3>4. CASE pc'[r] = "limit"
      BY <1>1, <2>1, <2>2, <2>4, <3>1, <3>4, OrderStep, UsersStep DEF UpgradesInTurn, Requests
    <3>. QED BY <1>3, <2>4, <3>2, <3>3, <3>4 DEF Upgrading
  <2>. QED BY <2>3, <2>4
<1>4. ASSUME NEW q \in Creators
      PROVE  limit'[q] <= DailyLimitOf(users'[q].tier)
  <2>1. users[q].tier \in 0 .. 2 /\ users'[q].tier \in 0 .. 2 /\ users[q].tier <= users'[q].tier
    <3>1. users[q].tier \in 0 .. 2 /\ users'[q].tier \in 0 .. 2
      BY TypeStep DEF TypeOK, User, NoUser
    <3>2. CASE users'[q].tier # users[q].tier
      <4>1. r \in Upgrades /\ pc[r] = "tier" /\ q = AccountOf[r] /\ users'[q].tier = goal[r]
        BY <3>2, TierStep
      <4>. QED BY <3>1, <4>1 DEF UpgradesInTurn
    <3>. QED BY <3>1, <3>2
  <2>2. /\ limit[q] <= DailyLimitOf(users[q].tier) /\ limit[q] \in Nat
        /\ DailyLimitOf(users[q].tier) <= DailyLimitOf(users'[q].tier)
        /\ DailyLimitOf(users[q].tier) \in Nat /\ DailyLimitOf(users'[q].tier) \in Nat
        /\ DailyLimitOf(0) <= DailyLimitOf(users'[q].tier)
    <3>1. limit[q] \in Nat
      BY Limits DEF TypeOK
    <3>2. limit[q] <= DailyLimitOf(users[q].tier)
      BY DEF UpgradesInTurn
    <3>. QED BY <2>1, <3>1, <3>2, Limits
  <2>3. CASE limit'[q] = limit[q]
    BY <2>2, <2>3
  <2>4. CASE limit'[q] = DailyLimitOf(0)
    BY <2>2, <2>4
  <2>5. CASE r \in Upgrades /\ pc[r] = "limit" /\ users' = users /\ q = AccountOf[r]
             /\ limit'[q] = DailyLimitOf(goal[r])
    BY <2>2, <2>5 DEF UpgradesInTurn
  <2>. QED BY <2>3, <2>4, <2>5, LimitStep, AccountAssumption DEF TypeOK
<1>. QED BY <1>1, <1>2, <1>3, <1>4 DEF UpgradesInTurn, Upgrading

\* Without faults the limit catches up with the tier.
LEMMA FollowStep ==
  ASSUME AccountInv, NEW r \in Requests, Steps(r)
  PROVE  LimitsFollow'
<1>. USE DEF AccountInv
<1>1. /\ pc \in [Requests -> {"start", "email", "create", "wallet", "update",
                              "link", "tier", "limit", "done"}]
      /\ \A q \in Requests : q # r => pc'[q] = pc[q]
      /\ env' = env
  BY ControlStep DEF TypeOK
<1>. SUFFICES ASSUME ~env.overlap, env.faults = {}, NEW q \in Creators, Stored(q)'
              PROVE  \/ pc'[q] = "wallet" /\ users'[q].tier = 0
                     \/ limit'[q] = DailyLimitOf(users'[q].tier)
                     \/ /\ HasWallet(q)'
                        /\ \E k \in Upgrades : AccountOf[k] = q /\ pc'[k] = "limit"
  BY <1>1 DEF LimitsFollow
<1>2. ~Failing
  BY DEF Failing
<1>3. CASE r \in Creators /\ q = r /\ pc[r] = "create"
  <2>1. pc'[q] = "wallet" /\ users'[q].tier = 0
    <3>1. users[q] = NoUser
      BY <1>3 DEF RowsAppear
    <3>2. users' # users
      BY <3>1 DEF Stored
    <3>3. r \notin Profiles /\ r \notin Upgrades
      BY <1>3, AccountAssumption
    <3>. QED BY <1>2, <1>3, <3>2, <3>3, UsersStep
  <2>. QED BY <2>1
<1>4. CASE r \in Creators /\ q = r /\ pc[r] = "wallet"
  <2>1. limit' = [limit EXCEPT ![r] = DailyLimitOf(0)] /\ users' = users
    BY <1>2, <1>4, LimitStep, AccountAssumption
  <2>2. limit'[q] = DailyLimitOf(0)
    BY <1>4, <2>1 DEF TypeOK
  <2>3. users[q].tier = 0
    <3>1. Stored(q) /\ limit[q] = 0
      BY <1>4, <2>1 DEF Stored, RowsAppear
    <3>2. users[q].tier \in 0 .. 2
      BY DEF TypeOK, User, NoUser
    <3>. QED BY <3>1, <3>2, Limits DEF LimitsFollow, HasWallet
  <2>. QED BY <2>1, <2>2, <2>3
<1>5. CASE r \in Upgrades /\ q = AccountOf[r] /\ pc[r] = "tier"
  <2>1. pc'[r] = "limit"
    <3>1. pc'[r] \in {"limit", "done"} /\ (pc'[r] = "done" => Failing)
      BY <1>5, AccountAssumption
      DEF Steps, Reads, Writes, ReadUser, LinkDocument, UpdateKYCTier, UpdateDailyLimit,
          Committed, Goto, Answer, TypeOK, Requests
    <3>. QED BY <1>2, <3>1
  <2>2. HasWallet(q)
    <3>1. Stored(q) /\ pc[q] = "done"
      BY <1>5 DEF RowsAppear, UpgradesInTurn, Upgrading
    <3>2. users[q].tier \in 0 .. 2
      BY DEF TypeOK, User, NoUser
    <3>. QED BY <3>1, <3>2, Limits DEF LimitsFollow, HasWallet
  <2>3. limit' = limit
    BY <1>5, LimitStep, AccountAssumption
  <2>. QED BY <1>5, <2>1, <2>2, <2>3 DEF HasWallet
<1>6. CASE r \in Upgrades /\ q = AccountOf[r] /\ pc[r] = "limit"
  <2>1. Stored(q) /\ pc[q] = "done" /\ users[q].tier = goal[r]
    BY <1>6 DEF RowsAppear, UpgradesInTurn, Upgrading
  <2>2. users[q].tier \in 0 .. 2
    BY DEF TypeOK, User, NoUser
  <2>3. HasWallet(q)
    BY <2>1, <2>2, Limits DEF LimitsFollow, HasWallet
  <2>4. limit' = [limit EXCEPT ![q] = DailyLimitOf(goal[r])] /\ users' = users
    BY <1>2, <1>6, <2>3, LimitStep, AccountAssumption
  <2>. QED BY <2>1, <2>4 DEF TypeOK
<1>7. CASE /\ ~(r \in Creators /\ q = r /\ pc[r] \in {"create", "wallet"})
           /\ ~(r \in Upgrades /\ q = AccountOf[r] /\ pc[r] \in {"tier", "limit"})
  <2>1. users'[q].tier = users[q].tier
    BY <1>7, TierStep
  <2>2. limit'[q] = limit[q]
    BY <1>7, LimitStep, AccountAssumption DEF TypeOK
  <2>3. Stored(q)
    <3>1. users' = users => Stored(q)
      BY DEF Stored
    <3>2. users[AccountOf[r]] \in User => Stored(AccountOf[r])
      BY RowUpdates DEF Stored
    <3>. QED BY <1>7, <3>1, <3>2, UsersStep DEF RowWritten, Stored
  <2>4. pc[q] = "wallet" => pc'[q] = "wallet"
    BY <1>1, <1>7 DEF Requests
  <2>5. \A k \in Upgrades : AccountOf[k] = q /\ pc[k] = "limit" => pc'[k] = "limit"
    BY <1>1, <1>7 DEF Requests
  <2>. QED BY <2>1, <2>2, <2>3, <2>4, <2>5 DEF LimitsFollow, HasWallet
<1>. QED BY <1>3, <1>4, <1>5, <1>6, <1>7

LEMMA StepInv == AccountInv /\ [Next]_vars => AccountInv'
<1>. SUFFICES ASSUME AccountInv, [Next]_vars
              PROVE  AccountInv'
  OBVIOUS
<1>1. ASSUME NEW r \in Requests, Steps(r)
      PROVE  AccountInv'
  <2>1. Places'
    BY <1>1, ControlStep DEF AccountInv
  <2>. QED BY <1>1, <2>1, TypeStep, RowsStep, IdentityStep, DocumentsStep, InTurnStep, FollowStep
           DEF AccountInv
<1>2. CASE UNCHANGED vars
  BY <1>2
  DEF AccountInv, TypeOK, Places, RowsAppear, UniqueIdentity, DocumentsLinked, Documented,
      UpgradesInTurn, LimitsFollow, Upgrading, Stored, HasWallet, vars
<1>. QED BY <1>1, <1>2, NextSteps

\* The rows, tiers and limits that requests leave behind at every statement of
\* Register, GoogleLogin, UpdateProfile and UpgradeKYC.
THEOREM AccountsKept == Spec => []AccountInv
BY InitInv, StepInv, PTL DEF Spec

\* No phone and no email belongs to two accounts, for any number of racing
\* signups, logins and profile updates and though lookups may fail.
THEOREM IdentitiesUnique == Spec => []UniqueIdentity
<1>1. AccountInv => UniqueIdentity
  BY DEF AccountInv
<1>. QED BY <1>1, AccountsKept, PTL

\* No tier and no limit without its document, whatever fails and overlaps; and
\* without either, limits and tiers agree when nothing is running.
THEOREM TiersDocumented == Spec => []TierHasDocument
<1>1. AccountInv => TierHasDocument
  <2>. SUFFICES ASSUME AccountInv
                PROVE  TierHasDocument
    OBVIOUS
  <2>1. ASSUME ~env.overlap, env.faults = {}, \A q \in Requests : pc[q] \in {"start", "done"},
               NEW q \in Creators, Stored(q)
        PROVE  limit[q] = DailyLimitOf(users[q].tier)
    <3>1. pc[q] # "wallet" /\ \A k \in Upgrades : pc[k] # "limit"
      BY <2>1 DEF Requests
    <3>. QED BY <2>1, <3>1 DEF AccountInv, LimitsFollow
  <2>. QED BY <2>1 DEF AccountInv, TierHasDocument, Documented
<1>. QED BY <1>1, AccountsKept, PTL

\* As long as upgrades do not overlap, no step of any request lowers the tier or
\* the daily limit of an account, whatever fails.
THEOREM UpgradesOnlyRaise == Spec => NeverDowngraded
<1>1. ASSUME AccountInv, NEW r \in Requests, Steps(r), NEW q \in Creators, ~env.overlap
      PROVE  users'[q].tier >= users[q].tier /\ limit'[q] >= limit[q]
  <2>. USE <1>1 DEF AccountInv
  <2>1. users[q].tier \in 0 .. 2 /\ users'[q].tier \in 0 .. 2
    BY TypeStep DEF TypeOK, User, NoUser
  <2>2. users'[q].tier # users[q].tier => users'[q].tier > users[q].tier
    BY <2>1, TierStep DEF UpgradesInTurn
  <2>3. limit[q] \in Nat /\ limit'[q] \in Nat
    BY TypeStep, Limits DEF TypeOK
  <2>4. limit'[q] >= limit[q]
    <3>1. CASE r \in Creators /\ pc[r] = "wallet" /\ q = r
      BY <2>3, <3>1 DEF RowsAppear
    <3>2. CASE r \in Upgrades /\ pc[r] = "limit" /\ q = AccountOf[r]
               /\ limit'[q] = DailyLimitOf(goal[r])
      <4>1. limit[q] <= DailyLimitOf(users[q].tier) /\ users[q].tier = goal[r]
        BY <3>2 DEF UpgradesInTurn
      <4>. QED BY <2>3, <3>2, <4>1
    <3>3. CASE limit'[q] = limit[q]
      BY <2>3, <3>3
    <3>. QED BY <3>1, <3>2, <3>3, LimitStep, AccountAssumption DEF TypeOK
  <2>. QED BY <2>1, <2>2, <2>4
<1>2. ASSUME AccountInv, UNCHANGED vars, NEW q \in Creators
      PROVE  users'[q].tier >= users[q].tier /\ limit'[q] >= limit[q]
  BY <1>2, Limits DEF AccountInv, TypeOK, User, NoUser, vars
<1>3. AccountInv /\ [Next]_vars =>
        [\A q \in Creators : ~env.overlap => users'[q].tier >= users[q].tier /\ limit'[q] >= limit[q]]_vars
  BY <1>1, <1>2, NextSteps
<1>. QED BY <1>3, AccountsKept, PTL DEF Spec, NeverDowngraded
===============================================================================
