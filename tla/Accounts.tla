------------------------------- MODULE Accounts -------------------------------
(***************************************************************************)
(* Accounts and KYC tiers: Register, GoogleLogin, UpdateProfile and        *)
(* UpgradeKYC of internal/services/auth/auth_service.go on the users and   *)
(* wallets tables (user_repo.go, wallet_repo.go).                          *)
(*                                                                         *)
(* An account is a users row and a wallets row, written by two statements  *)
(* without a transaction; an upgrade is a read and three more statements.  *)
(* Requests interleave at every statement.  A users row is identified by   *)
(* the request that creates it.                                            *)
(***************************************************************************)
EXTENDS Integers

CONSTANTS Signups,    \* POST /auth/register requests
          Logins,     \* POST /auth/google requests
          Profiles,   \* PATCH /user/profile requests
          Upgrades,   \* POST /auth/kyc/upgrade requests
          PhoneOf,    \* phone of a signup, or the one a Google login makes up
          EmailOf,    \* email of a signup, login or profile update
          AccountOf,  \* the account a profile update or upgrade is about
          Documents,  \* which of "bvn" and "nin" an upgrade carries
          Environments \* whether an upgrade and other requests may overlap, and which
                       \* faults may happen: {} or {"db"}

Creators == Signups \cup Logins
Requests == Creators \cup Profiles \cup Upgrades
Emails == {EmailOf[q] : q \in Creators \cup Profiles}
Phones == {PhoneOf[q] : q \in Creators}

ASSUME AccountAssumption ==
  /\ DOMAIN PhoneOf = Creators
  /\ DOMAIN EmailOf = Creators \cup Profiles
  /\ AccountOf \in [Profiles \cup Upgrades -> Creators]
  /\ Documents \in [Upgrades -> SUBSET {"bvn", "nin"} \ {{}}]
  /\ Creators \cap (Profiles \cup Upgrades) = {} /\ Profiles \cap Upgrades = {}
  /\ "none" \notin Phones
  /\ \A g \in Logins, q \in Creators : PhoneOf[g] = PhoneOf[q] => g = q
  /\ Environments \subseteq [overlap: BOOLEAN, faults: SUBSET {"db"}]

VARIABLES env,    \* the environment of this behaviour
          users,  \* users row of each creator, NoUser until it is stored
          limit,  \* daily_limit of its wallet in kobo, 0 when it has no wallet
          pc,     \* next statement of each request
          answer, \* how it ended
          goal    \* the tier an upgrade has decided on

vars == <<env, users, limit, pc, answer, goal>>

NoUser == [phone |-> "none", email |-> "none", tier |-> 0, docs |-> {}]
User == [phone: Phones, email: Emails, tier: 0 .. 2, docs: SUBSET {"bvn", "nin"}]

\* The daily limit of a tier, in kobo.
DailyLimitOf(tier) == IF tier = 2 THEN 50000000 ELSE IF tier = 1 THEN 20000000 ELSE 5000000

TypeOK ==
  /\ env \in Environments
  /\ users \in [Creators -> User \cup {NoUser}]
  /\ limit \in [Creators -> {0} \cup {DailyLimitOf(tier) : tier \in 0 .. 2}]
  /\ pc \in [Requests -> {"start", "email", "create", "wallet", "update",
                          "link", "tier", "limit", "done"}]
  /\ answer \in [Requests -> {"none", "ok", "refused", "error"}]
  /\ goal \in [Upgrades -> 0 .. 2]

Init ==
  /\ env \in Environments
  /\ users = [q \in Creators |-> NoUser]
  /\ limit = [q \in Creators |-> 0]
  /\ pc = [q \in Requests |-> "start"]
  /\ answer = [q \in Requests |-> "none"]
  /\ goal = [k \in Upgrades |-> 0]

-------------------------------------------------------------------------------
Failing == "db" \in env.faults
Stored(q) == users[q] # NoUser
HasWallet(q) == limit[q] > 0

Goto(q, label) == pc' = [pc EXCEPT ![q] = label] /\ UNCHANGED answer
Answer(q, res) == pc' = [pc EXCEPT ![q] = "done"] /\ answer' = [answer EXCEPT ![q] = res]

\* What follows a statement that committed: the next one, or, when its answer
\* is lost, the error return.
Committed(q, label) == Goto(q, label) \/ (Failing /\ Answer(q, "error"))

PhoneTaken(phone) == \E u \in Creators : Stored(u) /\ users[u].phone = phone
EmailTaken(email, except) == \E u \in Creators \ except : Stored(u) /\ users[u].email = email

-------------------------------------------------------------------------------
(* Register and GoogleLogin.                                                  *)

\* The errors of both lookups are dropped: a failed one finds nobody.
FindByPhone(q) ==
  /\ q \in Signups /\ pc[q] = "start"
  /\ \/ PhoneTaken(PhoneOf[q]) /\ Answer(q, "refused")
     \/ (~PhoneTaken(PhoneOf[q]) \/ Failing) /\ Goto(q, "email")
  /\ UNCHANGED <<env, users, limit, goal>>

\* A Google login that finds the account is done, wallet or not.
FindByEmail(q) ==
  /\ pc[q] = IF q \in Signups THEN "email" ELSE "start"
  /\ \/ EmailTaken(EmailOf[q], {}) /\ Answer(q, IF q \in Signups THEN "refused" ELSE "ok")
     \/ (~EmailTaken(EmailOf[q], {}) \/ Failing) /\ Goto(q, "create")
  /\ UNCHANGED <<env, users, limit, goal>>

\* Mutant: without the unique indexes on phone and email.
Bug_CanCreate(q) == TRUE

CanCreate(q) == ~PhoneTaken(PhoneOf[q]) /\ ~EmailTaken(EmailOf[q], {})

CreateUser(q) ==
  /\ pc[q] = "create"
  /\ \/ /\ CanCreate(q)
        /\ users' = [users EXCEPT ![q] =
             [phone |-> PhoneOf[q], email |-> EmailOf[q], tier |-> 0, docs |-> {}]]
        /\ Committed(q, "wallet")
     \/ (Failing \/ ~CanCreate(q)) /\ Answer(q, "error") /\ UNCHANGED users
  /\ UNCHANGED <<env, limit, goal>>

\* Mutant: the wallet is not provisioned.
Bug_CreateWallet(q) ==
  /\ pc[q] = "wallet" /\ Answer(q, "ok")
  /\ UNCHANGED <<env, users, limit, goal>>

\* The OTP that Register sends next is the subject of Otp; its error is dropped.
CreateWallet(q) ==
  /\ pc[q] = "wallet"
  /\ \/ /\ limit' = [limit EXCEPT ![q] = DailyLimitOf(0)]
        /\ (Answer(q, "ok") \/ (Failing /\ Answer(q, "error")))
     \/ Failing /\ Answer(q, "error") /\ UNCHANGED limit
  /\ UNCHANGED <<env, users, goal>>

-------------------------------------------------------------------------------
(* UpdateProfile.                                                             *)

CheckEmail(p) ==
  LET own == {AccountOf[p]} IN
  /\ pc[p] = "start" /\ Stored(AccountOf[p])
  /\ \/ EmailTaken(EmailOf[p], own) /\ Answer(p, "refused")
     \/ (~EmailTaken(EmailOf[p], own) \/ Failing) /\ Goto(p, "update")
  /\ UNCHANGED <<env, users, limit, goal>>

StoreProfile(p) ==
  LET free == ~EmailTaken(EmailOf[p], {AccountOf[p]}) IN
  /\ pc[p] = "update"
  /\ \/ /\ free
        /\ users' = [users EXCEPT ![AccountOf[p]].email = EmailOf[p]]
        /\ (Answer(p, "ok") \/ (Failing /\ Answer(p, "error")))
     \/ (Failing \/ ~free) /\ Answer(p, "error") /\ UNCHANGED users
  /\ UNCHANGED <<env, limit, goal>>

-------------------------------------------------------------------------------
(* UpgradeKYC.                                                                *)

MayStart(k) == env.overlap \/ \A q \in Requests \ {k} : pc[q] \in {"start", "done"}

\* Mutant: a BVN is accepted at every tier.
Bug_NewTier(k, tier) ==
  IF "nin" \in Documents[k] /\ tier < 2 THEN 2 ELSE IF "bvn" \in Documents[k] THEN 1 ELSE 0

\* The tier that the documents lead to from the tier just read; 0 for none.
NewTier(k, tier) ==
  IF "nin" \in Documents[k] /\ tier < 2 THEN 2
  ELSE IF "bvn" \in Documents[k] /\ tier < 1 THEN 1 ELSE 0

ReadUser(k) ==
  LET tier == NewTier(k, users[AccountOf[k]].tier) IN
  /\ pc[k] = "start" /\ Stored(AccountOf[k]) /\ MayStart(k)
  /\ \/ tier > 0 /\ goal' = [goal EXCEPT ![k] = tier] /\ Goto(k, "link")
     \/ tier = 0 /\ Answer(k, "refused") /\ UNCHANGED goal
     \/ Failing /\ Answer(k, "error") /\ UNCHANGED goal
  /\ UNCHANGED <<env, users, limit>>

\* The document that a tier stands for.
DocumentFor(tier) == IF tier = 2 THEN "nin" ELSE "bvn"

WithDocument(k) == users[AccountOf[k]].docs \cup {DocumentFor(goal[k])}

\* Mutant: the error of the update is dropped.
Bug_LinkDocument(k) ==
  /\ pc[k] = "link" /\ Goto(k, "tier")
  /\ \/ users' = [users EXCEPT ![AccountOf[k]].docs = WithDocument(k)]
     \/ Failing /\ UNCHANGED users
  /\ UNCHANGED <<env, limit, goal>>

\* UpdateNIN, UpdateBVN.
LinkDocument(k) ==
  /\ pc[k] = "link"
  /\ \/ /\ users' = [users EXCEPT ![AccountOf[k]].docs = WithDocument(k)]
        /\ Committed(k, "tier")
     \/ Failing /\ Answer(k, "error") /\ UNCHANGED users
  /\ UNCHANGED <<env, limit, goal>>

UpdateKYCTier(k) ==
  /\ pc[k] = "tier"
  /\ \/ users' = [users EXCEPT ![AccountOf[k]].tier = goal[k]] /\ Committed(k, "limit")
     \/ Failing /\ Answer(k, "error") /\ UNCHANGED users
  /\ UNCHANGED <<env, limit, goal>>

\* UPDATE wallets ... WHERE user_id: no effect on an account without wallet.
UpdateDailyLimit(k) ==
  /\ pc[k] = "limit"
  /\ \/ /\ limit' = [limit EXCEPT ![AccountOf[k]] =
             IF HasWallet(AccountOf[k]) THEN DailyLimitOf(goal[k]) ELSE @]
        /\ (Answer(k, "ok") \/ (Failing /\ Answer(k, "error")))
     \/ Failing /\ Answer(k, "error") /\ UNCHANGED limit
  /\ UNCHANGED <<env, users, goal>>

-------------------------------------------------------------------------------
CreateAccount(q) == FindByPhone(q) \/ FindByEmail(q) \/ CreateUser(q) \/ CreateWallet(q)

UpgradeKYC(k) == ReadUser(k) \/ LinkDocument(k) \/ UpdateKYCTier(k) \/ UpdateDailyLimit(k)

Next ==
  \/ \E q \in Creators : CreateAccount(q)
  \/ \E p \in Profiles : CheckEmail(p) \/ StoreProfile(p)
  \/ \E k \in Upgrades : UpgradeKYC(k)

Spec == Init /\ [][Next]_vars

\* A handler that started keeps running; nobody has to ask for anything.
FairSpec == Spec /\ \A q \in Creators : WF_vars(pc[q] # "start" /\ CreateAccount(q))

-------------------------------------------------------------------------------
(* What the code is meant to guarantee.                                       *)

\* However signups, Google logins and profile updates race, and though the
\* errors of their lookups are dropped, no phone and no email belongs to two
\* accounts (the unique indexes of users).
UniqueIdentity ==
  \A q, r \in Creators :
    Stored(q) /\ Stored(r) /\ q # r => users[q].phone # users[r].phone /\ users[q].email # users[r].email

\* No tier and no limit without the document it stands for, whatever fails and
\* whichever upgrades race (the order of UpgradeKYC's statements); and without
\* faults and overlapping requests, tier and limit agree whenever no request about
\* accounts is running (Register, UpgradeKYC).
TierHasDocument ==
  /\ TypeOK
  /\ \A q \in Creators :
       /\ users[q].tier = 1 \/ limit[q] = DailyLimitOf(1) => "bvn" \in users[q].docs
       /\ users[q].tier = 2 \/ limit[q] = DailyLimitOf(2) => "nin" \in users[q].docs
  /\ ~env.overlap /\ env.faults = {} /\ (\A q \in Requests : pc[q] \in {"start", "done"})
       => \A q \in Creators : Stored(q) => limit[q] = DailyLimitOf(users[q].tier)

\* "raises their daily wallet limit" (UpgradeKYC, auth_service.go:303): as long
\* as upgrades do not overlap no request lowers a tier or a limit, whatever fails.
NeverDowngraded ==
  [][\A q \in Creators : ~env.overlap => users'[q].tier >= users[q].tier /\ limit'[q] >= limit[q]]_vars

\* "Register creates a new user, provisions a wallet" (auth_service.go:94):
\* without faults every stored user gets a wallet, however requests race.
EveryUserHasWallet == \A q \in Creators : env.faults = {} /\ Stored(q) ~> HasWallet(q)

===============================================================================
