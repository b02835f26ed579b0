----------------------------- MODULE BettingGuard -----------------------------
(***************************************************************************)
(* FundBettingWallet of internal/services/utilities/utility_service.go:    *)
(* enforceBettingRiskGuard compares a betting top-up with the user's       *)
(* successful ones of the last seven days, and lets an unusual one pass    *)
(* only when the user has confirmed it; then executeVAS runs as for every  *)
(* other bill.  The guard's query and the debit are separate statements,   *)
(* so purchases of the same user run between them.                         *)
(*                                                                         *)
(* validateTransactionPIN returns nil at once and has no action.           *)
(***************************************************************************)
EXTENDS VasPurchase

CONSTANTS Confirmed,  \* requests with risk_confirmed, biometric_verified and a PIN
          HighValue,  \* highValueBettingTopUp
          Scenes      \* which requests are top-ups, and what the successful ones of
                      \* the week before add up to

\* Every request but a top-up has a minimum amount.  The statistics are those of stored
\* rows, whose amounts are positive.
ASSUME BettingAssumption ==
  /\ Confirmed \subseteq Requests
  /\ HighValue \in Nat \ {0}
  /\ Scenes \subseteq [bets: SUBSET Requests, past: [count: Nat, total: Nat, max: Nat]]
  /\ \A s \in Scenes :
       /\ \A r \in Requests \ s.bets : AmountOf[r] > 0
       /\ s.past.total >= s.past.count /\ (s.past.count > 0 => s.past.max > 0)

VARIABLES scene,   \* the scene of this behaviour
          guard    \* what the guard decided about each request

guardVars == <<scene, guard>>
allVars == <<vars, guardVars>>

Bets == scene.bets

GuardTypeOK ==
  /\ scene \in Scenes
  /\ guard \in [Requests -> {"open", "passed", "challenged", "error"}]

GuardedInit ==
  /\ Init
  /\ scene \in Scenes
  /\ guard = [r \in Requests |-> IF r \in Bets THEN "open" ELSE "passed"]

-------------------------------------------------------------------------------
\* Mutant: the status of the rows is not looked at.
Bug_SuccessfulBets(u) ==
  {ref \in Refs : Exists(ref) /\ rows[ref].user = u /\ rows[ref].type = "debit" /\ rows[ref].id \in Bets}

SuccessfulBets(u) ==
  {ref \in Refs : /\ Exists(ref) /\ rows[ref].user = u /\ rows[ref].type = "debit"
                  /\ rows[ref].status = "success" /\ rows[ref].id \in Bets}

CategorySpendStats(u) ==
  LET own == SuccessfulBets(u) IN
  [count |-> Cardinality(own) + scene.past.count,
   total |-> MapThenSumSet(LAMBDA ref : rows[ref].amount, own) + scene.past.total,
   max |-> Max({rows[ref].amount : ref \in own} \cup {scene.past.max})]

\* AVG is a numeric that is scanned into an int64: a fraction is an error.
AverageScans(stats) == stats.count > 0 => stats.total % stats.count = 0

\* The average and the maximum are those of stored rows and so positive; the amount
\* asked for is any integer but zero, and a negative one is never unusual.
RequiresBettingRiskChallenge(amount, stats) ==
  \/ stats.count < 3 /\ amount >= HighValue /\ (stats.count = 0 \/ amount >= stats.max * 2)
  \/ stats.count >= 3 /\ (amount >= (stats.total \div stats.count) * 3 \/ amount >= stats.max * 2)

Decide(r, decision) == guard' = [guard EXCEPT ![r] = decision]

EnforceBettingRiskGuard(r) ==
  LET stats == CategorySpendStats(UserOf[r])
      unusual == RequiresBettingRiskChallenge(AmountOf[r], stats)
  IN
  /\ guard[r] = "open"
  /\ \/ /\ Succeeds(r) /\ AverageScans(stats) /\ (unusual => r \in Confirmed)
        /\ Decide(r, "passed") /\ UNCHANGED <<pc, result>>
     \/ /\ Succeeds(r) /\ AverageScans(stats) /\ unusual /\ r \notin Confirmed
        /\ Decide(r, "challenged") /\ Answer(r, "error")
     \/ /\ Fails(r) \/ ~AverageScans(stats)
        /\ Decide(r, "error") /\ Answer(r, "error")
  /\ UNCHANGED <<wallets, rows, control, scene>>

\* The category has no service type at the fallback, which refuses it.
Supported(r) == r \in Bets => "fallback" \notin accepted'[r]

Purchase(r) ==
  \/ EnforceBettingRiskGuard(r)
  \/ guard[r] = "passed" /\ ExecuteVAS(r) /\ Supported(r) /\ UNCHANGED guardVars

GuardedNext ==
  \/ \E r \in Requests : Purchase(r)
  \/ Midnight /\ UNCHANGED guardVars

GuardedSpec == GuardedInit /\ [][GuardedNext]_allVars
GuardedFairSpec == GuardedSpec /\ \A r \in Requests : WF_allVars(Purchase(r))

-------------------------------------------------------------------------------
\* However top-ups interleave, retry and fall back, no provider is asked for a high
\* top-up that the user did not confirm unless one of more than half its amount has
\* already succeeded (enforceBettingRiskGuard).
UnusualBetsAreConfirmed ==
  /\ GuardTypeOK
  /\ \A r \in Bets \ Confirmed : accepted[r] # {} /\ AmountOf[r] >= HighValue =>
       \/ scene.past.max * 2 > AmountOf[r]
       \/ \E ref \in Refs \ {RefOf[r], FallbackRef[RefOf[r]]} :
            /\ Exists(ref) /\ rows[ref].user = UserOf[r] /\ rows[ref].status = "success"
            /\ rows[ref].amount * 2 > AmountOf[r]
===============================================================================
