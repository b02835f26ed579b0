--------------------------------- MODULE Otp ---------------------------------
(***************************************************************************)
(* One-time codes: sendOTP and VerifyPhone of                              *)
(* internal/services/auth/auth_service.go on the otp_tokens table          *)
(* (internal/repository/postgres/otp_repo.go).  Codes of different phones  *)
(* or purposes share nothing, so this is one phone and one purpose.        *)
(*                                                                         *)
(* Create runs a READ COMMITTED transaction: an UPDATE of the unused codes *)
(* that are committed when it starts, then the INSERT and the commit.  The *)
(* row locks of the UPDATE delay other writers of the same rows without    *)
(* changing what is written, and are left out.                             *)
(***************************************************************************)
EXTENDS Integers, FiniteSets

CONSTANTS Sends,     \* calls of sendOTP; also the code each one generates
          Verifies,  \* POST /auth/verify-phone requests
          CodeOf,    \* the code a verification carries
          Environments \* whether requests may overlap, and which
                       \* faults may happen: {} or {"db"}

ASSUME OtpAssumption ==
  /\ CodeOf \in [Verifies -> Sends]
  /\ Sends \cap Verifies = {} /\ IsFiniteSet(Sends)
  /\ Environments \subseteq [overlap: BOOLEAN, faults: SUBSET {"db"}]

VARIABLES env,        \* the environment of this behaviour
          token,      \* otp_tokens row of each code
          createdAt,  \* its created_at, 0 before sendOTP has read the clock
          expired,    \* codes whose expires_at has passed
          stale,      \* the codes that the UPDATE of a Create invalidates
          delivered,  \* codes that reached the user
          pc,         \* next statement of each request
          answer      \* of each verification

vars == <<env, token, createdAt, expired, stale, delivered, pc, answer>>

Requests == Sends \cup Verifies

TypeOK ==
  /\ env \in Environments
  /\ token \in [Sends -> {"absent", "unused", "used"}]
  /\ createdAt \in [Sends -> Nat]
  /\ expired \subseteq Sends
  /\ stale \in [Sends -> SUBSET Sends]
  /\ delivered \subseteq Sends
  /\ pc \in [Requests -> {"start", "invalidate", "insert", "send", "burn", "done"}]
  /\ answer \in [Verifies -> {"none", "verified", "refused", "error"}]

Init ==
  /\ env \in Environments
  /\ token = [s \in Sends |-> "absent"]
  /\ createdAt = [s \in Sends |-> 0]
  /\ expired = {}
  /\ stale = [s \in Sends |-> {}]
  /\ delivered = {}
  /\ pc = [q \in Requests |-> "start"]
  /\ answer = [v \in Verifies |-> "none"]

-------------------------------------------------------------------------------
Failing == "db" \in env.faults
MayStart(q) == env.overlap \/ \A o \in Requests \ {q} : pc[o] \in {"start", "done"}
Goto(q, label) == pc' = [pc EXCEPT ![q] = label]
Answer(v, res) == Goto(v, "done") /\ answer' = [answer EXCEPT ![v] = res]

\* The clock: only the order of the codes matters.
Now == Cardinality({s \in Sends : createdAt[s] > 0}) + 1

\* The code is generated and created_at and expires_at are taken.
Generate(s) ==
  /\ pc[s] = "start" /\ MayStart(s)
  /\ createdAt' = [createdAt EXCEPT ![s] = Now]
  /\ Goto(s, "invalidate")
  /\ UNCHANGED <<env, token, expired, stale, delivered, answer>>

\* Mutant: expired codes only.
Bug_Previous(s) == {o \in expired : token[o] = "unused"}

\* WHERE phone = ... AND purpose = ... AND used = FALSE.
Previous(s) == {o \in Sends : token[o] = "unused"}

Invalidate(s) ==
  /\ pc[s] = "invalidate"
  /\ \/ stale' = [stale EXCEPT ![s] = Previous(s)] /\ Goto(s, "insert")
     \/ Failing /\ Goto(s, "done") /\ UNCHANGED stale
  /\ UNCHANGED <<env, token, createdAt, expired, delivered, answer>>

\* Mutant: the UPDATE comes after the INSERT and hits the new code too.
Bug_Inserted(s) == [o \in Sends |-> IF o \in stale[s] \cup {s} THEN "used" ELSE token[o]]

\* What the transaction has written when it commits.
Inserted(s) == [o \in Sends |-> IF o = s THEN "unused" ELSE IF o \in stale[s] THEN "used" ELSE token[o]]

Create(s) ==
  /\ pc[s] = "insert"
  /\ \/ token' = Inserted(s) /\ (Goto(s, "send") \/ (Failing /\ Goto(s, "done")))
     \/ Failing /\ Goto(s, "done") /\ UNCHANGED token
  /\ UNCHANGED <<env, createdAt, expired, stale, delivered, answer>>

\* The email, or the SMS for a user without email; it may get lost.
Deliver(s) ==
  /\ pc[s] = "send"
  /\ delivered' \in {delivered, delivered \cup {s}}
  /\ Goto(s, "done")
  /\ UNCHANGED <<env, token, createdAt, expired, stale, answer>>

\* Codes of one purpose live equally long and expire in the order of created_at.
Expire(s) ==
  /\ createdAt[s] > 0 /\ s \notin expired
  /\ \A o \in Sends : createdAt[o] \in 1 .. createdAt[s] - 1 => o \in expired
  /\ expired' = expired \cup {s}
  /\ UNCHANGED <<env, token, createdAt, stale, delivered, pc, answer>>

-------------------------------------------------------------------------------
Usable == {s \in Sends : token[s] = "unused" /\ s \notin expired}

\* ORDER BY created_at DESC LIMIT 1
Latest(codes) == {s \in codes : \A o \in codes : createdAt[o] <= createdAt[s]}

\* FindValid and CheckPassword, for a code that the user has received.
FindValid(v) ==
  /\ pc[v] = "start" /\ MayStart(v) /\ CodeOf[v] \in delivered
  /\ \/ CodeOf[v] \in Latest(Usable) /\ Goto(v, "burn") /\ UNCHANGED answer
     \/ (CodeOf[v] \notin Latest(Usable) \/ Failing) /\ Answer(v, "refused")
  /\ UNCHANGED <<env, token, createdAt, expired, stale, delivered>>

\* Mutant: the code is not burnt.
Bug_MarkUsed(v) ==
  /\ pc[v] = "burn" /\ Answer(v, "verified")
  /\ UNCHANGED <<env, token, createdAt, expired, stale, delivered>>

\* UPDATE ... SET used = TRUE WHERE id: it succeeds whether the code was used
\* already or not.
MarkUsed(v) ==
  /\ pc[v] = "burn"
  /\ \/ token' = [token EXCEPT ![CodeOf[v]] = "used"]
        /\ (Answer(v, "verified") \/ (Failing /\ Answer(v, "error")))
     \/ Failing /\ Answer(v, "error") /\ UNCHANGED token
  /\ UNCHANGED <<env, createdAt, expired, stale, delivered>>

-------------------------------------------------------------------------------
SendOTP(s) == Generate(s) \/ Invalidate(s) \/ Create(s) \/ Deliver(s)
VerifyPhone(v) == FindValid(v) \/ MarkUsed(v)

Next ==
  \/ \E s \in Sends : SendOTP(s) \/ Expire(s)
  \/ \E v \in Verifies : VerifyPhone(v)

Spec == Init /\ [][Next]_vars

-------------------------------------------------------------------------------
(* What the code is meant to guarantee.                                       *)

\* "single use only" (MarkUsed, otp_repo.go:68), for verifications that follow
\* each other.
SingleUse ==
  ~env.overlap =>
    \A v, w \in Verifies :
      v # w /\ CodeOf[v] = CodeOf[w] => answer[v] # "verified" \/ answer[w] # "verified"

\* Even when requests overlap, a code that verified somebody is dead: no later
\* verification gets past FindValid with it, whatever code is made meanwhile.
SpentIsRefused ==
  [][\A v, w \in Verifies :
       answer[w] = "verified" /\ CodeOf[v] = CodeOf[w] /\ pc[v] = "start" => pc'[v] # "burn"]_vars

\* "Any previous unused OTPs for the same phone+purpose are invalidated first"
\* (Create, otp_repo.go:21-22): one code at a time, whatever fails.
OneLiveCode ==
  /\ TypeOK
  /\ ~env.overlap => \A s, o \in Sends : token[s] = "unused" /\ token[o] = "unused" => s = o

\* While no code is being made, the last code that was stored is good until it
\* expires or is used: no other request spends it.
LastCodeIsGood ==
  ~env.overlap /\ (\A s \in Sends : pc[s] \in {"start", "done"})
    => \A s \in Latest({o \in Sends : token[o] # "absent"}) :
         token[s] = "unused" \/ \E v \in Verifies : CodeOf[v] = s /\ answer[v] \in {"verified", "error"}
===============================================================================
