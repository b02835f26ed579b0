---------------------------- MODULE SafeguardProofs ----------------------------
(***************************************************************************)
(* Proofs about the two components that stand between a caller and the     *)
(* rest of the service: what becomes of a one-time code (Otp) and how many *)
(* requests a key lets through (RateLimit).  They hold for any number of   *)
(* requests, every limit and window and every environment.                 *)
(***************************************************************************)
EXTENDS Otp, RateLimit, FiniteSetTheorems, TLAPS
-------------------------------------------------------------------------------
(* One-time codes.                                                            *)

\* Every request stays inside its own handler.
Places ==
  /\ \A s \in Sends : pc[s] \in {"start", "invalidate", "insert", "send", "done"}
  /\ \A v \in Verifies : pc[v] \in {"start", "burn", "done"}

Running(q) == pc[q] \notin {"start", "done"}
Stored == {s \in Sends : token[s] # "absent"}
Dated == {s \in Sends : createdAt[s] > 0}

\* A row appears when its Create commits; whoever spends a code knows a stored one.
RowsAppear ==
  /\ \A s \in Sends : pc[s] \in {"start", "invalidate", "insert"} => s \notin Stored
  /\ \A s \in Sends : pc[s] = "send" => s \in Stored
  /\ \A s \in Sends : stale[s] \subseteq Stored
  /\ delivered \subseteq Stored
  /\ \A v \in Verifies : pc[v] = "burn" => CodeOf[v] \in Stored

\* A code that verified somebody is spent; nobody has an answer before asking.
AnswersTrue ==
  /\ \A v \in Verifies : pc[v] = "start" => answer[v] = "none"
  /\ \A v \in Verifies : answer[v] = "verified" => token[CodeOf[v]] = "used"

\* created_at grows with every code.
ClockRuns ==
  /\ \A s \in Sends : createdAt[s] = 0 <=> pc[s] = "start"
  /\ \A s \in Sends : createdAt[s] <= Cardinality(Dated)

\* A code is used up because it was verified, or because a later one was stored.
Accounted(s) ==
  \/ \E v \in Verifies : CodeOf[v] = s /\ answer[v] \in {"verified", "error"}
  \/ \E o \in Stored : createdAt[o] > createdAt[s]

\* Requests in turn: the one that runs finds the table as it left it.
InTurn ==
  ~env.overlap =>
    /\ \A p, q \in Requests : Running(p) /\ Running(q) => p = q
    /\ \A s \in Sends : pc[s] = "insert" => \A o \in Sends : token[o] = "unused" => o \in stale[s]
    /\ \A s \in Sends : pc[s] \in {"invalidate", "insert"} =>
         \A o \in Sends : o # s => createdAt[o] < createdAt[s]
    /\ \A v \in Verifies : pc[v] = "burn" => token[CodeOf[v]] = "unused"
    /\ \A s, o \in Sends : token[s] = "unused" /\ token[o] = "unused" => s = o
    /\ \A s \in Sends : token[s] = "used" => Accounted(s)

OtpInv == TypeOK /\ Places /\ RowsAppear /\ AnswersTrue /\ ClockRuns /\ InTurn /\ SingleUse

-------------------------------------------------------------------------------
LEMMA InitInv == Init => OtpInv
<1>. SUFFICES ASSUME Init
              PROVE  OtpInv
  OBVIOUS
<1>1. Dated = {} /\ Stored = {}
  BY DEF Init, Dated, Stored
<1>2. ClockRuns
  BY <1>1, FS_EmptySet, OtpAssumption DEF Init, ClockRuns, Requests
<1>. QED BY <1>1, <1>2, OtpAssumption
         DEF Init, OtpInv, TypeOK, Places, RowsAppear, AnswersTrue, InTurn, SingleUse, Running,
             Requests

\* sendOTP reads the clock: its code is dated after every other one.
LEMMA GenerateInv ==
  ASSUME OtpInv, NEW s \in Sends, Generate(s)
  PROVE  OtpInv'
<1>. USE OtpAssumption DEF OtpInv
<1>1. /\ pc[s] = "start" /\ pc' = [pc EXCEPT ![s] = "invalidate"] /\ MayStart(s)
      /\ createdAt' = [createdAt EXCEPT ![s] = Now]
      /\ UNCHANGED <<env, token, expired, stale, delivered, answer>>
  BY DEF Generate, Goto
<1>2. Stored' = Stored
  BY <1>1 DEF Stored
<1>3. /\ createdAt[s] = 0 /\ Now = Cardinality(Dated) + 1 /\ Cardinality(Dated) \in Nat
      /\ Cardinality(Dated') = Cardinality(Dated) + 1
      /\ \A o \in Sends : createdAt[o] <= Cardinality(Dated) /\ createdAt[o] \in Nat
  <2>1. createdAt[s] = 0 /\ \A o \in Sends : createdAt[o] <= Cardinality(Dated) /\ createdAt[o] \in Nat
    BY <1>1 DEF ClockRuns, TypeOK
  <2>2. IsFiniteSet(Dated)
    BY FS_Subset DEF Dated
  <2>3. Cardinality(Dated) \in Nat /\ Now = Cardinality(Dated) + 1
    BY <2>2, FS_CardinalityType DEF Now, Dated
  <2>4. s \notin Dated
    BY <2>1 DEF Dated
  <2>5. Dated' = Dated \cup {s}
    <3>1. createdAt \in [Sends -> Nat] /\ createdAt' = [createdAt EXCEPT ![s] = Now] /\ Now > 0
      BY <1>1, <2>3 DEF TypeOK
    <3>2. ASSUME NEW o \in Sends
          PROVE  createdAt'[o] > 0 <=> createdAt[o] > 0 \/ o = s
      <4>. HIDE OtpAssumption DEF OtpInv
      <4>. QED BY <3>1
    <3>3. Dated' = {o \in Sends : createdAt'[o] > 0}
      BY DEF Dated
    <3>. HIDE OtpAssumption DEF OtpInv
    <3>. QED BY <3>2, <3>3 DEF Dated
  <2>. QED BY <2>1, <2>2, <2>3, <2>4, <2>5, FS_AddElement
<1>4. TypeOK' /\ Places'
  BY <1>1, <1>3 DEF TypeOK, Places, Requests
<1>5. RowsAppear' /\ AnswersTrue' /\ SingleUse'
  BY <1>1, <1>2 DEF RowsAppear, AnswersTrue, SingleUse, TypeOK, Requests
<1>6. ClockRuns'
  BY <1>1, <1>3 DEF ClockRuns, TypeOK, Requests
<1>7. InTurn'
  <2>. SUFFICES ASSUME ~env.overlap
                PROVE  InTurn'
    BY <1>1 DEF InTurn
  <2>1. \A q \in Requests : q # s => ~Running(q) /\ ~Running(q)'
    BY <1>1 DEF MayStart, Running, TypeOK
  <2>2. \A o \in Sends : o # s => createdAt'[o] < createdAt'[s]
    BY <1>1, <1>3 DEF TypeOK
  <2>3. \A o \in Sends : token[o] = "used" => Accounted(o)'
    <3>1. ASSUME NEW o \in Sends, token[o] = "used"
          PROVE  Accounted(o)'
      <4>1. Accounted(o)
        BY <3>1 DEF InTurn
      <4>2. o # s /\ s \notin Stored
        BY <1>1, <3>1 DEF RowsAppear, Stored
      <4>. QED BY <1>1, <1>2, <4>1, <4>2 DEF Accounted, TypeOK, Stored
    <3>. QED BY <3>1
  <2>4. /\ \A o \in Sends : pc'[o] # "insert"
        /\ \A v \in Verifies : pc'[v] # "burn"
        /\ \A o \in Sends : pc'[o] \in {"invalidate", "insert"} => o = s
    BY <1>1, <2>1 DEF Running, TypeOK, Requests
  <2>5. \A p, q \in Requests : Running(p)' /\ Running(q)' => p = q
    BY <2>1
  <2>6. \A o, t \in Sends : token'[o] = "unused" /\ token'[t] = "unused" => o = t
    BY <1>1 DEF InTurn
  <2>. QED BY <1>1, <2>2, <2>3, <2>4, <2>5, <2>6 DEF InTurn
<1>. QED BY <1>4, <1>5, <1>6, <1>7

\* The UPDATE of a Create picks the codes that are unused when it runs.
LEMMA InvalidateInv ==
  ASSUME OtpInv, NEW s \in Sends, Invalidate(s)
  PROVE  OtpInv'
<1>. USE OtpAssumption DEF OtpInv
<1>1. /\ pc[s] = "invalidate" /\ UNCHANGED <<env, token, createdAt, expired, delivered, answer>>
      /\ \/ pc' = [pc EXCEPT ![s] = "insert"] /\ stale' = [stale EXCEPT ![s] = Previous(s)]
         \/ pc' = [pc EXCEPT ![s] = "done"] /\ stale' = stale
  BY DEF Invalidate, Goto
<1>2. Stored' = Stored /\ Dated' = Dated
  BY <1>1 DEF Stored, Dated
<1>3. Previous(s) \subseteq Stored
  BY DEF Previous, Stored
<1>4. TypeOK' /\ Places'
  BY <1>1 DEF TypeOK, Places, Requests, Previous
<1>5. RowsAppear'
  BY <1>1, <1>2, <1>3 DEF RowsAppear, TypeOK, Requests
<1>6. AnswersTrue' /\ SingleUse'
  BY <1>1 DEF AnswersTrue, SingleUse, TypeOK, Requests
<1>7. ClockRuns'
  BY <1>1, <1>2 DEF ClockRuns, TypeOK, Requests
<1>8. InTurn'
  <2>. SUFFICES ASSUME ~env.overlap
                PROVE  InTurn'
    BY <1>1 DEF InTurn
  <2>1. \A q \in Requests : Running(q)' => Running(q)
    BY <1>1 DEF Running, TypeOK, Requests
  <2>2. \A o \in Sends : Accounted(o)' <=> Accounted(o)
    BY <1>1, <1>2 DEF Accounted
  <2>3. ASSUME NEW t \in Sends, pc'[t] = "insert", NEW o \in Sends, token'[o] = "unused"
        PROVE  o \in stale'[t]
    <3>1. CASE t = s
      BY <1>1, <2>3, <3>1 DEF TypeOK, Requests, Previous
    <3>2. CASE t # s
      BY <1>1, <2>3, <3>2 DEF TypeOK, Requests, InTurn
    <3>. QED BY <3>1, <3>2
  <2>4. \A t \in Sends : pc'[t] \in {"invalidate", "insert"} => pc[t] \in {"invalidate", "insert"}
    BY <1>1 DEF TypeOK, Requests
  <2>5. \A v \in Verifies : pc'[v] = pc[v]
    BY <1>1 DEF TypeOK, Requests
  <2>. QED BY <1>1, <2>1, <2>2, <2>3, <2>4, <2>5 DEF InTurn
<1>. QED BY <1>4, <1>5, <1>6, <1>7, <1>8

\* Create commits: its code is the only one that is alive.
LEMMA CreateInv ==
  ASSUME OtpInv, NEW s \in Sends, Create(s)
  PROVE  OtpInv'
<1>. USE OtpAssumption DEF OtpInv
<1>1. /\ pc[s] = "insert" /\ UNCHANGED <<env, createdAt, expired, stale, delivered, answer>>
      /\ (token' = Inserted(s) \/ token' = token)
      /\ \/ pc' = [pc EXCEPT ![s] = "send"] /\ token' = Inserted(s)
         \/ pc' = [pc EXCEPT ![s] = "done"]
  BY DEF Create, Goto
<1>2. /\ token[s] = "absent" /\ s \notin stale[s]
      /\ \A o \in stale[s] : token[o] # "absent" /\ o \in Sends
  BY <1>1 DEF RowsAppear, Stored, TypeOK
<1>3. /\ token' \in [Sends -> {"absent", "unused", "used"}]
      /\ \A o \in Sends : \/ token'[o] = token[o]
                          \/ o = s /\ token'[o] = "unused"
                          \/ o \in stale[s] /\ token'[o] = "used"
  BY <1>1 DEF Inserted, TypeOK
<1>4. Dated' = Dated
  BY <1>1 DEF Dated
<1>5. Stored \subseteq Stored' /\ \A o \in Stored' : o \in Stored \/ o = s
  BY <1>2, <1>3 DEF Stored
<1>6. TypeOK' /\ Places'
  BY <1>1, <1>3 DEF TypeOK, Places, Requests
<1>7. RowsAppear'
  <2>1. \A t \in Sends : pc'[t] \in {"start", "invalidate", "insert"} => t # s /\ t \notin Stored
    BY <1>1 DEF RowsAppear, TypeOK, Requests
  <2>2. \A v \in Verifies : pc'[v] = pc[v]
    BY <1>1 DEF TypeOK, Requests
  <2>3. \A t \in Sends : pc'[t] = "send" => t \in Stored'
    <3>1. token' = Inserted(s) => s \in Stored'
      BY DEF Inserted, Stored
    <3>. QED BY <1>1, <1>5, <3>1 DEF RowsAppear, TypeOK, Requests
  <2>. QED BY <1>1, <1>5, <2>1, <2>2, <2>3 DEF RowsAppear
<1>8. \A o \in Sends : token[o] = "used" => token'[o] = "used"
  BY <1>2, <1>3
<1>9. AnswersTrue' /\ SingleUse'
  BY <1>1, <1>8 DEF AnswersTrue, SingleUse, TypeOK, Requests
<1>10. ClockRuns'
  BY <1>1, <1>4 DEF ClockRuns, TypeOK, Requests
<1>11. InTurn'
  <2>. SUFFICES ASSUME ~env.overlap
                PROVE  InTurn'
    BY <1>1 DEF InTurn
  <2>1. \A q \in Requests : Running(q)' => Running(q)
    BY <1>1 DEF Running, TypeOK, Requests
  <2>2. \A q \in Requests : q # s => ~Running(q)
    BY <1>1 DEF InTurn, Running, Requests
  <2>3. /\ \A t \in Sends : pc'[t] \notin {"invalidate", "insert"}
        /\ \A v \in Verifies : pc'[v] # "burn"
    BY <1>1, <2>2 DEF Running, TypeOK, Requests
  <2>4. ASSUME NEW o \in Sends, token'[o] = "used"
        PROVE  Accounted(o)'
    <3>1. CASE token[o] = "used"
      <4>1. Accounted(o)
        BY <3>1 DEF InTurn
      <4>. QED BY <1>1, <1>5, <4>1 DEF Accounted
    <3>2. CASE o \in stale[s] /\ o # s /\ token' = Inserted(s)
      <4>1. s \in Stored'
        BY <3>2 DEF Inserted, Stored
      <4>2. createdAt'[o] < createdAt'[s]
        BY <1>1, <3>2 DEF InTurn
      <4>3. createdAt'[o] \in Nat /\ createdAt'[s] \in Nat
        BY <1>1 DEF TypeOK
      <4>. QED BY <4>1, <4>2, <4>3 DEF Accounted
    <3>. QED BY <1>1, <1>2, <1>3, <2>4, <3>1, <3>2
  <2>5. \A o, t \in Sends : token'[o] = "unused" /\ token'[t] = "unused" => o = t
    <3>1. CASE token' = token
      BY <3>1 DEF InTurn
    <3>2. CASE token' = Inserted(s)
      <4>1. \A o \in Sends : token'[o] = "unused" => o = s
        BY <1>1, <3>2 DEF Inserted, InTurn
      <4>. QED BY <4>1
    <3>. QED BY <1>1, <3>1, <3>2
  <2>6. \A p, q \in Requests : Running(p)' /\ Running(q)' => p = q
    BY <2>1, <2>2
  <2>. QED BY <1>1, <2>3, <2>4, <2>5, <2>6 DEF InTurn
<1>. QED BY <1>6, <1>7, <1>9, <1>10, <1>11

\* The message arrives or gets lost.
LEMMA DeliverInv ==
  ASSUME OtpInv, NEW s \in Sends, Deliver(s)
  PROVE  OtpInv'
<1>. USE OtpAssumption DEF OtpInv
<1>1. /\ pc[s] = "send" /\ pc' = [pc EXCEPT ![s] = "done"]
      /\ delivered' \in {delivered, delivered \cup {s}}
      /\ UNCHANGED <<env, token, createdAt, expired, stale, answer>>
  BY DEF Deliver, Goto
<1>2. Stored' = Stored /\ Dated' = Dated
  BY <1>1 DEF Stored, Dated
<1>3. TypeOK' /\ Places'
  BY <1>1 DEF TypeOK, Places, Requests
<1>4. RowsAppear'
  BY <1>1, <1>2 DEF RowsAppear, TypeOK, Requests
<1>5. AnswersTrue' /\ SingleUse'
  BY <1>1 DEF AnswersTrue, SingleUse, TypeOK, Requests
<1>6. ClockRuns'
  BY <1>1, <1>2 DEF ClockRuns, TypeOK, Requests
<1>7. InTurn'
  <2>1. \A q \in Requests : Running(q)' => Running(q)
    BY <1>1 DEF Running, TypeOK, Requests
  <2>2. \A o \in Sends : Accounted(o)' <=> Accounted(o)
    BY <1>1, <1>2 DEF Accounted
  <2>3. /\ \A t \in Sends : pc'[t] \in {"invalidate", "insert"} => pc'[t] = pc[t]
        /\ \A v \in Verifies : pc'[v] = pc[v]
    BY <1>1 DEF TypeOK, Requests
  <2>. QED BY <1>1, <2>1, <2>2, <2>3 DEF InTurn
<1>. QED BY <1>3, <1>4, <1>5, <1>6, <1>7

\* Time passes.
LEMMA ExpireInv ==
  ASSUME OtpInv, NEW s \in Sends, Expire(s)
  PROVE  OtpInv'
<1>1. /\ expired' = expired \cup {s}
      /\ UNCHANGED <<env, token, createdAt, stale, delivered, pc, answer>>
  BY DEF Expire
<1>2. Stored' = Stored /\ Dated' = Dated
  BY <1>1 DEF Stored, Dated
<1>. QED BY <1>1, <1>2
         DEF OtpInv, TypeOK, Places, RowsAppear, AnswersTrue, ClockRuns, InTurn, SingleUse, Running,
             Accounted

\* A verification finds its code alive, or is refused.
LEMMA FindValidInv ==
  ASSUME OtpInv, NEW v \in Verifies, FindValid(v)
  PROVE  OtpInv'
<1>. USE OtpAssumption DEF OtpInv
<1>1. /\ pc[v] = "start" /\ MayStart(v)
      /\ UNCHANGED <<env, token, createdAt, expired, stale, delivered>>
      /\ \/ pc' = [pc EXCEPT ![v] = "burn"] /\ answer' = answer /\ token[CodeOf[v]] = "unused"
         \/ pc' = [pc EXCEPT ![v] = "done"] /\ answer' = [answer EXCEPT ![v] = "refused"]
  BY DEF FindValid, Goto, Answer, Latest, Usable
<1>2. Stored' = Stored /\ Dated' = Dated
  BY <1>1 DEF Stored, Dated
<1>3. TypeOK' /\ Places'
  BY <1>1 DEF TypeOK, Places, Requests
<1>4. RowsAppear'
  BY <1>1, <1>2 DEF RowsAppear, TypeOK, Requests, Stored
<1>5. AnswersTrue' /\ SingleUse'
  BY <1>1 DEF AnswersTrue, SingleUse, TypeOK, Requests
<1>6. ClockRuns'
  BY <1>1, <1>2 DEF ClockRuns, TypeOK, Requests
<1>7. InTurn'
  <2>. SUFFICES ASSUME ~env.overlap
                PROVE  InTurn'
    BY <1>1 DEF InTurn
  <2>1. \A q \in Requests : q # v => ~Running(q)'
    BY <1>1 DEF MayStart, Running, TypeOK, Requests
  <2>2. ASSUME NEW o \in Sends, token[o] = "used"
        PROVE  Accounted(o)'
    <3>1. Accounted(o)
      BY <2>2 DEF InTurn
    <3>2. CASE answer' = answer
      BY <1>1, <1>2, <3>1, <3>2 DEF Accounted
    <3>3. CASE pc' = [pc EXCEPT ![v] = "done"] /\ answer' = [answer EXCEPT ![v] = "refused"]
      <4>1. answer[v] \notin {"verified", "error"}
        BY <1>1 DEF AnswersTrue
      <4>. QED BY <1>1, <1>2, <3>1, <3>3, <4>1 DEF Accounted, TypeOK
    <3>. QED BY <1>1, <3>2, <3>3
  <2>3. /\ \A t \in Sends : pc'[t] = pc[t]
        /\ \A w \in Verifies : pc'[w] = "burn" => token[CodeOf[w]] = "unused"
    BY <1>1 DEF TypeOK, Requests, InTurn
  <2>4. \A p, q \in Requests : Running(p)' /\ Running(q)' => p = q
    BY <2>1
  <2>. QED BY <1>1, <2>2, <2>3, <2>4 DEF InTurn
<1>. QED BY <1>3, <1>4, <1>5, <1>6, <1>7

\* A verification burns its code.
LEMMA MarkUsedInv ==
  ASSUME OtpInv, NEW v \in Verifies, MarkUsed(v)
  PROVE  OtpInv'
<1>. USE OtpAssumption DEF OtpInv
<1>1. /\ pc[v] = "burn" /\ pc' = [pc EXCEPT ![v] = "done"]
      /\ UNCHANGED <<env, createdAt, expired, stale, delivered>>
      /\ \/ /\ token' = [token EXCEPT ![CodeOf[v]] = "used"]
            /\ \/ answer' = [answer EXCEPT ![v] = "verified"]
               \/ answer' = [answer EXCEPT ![v] = "error"]
         \/ token' = token /\ answer' = [answer EXCEPT ![v] = "error"]
  BY DEF MarkUsed, Goto, Answer
<1>2. Stored' = Stored /\ Dated' = Dated
  BY <1>1 DEF Stored, Dated, RowsAppear, TypeOK
<1>3. TypeOK' /\ Places'
  BY <1>1 DEF TypeOK, Places, Requests
<1>4. RowsAppear'
  BY <1>1, <1>2 DEF RowsAppear, TypeOK, Requests
<1>5. AnswersTrue'
  BY <1>1 DEF AnswersTrue, TypeOK
<1>6. SingleUse'
  <2>. SUFFICES ASSUME ~env.overlap, NEW w \in Verifies, NEW u \in Verifies,
                       w # u, CodeOf[w] = CodeOf[u], answer'[w] = "verified", answer'[u] = "verified"
                PROVE  FALSE
    BY <1>1 DEF SingleUse
  <2>1. token[CodeOf[v]] = "unused"
    BY <1>1 DEF InTurn
  <2>2. \A x \in Verifies : x # v => answer'[x] = answer[x]
    BY <1>1 DEF TypeOK
  <2>3. CASE w # v /\ u # v
    BY <2>2, <2>3 DEF SingleUse
  <2>4. CASE w = v \/ u = v
    BY <2>1, <2>2, <2>4 DEF AnswersTrue
  <2>. QED BY <2>3, <2>4
<1>7. ClockRuns'
  BY <1>1, <1>2 DEF ClockRuns, TypeOK, Requests
<1>8. InTurn'
  <2>. SUFFICES ASSUME ~env.overlap
                PROVE  InTurn'
    BY <1>1 DEF InTurn
  <2>1. \A q \in Requests : ~Running(q)'
    BY <1>1 DEF InTurn, Running, TypeOK, Requests
  <2>2. ASSUME NEW o \in Sends, token'[o] = "used"
        PROVE  Accounted(o)'
    <3>1. CASE o = CodeOf[v]
      BY <1>1, <3>1 DEF Accounted, TypeOK
    <3>2. CASE o # CodeOf[v]
      <4>1. Accounted(o)
        BY <1>1, <2>2, <3>2 DEF InTurn, TypeOK
      <4>. QED BY <1>1, <1>2, <4>1 DEF Accounted, TypeOK
    <3>. QED BY <3>1, <3>2
  <2>3. /\ \A t \in Sends : pc'[t] \in {"start", "done"}
        /\ \A w \in Verifies : pc'[w] # "burn"
    BY <2>1 DEF Running, Requests
  <2>4. \A o, t \in Sends : token'[o] = "unused" /\ token'[t] = "unused" => o = t
    BY <1>1 DEF InTurn, TypeOK
  <2>. QED BY <1>1, <2>1, <2>2, <2>3, <2>4 DEF InTurn
<1>. QED BY <1>3, <1>4, <1>5, <1>6, <1>7, <1>8

LEMMA StepInv == OtpInv /\ [Next]_vars => OtpInv'
<1>. SUFFICES ASSUME OtpInv, [Next]_vars
              PROVE  OtpInv'
  OBVIOUS
<1>1. ASSUME NEW s \in Sends, SendOTP(s) \/ Expire(s)
      PROVE  OtpInv'
  BY <1>1, GenerateInv, InvalidateInv, CreateInv, DeliverInv, ExpireInv DEF SendOTP
<1>2. ASSUME NEW v \in Verifies, VerifyPhone(v)
      PROVE  OtpInv'
  BY <1>2, FindValidInv, MarkUsedInv DEF VerifyPhone
<1>3. CASE UNCHANGED vars
  <2>1. Stored' = Stored /\ Dated' = Dated
    BY <1>3 DEF Stored, Dated, vars
  <2>. QED BY <1>3, <2>1
           DEF OtpInv, TypeOK, Places, RowsAppear, AnswersTrue, ClockRuns, InTurn, SingleUse,
               Running, Accounted, vars
<1>. QED BY <1>1, <1>2, <1>3 DEF Next

\* The life of a code at every statement of sendOTP, Create, FindValid and MarkUsed.
THEOREM CodesKept == Spec => []OtpInv
BY InitInv, StepInv, PTL DEF Spec

\* "single use only": of verifications that follow each other, at most one
\* succeeds with a given code, whatever fails.
THEOREM CodesSingleUse == Spec => []SingleUse
<1>1. OtpInv => SingleUse
  BY DEF OtpInv
<1>. QED BY <1>1, CodesKept, PTL

\* One code of a phone and purpose is alive at a time, whatever fails.
THEOREM OneCodeAlive == Spec => []OneLiveCode
<1>1. OtpInv => OneLiveCode
  BY DEF OtpInv, InTurn, OneLiveCode
<1>. QED BY <1>1, CodesKept, PTL

\* The last code that was stored is good until it expires or is used.
THEOREM LastCodeGood == Spec => []LastCodeIsGood
<1>1. OtpInv => LastCodeIsGood
  <2>. SUFFICES ASSUME OtpInv, ~env.overlap, NEW s \in Latest(Stored), token[s] # "unused"
                PROVE  \E v \in Verifies : CodeOf[v] = s /\ answer[v] \in {"verified", "error"}
    BY DEF LastCodeIsGood, Stored
  <2>1. s \in Sends /\ token[s] = "used"
    BY DEF Latest, Stored, OtpInv, TypeOK
  <2>2. Accounted(s)
    BY <2>1 DEF OtpInv, InTurn
  <2>3. \A o \in Stored : createdAt[o] <= createdAt[s]
    BY DEF Latest
  <2>4. \A o \in Stored : createdAt[o] \in Nat /\ createdAt[s] \in Nat
    BY <2>1 DEF OtpInv, TypeOK, Stored
  <2>. QED BY <2>2, <2>3, <2>4 DEF Accounted
<1>. QED BY <1>1, CodesKept, PTL

\* A code that verified somebody gets no later verification past FindValid, even
\* when requests overlap and other codes are made meanwhile.
THEOREM SpentCodesRefused == Spec => SpentIsRefused
<1>1. ASSUME OtpInv, [Next]_vars, NEW v \in Verifies, NEW w \in Verifies,
             answer[w] = "verified", CodeOf[v] = CodeOf[w], pc[v] = "start", pc'[v] = "burn"
      PROVE  FALSE
  <2>. USE <1>1, OtpAssumption DEF OtpInv
  <2>1. token[CodeOf[v]] = "used" /\ pc'[v] # pc[v]
    BY DEF AnswersTrue
  <2>2. ASSUME NEW s \in Sends, SendOTP(s) \/ Expire(s)
        PROVE  FALSE
    BY <2>1, <2>2 DEF SendOTP, Expire, Generate, Invalidate, Create, Deliver, Goto, TypeOK, Requests
  <2>3. ASSUME NEW x \in Verifies, VerifyPhone(x)
        PROVE  FALSE
    BY <2>1, <2>3
    DEF VerifyPhone, FindValid, MarkUsed, Goto, Answer, TypeOK, Requests, Latest, Usable
  <2>. QED BY <2>1, <2>2, <2>3 DEF Next, vars
<1>2. OtpInv /\ [Next]_vars =>
        [\A v, w \in Verifies :
           answer[w] = "verified" /\ CodeOf[v] = CodeOf[w] /\ pc[v] = "start" => pc'[v] # "burn"]_vars
  BY <1>1
<1>. QED BY <1>2, CodesKept, PTL DEF Spec, SpentIsRefused

-------------------------------------------------------------------------------
(* The rate limiter.                                                          *)

\* A key that has expired is gone; it outlives the last request by a window at most.
KeyOutlives ==
  /\ ttl = 0 => count = 0
  /\ ttl + silence <= Window

\* While Redis answers, every request of the last window is counted, and the key
\* lives until the youngest of them has left the window.
AllCounted ==
  ~failed =>
    /\ \A i \in DOMAIN passed : passed[i] + ttl >= Window
    /\ Cardinality(Recent) <= count
    /\ Cardinality(Recent) <= Limit

LimiterInv == LimiterTypeOK /\ KeyOutlives /\ AllCounted

LEMMA RecentIsFinite ==
  ASSUME LimiterTypeOK
  PROVE  /\ IsFiniteSet(Recent) /\ Cardinality(Recent) \in Nat
         /\ Recent \subseteq 1 .. Len(passed) /\ Len(passed) \in Nat
<1>1. Recent \subseteq 1 .. Len(passed) /\ Len(passed) \in Nat
  BY DEF Recent, LimiterTypeOK
<1>2. IsFiniteSet(1 .. Len(passed))
  BY <1>1, FS_Interval
<1>. QED BY <1>1, <1>2, FS_Subset, FS_CardinalityType

\* One more request got through, just now.
LEMMA RecentGrows ==
  ASSUME LimiterTypeOK, passed' = Append(passed, 0)
  PROVE  /\ Cardinality(Recent') = Cardinality(Recent) + 1
         /\ \A i \in DOMAIN passed' : passed'[i] = 0 \/ (i \in DOMAIN passed /\ passed'[i] = passed[i])
<1>1. /\ passed \in Seq(0 .. Window) /\ Window \in Nat \ {0}
  BY RateAssumption DEF LimiterTypeOK
<1>2. /\ DOMAIN passed = 1 .. Len(passed) /\ DOMAIN passed' = 1 .. (Len(passed) + 1)
      /\ Len(passed) \in Nat
      /\ \A i \in 1 .. Len(passed) : passed'[i] = passed[i]
      /\ passed'[Len(passed) + 1] = 0
  BY <1>1
<1>3. Recent' = Recent \cup {Len(passed) + 1} /\ Len(passed) + 1 \notin Recent
  BY <1>1, <1>2 DEF Recent
<1>4. \A i \in DOMAIN passed' : i = Len(passed) + 1 \/ i \in DOMAIN passed
  BY <1>2
<1>5. Cardinality(Recent') = Cardinality(Recent) + 1
  <2>1. IsFiniteSet(Recent)
    BY RecentIsFinite
  <2>. QED BY <1>3, <2>1, FS_AddElement
<1>. QED BY <1>2, <1>4, <1>5

LEMMA LimiterInitInv == LimiterInit => LimiterInv
<1>. SUFFICES ASSUME LimiterInit PROVE LimiterInv
  OBVIOUS
<1>1. LimiterTypeOK /\ KeyOutlives
  <2>1. count = 0 /\ ttl = 0 /\ silence = Window /\ failed = FALSE
    BY DEF LimiterInit
  <2>2. passed = <<>> /\ <<>> \in Seq(0 .. Window)
    BY DEF LimiterInit
  <2>3. passed \in Seq(0 .. Window) /\ failed \in BOOLEAN
    BY <2>1, <2>2, Zenon
  <2>4. count \in 0 .. Limit + 1 /\ ttl \in 0 .. Window /\ silence \in 0 .. Window /\ ttl + silence <= Window
    BY <2>1, RateAssumption
  <2>. QED BY <2>1, <2>3, <2>4 DEF LimiterTypeOK, KeyOutlives
<1>2. Recent = {} /\ DOMAIN passed = {}
  BY DEF LimiterInit, Recent
<1>. QED BY <1>1, <1>2, FS_EmptySet, RateAssumption DEF LimiterInit, LimiterInv, AllCounted

LEMMA RequestInv ==
  ASSUME LimiterInv, Request
  PROVE  LimiterInv'
<1>. USE RateAssumption DEF LimiterInv
<1>1. /\ count \in 0 .. Limit + 1 /\ ttl \in 0 .. Window /\ passed \in Seq(0 .. Window)
      /\ count' = Incr /\ ttl' = Window /\ silence' = 0 /\ failed' = failed
      /\ Incr \in 0 .. Limit + 1 /\ Incr >= count /\ Incr > 0
  BY DEF LimiterTypeOK, Request, Prolong, Incr
<1>2. KeyOutlives'
  BY <1>1 DEF KeyOutlives
<1>3. CASE passed' = Append(passed, 0) /\ Incr <= Limit
  <2>1. LimiterTypeOK'
    BY <1>1, <1>3 DEF LimiterTypeOK
  <2>2. ASSUME ~failed PROVE Cardinality(Recent') <= count' /\ Cardinality(Recent') <= Limit
    <3>1. Cardinality(Recent') = Cardinality(Recent) + 1 /\ Cardinality(Recent) \in Nat
      BY <1>3, RecentGrows, RecentIsFinite
    <3>2. Cardinality(Recent) <= count
      BY <2>2 DEF AllCounted
    <3>3. Incr = count + 1
      BY <1>1, <1>3 DEF Incr
    <3>. QED BY <1>1, <1>3, <3>1, <3>2, <3>3
  <2>3. \A i \in DOMAIN passed' : passed'[i] + ttl' >= Window
    <3>1. \A i \in DOMAIN passed' : passed'[i] \in 0 .. Window
      BY <2>1 DEF LimiterTypeOK
    <3>. QED BY <1>1, <3>1
  <2>. QED BY <1>1, <1>2, <2>1, <2>2, <2>3 DEF AllCounted
<1>4. CASE passed' = passed
  <2>1. LimiterTypeOK'
    BY <1>1, <1>4 DEF LimiterTypeOK
  <2>2. Recent' = Recent /\ Cardinality(Recent) \in Nat
    BY <1>4, RecentIsFinite DEF Recent
  <2>3. \A i \in DOMAIN passed' : passed'[i] + ttl' >= Window
    <3>1. \A i \in DOMAIN passed' : passed'[i] \in 0 .. Window
      BY <2>1 DEF LimiterTypeOK
    <3>. QED BY <1>1, <3>1
  <2>. QED BY <1>1, <1>2, <2>1, <2>2, <2>3 DEF AllCounted
<1>. QED BY <1>1, <1>3, <1>4 DEF Request, Allows

LEMMA FailOpenInv ==
  ASSUME LimiterInv, FailOpen
  PROVE  LimiterInv'
<1>. USE RateAssumption DEF LimiterInv
<1>1. /\ count \in 0 .. Limit + 1 /\ ttl \in 0 .. Window /\ passed \in Seq(0 .. Window)
      /\ (count' = Incr /\ ttl' = Window) \/ (count' = count /\ ttl' = ttl)
      /\ silence' = 0 /\ failed' = TRUE /\ passed' = Append(passed, 0)
      /\ Incr \in 0 .. Limit + 1
  BY DEF LimiterTypeOK, FailOpen, Prolong, Incr
<1>2. LimiterTypeOK'
  BY <1>1 DEF LimiterTypeOK
<1>3. KeyOutlives'
  BY <1>1 DEF KeyOutlives
<1>. QED BY <1>1, <1>2, <1>3 DEF AllCounted

LEMMA TickInv ==
  ASSUME LimiterInv, Tick
  PROVE  LimiterInv'
<1>. USE RateAssumption DEF LimiterInv
<1>1. /\ count \in 0 .. Limit + 1 /\ ttl \in 0 .. Window /\ passed \in Seq(0 .. Window)
      /\ silence \in 0 .. Window /\ failed' = failed /\ Window \in Nat \ {0}
      /\ ttl' = IF ttl = 0 THEN 0 ELSE ttl - 1
      /\ count' = IF ttl' > 0 THEN count ELSE 0
      /\ passed' = [i \in DOMAIN passed |-> Older(passed[i])] /\ silence' = Older(silence)
  BY DEF LimiterTypeOK, Tick, Alive
<1>2. \A n \in 0 .. Window : Older(n) \in 0 .. Window /\ Older(n) >= n
                             /\ (n < Window => Older(n) = n + 1)
                             /\ (n = Window => Older(n) = n)
  BY <1>1 DEF Older
<1>3. DOMAIN passed' = DOMAIN passed /\ \A i \in DOMAIN passed : passed[i] \in 0 .. Window
  BY <1>1
<1>4. \A i \in DOMAIN passed : passed'[i] = Older(passed[i])
  BY <1>1
<1>5. LimiterTypeOK'
  <2>1. passed' \in Seq(0 .. Window)
    <3>1. DOMAIN passed = 1 .. Len(passed) /\ Len(passed) \in Nat
      BY <1>1
    <3>2. passed' \in [1 .. Len(passed) -> 0 .. Window]
      BY <1>1, <1>2, <1>3, <3>1
    <3>. QED BY <3>1, <3>2
  <2>. QED BY <1>1, <1>2, <2>1 DEF LimiterTypeOK
<1>6. KeyOutlives'
  BY <1>1, <1>2 DEF KeyOutlives
<1>7. ASSUME ~failed
      PROVE  /\ \A i \in DOMAIN passed' : passed'[i] + ttl' >= Window
             /\ Cardinality(Recent') <= count' /\ Cardinality(Recent') <= Limit
  <2>1. \A i \in DOMAIN passed : passed[i] + ttl >= Window
    BY <1>7 DEF AllCounted
  <2>2. ASSUME NEW i \in DOMAIN passed' PROVE passed'[i] + ttl' >= Window
    <3>1. /\ passed[i] \in 0 .. Window /\ passed'[i] = Older(passed[i]) /\ passed[i] + ttl >= Window
      BY <1>3, <1>4, <2>1
    <3>2. ttl \in 0 .. Window /\ Window \in Nat /\ ttl' = IF ttl = 0 THEN 0 ELSE ttl - 1
      BY <1>1
    <3>3. passed[i] = Window \/ passed'[i] = passed[i] + 1
      BY <3>1 DEF Older
    <3>4. passed[i] = Window => passed'[i] = Window
      BY <3>1 DEF Older
    <3>. QED BY <3>1, <3>2, <3>3, <3>4
  <2>3. Recent' \in SUBSET Recent
    BY <1>1, <1>2, <1>3, <1>4 DEF Recent
  <2>4. Cardinality(Recent') <= Cardinality(Recent) /\ Cardinality(Recent') \in Nat /\ Cardinality(Recent) \in Nat
    BY <1>5, <2>3, FS_Subset, RecentIsFinite, FS_CardinalityType
  <2>5. CASE ttl' > 0
    BY <1>1, <1>7, <2>2, <2>4, <2>5 DEF AllCounted
  <2>6. CASE ~(ttl' > 0)
    <3>1. ttl' = 0 /\ count' = 0
      BY <1>1, <2>6
    <3>2. ASSUME NEW i \in DOMAIN passed' PROVE ~(passed'[i] < Window)
      <4>1. passed'[i] \in 0 .. Window /\ passed'[i] + ttl' >= Window
        BY <1>5, <2>2 DEF LimiterTypeOK
      <4>. QED BY <1>1, <3>1, <4>1
    <3>3. Recent' = {}
      BY <3>2 DEF Recent
    <3>. QED BY <1>1, <2>2, <3>1, <3>3, FS_EmptySet
  <2>. QED BY <2>5, <2>6
<1>. QED BY <1>1, <1>5, <1>6, <1>7 DEF AllCounted

LEMMA LimiterStep == LimiterInv /\ [LimiterNext]_limiterVars => LimiterInv'
<1>. SUFFICES ASSUME LimiterInv, [LimiterNext]_limiterVars PROVE LimiterInv'
  OBVIOUS
<1>1. CASE UNCHANGED limiterVars
  BY <1>1 DEF limiterVars, LimiterInv, LimiterTypeOK, KeyOutlives, AllCounted, Recent
<1>. QED BY <1>1, RequestInv, FailOpenInv, TickInv DEF LimiterNext

\* The limiter's inductive invariant.
THEOREM LimiterKept == LimiterSpec => []LimiterInv
BY LimiterInitInv, LimiterStep, PTL DEF LimiterSpec

\* No window, wherever it begins, lets more than Limit requests of a client through
\* while Redis answers, for every limit and every window (RateLimit).
THEOREM WindowsKept == LimiterSpec => []AtMostLimitPerWindow
<1>1. LimiterInv => AtMostLimitPerWindow
  BY DEF LimiterInv, AllCounted, AtMostLimitPerWindow
<1>. QED BY <1>1, LimiterKept, PTL

\* A client that waits for a window is let through, even after Redis was down (the
\* Retry-After header of RateLimit).
THEOREM WaitingHelps == LimiterSpec => RetryAfterIsHonest
<1>. DEFINE Honest == silence = Window /\ silence' = 0 /\ Len(passed) < MaxPassed
                        => Len(passed') = Len(passed) + 1
<1>1. LimiterInv /\ [LimiterNext]_limiterVars => [Honest]_limiterVars
  <2>. SUFFICES ASSUME LimiterInv, LimiterNext, silence = Window, silence' = 0
                PROVE  Len(passed') = Len(passed) + 1
    OBVIOUS
  <2>. USE RateAssumption
  <2>1. /\ passed \in Seq(0 .. Window) /\ count = 0
    BY DEF LimiterInv, LimiterTypeOK, KeyOutlives
  <2>2. ~Tick
    BY DEF Tick, Older
  <2>3. passed' = Append(passed, 0)
    BY <2>1, <2>2 DEF LimiterNext, Request, FailOpen, Incr, Allows
  <2>. QED BY <2>1, <2>3
<1>. QED BY <1>1, LimiterKept, PTL DEF LimiterSpec, RetryAfterIsHonest

===============================================================================
