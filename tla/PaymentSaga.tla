----------------------------- MODULE PaymentSaga -----------------------------
(***************************************************************************)
(* What the wallet promises a payment, whatever service makes it: the      *)
(* payment takes its amount from its user's wallet only when the balance   *)
(* covers it, gives back exactly what it took, never takes twice without   *)
(* giving back, moves no money once it is closed and overdraws no wallet,  *)
(* also when the amount is negative.                                       *)
(*                                                                         *)
(* This is the abstract specification that the purchase and booking        *)
(* services are shown to implement.                                        *)
(***************************************************************************)
EXTENDS Integers

CONSTANTS Users, Payments, UserOf, AmountOf, InitBalance

VARIABLES balance,   \* of each wallet
          held,      \* kobo a payment currently holds
          closed     \* payments that are over

sagaVars == <<balance, held, closed>>

SagaInit ==
  /\ balance = InitBalance
  /\ held = [p \in Payments |-> 0]
  /\ closed = [p \in Payments |-> FALSE]

\* The step that moves the money may also be the payment's last one.
Charge(p, last) ==
  /\ ~closed[p]
  /\ held[p] = 0
  /\ balance[UserOf[p]] >= AmountOf[p]
  /\ balance' = [balance EXCEPT ![UserOf[p]] = @ - AmountOf[p]]
  /\ held' = [held EXCEPT ![p] = AmountOf[p]]
  /\ closed' = [closed EXCEPT ![p] = last]

Release(p, last) ==
  /\ ~closed[p]
  /\ held[p] = AmountOf[p]
  /\ balance[UserOf[p]] + AmountOf[p] >= 0
  /\ balance' = [balance EXCEPT ![UserOf[p]] = @ + AmountOf[p]]
  /\ held' = [held EXCEPT ![p] = 0]
  /\ closed' = [closed EXCEPT ![p] = last]

Close(p) ==
  /\ ~closed[p]
  /\ closed' = [closed EXCEPT ![p] = TRUE]
  /\ UNCHANGED <<balance, held>>

SagaNext ==
  \E p \in Payments : Close(p) \/ \E last \in BOOLEAN : Charge(p, last) \/ Release(p, last)

SagaSpec == SagaInit /\ [][SagaNext]_sagaVars
===============================================================================
