---------------------------- MODULE MCBettingGuard ----------------------------
(* Small instances of BettingGuard for TLC.                                   *)
EXTENDS MCVasPurchase, BettingGuard

\* r1 and its retry r2 are a confirmed top-up, r3 is a larger one that is not.
MCConfirmed == {"r1", "r2"}
BetAmountOf == [r \in Requests |-> IF r = "r3" THEN 3 ELSE 2]

\* Top-ups after none, after three small ones, after three of which the average is
\* no integer, and after three that make r3 nothing unusual; other bills.
Scene(bets, count, total, max) ==
  [bets |-> bets, past |-> [count |-> count, total |-> total, max |-> max]]
MCScenes == {Scene(Requests, 0, 0, 0), Scene(Requests, 3, 3, 1), Scene(Requests, 3, 4, 2),
             Scene(Requests, 3, 6, 2), Scene({}, 0, 0, 0)}

\* r3 is a top-up of a negative amount; r1 and r2, together, may spend what it puts in
\* before it is taken back.
SignedAmountOf == [r \in Requests |-> IF r = "r3" THEN -1 ELSE 2]
SignedScenes == {Scene({"r3"}, 0, 0, 0), Scene(Requests, 3, 4, 2), Scene(Requests, 3, 6, 2)}
FundsForOne == [u \in Users |-> 3]

FundsForBets == [u \in Users |-> 5]
LimitForBets == [u \in Users |-> 8]
===============================================================================
