---------------------------- MODULE MCVasPurchase ----------------------------
(* Small instances of VasPurchase for TLC.                                    *)
EXTENDS VasPurchase

MCUsers == {"ada"}

\* Three requests of one user: r1 and its retry r2 share a client reference,
\* r3 has a generated one.
MCRequests == {"r1", "r2", "r3"}
MCTwoRequests == {"r1", "r2"}
MCRefs == {"x", "x_FB", "REV_x", "REV_x_FB", "g", "g_FB", "REV_g", "REV_g_FB", "-"}

\* "-" stands for the derived references that no request can use.
FallbackTable == [x |-> "x_FB", g |-> "g_FB", x_FB |-> "x_FB_FB"]
ReversalTable == [x |-> "REV_x", g |-> "REV_g", x_FB |-> "REV_x_FB", g_FB |-> "REV_g_FB",
                  x_FB_FB |-> "REV_x_FB_FB"]
Derived(table, ref) == IF ref \in DOMAIN table /\ table[ref] \in Refs THEN table[ref] ELSE "-"
MCFallbackRef == [ref \in Refs |-> Derived(FallbackTable, ref)]
MCReversalRef == [ref \in Refs |-> Derived(ReversalTable, ref)]

MCUserOf == [r \in Requests |-> "ada"]
MCRefOf == [r \in Requests |-> IF r = "r3" THEN "g" ELSE "x"]
MCIdempotent == [r \in Requests |-> r # "r3"]
MCAmountOf == [r \in Requests |-> IF r = "r3" THEN 2 ELSE 1]
MCDailyLimit == [u \in Users |-> 4]
MCInitBalance == [u \in Users |-> 3]

\* Of the debits of r1, r2 and a fallback the wallet covers two at a time, and
\* the daily limit two in all.
TwoEach == [r \in Requests |-> 2]
LimitOfTwo == [u \in Users |-> 5]
FundsForTwo == [u \in Users |-> 4]

\* r1 sends client reference x, r2 sends x_FB.
CollidingRefs == {"x", "x_FB", "x_FB_FB", "REV_x", "REV_x_FB", "REV_x_FB_FB", "-"}
CollidingRefOf == [r \in Requests |-> IF r = "r1" THEN "x" ELSE "x_FB"]
===============================================================================
