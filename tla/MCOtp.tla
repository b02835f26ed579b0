-------------------------------- MODULE MCOtp --------------------------------
(* Small instances of Otp for TLC.                                            *)
EXTENDS Otp

\* v1 and v2 carry the first code, v3 the second.
MCSends == {"s1", "s2", "s3"}
MCVerifies == {"v1", "v2", "v3"}
MCEnvironments == [overlap: BOOLEAN, faults: {{"db"}}]
MCCodeOf == [v \in Verifies |-> IF v = "v3" THEN "s2" ELSE "s1"]
===============================================================================
