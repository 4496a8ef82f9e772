-------------------------- MODULE MCDigisparkLink ---------------------------
(***************************************************************************)
(* DigisparkLink on small buffers, few retries and two clock rates.        *)
(***************************************************************************)
EXTENDS DigisparkLink

MCSpeeds == {1, 2}
AllFaults == {"setup", "in", "data", "status"}
EarlyFaults == {"setup", "in"}
=============================================================================
