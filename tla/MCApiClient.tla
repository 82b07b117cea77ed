------------------------------ MODULE MCApiClient ------------------------------
(* ApiClient with the delays of the code in units of 250 ms, a duration    *)
(* type scaled down to 4096 values, and Retry-After headers below the cap, *)
(* above the cap, and large enough to wrap around to a negative duration.  *)
EXTENDS ApiClient, TLC

MCRetryAfters == {0, 3, 200, 600}
===============================================================================
