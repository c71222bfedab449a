---------------------------- MODULE MCRetryTiming ----------------------------
(* Model-checking instance of RetryTiming: a unit of an eighth of a second, *)
(* so that the default base delay of 0.5s is 4 units and a band of 25% is   *)
(* a whole number of them.                                                  *)
EXTENDS RetryTiming
=============================================================================
