---------------------------- MODULE MCRetryBreaker ----------------------------
(* The instance that RetryOpen.cfg checks.                                     *)
EXTENDS RetryBreaker
===============================================================================
