---------------------------- MODULE MCSagaRecovery ----------------------------
(* The instances that the Recovery*.cfg files check.                            *)
EXTENDS SagaRecovery
===============================================================================
