-------------------------- MODULE MCSagaOrchestrator --------------------------
(* The instances that the Saga*.cfg files check.  There is no symmetry: every  *)
(* run has one caller of each kind, and most check liveness.                   *)
EXTENDS SagaOrchestrator
===============================================================================
