------------------------ MODULE MCConcurrencyController ------------------------
(* The instance that Controller.cfg checks.  It checks liveness, so there is     *)
(* no symmetry.                                                                 *)
EXTENDS ConcurrencyController
===============================================================================
