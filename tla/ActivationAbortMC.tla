-------------------------- MODULE ActivationAbortMC --------------------------
(***************************************************************************)
(* The instance of ActivationMC for ActivationHistory.                     *)
(***************************************************************************)
EXTENDS ActivationMC, ActivationHistory
=============================================================================
