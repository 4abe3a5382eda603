---------------------------- MODULE MC_UtilEinj ----------------------------
(***************************************************************************)
(* Instantiates UtilEinj (arm_einj.py's errorInjection) for TLC with the  *)
(* argument sets of MC_EinjArgs.                                           *)
(***************************************************************************)
EXTENDS UtilEinj

INSTANCE MC_EinjArgs

=============================================================================
