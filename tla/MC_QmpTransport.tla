--------------------------- MODULE MC_QmpTransport ---------------------------
(***************************************************************************)
(* qmp_command of src/contrib/qemu_einj.py as ArmProcessorEinj.run() calls *)
(* it: run() passes the one arm-inject-error command, and qmp_command       *)
(* inserts qmp_capabilities in front of it.                                *)
(***************************************************************************)
EXTENDS QmpTransport

MCRunCommands == <<Inject>>
MCPrelude == <<Capabilities>>

=============================================================================
