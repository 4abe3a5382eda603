----------------------------- MODULE MC_ArmEinj -----------------------------
(***************************************************************************)
(* Instantiates ArmEinj (qemu_einj.py's ArmProcessorEinj) for TLC, with    *)
(* the argument sets of MC_EinjArgs and the contrib virtual-address key.  *)
(***************************************************************************)
EXTENDS ArmEinj, TLC

INSTANCE MC_EinjArgs

\* The key ArmProcessorEinj.__init__ stores the virtual address under.
QemuVirtAddrKey == "virt-addr"

=============================================================================
