------------------------------ MODULE UtilEinj ------------------------------
(***************************************************************************)
(* The request construction of src/util/arm_einj.py: errorInjection.      *)
(* __init__(args) and the helpers it calls.  The util copy is the contrib  *)
(* code line for line, with the tables at module level and the "ARGS:"    *)
(* trace print, except for one literal: get_mult_int stores               *)
(* --virtual-address under the key "vir-addr" where qemu_einj.py writes    *)
(* "virt-addr".  The model is therefore ArmEinj with that key.             *)
(***************************************************************************)
CONSTANTS Words, LowerWord, None, BadLiteral, ArgsDomain

VARIABLES args, pc, mult, arm, exitField

vars == <<args, pc, mult, arm, exitField>>

\* The key errorInjection.__init__ passes to get_mult_int for the
\* virtual address.
VirAddrKey == "vir-addr"

E == INSTANCE ArmEinj WITH VirtAddrKey <- VirAddrKey

\* self.arm = {}; print("ARGS:", args) writes nothing the model keeps.
Init == E!Init

\* One statement of errorInjection.__init__, with the get_mult_* helpers
\* (lines 107-187) it calls.
Next == E!Next

Spec == Init /\ [][Next]_vars

\* The PEI records of the document are those the spec describes (spec
\* sections 4.2 and 7): the virtual address is sent as "virt-addr".
ErrorRecordsByIndex == E!ErrorRecordsByIndex

=============================================================================
