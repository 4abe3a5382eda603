---------------------------- MODULE MC_EinjMain ----------------------------
(***************************************************************************)
(* Instantiates EinjMain for TLC: the contrib key, and two namespaces of   *)
(* the arm subparser, one valid and one with a bad --multiple-error.      *)
(***************************************************************************)
EXTENDS EinjMain

INSTANCE MC_EinjArgs

MainVirtAddrKey == "virt-addr"

ArgsMain ==
    LET Unset == [arm |-> None, affinity |-> None, mpidr |-> None, midr |-> None,
                  running |-> None, psci |-> None, pei_valid |-> None,
                  type |-> None, flags |-> None, multiple_error |-> None,
                  error_info |-> None, physical_address |-> None,
                  virtual_address |-> None, ctx_type |-> None, ctx_size |-> None,
                  ctx_array |-> None, vendor |-> None]
    IN  {Unset, [Unset EXCEPT !.multiple_error = << <<BadLiteral>> >>]}

=============================================================================
