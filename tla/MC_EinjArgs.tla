---------------------------- MODULE MC_EinjArgs ----------------------------
(***************************************************************************)
(* The argparse namespaces the constructor runs start from, shared by the  *)
(* contrib model (MC_ArmEinj) and the util model (MC_UtilEinj).  Each set *)
(* varies the options of one part of the document and leaves the others   *)
(* unset, so that every combination of the varied options, including      *)
(* invalid ones, is tried.                                                 *)
(***************************************************************************)
EXTENDS Integers

CONSTANTS None, BadLiteral

MCWords == {"cache", "Cache", "bus", "tlb", "first", "last", "error", "err",
            "info", "valid", "virt", "phy", "flags", "running", "mpidr",
            "vendor", "bogus", ""}

MCLowerWord == [w \in MCWords |-> IF w = "Cache" THEN "cache" ELSE w]

\* int(x, 0) literals: "n" (or "0x.."), "-n"
L(n) == [neg |-> FALSE, mag |-> n]
Neg(n) == [neg |-> TRUE, mag |-> n]

\* The PEI options: valid and invalid tokens and numbers, one or two
\* occurrences (three of --type, as in spec 8), "--flags" with no value
\* and with an empty value.
ArgsPei ==
    [arm : {None}, affinity : {None}, mpidr : {None}, midr : {None},
     running : {None}, psci : {None},
     pei_valid : {None, << >>, << << <<"flags">> >> >>,
                  << << <<"error", "info">> >>, << <<"virt">>, <<"phy">> >> >>,
                  << << <<"bogus">> >> >>},
     type : {None, << << <<"cache">> >> >>, << << <<"Cache">>, <<"bus">> >> >>,
             << << <<"tlb">> >>, << <<"bus", "err">> >> >>, << << <<"bogus">> >> >>,
             << << <<"cache">> >>, << <<"bus">> >>, << <<"tlb">> >> >>},
     flags : {None, << >>, << << <<"first">> >> >>,
              << << >>, << <<"last", "error">> >> >>},
     error_info : {None},
     multiple_error : {None, << <<L(1)>> >>, << <<L(0)>>, <<L(2)>> >>,
                       << <<Neg(1)>> >>, << <<L(1), L(2)>> >>},
     physical_address : {None, << <<L(1)>> >>, << <<BadLiteral>> >>},
     virtual_address : {None, << <<L(0)>>, <<L(1)>> >>, << <<Neg(0)>> >>},
     ctx_type : {None}, ctx_size : {None}, ctx_array : {None}, vendor : {None}]

CtxTypes == {None, << <<L(5)>> >>, << <<L(0)>>, <<L(5)>> >>, << <<BadLiteral>> >>}

\* The context and vendor options, with PEI types given once or twice.
ArgsCtxWith(ctxTypes) ==
    [arm : {None}, affinity : {None}, mpidr : {None}, midr : {None},
     running : {None}, psci : {None},
     pei_valid : {None}, flags : {None}, multiple_error : {None}, error_info : {None},
     physical_address : {None}, virtual_address : {None},
     type : {None, << << <<"tlb">> >>, << <<"bus">> >> >>},
     ctx_type : ctxTypes,
     ctx_size : {None, << <<L(1)>> >>, << <<Neg(2)>> >>},
     ctx_array : {None, << >>, << <<L(1), L(2)>> >>, << <<L(1)>>, <<L(2), L(0)>> >>,
                  << <<Neg(1)>> >>},
     vendor : {None, << <<L(1), L(2)>>, <<L(255)>> >>, << <<L(256)>> >>,
               << <<BadLiteral>> >>, << <<L(0)>> >>}]

ArgsCtx == ArgsCtxWith(CtxTypes)

\* --ctx-type given with no value.
ArgsCtxEmpty == ArgsCtxWith(CtxTypes \cup {<< >>})

\* The global parameters, with the given values of the integer options.
ArgsGlobalsWith(ints) ==
    [arm : {None, << <<"mpidr">>, <<"running", "err">> >>, << <<"bogus">> >>,
            << <<"vendor", "error">> >>},
     affinity : ints, mpidr : {None, 256}, midr : {None, 1},
     running : {None, TRUE, FALSE}, psci : ints,
     type : {None}, flags : {None}, pei_valid : {None}, multiple_error : {None},
     error_info : {None},
     physical_address : {None}, virtual_address : {None},
     ctx_type : {None}, ctx_size : {None}, ctx_array : {None}, vendor : {None}]

ArgsGlobals == ArgsGlobalsWith({None, 2, 3})

\* Every part of the document, each part varied while the others are unset.
ArgsConstructor == ArgsPei \cup ArgsCtx \cup ArgsGlobals

\* --affinity 0 and --psci 0.
ArgsGlobalsZero == ArgsGlobalsWith({None, 0, 2})

\* --affinity -1 and --psci -1 (type=lambda x: int(x, 0) takes a sign).
ArgsGlobalsNegative == ArgsGlobalsWith({None, -1, 2})

\* --error-info given once and twice, with the types it describes.
ArgsErrorInfo ==
    [arm : {None}, affinity : {None}, mpidr : {None}, midr : {None},
     running : {None}, psci : {None}, pei_valid : {None}, flags : {None},
     type : {None, << << <<"cache">> >>, << <<"bus">> >> >>},
     error_info : {<< <<L(1)>> >>, << <<L(1)>>, <<L(2)>> >>},
     multiple_error : {None}, physical_address : {None}, virtual_address : {None},
     ctx_type : {None}, ctx_size : {None}, ctx_array : {None}, vendor : {None}]

=============================================================================
