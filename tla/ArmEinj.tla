------------------------------ MODULE ArmEinj ------------------------------
(***************************************************************************)
(* The request construction of src/contrib/qemu_einj.py:                   *)
(* ArmProcessorEinj.__init__(args) and the helpers it calls               *)
(* (get_mult_choices, get_mult_int, get_mult_array, get_choice).          *)
(*                                                                         *)
(* One behaviour is one run of the constructor on one argparse namespace   *)
(* args.  Each statement of __init__ that changes state is one action,     *)
(* taken in the order of the code; a helper that calls sys.exit ends the  *)
(* behaviour in pc = "exit" with the field it complained about.           *)
(*                                                                         *)
(* Data abstraction.  A number written on the command line is a literal:  *)
(* [neg |-> b, mag |-> n] is a string int(x, 0) accepts, of value n or -n  *)
(* ("-0" is [neg |-> TRUE, mag |-> 0]), and BadLiteral any string it       *)
(* rejects ("abc", "", "0x").  An option occurrence of a numeric option is *)
(* the sequence of its comma-separated pieces, so "1,2" is <<l1, l2>> and  *)
(* "" is <<BadLiteral>>; an occurrence of a choice option is a sequence of *)
(* tokens as in ChoiceMapper.  Python dicts are functions; the index       *)
(* dictionaries pei, ctx and vendor map 0-based indices to field maps.    *)
(***************************************************************************)
EXTENDS ChoiceMapper

CONSTANTS
    None,         \* Python None: an option that was not given
    BadLiteral,   \* a string int(x, 0) raises ValueError on
    VirtAddrKey,  \* the key get_mult_int stores the virtual address under
    ArgsDomain    \* the argparse namespaces a run may start from

VARIABLES
    args,       \* the argparse namespace (__init__ rewrites args.type)
    pc,         \* the next statement of __init__, "done" or "exit"
    mult,       \* the local index dictionaries: [pei, ctx, vendor]
    arm,        \* self.arm, the document later sent as "arguments"
    exitField   \* the field named in the sys.exit message, or None

vars == <<args, pc, mult, arm, exitField>>

-----------------------------------------------------------------------------
(* Command-line values                                                     *)

IsLiteral(l) == l # BadLiteral
IntVal(l) == IF l.neg THEN -l.mag ELSE l.mag

\* What argparse can hand to __init__ (arm_handle_args): "+" options are None
\* or non-empty lists, "*" options None or any list, type=int options None
\* or an integer, --running None, TRUE or FALSE.
ArgsWellFormed(a) ==
    LET OneOrMore(v)  == v = None \/ Len(v) >= 1
        ZeroOrMore(v) == v = None \/ Len(v) >= 0
        Number(v)     == v = None \/ v \in Int
    IN  /\ Number(a.affinity) /\ Number(a.mpidr)
        /\ Number(a.midr) /\ Number(a.psci)
        /\ a.running \in {None, TRUE, FALSE}
        /\ OneOrMore(a.type) /\ ZeroOrMore(a.flags) /\ ZeroOrMore(a.pei_valid)
        /\ OneOrMore(a.multiple_error) /\ OneOrMore(a.error_info)
        /\ OneOrMore(a.physical_address)
        /\ OneOrMore(a.virtual_address)
        /\ ZeroOrMore(a.ctx_type) /\ ZeroOrMore(a.ctx_size)
        /\ ZeroOrMore(a.ctx_array) /\ OneOrMore(a.vendor)

ASSUME \A a \in ArgsDomain : ArgsWellFormed(a)

-----------------------------------------------------------------------------
(* Index dictionaries                                                      *)

\* mult[i], created empty when absent ("if i not in mult: mult[i] = {}").
At(m, i) == IF i \in DOMAIN m THEN m[i] ELSE << >>

\* The early returns shared by the get_mult_* helpers.
Skipped(values, allowZero) ==
    IF allowZero THEN values = None ELSE values = None \/ values = << >>

\* get_mult_choices: some occurrence holds a token get_choice rejects.
MultChoicesInvalid(values, choices, suffixes, allowZero) ==
    /\ ~Skipped(values, allowZero)
    /\ \E i \in DOMAIN values : ChoiceInvalid(values[i], choices, suffixes)

\* get_mult_choices: mult[i][name] = get_choice(values[i]).
GetMultChoices(m, name, values, choices, suffixes, allowZero) ==
    IF Skipped(values, allowZero) THEN m
    ELSE [i \in DOMAIN m \cup 0..Len(values) - 1 |->
            IF i < Len(values)
            THEN (name :> GetChoice(values[i + 1], choices, suffixes)) @@ At(m, i)
            ELSE m[i]]

\* get_mult_int: int(val, 0) raises (also on "1,2"), or the value is negative.
MultIntInvalid(values, allowZero) ==
    /\ ~Skipped(values, allowZero)
    /\ \E i \in DOMAIN values :
          \/ Len(values[i]) # 1 \/ ~IsLiteral(values[i][1])
          \/ IntVal(values[i][1]) < 0

\* Mutant: "i += 1" left out, every occurrence is stored at index 0.
GetMultIntNoIncrement(m, name, values, allowZero) ==
    IF Skipped(values, allowZero) THEN m
    ELSE [i \in DOMAIN m \cup {0} |->
            IF i = 0 THEN (name :> IntVal(values[Len(values)][1])) @@ At(m, 0)
            ELSE m[i]]

\* get_mult_int: mult[i][name] = int(values[i], 0).
GetMultInt(m, name, values, allowZero) ==
    IF Skipped(values, allowZero) THEN m
    ELSE [i \in DOMAIN m \cup 0..Len(values) - 1 |->
            IF i < Len(values)
            THEN (name :> IntVal(values[i + 1][1])) @@ At(m, i)
            ELSE m[i]]

\* Mutant: ">=" for ">" in the max_val check, 255 rejected as a byte.
MultArrayInvalidOffByOne(values, allowZero, maxVal) ==
    /\ ~Skipped(values, allowZero)
    /\ \E i \in DOMAIN values : \E k \in DOMAIN values[i] :
          \/ ~IsLiteral(values[i][k])
          \/ IntVal(values[i][k]) < 0
          \/ maxVal # None /\ maxVal # 0 /\ IntVal(values[i][k]) >= maxVal

\* get_mult_array: a comma-separated piece is not an integer, is negative,
\* or exceeds a non-zero max_val.
MultArrayInvalid(values, allowZero, maxVal) ==
    /\ ~Skipped(values, allowZero)
    /\ \E i \in DOMAIN values : \E k \in DOMAIN values[i] :
          \/ ~IsLiteral(values[i][k])
          \/ IntVal(values[i][k]) < 0
          \/ maxVal # None /\ maxVal # 0 /\ IntVal(values[i][k]) > maxVal

\* Mutant: allow_zero treated like the other helpers, an empty list of
\* occurrences stores nothing.
GetMultArrayNoEmpty(m, name, values, allowZero, maxVal) ==
    IF Skipped(values, allowZero) \/ values = << >> THEN m
    ELSE [i \in DOMAIN m \cup 0..Len(values) - 1 |->
            IF i < Len(values)
            THEN (name :> [k \in DOMAIN values[i + 1] |-> IntVal(values[i + 1][k])])
                    @@ At(m, i)
            ELSE m[i]]

\* get_mult_array: the pieces of values[i] appended to mult[i][name]; with
\* allow_zero an empty list of occurrences stores mult[0][name] = [].
GetMultArray(m, name, values, allowZero, maxVal) ==
    LET Prior(i) == IF name \in DOMAIN At(m, i) THEN At(m, i)[name] ELSE << >>
        Pieces(i) == [k \in DOMAIN values[i + 1] |-> IntVal(values[i + 1][k])]
    IN  CASE Skipped(values, allowZero) -> m
          [] allowZero /\ values = << >> ->
                [i \in DOMAIN m \cup {0} |->
                    IF i = 0 THEN (name :> << >>) @@ At(m, 0) ELSE m[i]]
          [] OTHER ->
                [i \in DOMAIN m \cup 0..Len(values) - 1 |->
                    IF i < Len(values)
                    THEN (name :> Prior(i) \o Pieces(i)) @@ At(m, i)
                    ELSE m[i]]

\* The keys of an index dictionary in ascending order (sorted(mult.keys())).
SortedKeys(m) == SetToSortSeq(DOMAIN m, LAMBDA x, y : x < y)

\* The values of an index dictionary, by ascending key.
ByIndex(m) == [k \in 1..Len(SortedKeys(m)) |-> m[SortedKeys(m)[k]]]

-----------------------------------------------------------------------------
(* The statements of __init__                                              *)

Init ==
    /\ args \in ArgsDomain
    /\ pc = "globals"
    /\ mult = [pei |-> << >>, ctx |-> << >>, vendor |-> << >>]
    /\ arm = << >>
    /\ exitField = None

\* sys.exit(f"Error on '{name}': ..."): the run ends before any I/O.
Exit(field) ==
    /\ pc' = "exit"
    /\ exitField' = field
    /\ UNCHANGED <<args, mult, arm>>

\* "if args.affinity:" and its siblings: an option given as 0 is falsy.
IntGiven(v) == v # None /\ v # 0
ArmGiven == args.arm # None /\ args.arm # << >>

\* Mutant: "if args.running:" instead of "is not None", --no-running lost.
GlobalParamsRunningTruthy ==
    (IF ArmGiven
     THEN "validation" :> GetChoice(args.arm, ARM_valid_bits, ValidationSuffixes)
     ELSE << >>)
    @@ (IF IntGiven(args.affinity) THEN "affinity-level" :> args.affinity ELSE << >>)
    @@ (IF IntGiven(args.mpidr) THEN "mpidr-el1" :> args.mpidr ELSE << >>)
    @@ (IF IntGiven(args.midr) THEN "midr-el1" :> args.midr ELSE << >>)
    @@ (IF args.running = None \/ args.running = FALSE THEN << >>
        ELSE "running-state" :> <<"processor-running">>)
    @@ (IF IntGiven(args.psci) THEN "psci-state" :> args.psci ELSE << >>)

\* The keys the global parameters add to self.arm.
GlobalParams ==
    (IF ArmGiven
     THEN "validation" :> GetChoice(args.arm, ARM_valid_bits, ValidationSuffixes)
     ELSE << >>)
    @@ (IF IntGiven(args.affinity) THEN "affinity-level" :> args.affinity ELSE << >>)
    @@ (IF IntGiven(args.mpidr) THEN "mpidr-el1" :> args.mpidr ELSE << >>)
    @@ (IF IntGiven(args.midr) THEN "midr-el1" :> args.midr ELSE << >>)
    @@ (IF args.running = None THEN << >>
        ELSE "running-state" :> (IF args.running THEN <<"processor-running">>
                                 ELSE << >>))
    @@ (IF IntGiven(args.psci) THEN "psci-state" :> args.psci ELSE << >>)

\* Handle global parameters.
Globals ==
    /\ pc = "globals"
    /\ \/ /\ ~(ArmGiven /\ ChoiceInvalid(args.arm, ARM_valid_bits, ValidationSuffixes))
          /\ arm' = GlobalParams @@ arm
          /\ pc' = "default_type"
          /\ UNCHANGED <<args, mult, exitField>>
       \/ /\ ArmGiven /\ ChoiceInvalid(args.arm, ARM_valid_bits, ValidationSuffixes)
          /\ Exit("validation")

\* if not args.type: args.type = ['cache-error']
DefaultType ==
    /\ pc = "default_type"
    /\ args' = IF args.type = None \/ args.type = << >>
               THEN [args EXCEPT !.type = << << <<"cache", "error">> >> >>]
               ELSE args
    /\ pc' = "pei_valid"
    /\ UNCHANGED <<mult, arm, exitField>>

\* One call of a get_mult_* helper on the local dictionary mult[dict]: it
\* either fills the dictionary or exits naming its field.
Call(next, dict, field, invalid, result) ==
    \/ /\ ~invalid
       /\ mult' = [mult EXCEPT ![dict] = result]
       /\ pc' = next
       /\ UNCHANGED <<args, arm, exitField>>
    \/ /\ invalid
       /\ Exit(field)

PeiValid ==
    /\ pc = "pei_valid"
    /\ Call("type", "pei", "validation",
         MultChoicesInvalid(args.pei_valid, PEI_valid_bits, PeiValidSuffixes, FALSE),
         GetMultChoices(mult.pei, "validation", args.pei_valid,
                        PEI_valid_bits, PeiValidSuffixes, FALSE))

PeiType ==
    /\ pc = "type"
    /\ Call("flags", "pei", "type",
         MultChoicesInvalid(args.type, PEI_error_types, TypeSuffixes, FALSE),
         GetMultChoices(mult.pei, "type", args.type,
                        PEI_error_types, TypeSuffixes, FALSE))

PeiFlags ==
    /\ pc = "flags"
    /\ Call("multiple_error", "pei", "flags",
         MultChoicesInvalid(args.flags, PEI_flags, FlagsSuffixes, FALSE),
         GetMultChoices(mult.pei, "flags", args.flags, PEI_flags, FlagsSuffixes, FALSE))

\* Mutant: the field stored under the option's name, "multiple_error".
MultipleErrorKeyTypo ==
    /\ pc = "multiple_error"
    /\ Call("phy_addr", "pei", "multiple-error",
         MultIntInvalid(args.multiple_error, FALSE),
         GetMultInt(mult.pei, "multiple_error", args.multiple_error, FALSE))

MultipleError ==
    /\ pc = "multiple_error"
    /\ Call("phy_addr", "pei", "multiple-error",
         MultIntInvalid(args.multiple_error, FALSE),
         GetMultInt(mult.pei, "multiple-error", args.multiple_error, FALSE))

PhyAddr ==
    /\ pc = "phy_addr"
    /\ Call("virt_addr", "pei", "phy-addr",
         MultIntInvalid(args.physical_address, FALSE),
         GetMultInt(mult.pei, "phy-addr", args.physical_address, FALSE))

VirtAddr ==
    /\ pc = "virt_addr"
    /\ Call("ctx_type", "pei", VirtAddrKey,
         MultIntInvalid(args.virtual_address, FALSE),
         GetMultInt(mult.pei, VirtAddrKey, args.virtual_address, FALSE))

CtxType ==
    /\ pc = "ctx_type"
    /\ Call("ctx_size", "ctx", "type",
         MultIntInvalid(args.ctx_type, TRUE),
         GetMultInt(mult.ctx, "type", args.ctx_type, TRUE))

CtxSize ==
    /\ pc = "ctx_size"
    /\ Call("ctx_array", "ctx", "minimal-size",
         MultIntInvalid(args.ctx_size, TRUE),
         GetMultInt(mult.ctx, "minimal-size", args.ctx_size, TRUE))

CtxArray ==
    /\ pc = "ctx_array"
    /\ Call("vendor", "ctx", "register",
         MultArrayInvalid(args.ctx_array, TRUE, None),
         GetMultArray(mult.ctx, "register", args.ctx_array, TRUE, None))

Vendor ==
    /\ pc = "vendor"
    /\ Call("store", "vendor", "bytes",
         MultArrayInvalid(args.vendor, FALSE, 255),
         GetMultArray(mult.vendor, "bytes", args.vendor, FALSE, 255))

\* Mutant: "=" for "+=", only the last occurrence's bytes are kept.
StoredRecordsLastVendor ==
    ("error" :> ByIndex(mult.pei))
    @@ (IF DOMAIN mult.ctx # {} THEN "context" :> ByIndex(mult.ctx) ELSE << >>)
    @@ (IF DOMAIN mult.vendor # {}
        THEN "vendor-specific" :> Last(ByIndex(mult.vendor))["bytes"]
        ELSE << >>)

\* Store PEI, Context and the ungrouped vendor-specific bytes.
StoredRecords ==
    ("error" :> ByIndex(mult.pei))
    @@ (IF DOMAIN mult.ctx # {} THEN "context" :> ByIndex(mult.ctx) ELSE << >>)
    @@ (IF DOMAIN mult.vendor # {}
        THEN "vendor-specific" :>
                FlattenSeq([k \in 1..Len(ByIndex(mult.vendor)) |->
                               ByIndex(mult.vendor)[k]["bytes"]])
        ELSE << >>)

Store ==
    /\ pc = "store"
    /\ arm' = StoredRecords @@ arm
    /\ pc' = "done"
    /\ UNCHANGED <<args, mult, exitField>>

Next ==
    \/ Globals \/ DefaultType
    \/ PeiValid \/ PeiType \/ PeiFlags \/ MultipleError \/ PhyAddr \/ VirtAddr
    \/ CtxType \/ CtxSize \/ CtxArray \/ Vendor
    \/ Store

Spec == Init /\ [][Next]_vars

-----------------------------------------------------------------------------
(* What the spec says the document holds (spec sections 3, 4.2-4.4, 7),   *)
(* written per field and independent of the index dictionaries.           *)

\* The values of the occurrences of one option, in order: a column.
ChoiceColumn(values, choices, suffixes) ==
    IF values = None THEN << >>
    ELSE [j \in DOMAIN values |-> GetChoice(values[j], choices, suffixes)]

\* presentEmpty: an option given with no value is one empty occurrence.
IntColumn(values, presentEmpty) ==
    CASE values = None -> << >>
      [] values = << >> /\ presentEmpty -> << << >> >>
      [] OTHER -> [j \in DOMAIN values |-> IntVal(values[j][1])]

ArrayColumn(values, presentEmpty) ==
    CASE values = None -> << >>
      [] values = << >> /\ presentEmpty -> << << >> >>
      [] OTHER -> [j \in DOMAIN values |->
                     [k \in DOMAIN values[j] |-> IntVal(values[j][k])]]

\* Record r holds the r-th value of every field given at least r times;
\* a field given fewer times is absent from it, not defaulted.
ByOccurrence(columns) ==
    LET n == Max({Len(columns[f]) : f \in DOMAIN columns} \cup {0})
    IN  [r \in 1..n |->
            [f \in {g \in DOMAIN columns : Len(columns[g]) >= r} |-> columns[f][r]]]

\* No error type given: one record whose type is the default, cache-error.
TypeGiven == IF args.type = None \/ args.type = << >>
             THEN << << <<"cache", "error">> >> >> ELSE args.type

ExpectedErrors ==
    ByOccurrence(("validation" :> ChoiceColumn(args.pei_valid, PEI_valid_bits, PeiValidSuffixes))
        @@ ("type" :> ChoiceColumn(TypeGiven, PEI_error_types, TypeSuffixes))
        @@ ("flags" :> ChoiceColumn(args.flags, PEI_flags, FlagsSuffixes))
        @@ ("multiple-error" :> IntColumn(args.multiple_error, FALSE))
        @@ ("phy-addr" :> IntColumn(args.physical_address, FALSE))
        @@ ("virt-addr" :> IntColumn(args.virtual_address, FALSE)))

ExpectedContext ==
    ByOccurrence(("type" :> IntColumn(args.ctx_type, TRUE))
        @@ ("minimal-size" :> IntColumn(args.ctx_size, TRUE))
        @@ ("register" :> ArrayColumn(args.ctx_array, TRUE)))

\* Spec 7: the input has no unknown choice, no non-integer, no negative
\* value and no vendor byte above 255.
InputValid ==
    LET ChoicesOk(values, choices, suffixes) ==
            values = None \/ \A j \in DOMAIN values :
                \A t \in DOMAIN values[j] :
                    ChoiceKey(values[j][t], suffixes) \in DOMAIN choices
        Unsigned(l) == IsLiteral(l) /\ IntVal(l) >= 0
        IntsOk(values) ==
            values = None \/ \A j \in DOMAIN values :
                Len(values[j]) = 1 /\ Unsigned(values[j][1])
        ArraysOk(values, bounded) ==
            values = None \/ \A j \in DOMAIN values : \A k \in DOMAIN values[j] :
                Unsigned(values[j][k]) /\ (bounded => IntVal(values[j][k]) <= 255)
    IN  /\ args.arm = None \/ ChoicesOk(<<args.arm>>, ARM_valid_bits, ValidationSuffixes)
        /\ \A v \in {args.affinity, args.mpidr, args.midr, args.psci} : v = None \/ v >= 0
        /\ ChoicesOk(args.pei_valid, PEI_valid_bits, PeiValidSuffixes)
        /\ ChoicesOk(args.type, PEI_error_types, TypeSuffixes)
        /\ ChoicesOk(args.flags, PEI_flags, FlagsSuffixes)
        /\ IntsOk(args.multiple_error) /\ IntsOk(args.physical_address)
        /\ IntsOk(args.virtual_address) /\ IntsOk(args.ctx_type) /\ IntsOk(args.ctx_size)
        /\ ArraysOk(args.ctx_array, FALSE)
        /\ ArraysOk(args.vendor, TRUE)

-----------------------------------------------------------------------------
(* Properties                                                              *)

TypeOK ==
    /\ \E a \in ArgsDomain : args \in {a, [a EXCEPT !.type = TypeGiven]}
    /\ pc \in {"globals", "default_type", "pei_valid", "type", "flags",
               "multiple_error", "phy_addr", "virt_addr", "ctx_type", "ctx_size",
               "ctx_array", "vendor", "store", "done", "exit"}
    /\ DOMAIN mult = {"pei", "ctx", "vendor"}
    /\ \A d \in DOMAIN mult : DOMAIN mult[d] \subseteq Nat
    /\ \A i \in DOMAIN mult.pei :
          DOMAIN mult.pei[i] \subseteq {"validation", "type", "flags", "multiple-error",
                                      "phy-addr", VirtAddrKey}
    /\ \A i \in DOMAIN mult.ctx :
          DOMAIN mult.ctx[i] \subseteq {"type", "minimal-size", "register"}
    /\ \A i \in DOMAIN mult.vendor : DOMAIN mult.vendor[i] = {"bytes"}
    /\ DOMAIN arm \subseteq {"validation", "affinity-level", "mpidr-el1", "midr-el1",
                             "running-state", "psci-state", "error", "context",
                             "vendor-specific"}
    /\ exitField \in {None, "validation", "type", "flags", "multiple-error",
                      "phy-addr", VirtAddrKey, "minimal-size", "register", "bytes"}

\* Index stability (spec 4.2, 4.3, 8): the i-th occurrence of every PEI
\* option lands in the i-th "error" record and nowhere else, records come in
\* index order, and with no --type there is one default cache-error record.
\* It relates the document Store writes to the options six helper calls saw.
ErrorRecordsByIndex ==
    pc = "done" => arm["error"] = ExpectedErrors

\* --error-info (help: "Error information (UEFI 2.10 tables N.18 to N.20)")
\* fills the error-info field of the record of its occurrence, the field the
\* error-info-valid bit of PEI_valid_bits declares valid.  __init__ never
\* reads args.error_info.
ErrorInfoSent ==
    pc = "done" /\ args.error_info # None =>
        \A r \in DOMAIN args.error_info :
            r \in DOMAIN arm["error"] /\ "error-info" \in DOMAIN arm["error"][r]

\* Context records (spec 3, 4.2): grouped by index like the PEI records; a
\* context option given with no value is one empty occurrence at index 0;
\* "context" is present exactly when some context option was given.
ContextRecordsByIndex ==
    pc = "done" =>
        IF ExpectedContext = << >>
        THEN "context" \notin DOMAIN arm
        ELSE "context" \in DOMAIN arm /\ arm["context"] = ExpectedContext

\* Vendor bytes (spec 4.3, 8): every occurrence's bytes, concatenated in
\* order into one sequence, never split into records, and the key is absent
\* when --vendor was not given.
VendorBytesFlattened ==
    pc = "done" =>
        IF args.vendor = None
        THEN "vendor-specific" \notin DOMAIN arm
        ELSE arm["vendor-specific"] = FlattenSeq(ArrayColumn(args.vendor, FALSE))

\* Top-level fields (spec 4.4, 6, 9): every scalar option that was given is
\* copied verbatim, one that was not given is absent (not zero), and
\* --running keeps its three states (absent, [], ["processor-running"]).
TopLevelScalarsCopied ==
    pc = "done" =>
        LET Copied(opt, key) ==
                IF opt = None THEN key \notin DOMAIN arm
                ELSE key \in DOMAIN arm /\ arm[key] = opt
        IN  /\ Copied(args.affinity, "affinity-level")
            /\ Copied(args.mpidr, "mpidr-el1")
            /\ Copied(args.midr, "midr-el1")
            /\ Copied(args.psci, "psci-state")
            /\ Copied(IF args.running = None THEN None
                      ELSE IF args.running THEN <<"processor-running">> ELSE << >>,
                      "running-state")
            /\ Copied(IF args.arm = None THEN None
                      ELSE GetChoice(args.arm, ARM_valid_bits, ValidationSuffixes),
                      "validation")

\* Fail fast (spec 7): the constructor finishes exactly when the whole
\* input is valid; any invalid value anywhere ends the run in sys.exit, so
\* no document exists for invalid input.
RejectsExactlyInvalidInput ==
    /\ pc = "done" => InputValid
    /\ pc = "exit" => ~InputValid

=============================================================================
