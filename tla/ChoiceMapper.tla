---------------------------- MODULE ChoiceMapper ----------------------------
(***************************************************************************)
(* The Choice Mapper of src/contrib/qemu_einj.py: get_choice() and the four *)
(* alias tables of ArmProcessorEinj.__init__.                              *)
(*                                                                         *)
(* Data abstraction.  Every suffix the code strips starts with "-", so     *)
(* str.removesuffix only ever cuts at a "-".  A token is therefore written *)
(* as the sequence of its "-"-separated words ("cache-err" is             *)
(* <<"cache", "err">>, "" is <<"">>), and a suffix as the words that       *)
(* follow its leading "-" ("--addr" is <<"", "addr">>).  An option value,  *)
(* a comma-separated string, is the sequence of its tokens; the empty     *)
(* string, on which get_choice returns early, is << >>.                    *)
(***************************************************************************)
EXTENDS Integers, Sequences, SequencesExt, FiniteSets

CONSTANTS
    Words,      \* the words tokens are made of, in any case
    LowerWord   \* str.lower on one word: a function Words -> Words

-----------------------------------------------------------------------------
(* The alias tables (self.ARM_valid_bits, self.PEI_flags,                 *)
(* self.PEI_error_types, self.PEI_valid_bits).                            *)

ARM_valid_bits ==
    (<<"mpidr">> :> "mpidr-valid") @@ (<<"affinity">> :> "affinity-valid")
    @@ (<<"running">> :> "running-state-valid")
    @@ (<<"vendor">> :> "vendor-specific-valid")

PEI_flags ==
    (<<"first">> :> "first-error-cap") @@ (<<"last">> :> "last-error-cap")
    @@ (<<"propagated">> :> "propagated") @@ (<<"overflow">> :> "overflow")

PEI_error_types ==
    (<<"cache">> :> "cache-error") @@ (<<"tlb">> :> "tlb-error")
    @@ (<<"bus">> :> "bus-error") @@ (<<"micro", "arch">> :> "micro-arch-error")
    @@ (<<"vendor">> :> "micro-arch-error")

PEI_valid_bits ==
    (<<"multiple", "error">> :> "multiple-error-valid")
    @@ (<<"flags">> :> "flags-valid") @@ (<<"error">> :> "error-info-valid")
    @@ (<<"virt">> :> "virt-addr-valid") @@ (<<"virtual">> :> "virt-addr-valid")
    @@ (<<"phy">> :> "phy-addr-valid") @@ (<<"physical">> :> "phy-addr-valid")

(* The suffix lists each call of get_choice passes.                        *)
ValidationSuffixes == << <<"error">>, <<"err">> >>
PeiValidSuffixes   == << <<"valid">>, <<"info">>, <<"", "information">>, <<"", "addr">> >>
TypeSuffixes       == << <<"error">>, <<"err">> >>
FlagsSuffixes      == << <<"error">>, <<"cap">> >>

-----------------------------------------------------------------------------
(* get_choice                                                              *)

\* val.lower()
Lowered(tok) == [i \in DOMAIN tok |-> LowerWord[tok[i]]]

\* Mutant: the suffixes stripped in the reverse of the order given.
StrippedReversed(tok, suffixes) ==
    FoldLeft(LAMBDA t, suf :
                 IF IsSuffix(suf, t) /\ Len(t) > Len(suf)
                 THEN SubSeq(t, 1, Len(t) - Len(suf)) ELSE t,
             tok, Reverse(suffixes))

\* val.removesuffix(suffix): the suffix is cut only when "-" precedes it.
RemoveSuffix(tok, suf) ==
    IF IsSuffix(suf, tok) /\ Len(tok) > Len(suf)
    THEN SubSeq(tok, 1, Len(tok) - Len(suf))
    ELSE tok

\* for suffix in suffixes: val = val.removesuffix(suffix)
Stripped(tok, suffixes) == FoldLeft(RemoveSuffix, tok, suffixes)

\* The key a token is looked up under.
ChoiceKey(tok, suffixes) == Stripped(Lowered(tok), suffixes)

\* Some token is not a key of the table: get_choice calls sys.exit.
ChoiceInvalid(value, choices, suffixes) ==
    \E i \in DOMAIN value : ChoiceKey(value[i], suffixes) \notin DOMAIN choices

\* The canonical tokens get_choice returns when no token is invalid.
GetChoice(value, choices, suffixes) ==
    IF value = << >> THEN << >>
    ELSE [i \in DOMAIN value |-> choices[ChoiceKey(value[i], suffixes)]]

-----------------------------------------------------------------------------
(* Reference definitions, independent of the stripping loop.               *)

\* The suffixes whose indices are in S, appended so that the one stripped
\* first (lowest index) ends the token.
SuffixChainSeq(suffixes, S) ==
    LET order == SetToSortSeq(S, LAMBDA x, y : x > y)
    IN  FlattenSeq([k \in 1..Len(order) |-> suffixes[order[k]]])

\* The aliases a lower-cased token is made of, when it is an alias followed
\* by some of the suffixes (each at most once, and at most maxSuffixes of them).
AliasesOf(tok, choices, suffixes, maxSuffixes) ==
    {a \in DOMAIN choices :
        \E S \in SUBSET DOMAIN suffixes :
            /\ Cardinality(S) <= maxSuffixes
            /\ Lowered(tok) = a \o SuffixChainSeq(suffixes, S)}

=============================================================================
