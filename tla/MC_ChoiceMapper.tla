--------------------------- MODULE MC_ChoiceMapper ---------------------------
(***************************************************************************)
(* Checks get_choice against the alias grammar of its tables: one call     *)
(* of get_choice per behaviour, on every option value of up to two tokens  *)
(* drawn from Tokens, for each of the four fields that call it.           *)
(***************************************************************************)
EXTENDS ChoiceMapper, TLC

MCWords == {"cache", "Cache", "bus", "first", "FIRST", "error", "err", "cap",
            "info", "valid", "virt", "addr", "micro", "arch", "mpidr", "bogus", ""}

MCLowerWord == [w \in MCWords |->
                   CASE w = "Cache" -> "cache"
                     [] w = "FIRST" -> "first"
                     [] OTHER       -> w]

\* Tokens: canonical aliases, aliases with one or two suffixes in either
\* order, a canonical protocol name, "--addr" with and without its double dash.
Tokens == { <<"Cache">>, <<"cache", "err">>, <<"cache", "err", "error">>,
            <<"FIRST", "error">>, <<"first", "error", "cap">>, <<"first", "cap", "error">>,
            <<"error", "info", "valid">>, <<"virt", "addr">>, <<"virt", "", "addr">>,
            <<"micro", "arch", "error">>, <<"mpidr", "err">>, <<"bogus">>, <<"">> }

\* The call sites of get_choice: table and suffix list of each field.
Table == ("arm" :> ARM_valid_bits) @@ ("pei-valid" :> PEI_valid_bits)
         @@ ("type" :> PEI_error_types) @@ ("flags" :> PEI_flags)
SuffixesOf == ("arm" :> ValidationSuffixes) @@ ("pei-valid" :> PeiValidSuffixes)
              @@ ("type" :> TypeSuffixes) @@ ("flags" :> FlagsSuffixes)

VARIABLES field, value, result
vars == <<field, value, result>>

Init == /\ field \in DOMAIN Table
        /\ value \in SeqOf(Tokens, 2)
        /\ result = [status |-> "pending", tokens |-> << >>]

\* get_choice returns the canonical tokens.
ResolveAccepted ==
    /\ result.status = "pending"
    /\ ~ChoiceInvalid(value, Table[field], SuffixesOf[field])
    /\ result' = [status |-> "ok",
                   tokens |-> GetChoice(value, Table[field], SuffixesOf[field])]
    /\ UNCHANGED <<field, value>>

\* get_choice calls sys.exit on the first token that is not in the table.
ResolveRejected ==
    /\ result.status = "pending"
    /\ ChoiceInvalid(value, Table[field], SuffixesOf[field])
    /\ result' = [result EXCEPT !.status = "invalid"]
    /\ UNCHANGED <<field, value>>

Next == ResolveAccepted \/ ResolveRejected
Spec == Init /\ [][Next]_vars

\* get_choice accepts exactly the tokens that are an alias followed by some
\* of the field's suffixes (appended in the reverse of the order the loop
\* strips them, each at most once), and maps each, in input order, to the
\* canonical value of that alias.
ResolvesByAliasGrammar ==
    result.status # "pending" =>
        LET aliases(i) == AliasesOf(value[i], Table[field], SuffixesOf[field],
                                    Len(SuffixesOf[field]))
        IN  IF \E i \in DOMAIN value : aliases(i) = {}
            THEN result.status = "invalid"
            ELSE /\ result.status = "ok"
                 /\ Len(result.tokens) = Len(value)
                 /\ \A i \in DOMAIN value :
                        \A a \in aliases(i) : result.tokens[i] = Table[field][a]

\* Spec 4.1 and 9: a token has at most one suffix stripped; the sequential
\* strip of get_choice must not accept a token by removing a second suffix
\* chained after the first.
StripsAtMostOneSuffix ==
    result.status = "ok" =>
        \A i \in DOMAIN value :
            AliasesOf(value[i], Table[field], SuffixesOf[field], 1) # {}
=============================================================================
