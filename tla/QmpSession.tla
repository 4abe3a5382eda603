----------------------------- MODULE QmpSession -----------------------------
(***************************************************************************)
(* What the Protocol Transport promises, seen from outside the socket:    *)
(* the monitor answers the commands of the list exactly once each, in     *)
(* list order; the tool prints what the monitor writes, in order, never   *)
(* a byte twice and never one the monitor did not write; and it returns   *)
(* normally only once it has printed everything the monitor wrote.  It    *)
(* may instead raise at any point.                                         *)
(***************************************************************************)
EXTENDS Sequences, SequencesExt

CONSTANT Commands   \* the commands the tool sends, in order

VARIABLES
    out,    \* everything the monitor has written
    shown,  \* everything the tool has printed, concatenated
    done,   \* the commands the monitor has answered, in order
    phase   \* "open", then "returned" or "raised"

vars == <<out, shown, done, phase>>

Init ==
    /\ out = << >>
    /\ shown = << >>
    /\ done = << >>
    /\ phase = "open"

\* The monitor writes more output (a greeting, or a reply to no command).
Emit ==
    /\ IsStrictPrefix(out, out')
    /\ UNCHANGED <<shown, done, phase>>

\* The monitor answers the next command of the list, writing its reply.
Answer ==
    /\ Len(done) < Len(Commands)
    /\ done' = Append(done, Commands[Len(done) + 1])
    /\ IsStrictPrefix(out, out')
    /\ UNCHANGED <<shown, phase>>

\* The tool prints a further part of what the monitor wrote.
Show ==
    /\ phase = "open"
    /\ IsStrictPrefix(shown, shown')
    /\ IsPrefix(shown', out)
    /\ UNCHANGED <<out, done, phase>>

\* The tool returns, having printed all of it.
Return ==
    /\ phase = "open"
    /\ shown = out
    /\ phase' = "returned"
    /\ UNCHANGED <<out, shown, done>>

\* The tool raises.
Raise ==
    /\ phase = "open"
    /\ phase' = "raised"
    /\ UNCHANGED <<out, shown, done>>

Next == Emit \/ Answer \/ Show \/ Return \/ Raise

Spec == Init /\ [][Next]_vars

=============================================================================
