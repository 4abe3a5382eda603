------------------------------ MODULE EinjMain ------------------------------
(***************************************************************************)
(* The whole contrib tool, src/contrib/qemu_einj.py: main() dispatches on  *)
(* the arm subcommand, ArmProcessorEinj(args) builds the document (the     *)
(* ArmEinj model), and run() hands the one arm-inject-error command to    *)
(* qmp_command (the QmpTransport model) against the QMP monitor.          *)
(*                                                                         *)
(* The two components meet once: the transport starts only after the      *)
(* constructor has returned.  run() serializes self.arm with json.dumps   *)
(* into the command Inject, which the transport treats as opaque.          *)
(***************************************************************************)
CONSTANTS
    Words, LowerWord, None, BadLiteral, VirtAddrKey, ArgsDomain,
    Capabilities,  \* '{ "execute": "qmp_capabilities" } '
    Inject,        \* the command run() builds around json.dumps(self.arm)
    MaxSplit, MaxEvents

VARIABLES
    stage,       \* main(): "main", "missing" (sys.exit), "construct", "run"
    subcommand,  \* the arm subcommand was on the command line
    args, pc, mult, arm, exitField,
    commands, cpc, next, sock, printed, failedAt,
    c2s, s2c, fin, rst, srv, sent, replies

cvars == <<args, pc, mult, arm, exitField>>
tvars == <<commands, cpc, next, sock, printed, failedAt,
           c2s, s2c, fin, rst, srv, sent, replies>>
vars == <<stage, subcommand, cvars, tvars>>

\* run(): commands = [command], the injection around json.dumps(self.arm).
RunCommands == <<Inject>>

\* qmp_command: commands.insert(0, '{ "execute": "qmp_capabilities" } ').
Prelude == <<Capabilities>>

C == INSTANCE ArmEinj
T == INSTANCE QmpTransport

\* parser.parse_args(): a namespace of the arm subparser, or one without it.
Init ==
    /\ stage = "main"
    /\ subcommand \in BOOLEAN
    /\ C!Init
    /\ T!Init

\* if "arm" in args: einj = ArmProcessorEinj(args) ...
\* else: sys.exit("Error: type of error injection missing.")
\* Only the arm subparser defines a dest "arm", so the test is true exactly
\* when the subcommand was given, whatever --arm holds.
Main ==
    /\ stage = "main"
    /\ stage' = IF subcommand THEN "construct" ELSE "missing"
    /\ UNCHANGED <<subcommand, cvars, tvars>>

\* A statement of ArmProcessorEinj.__init__.
Construct ==
    /\ stage = "construct"
    /\ C!Next
    /\ UNCHANGED <<stage, subcommand, tvars>>

\* einj.run(args.host, args.port): __init__ returned, the command is built
\* and qmp_command called.
Run ==
    /\ stage = "construct"
    /\ pc = "done"
    /\ stage' = "run"
    /\ UNCHANGED <<subcommand, cvars, tvars>>

\* A step of qmp_command, or of the monitor and the network.
Client ==
    /\ stage = "run"
    /\ T!Client
    /\ UNCHANGED <<stage, subcommand, cvars>>

Environment ==
    /\ stage = "run"
    /\ T!Server \/ T!SrvEvent \/ T!SrvCrash \/ T!PeerReset
    /\ UNCHANGED <<stage, subcommand, cvars>>

Next == Main \/ Construct \/ Run \/ Client \/ Environment

\* The process runs whenever it is not blocked; a running monitor answers.
Spec ==
    /\ Init /\ [][Next]_vars
    /\ WF_vars(Main) /\ WF_vars(Construct) /\ WF_vars(Run) /\ WF_vars(Client)
    /\ WF_vars(stage = "run" /\ T!Server /\ UNCHANGED <<stage, subcommand, cvars>>)

-----------------------------------------------------------------------------
(* Properties                                                              *)

\* The process has exited: the missing-subcommand error, a sys.exit of the
\* constructor, or qmp_command returned or raised.
Ended ==
    \/ stage = "missing"
    \/ pc = "exit"
    \/ stage = "run" /\ T!Done

\* The transport's properties, in the whole program.
EveryCommandAccepted == T!EveryCommandAccepted
ImplementsSession == T!ImplementsSession

\* The tool always exits: no step of main(), __init__ or qmp_command waits
\* forever while the monitor keeps answering.
Terminates == <>Ended

=============================================================================
