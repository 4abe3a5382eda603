---------------------------- MODULE UtilTransport ----------------------------
(***************************************************************************)
(* The Protocol Transport of src/util/arm_einj.py.  einj_command is        *)
(* qmp_command without the insert: errorInjection.run() itself puts        *)
(* qmp_capabilities in the list, ahead of the arm-inject-error command.   *)
(***************************************************************************)
EXTENDS Sequences

CONSTANTS Capabilities, Inject, MaxSplit, MaxEvents

VARIABLES commands, cpc, next, sock, printed, failedAt,
          c2s, s2c, fin, rst, srv, sent, replies

vars == <<commands, cpc, next, sock, printed, failedAt,
          c2s, s2c, fin, rst, srv, sent, replies>>

\* Mutant: the injection appended before the capabilities command.
RunCommandsReversed == <<Inject, Capabilities>>

\* run(): commands.append(qmp_capabilities); commands.append(command)
RunCommands == <<Capabilities, Inject>>

T == INSTANCE QmpTransport WITH Prelude <- << >>

\* einj_command(host, port, commands)
EinjCommand == T!Client

Init == T!Init

Next == EinjCommand \/ T!Server \/ T!SrvEvent \/ T!SrvCrash \/ T!PeerReset

Spec == Init /\ [][Next]_vars /\ WF_vars(EinjCommand) /\ WF_vars(T!Server)

\* As for qmp_command (QmpTransport): every command run() lists is accepted,
\* the session QmpSession describes is implemented, and einj_command
\* returns or raises while the monitor keeps answering.
EveryCommandAccepted == T!EveryCommandAccepted

ImplementsSession == T!ImplementsSession

Terminates == T!Terminates

=============================================================================
