---------------------------- MODULE QmpTransport ----------------------------
(***************************************************************************)
(* The Protocol Transport of src/contrib/qemu_einj.py: qmp_command(host,   *)
(* port, commands), run against the QEMU QMP monitor at the other end of  *)
(* the TCP connection.                                                     *)
(*                                                                         *)
(* The client is the code: one action per socket call of qmp_command,    *)
(* each including what the code does with its result.  The server is the *)
(* environment, written from the QMP protocol: it greets, answers every  *)
(* command in order (rejecting any command but qmp_capabilities until the *)
(* capabilities are negotiated), closes on end of input, and may crash at *)
(* any point.                                                              *)
(*                                                                         *)
(* Data abstraction.  A server message is written in 1..MaxSplit pieces   *)
(* (a message longer than one recv(1024), or one sent in several TCP       *)
(* segments); a recv returns any non-empty prefix of the pieces that have *)
(* arrived.  What the client prints is the sequence of chunks it read.   *)
(***************************************************************************)
EXTENDS Integers, Sequences, SequencesExt

CONSTANTS
    Capabilities,  \* the command '{ "execute": "qmp_capabilities" } '
    Inject,        \* the arm-inject-error command run() builds
    RunCommands,   \* the list run() passes to the transport function
    Prelude,       \* what the transport function puts before that list
    MaxSplit,      \* the most pieces one server message is written in
    MaxEvents      \* the most asynchronous events the monitor emits

VARIABLES
    commands,  \* the list qmp_command works on (it inserts into it)
    cpc,       \* the client's next step; "closed" or "failed" at the end
    next,      \* index in commands of the command being sent
    sock,      \* the client socket: "none", "open", "wr_shut", "closed"
    printed,   \* the chunks the client printed, in order
    failedAt,  \* the step whose exception ended the run, or "none"
    c2s,       \* client to server in flight: commands, then "EOF"
    s2c,       \* server to client in flight: message pieces
    fin,       \* the server has closed its end (a recv then returns b"")
    rst,       \* the connection was reset (socket calls then raise)
    srv,       \* the QMP server's state
    sent,      \* every piece the server wrote, in order
    replies    \* every reply the server gave: [cmd, ok]

client == <<commands, cpc, next, sock, printed, failedAt>>
net == <<c2s, s2c, fin, rst>>
server == <<srv, sent, replies>>
vars == <<client, net, server>>

Greeting == [kind |-> "greeting", cmd |-> "none"]
Event == [kind |-> "event", cmd |-> "none"]
Reply(cmd, ok) == [kind |-> IF ok THEN "return" ELSE "error", cmd |-> cmd]

Init ==
    /\ commands = RunCommands
    /\ cpc = "connect"
    /\ next = 1
    /\ sock = "none"
    /\ printed = << >>
    /\ failedAt = "none"
    /\ c2s = << >>
    /\ s2c = << >>
    /\ fin = FALSE
    /\ rst = FALSE
    /\ srv \in {"listen", "down"}
    /\ sent = << >>
    /\ replies = << >>

-----------------------------------------------------------------------------
(* The client: qmp_command                                                 *)

\* An exception propagates out of qmp_command; s.close() is not reached.
Fail ==
    /\ cpc' = "failed"
    /\ failedAt' = cpc
    /\ UNCHANGED <<commands, next, sock, printed>>

\* The step after the recv that follows the greeting or command next - 1.
AfterRecv(n) == IF n <= Len(commands) THEN "send" ELSE "shutdown"

\* data = s.recv(1024); print(data): some pieces, b"" at end of stream, or
\* ConnectionResetError.
RecvData ==
    /\ ~rst /\ s2c # << >>
    /\ \E n \in 1..Len(s2c) :
          /\ printed' = Append(printed, SubSeq(s2c, 1, n))
          /\ s2c' = SubSeq(s2c, n + 1, Len(s2c))

RecvEOF ==
    /\ ~rst /\ s2c = << >> /\ fin
    /\ printed' = Append(printed, << >>)
    /\ UNCHANGED s2c

\* Mutant: qmp_capabilities appended after the commands instead of inserted.
ConnectAppended ==
    /\ cpc = "connect"
    /\ commands' = commands \o Prelude
    /\ srv = "listen"
    /\ cpc' = "greeting"
    /\ sock' = "open"
    /\ srv' = "greeting"
    /\ UNCHANGED <<next, printed, failedAt, net, sent, replies>>

\* commands.insert(0, qmp_capabilities); s.connect((host, port))
Connect ==
    /\ cpc = "connect"
    /\ commands' = Prelude \o commands
    /\ \/ /\ srv = "listen"
          /\ cpc' = "greeting"
          /\ sock' = "open"
          /\ srv' = "greeting"
          /\ UNCHANGED <<next, printed, failedAt, net, sent, replies>>
       \/ /\ srv = "down"
          /\ cpc' = "failed"
          /\ failedAt' = "connect"
          /\ UNCHANGED <<next, sock, printed, net, server>>

\* The recv after connecting and the recv after each sendall.
RecvReply ==
    /\ cpc \in {"greeting", "reply"}
    /\ \/ /\ RecvData \/ RecvEOF
          /\ next' = IF cpc = "greeting" THEN next ELSE next + 1
          /\ cpc' = AfterRecv(IF cpc = "greeting" THEN next ELSE next + 1)
          /\ UNCHANGED <<commands, sock, failedAt, c2s, fin, rst, server>>
       \/ /\ rst
          /\ Fail
          /\ UNCHANGED <<net, server>>

\* print(command); s.sendall(command): sendall returns once the kernel has
\* the data, whether or not the monitor is still there to read it.
SendCommand ==
    /\ cpc = "send"
    /\ \/ /\ ~rst
          /\ cpc' = "reply"
          /\ c2s' = Append(c2s, commands[next])
          /\ UNCHANGED <<commands, next, sock, printed, failedAt, s2c, fin, rst, server>>
       \/ /\ rst
          /\ Fail
          /\ UNCHANGED <<net, server>>

\* Mutant: the drain loop omitted; s.close() right after s.shutdown().
ShutdownThenClose ==
    /\ cpc = "shutdown"
    /\ ~rst
    /\ c2s' = Append(c2s, "EOF")
    /\ sock' = "wr_shut"
    /\ cpc' = "close"
    /\ UNCHANGED <<commands, next, printed, failedAt, s2c, fin, rst, server>>

\* Mutant: s.shutdown() left out; the server never sees end of input.
ShutdownOmitted ==
    /\ cpc = "shutdown"
    /\ ~rst
    /\ cpc' = "drain"
    /\ UNCHANGED <<commands, next, sock, printed, failedAt, net, server>>

\* s.shutdown(socket.SHUT_WR): end of input for the server.
Shutdown ==
    /\ cpc = "shutdown"
    /\ \/ /\ ~rst
          /\ c2s' = Append(c2s, "EOF")
          /\ sock' = "wr_shut"
          /\ cpc' = "drain"
          /\ UNCHANGED <<commands, next, printed, failedAt, s2c, fin, rst, server>>
       \/ /\ rst
          /\ Fail
          /\ UNCHANGED <<net, server>>

\* while 1: data = s.recv(1024); if data == b"": break; print(data)
Drain ==
    /\ cpc = "drain"
    /\ \/ /\ RecvData
          /\ UNCHANGED <<commands, cpc, next, sock, failedAt, c2s, fin, rst, server>>
       \/ /\ ~rst /\ s2c = << >> /\ fin
          /\ cpc' = "close"
          /\ UNCHANGED <<commands, next, sock, printed, failedAt, net, server>>
       \/ /\ rst
          /\ Fail
          /\ UNCHANGED <<net, server>>

\* s.close()
Close ==
    /\ cpc = "close"
    /\ sock' = "closed"
    /\ cpc' = "closed"
    /\ UNCHANGED <<commands, next, printed, failedAt, net, server>>

Client == Connect \/ RecvReply \/ SendCommand \/ Shutdown \/ Drain \/ Close

-----------------------------------------------------------------------------
(* The QMP server (the environment).                                       *)

\* The server writes msg in 1..MaxSplit pieces.
Write(msg) ==
    \E n \in 1..MaxSplit :
        LET pieces == [i \in 1..n |-> [msg |-> msg, part |-> i]]
        IN  /\ s2c' = s2c \o pieces
            /\ sent' = sent \o pieces

\* On accepting, the monitor sends its greeting and waits for negotiation.
SrvGreet ==
    /\ srv = "greeting"
    /\ Write(Greeting)
    /\ srv' = "negotiation"
    /\ UNCHANGED <<client, c2s, fin, rst, replies>>

\* Commands are answered one at a time, in order.  Until qmp_capabilities
\* succeeds every other command is rejected; afterwards qmp_capabilities is
\* the one rejected.
SrvHandle ==
    /\ srv \in {"negotiation", "command"}
    /\ c2s # << >> /\ Head(c2s) # "EOF"
    /\ LET cmd == Head(c2s)
           ok == (srv = "negotiation") = (cmd = Capabilities)
       IN  /\ Write(Reply(cmd, ok))
           /\ replies' = Append(replies, [cmd |-> cmd, ok |-> ok])
           /\ srv' = IF ok /\ cmd = Capabilities THEN "command" ELSE srv
    /\ c2s' = Tail(c2s)
    /\ UNCHANGED <<client, fin, rst>>

\* End of input: the monitor closes the connection.
SrvEOF ==
    /\ srv \in {"negotiation", "command"}
    /\ c2s # << >> /\ Head(c2s) = "EOF"
    /\ c2s' = Tail(c2s)
    /\ srv' = "closed"
    /\ fin' = TRUE
    /\ UNCHANGED <<client, s2c, rst, sent, replies>>

\* Once capabilities are negotiated the monitor may emit an asynchronous
\* event at any moment, between or inside the replies the client awaits.
SrvEvent ==
    /\ srv = "command"
    /\ Len(SelectSeq(sent, LAMBDA p : p.msg = Event /\ p.part = 1)) < MaxEvents
    /\ Write(Event)
    /\ UNCHANGED <<client, c2s, fin, rst, srv, replies>>

\* QEMU exits.  Its kernel sends FIN, or a reset when input was left unread
\* (the reset discards what the client had not read).
SrvCrash ==
    /\ srv \in {"greeting", "negotiation", "command"}
    /\ srv' = "crashed"
    /\ IF c2s = << >>
       THEN /\ fin' = TRUE
            /\ UNCHANGED <<s2c, rst>>
       ELSE /\ rst' = TRUE
            /\ s2c' = << >>
            /\ UNCHANGED fin
    /\ c2s' = << >>
    /\ UNCHANGED <<client, sent, replies>>

\* Data reaching the host of a monitor that has exited draws a reset, which
\* discards what the client had not read yet.  It arrives one round trip
\* after the sendall, so a recv may first return what was left, or b"".
PeerReset ==
    /\ srv = "crashed"
    /\ c2s # << >>
    /\ rst' = TRUE
    /\ s2c' = << >>
    /\ c2s' = << >>
    /\ UNCHANGED <<client, fin, server>>

Server == SrvGreet \/ SrvHandle \/ SrvEOF

Next == Client \/ Server \/ SrvEvent \/ SrvCrash \/ PeerReset

\* The client runs whenever a step is enabled.  A running monitor answers
\* (fairness on Server); an event or a crash is never forced, nor is a
\* reset needed for the client to move on.
Spec == Init /\ [][Next]_vars /\ WF_vars(Client) /\ WF_vars(Server)

-----------------------------------------------------------------------------
(* Properties                                                              *)

Done == cpc \in {"closed", "failed"}

\* The monitor accepts every command qmp_command sends: qmp_capabilities is
\* inserted ahead of run()'s arm-inject-error, so the error is never
\* rejected for want of negotiation, whatever the server's timing.
EveryCommandAccepted == \A i \in DOMAIN replies : replies[i].ok

\* qmp_command implements the session QmpSession describes: the monitor
\* answers the commands of the list (capabilities first) once each and in
\* order, and the tool prints the monitor's output in order, without loss
\* or repetition, returning only after printing all of it.  The lockstep
\* recv after each command may take a reply in part, or several at once;
\* the drain loop must print the rest.
Session == INSTANCE QmpSession WITH
    Commands <- Prelude \o RunCommands,
    out <- sent,
    shown <- FlattenSeq(printed),
    done <- [i \in DOMAIN replies |-> replies[i].cmd],
    phase <- CASE cpc = "closed" -> "returned"
               [] cpc = "failed" -> "raised"
               [] OTHER -> "open"

ImplementsSession == Session!Spec

\* qmp_command returns or raises: no recv blocks forever while the monitor
\* keeps answering (the code has no timeout).
Terminates == <>Done

\* The spec (Negotiating, Failure semantics, Exit codes): qmp_command
\* returns normally only once the monitor has acknowledged qmp_capabilities;
\* a monitor gone before that is an error reported to the operator.  The
\* code takes the b"" of a closed connection for the acknowledgement and
\* goes on sending.
NegotiationAcknowledged ==
    cpc = "closed" =>
        \E i \in DOMAIN replies : replies[i] = [cmd |-> Capabilities, ok |-> TRUE]

\* The spec (Draining): an error while draining ends the loop as end of
\* stream does.  The code lets the ConnectionResetError of s.recv propagate.
DrainErrorEndsLoop == failedAt # "drain"

=============================================================================
