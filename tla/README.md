# TLA+ models of the ARM processor error-injection tool

The tool builds an ARM processor error record, as the UEFI CPER / GHESv2
model describes it, from command-line options. It sends that record to QEMU's
QMP monitor over TCP as an `arm-inject-error` command.

There are two copies of the tool:

- `src/contrib/qemu_einj.py`. Line numbers below are from this file unless
  marked `util:`.
- `src/util/arm_einj.py`, a near-copy. Its helpers and constructor are the
  same code except for the virtual-address key (util:250). Its transport
  `einj_command` does not insert `qmp_capabilities`; its `run()` lists that
  command itself (util:276-289).

`src/contrib/nvml.py` is an unrelated code generator.

## The system and its parts

| Part | Code | State | Operations |
|---|---|---|---|
| Choice Mapper | `get_choice` (65-85) and the four alias tables of `ArmProcessorEinj.__init__` (183-213) | none (pure) | lower-case a token, strip each suffix of a list in turn, look the result up, or `sys.exit` |
| Index Aggregator | `get_mult_array` (87-124), `get_mult_choices` (126-143), `get_mult_int` (145-167) | the index dictionaries `pei`, `ctx`, `vendor` | for the k-th occurrence of an option, add its values to record k, or `sys.exit` on a bad literal, a negative value or a value above `max_val` |
| Record Assembler / Document Builder | `ArmProcessorEinj.__init__` (174-289) | `self.arm`, the three dictionaries | copy the global options, default the error type, make twelve helper calls in a fixed order, then store `error`, `context` and `vendor-specific` |
| Protocol Transport | `qmp_command` (32-59), called by `run()` (291-301) | socket, command list, printed output | insert `qmp_capabilities`, connect, read the greeting, send and recv for each command, `shutdown(SHUT_WR)`, drain to EOF, close |
| CLI | `arm_handle_args` (307-357), `main` (363-390) | argparse namespace | parse options, construct, run |

The parts are used in this order:

1. argparse hands a namespace to `__init__`.
2. `__init__` passes each option's values to the helpers.
3. The helpers call `get_choice` and fill the dictionaries.
4. `__init__` turns the dictionaries into `self.arm`.
5. `run()` serializes `self.arm` into one command.
6. `qmp_command` talks to QEMU.

Any validation failure calls `sys.exit` before a socket is opened. The whole
program is one thread doing blocking I/O. The only concurrency is between the
tool and the QEMU process at the other end of the socket.

### What makes it hard

- **Grammar.** `get_choice` strips the suffixes one after another, in list
  order. The set of accepted spellings therefore depends on that order, and a
  token can lose more than one suffix.
- **Grouping.** Records are built by occurrence index across independent
  options. `allow_zero` distinguishes `None` (the option is absent) from `[]`
  (the option is given without a value), and the helpers treat the two
  differently.
- **Truthiness.** The integer options are tested with `if x:`, so a value of
  0 counts as "not given".
- **Transport.** Each command is followed by exactly one `recv(1024)`, which
  may return part of a reply or several replies. The drain loop has no
  timeout. QEMU may exit at any moment. A later `sendall` still succeeds and
  draws a reset, but the reset comes a round trip later: a `recv` before it
  returns `b""`, which the code prints as if it were the reply, and only a
  socket call after it raises.

## Modules

| Module | Models | Notes |
|---|---|---|
| `ChoiceMapper.tla` | the alias tables and `get_choice` | Tokens are sequences of their `-`-separated words, and suffixes are the words after their leading `-`. `str.removesuffix` of a `-...` suffix can only cut at a `-`, so this abstraction is exact. `Stripped` is the strip loop as a `FoldLeft`. The reference `AliasesOf` describes the accepted tokens without the loop: an alias followed by a set of suffixes, appended in reverse strip order. |
| `MC_ChoiceMapper.tla` | the four `get_choice` call sites over 13 tokens | Each behaviour resolves one value of up to two tokens against one table. |
| `ArmEinj.tla` | the helpers and `__init__` | Variables: `args` (the namespace), `pc` (the statement of `__init__` about to run), `mult` (the `pei`, `ctx` and `vendor` dictionaries), `arm` (`self.arm`) and `exitField` (the option whose `sys.exit` ended the run). There is one action per statement, in code order: `Globals`, `DefaultType`, `PeiValid` through `Vendor`, then `Store`. Each helper call either updates its dictionary or exits. A literal is `[neg, mag]` when `int(x, 0)` accepts it and `BadLiteral` when it does not. The constant `VirtAddrKey` is the key under which the virtual address is stored. |
| `EinjMain.tla` | `main()` (363-390) and `run()` (290-300): the whole contrib tool | Composes `ArmEinj` (as `C`) and `QmpTransport` (as `T`, with `RunCommands == <<Inject>>` and `Prelude == <<Capabilities>>`). `stage` is where `main()` is: `Main` tests `"arm" in args` (the variable `subcommand`) or exits with the missing-subcommand error; `Construct` is a step of `__init__`; `Run` starts the transport once `__init__` has returned; `Client` and `Environment` are the transport's and the monitor's steps. |
| `MC_EinjMain.tla` | the whole tool for TLC | Two namespaces of the arm subparser, one valid and one with a malformed `--multiple-error`, each with and without the subcommand. |
| `MC_QmpTransport.tla` | the contrib call, for the violation runs | `RunCommands = <<Inject>>`, `Prelude = <<Capabilities>>`. |
| `UtilTransport.tla` | `einj_command` and `run()` of util | An instance of `QmpTransport` with `Prelude <- << >>` and `RunCommands == <<Capabilities, Inject>>`. |
| `MC_EinjArgs.tla` | the sets of namespaces argparse can produce | Each set varies the options of one part of the document. `ArgsWellFormed` (an ASSUME of `ArmEinj`) checks every namespace against the shapes argparse produces: `nargs` `+` or `*`, `type=int`, and the three states of `--running`. |
| `MC_ArmEinj.tla` | the contrib constructor | `ArmEinj` with `QemuVirtAddrKey` (`"virt-addr"`, line 265) and `ArgsConstructor`, the union of the PEI, context/vendor and global sets. |
| `UtilEinj.tla` | `errorInjection.__init__` of util and its helpers (util:107-274) | `ArmEinj` instantiated with `VirAddrKey == "vir-addr"` (util:250), the one literal in which the two copies differ. |
| `MC_UtilEinj.tla` | the util constructor | `UtilEinj` over the PEI namespaces. |
| `QmpSession.tla` | what the transport promises | An abstract session with variables `out` (what the monitor wrote), `shown` (what the tool printed), `done` (the commands answered) and `phase`. The monitor answers the listed commands once each, in order. The tool prints a growing prefix of `out`, and returns only when `shown = out`. |
| `QmpTransport.tla` | `qmp_command` against a QMP monitor | Its constants `RunCommands` (the list `run()` passes) and `Prelude` (what the transport inserts) cover both copies. `ImplementsSession` instantiates `QmpSession` with the refinement mapping `out <- sent`, `shown <- FlattenSeq(printed)`, `done <-` the commands of `replies`, and `phase <-` closed / failed / otherwise. The client (`Connect`, `RecvReply`, `SendCommand`, `Shutdown`, `Drain`, `Close`, and the exception of each socket call) is the code. The server is the environment, written from the QMP protocol (see below). |

The server in `QmpTransport.tla`:

- greets the client;
- answers the commands in order;
- rejects every command except `qmp_capabilities` until the capabilities have
  been negotiated;
- closes the connection on end of input;
- once negotiated, may emit up to `MaxEvents` asynchronous events, including
  in the middle of the exchange;
- may crash, which sends FIN if no input is left unread and a reset otherwise;
- once crashed, answers data that reaches it with a reset (`PeerReset`),
  which the client sees only after that step, so `recv` may return `b""`
  first. The reset is not forced (no fairness).

A reply is written in 1 to `MaxSplit` pieces, and a `recv` returns any
non-empty prefix of the pieces that have arrived.

## Runs

| Run | Expect | What it shows |
|---|---|---|
| `choice_grammar` | pass | `ResolvesByAliasGrammar`: the strip loop accepts exactly the spellings of the reference grammar. This holds at all four call sites, with case folding, for values of up to two tokens. |
| `choice_double_strip` | violation | `StripsAtMostOneSuffix`: `first-cap-error` is accepted as a flag by stripping two suffixes. Spec 9 flags the sequential strip as a potential defect. |
| `constructor` | pass | `TypeOK`, `ErrorRecordsByIndex`, `ContextRecordsByIndex`, `VendorBytesFlattened`, `TopLevelScalarsCopied` and `RejectsExactlyInvalidInput` over 6280 namespaces (55778 states). Each namespace varies the six PEI options, or the context and vendor options, or the global options (with non-zero integers). Error records are built by occurrence index, with the default `cache-error` type, up to three records. A value-less `--ctx-array` gives one empty register list. Vendor bytes are flattened, and 255 and 256 test the `max_val` edge. Each global option given is copied, and `--running` keeps its three states. The run exits exactly when some value is invalid. |
| `context_empty_int` | violation | `ContextRecordsByIndex`: a value-less `--ctx-type` leaves no context record at all. |
| `global_zero` | violation | `TopLevelScalarsCopied`: `--psci 0` is missing from the document. |
| `global_negative` | violation | `RejectsExactlyInvalidInput`: `--affinity -1` is accepted and copied into the document. |
| `util_vir_addr` | violation | `ErrorRecordsByIndex` on `MC_UtilEinj`: the util tool sends the virtual address as `vir-addr`. |
| `program` | pass | The whole tool (`EinjMain`), 607461 states. The transport's `EveryCommandAccepted`, `ImplementsSession` (the refinement of `QmpSession`) and `Terminates` (the process always exits). The monitor may split a message in up to three pieces, merge or delay its replies, emit an event, or crash, and the reset it then draws may reach the client late. |
| `error_info_dropped` | violation | `ErrorInfoSent`: `--error-info 1` leaves the error record without an `error-info` field. |
| `util_transport` | pass | `EveryCommandAccepted`, `Terminates` and `ImplementsSession` for `einj_command` with util's `run()` list. |
| `drain_reset` | violation | `DrainErrorEndsLoop`: a reset during the drain loop raises out of `qmp_command`. |
| `negotiation_eof` | violation | `NegotiationAcknowledged`: QEMU exits during negotiation (TLC's trace: before its greeting; after it is reachable too); `qmp_command` reads `b""` for each reply before the reset arrives, sends the injection, drains and returns normally, with `qmp_capabilities` never acknowledged. |

Every property of a passing run has a mutant in `PROJECT.json`. A mutant is a
plausible bug of the mapped code, and the property catches it:

| Mutant | Property it breaks |
|---|---|
| reversed suffix order | `ResolvesByAliasGrammar` |
| `>=` in the `max_val` test | `RejectsExactlyInvalidInput` |
| a missing `i += 1` | `ErrorRecordsByIndex` |
| the key `multiple_error` for `multiple-error` | `TypeOK` |
| only the last vendor occurrence kept | `VendorBytesFlattened` |
| `--running` tested for truthiness | `TopLevelScalarsCopied` |
| a value-less `--ctx-array` dropped | `ContextRecordsByIndex` |
| capabilities appended instead of inserted | `EveryCommandAccepted` |
| the drain loop omitted | `ImplementsSession` |
| util `run()` listing the injection first | `EveryCommandAccepted` (util) |
| `shutdown` omitted | `Terminates` (both copies) |

The findings (`PROJECT.json`, `findings`) are:

1. The double suffix strip (line 76). The canonical `first-error-cap` is
   itself rejected.
2. `get_mult_int` drops `[]` under `allow_zero` (line 150), where the spec
   says the field is present but empty.
3. Zero-valued `--affinity`, `--mpidr`, `--midr` and `--psci` are dropped
   (lines 231-246). This is a code bug.
4. A reset while draining ends the run with a traceback, not by ending the
   loop.
5. Negative global integers are accepted (line 314), where the spec says
   every negative literal fails.
6. The util copy stores the virtual address under `vir-addr` (util:250),
   unlike the contrib copy and the `virt-addr-valid` bit of its own table.
   This is a code bug.
7. End of stream during negotiation is taken for a reply (line 49). If QEMU
   exits during negotiation, the tool can send the injection, drain and exit
   0 with nothing injected. The spec says negotiation reads the
   acknowledgement and any failure there is reported.
8. `--error-info` is parsed (line 340) but never read, so its value is
   silently dropped, while `error-info-valid` can still be set. The spec
   does not mention the option.

## Bounds, fairness, deadlock

**Bounds.** Values have up to two tokens or two occurrences, since a second
index is where grouping goes wrong; `--type` also comes with three
occurrences, as in spec 8. Literals come in four kinds: valid,
negative, malformed and over the bound.

TLC integers are 32-bit, so the runs use small MPIDR values (256). Nothing in
the code depends on the magnitude.

The transport runs have two commands (`qmp_capabilities` and the injection),
`MaxSplit = 3` and `MaxEvents = 1` (the violation runs use `MaxSplit = 2`,
which already shows them). With these bounds a recv can return:

- part of a reply;
- a reply merged with the next one;
- the rest of the greeting after one or two commands have been sent;
- an event in place of the reply the client waits for.

**Fairness.** `ArmEinj` has none: `__init__` runs to completion, and no
liveness is claimed on its own. `EinjMain` has weak fairness on each step of
`main()` and `__init__`, which a single thread runs without waiting.
`QmpTransport` has weak fairness on the client, which
runs whenever it is not blocked. It also has weak fairness on the non-crash
steps of the server, which stand for a responsive QEMU.

The code has no timeout, so `Terminates` is only claimed for a responsive
monitor. A crash is never forced, and neither is the reset that follows
it: the client moves on without it, on `b""`.

**Deadlock.** Every cfg says `CHECK_DEADLOCK FALSE`. The programs really stop:
`__init__` after `Store` or an exit, `qmp_command` when it is closed or has
failed, and `main()` after the missing-subcommand exit.

## Not modelled

- **The content of the command.** `run()` serializes `self.arm` with
  `json.dumps` into one string, which the transport treats as opaque; in
  `EinjMain` it is the model value `Inject`.
- **`main()` of the util copy.** It is the contrib sequence without the
  subcommand test; its parts are `UtilEinj` and `UtilTransport`.
- **Closing the socket on error paths.** The spec promises it and the code
  does not do it (no `try`/`finally` after line 38). The process exits right
  after the exception, so nothing can observe it. It is listed as a hazard.
- **The spec's end-to-end example (spec 8).** It expects two records from
  `--type cache,bus`. Its own grouping rule (spec 4.2) and the code give one
  record with two types, as `ErrorRecordsByIndex` checks.
- **Host and port.** They only select the monitor: in the model it is
  listening or refuses the connection.
- **`nvml.py`.** It is a stateless text generator.
- **UTF-8 decoding of a chunk split inside a character.** The replies are
  abstracted to pieces with no bytes. A multi-byte character cut by
  `recv(1024)` would make `data.decode` raise, but the model cannot show
  this.

## Plan (by importance)

1. **Two events.** `MaxEvents = 2` with `MaxSplit = 2` runs in seconds; with
   `MaxSplit = 3` it takes over eight minutes.
2. **`--error-info`.** If the record gains the field, add it to
   `ErrorRecordsByIndex` in place of `ErrorInfoSent`.
