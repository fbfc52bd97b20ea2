# A formal model of colo-manage-tools

colo-manage-tools runs fault-tolerant virtual machines on a pair of hosts (QEMU COLO: a primary vm and a secondary
that can take over). On each host runs a daemon, `colod`; an operator gives it commands with `colo_manage_tools`, and
the two daemons call each other. This directory models the tool, the daemons, the bytes and files between them and
the two vms they start in TLA+, checks the model with TLC and proves properties of it with TLAPS. Paths below are relative to the root of the repository.

## The system

| part | source | state | operations |
|---|---|---|---|
| call layer | `include/buttonrpc.hpp` (on ZeroMQ) | the client's REQ socket, `m_error_code`; the server's REP socket | `as_client`, `call` / `net_call`, `run` |
| save file | `src/utils/config_parser.cpp`, `src/utils/domain.cpp`, `save_domain_info` | `/usr/local/etc/colod/save.yaml`: the domains, `save_status` | load all, change, write all |
| daemon, one host | `src/utils/colod_service.cpp`, `src/utils/runvm.cpp`, `src/colod.cpp` | `rs.domains`, the children of colod | define, undefine, list, domain-test, start, destroy, vm-status |
| daemon, the pair | `src/utils/colod_service.cpp`, `src/utils/colod_server.cpp` | `rs.current_status`, `remote_client`, `remote_client_init`, `peer_init` | connect-peer, connect-status, colo-enable, colo-disable, start --colo, destroy, do-failover, set-params; `peer-*` for the other daemon |
| QMP client | `src/utils/colod_utils.cpp`, `send_qmp_cmds` | one TCP connection at a time, port 4444 | connect, send, receive |
| tool | `src/main.cpp`, `include/commandline.h`, `colo_enable` in `src/utils/domain.cpp` | none | one command per invocation; colo-enable also reads the save file and copies files |
| wire format | `include/Serializer.hpp`, `call` and `run` in `include/buttonrpc.hpp` | none | function name, arguments and answer to bytes and back |
| definitions | `vm_config_parse`, `generate_*` in `src/utils/domain.cpp`, `include/domain.h` | none | definition file to record, record to QEMU command lines and QMP commands |

How they interact. `colod` has one thread: `buttonrpc::run` receives a request (from the tool or from the other
daemon, both on port 5678), runs its handler to the end, and answers. A handler may itself call the other daemon with
`remote_client` and then blocks for up to 20 s, during which its own server is deaf. Every change of a domain rewrites
the save file. Virtual machines are children of colod that it never waits for.

What is hard about it:

- the caller's timeout does not cancel the request: the peer executes it later, and its answer is still delivered to
  the socket, where a later call finds it;
- a REQ socket must alternate send and receive, `m_error_code` is how `net_call` knows which is next, and any
  disagreement of the two is an exception nobody catches;
- two daemons can call each other at the same moment;
- what a handler checks before its call is used up to 20 s later;
- memory, save file and process table are three records of the same fact, written one after the other, and each of
  the writes truncates the file first;
- pids are kept across restarts of colod and can belong to another process then;
- `rs.domains[name]` inserts an entry (empty name, pid 0) when it is asked for an unknown domain, and `kill(0, 0)`
  succeeds.

- a vm answers QMP only after the character devices of its command line are open, one of them waits for the other
  vm, and `qmp_recv` has no timeout and takes an event for an answer;
- both hosts work out both hosts' addresses on their own, and the two command lines must fit;
- an argument of the tool, or an argument of a call, that is not what its reader expects shifts the meaning of all
  that follow it;
- the tool reads the save file while colod may be writing it, and a definition file that define may be writing, and
  yaml-cpp throws on what is not there.

What makes the parts correct: the call layer matches answers to calls and never blocks for ever; the host's daemon
kills only what it started and its two records agree; the pair keeps opposite roles, starts the peer's vm first, relies
only on what still holds, and every command returns; the tool asks for what was typed and prints the answer to it; the
save file reads back as what was written; the two vms find each other, in the right order.

## The modules

| module | models | state |
|---|---|---|
| `ColoTypes` | `config.h`, `colod.h`, the two role maps | none |
| `SaveFile` (EXTENDS `ColoTypes`) | each function on the domains list, as an operator from contents to contents | none |
| `ButtonRpc` | `as_client`, `net_call`, `run`, the throwing receive of `zmq.hpp`, crash and start of a daemon | `up, sock, m_error_code, calling, req, rep, closed` |
| `ColodHost` (EXTENDS `SaveFile`) | the commands of one host, `test_domain_status`, `run_new_vm`, `destroy_domain`, processes, crash, `rs_init` | `up, domains, file, procs` |
| `ColodPair` (EXTENDS `ColodHost`, INSTANCEs `ButtonRpc`) | the commands that call the peer and the handlers that serve it | the above, `local_status, peer_init, remote_client_init, save_status, cleared, task` |
| `Yaml` | the node access and conversions of yaml-cpp and what of it throws | none |
| `SaveFileSpec` (EXTENDS `SaveFile`) | abstract: the save file as the state machine the functions of `SaveFile` make of it | `file` |
| `SaveList` (EXTENDS `SaveFile`, `Yaml`, INSTANCEs `SaveFileSpec`) | the same functions as they walk and write the YAML list, `save_colo_status`, a write in two steps | `disk, after, file, cut` |
| `CommandLine` | `cmdline::parser` as the tool uses it | none |
| `Wire` | `Serializer`, the messages of `call` and `run` | none |
| `ColoTool` (EXTENDS `CommandLine`, `Wire`, `SaveList`) | one run of the tool beside a colod and its other callers | `pc, argv, parsed, request, m_error_code, handling, reply, served, said`, `definition, defining, torn, copied` and the above |
| `VmDefinition` (EXTENDS `Yaml`) | `vm_config_parse`, `vm_define` | none |
| `ColoWiring` (EXTENDS `VmDefinition`) | what the two command lines and the QMP lists name: devices, objects, addresses, ports | none |
| `VmStart` (EXTENDS `ColoWiring`) | `colod_start` and its two calls, `send_qmp_cmds`, `qmp_socket`, set-params, do-failover, with the two vms (QEMU, external) | `definition, defined, up, local_status, entry, task, asked, reply, answer, conv, vm, started, events` |
| `MCRpc`, `MCHost`, `MCPair`, `MCTool`, `MCVmStart` | values of the constants and budgets for TLC | `spent` |
| `ButtonRpc_proofs`, `ColodHost_proofs`, `ColodPair_proofs`, `SaveList_proofs`, `CommandLine_proofs`, `Wire_proofs`, `ColoTool_proofs`, `VmStart_proofs` | theorems with TLAPS proofs | |

Correspondence:

- A command of one host is one action: its handler is not interrupted.
- A handler that calls the peer is cut at the call and at the sleep before a QMP exchange, where the other host and the
  processes go on. `task[n]` is the place where the handler of `n` stands, with the locals it uses later (`cur` is
  `cur_status` of `colod_start`). `Free(n)` is colod at the receive of `run`; commands and handlers need it.
  Thus `colod_start(..., true)` is `colod_start_colo`, `call`, then one of `start_answered`, `start_fork_fails`,
  `refused`, `timed_out`, then `own_qmp` (secondary only), a second `call` and `status_or_qmp_answered`.
- `net_call` is `Rpc!net_call` (send, unless the last call timed out) and then `Rpc!recv_reply` or `Rpc!recv_timeout`.
  `BadCall` is the state in which the ZeroMQ socket throws; `call_throws` is the end of colod.
- The handler of a call is a `peer_*` action with `n` the caller: it takes the request (`Rpc!run`) and changes the state
  of `Peer[n]`. `ServeWithNewSocket` is `peer-save-status` on a daemon that has no client socket yet. A request of a
  socket that `connect-peer` closed is in `closed[n]`: ZeroMQ delivers it all the same and drops its answer.
- `rs.domains` is a function on all names; a name that is not in the map has `ZeroEntry`, because that is what
  `operator[]` yields. The list of the save file is a function too: names are distinct in it and no function depends on
  its order.
- `config_file_path` is a Boolean, whether the path is non-empty: in the daemons that is what decides whether
  `YAML::LoadFile` throws. There a definition file that was defined is assumed whole and, on the peer, to be where the
  entry says (both sample configurations give both hosts the same directory); colod reads it in the thread that writes
  it. The states of the file itself, which another process can meet, are in `ColoTool`.
- A process is free, a vm, a zombie or not ours; `child` says that its parent is the colod that runs now. Zombies keep
  their pid until colod ends, because it never waits for them.
- A crash can happen at any state, with the save file as it was or truncated. Inside a handler that does two things
  are `ColodCrashInStart`, `CrashAfterFork` (between fork and `save_domain_pid`), `ColodCrashInDestroy`,
  `crash_in_destroy` (between `remove_domain_pid` and the kill) and `crash_in_peer_save` (between the two writes of
  `peer_colod_save_domain`). `call_throws`, `*_throws` are the exceptions that end colod. What its end does to the
  messages on the way is chosen freely: whether what it sent arrives (`sent`) and whether what was sent to it waits for
  the next colod (`kept`), but when it ends in the handler of a call, that call ends with it and `kept` is `FALSE`.

- `ColodPair` and `VmStart` share `colod_start` and `colod_do_failover`. The first has the calls, processes and the
  save file in detail and a QMP conversation as one choice between success and failure; the second has the
  conversation message by message with the vms, and of the call layer only that a call is answered, times out or is
  not made. `task[n]` is the handler colod is in, `conv[n]` the conversation: the commands, how many were sent
  (`next`), how many the vm has executed (`done`) and how many answers wait to be read (`inbox`). Answers carry no
  content, because `qmp_recv` looks at none.
- `VmStart` has one start per behaviour that is not refused; `started` remembers its host.
- A definition in `VmStart` is a YAML document. `Fields` lists, in the order of `vm_config_parse`, the test and the
  conversion of each field; the first that fails is the result. `generate_*` return the parts of a command line that
  something else refers to. `Fits` compares them, and the commands, from the outside.
- A vm (QEMU) opens the chardevs in the order of the command line (`vm_opens`: `wait=on` waits for its client), greets
  on the QMP socket, executes the commands that reached it in order, and refuses those whose object is missing or in
  use. `vm_event` is any event it sends of its own accord.
- In `Wire` a message is a sequence of cells: a number is one cell, a text is its length modulo `LenMod` (2^16 in the
  code) and that many characters. The spare cells are the bytes of `net_call` and `run` that count a terminating 0.
- A command line in `CommandLine` is a sequence of tokens by shape: `--name`, `--name=value`, a bundle of letters, a
  plain argument. Each case of `parse` is a case of `Scan`, which takes one token and what the ones before it left.
- In `SaveList` the file is a document, and a write is `Truncate` followed by `WriteOut` or by the end of colod
  (`EndsInWrite`). The variable `file` is the abstract state: the records of the last complete document, by name.
- `ColoTool` reads `disk` at any moment of a write: its steps `get_domain`, `get_domain_config_file_path` and
  `transfer` each load the file again, as the functions of the tool do. `load_definition` is the second half of the
  code's `get_domain`: the record was found in one file, the definition is read from another, and both may have changed
  in between. A definition file is not there, empty or whole; `define_truncates`, `define_writes` and `define_saves` are
  `save_new_vm_file` and the `save_domain_info` after it, and `Crashes` can come between any two of them (`torn`).
  `peer_transfers` is the copy the tool of the other host makes to here (`copied`).

Operators named as not being the code (`recv_timeout_relaxed`, `domains_init_by_status`, ...) stand beside the
definition they vary. They show that the properties depend on that definition; nothing uses them.

## The runs

Deadlock is checked in `host`, whose state space is complete. The other runs have budgets (`spent` counts them), at
the end of which a system at rest has no step left, so their cfg says `CHECK_DEADLOCK FALSE`; that no command waits
for ever is `TaskEnds` and `CallReturns`.

| run | bounds | properties | shows |
|---|---|---|---|
| `rpc` | 2 hosts, 2 calls, 4 calls made, 3 fresh sockets, 1 crash, any number of timeouts; 13,709 states | `RpcTypeOK`, `SendReady`, `OneOutstanding`, `AnswerMatches`, `CallReturns`, `RequestTaken` | the call layer: the socket and the error code agree; an answer is to its call unless the call before timed out |
| `host` | 1 host, 2 domains, 3 pids, nothing else bounded; 4,293 states (symmetry of pids and domains) | `HostTypeOK`, `KillTarget`, `NoForeignKill`, `VmStaysRecorded`, `RegistryMatchesFile` | destroy never kills a process of somebody else, whatever restarts and reuses there are; only define forgets a vm that runs |
| `pair_faults` | 1 domain, 2 pids per host, 3 commands, 1 timeout, 1 crash, 1 process event, from a connected pair with an enabled domain; 418,060 states | `PairTypeOK`, `KillTarget`, `CheckedWhenUsed`, `EnabledIsSaved`, `SecondCallSafe`, `PairVmStaysRecorded` | what was checked before a call holds after it; no start forks over a vm that runs; what memory calls enabled is enabled in the file, after a failed colo-enable too (the file may still say it of a domain memory does not, when a second colo-enable failed) |
| `pair_quiet` | 1 domain, 2 pids, 5 commands and 2 connects on either host, 1 process event, no timeout, no crash, from a fresh installation; 465,734 states | `RolesOpposite`, `DomainRolesOpposite`, `PeerVmFirst` | without failures roles are opposite and the peer's vm starts first, whatever the two operators do until two calls cross: without timeouts such calls block for ever, and what they would come to is not in this run |
| `pair_live` | 2 commands, 1 connect and 1 bad configuration (both may turn the roles round), 4 timeouts; no symmetry; 66,012 states | `TaskEnds` | every command returns, also when the daemons call each other |
| `pair_restart` | 3 commands, 1 connect, 1 crash; 268,483 states | `KillTarget`, `RegistryMatchesFile`, `EnabledIsSaved` | the life of a pair across a restart of one daemon |
| `tool` | every command line of at most 3 of 14 tokens and one line or more per command, texts cut at 3 characters with names of 0 to 4, 2 domains; while the tool's colo-enable has files to read, other callers' define, undefine, peer-save-domain, connect-peer, start and destroy, and the other host's tool, which copies one domain's definition to here; any number of these, of ends of colod anywhere and of timeouts; 724,093 states | `MeansWhatItSays`, `HandlerGetsWhatWasTyped`, `SaidIsTheAnswer`, `ReadersAgree`, `ExceptionOnlyOnCutFile`, `ListKeepsPromise` | from the arguments to the printed answer; the YAML list implements the abstract save file; what the tool reads can throw for a file that is being written or was left cut, and for nothing else: it never finds a record whose definition is not there |
| `vm_start` | 2 hosts, 1 domain, either starts, with and without colo; 1 further command (a start that is refused counts), 1 death of a vm, 1 event, timeouts; the shipped definition, each one that differs in one place and the example of `README.md`; 161,021 states | `MissingIsRefused`, `ChannelsMeet`, `MirrorAfterExport`, `AnsweredWhenGiven`, `FailoverTakesApart`, `StartReturns` | the two vms find each other, in the right order, and colod comes back |
| `late_answer` | 3 commands, 1 timeout | `PeerVmFirst` **violated** | finding 1 |
| `reconnect` | 2 commands, 1 connect, 1 timeout | `ConnectPeerSafe` **violated** | finding 2 |
| `failover_again` | 3 commands | `FailoverAvailable` **violated** | finding 3 |
| `restart_destroy` | as `host` | `RunningIsDestroyable` **violated** | finding 4 |

Why the bounds are enough. The call layer has one call per host at a time, and the longest dependence between calls is
from a call that timed out to the next: four calls have a timeout, a stale answer, and two calls after it, on either
side. A host with two domains and three pids has every relation between a recorded and a used pid. The five commands of
`pair_quiet` are define, domain-test, colo-enable, start, destroy (the connects are extra). Two commands meet in
`pair_live`, and a command makes at most two calls, so four timeouts end all of them.
`tool`: the parser keeps no more than one token of context, so three tokens have every pair with one before or after it;
the names go below, at and above the length that is cut. Names in the file are of one character. `vm_start`: with more
than one start the second only meets refusals or what `ColodPair` has; a definition with one wrong place shows each
test of `vm_config_parse`, which returns at the first. The definitions tried: the shipped `default_domain.yaml`, and it
with any one field missing, null, a word, a map, a sequence, with a port that is too large, a name that is reserved,
another operating system, another QMP port; and the example the repository's README shows. Starts and further commands are tried on those that can be defined and
mean something else to the vms. The roles of the two daemons may have changed since the domain was enabled.

`ListKeepsPromise` is the refinement of `SaveFileSpec` by `SaveList`, along every write the tool's environment does.
`ChannelsMeet` and `FailoverTakesApart` ask for definitions whose ports are paired as the README's sample pairs them
(`PortsPaired`) and for roles the domain was enabled under (`Paired`); what happens without is listed below. The order of
a start asks for less: an accepted definition of an operating system the code knows (`Whole`).

### What the violations show

1. `late_answer`: connect-status times out; its answer arrives later; `start --colo` sends nothing, because the last
   call timed out (`include/buttonrpc.hpp:343`), takes that answer for its own and starts the own vm. The peer was
   never asked, against the order written in `colod_start` ("start peer vm", "start host vm").
2. `reconnect`: after the same timeout, `connect-peer` makes a fresh socket, `net_call` still skips the send, and
   receiving on a socket that sent nothing throws. Nothing catches it: colod ends, on the command the messages tell the
   operator to use.
3. `failover_again`: do-failover on the secondary sets its status to failover before it reaches the vm; when the QMP
   connection fails, no later do-failover is accepted.
4. `restart_destroy`: `domains_init` looks the status up by the domain's name (`src/utils/config_parser.cpp:137`), so
   after a restart a running vm counts as shut off and destroy refuses it.

### What else was met while modelling

Each of these is in the model, and most are why a property has the condition it has. Only the first contradicts a
sentence of the repository.

- The definition the repository's README shows ("Here is an example.", line 49) has no `os.OS` and no `display`;
  `vm_config_parse` asks for both (`src/utils/domain.cpp:53` and `:99`), so define refuses it. It is one of the
  definitions tried in `vm_start`, where `MissingIsRefused` speaks of it. The shipped `config/default_domain.yaml`
  has both.
- do-failover on the secondary while the primary is starting removes `red1`, for which the primary vm waits at
  `compare1`: the primary's colod stays in `qmp_recv`. More generally do-failover or set-params on a vm whose partner
  never came up hangs colod (`StartReturns` excludes failover under way, `Coupled`).
- An event counts as an answer. With one event, success can be answered before the last command was executed
  (`AnsweredWhenGiven` asks for none). The order of the commands survives one event, because the last command of the
  secondary's list depends on nothing that follows it (`MirrorAfterExport` asks for at most one); with two, the
  command that exports the disk can still be unread when the primary is told to mirror to it.
- When the secondary starts, `peer-send-qmpcmds` for the primary sends nothing and success is answered
  (`colod_service.cpp:938`).
- The vm's QMP port is `telnet_port` of the definition, colod's is always 4444.
- An operating system other than `linux` and `windows` gives a vm without disk and net, and success.
- With node roles other than at colo-enable, the primary vm is told to listen at the peer's address and ends.
- set-params on the secondary answers success for `comp0`, an object only the primary has.
- A value of the wrong kind in a definition is an exception that ends colod; one that is missing is an answer
  (`MissingIsRefused`).
- define empties the definition file before it writes it, and the tool of colo-enable can read it then, or after colod
  ended in between: `vm_config_parse` converts the name it does not find, and the tool ends with an exception
  (`ExceptionOnlyOnCutFile` says when; `domain.cpp:382`, `:451`, `:11`).
- A colo-enable of an enabled domain that fails leaves it enabled in the save file and not in memory.
- A text over 65,535 bytes is sent with its length modulo 65,536 and as many of its characters; the values after it
  arrive whole (`HandlerGetsWhatWasTyped`).
- The tool sends colo-enable although its own part failed, because the domain is not in the save file, say.

## Fairness

`FairRpcSpec`: weak fairness of the end of a receive, because `ZMQ_RCVTIMEO` is 20 s (`set_timeout(20000)`), and
strong fairness of the server taking a request, because a REP socket takes requests from its connections in turn and
the server returns to its receive after each handler. `FairPairSpec`: weak fairness of `Continue(n)`, the steps of a
handler under way, because colod's thread runs and every receive of `net_call` ends. It includes `own_qmp`: the vm
answers, or the connection fails. A vm that accepts the connection and stays silent would stop colod for ever, since
that receive has no timeout. `MCVmStart` has the vms: weak fairness of each colod's step
(`ColodStep(n)`: its one thread runs whenever there is something to receive) and of each vm's (`VmStep(n)`: QEMU's main loop),
and none of timeouts, events, deaths and commands. `StartReturns` therefore says that a start ends by its own order and not
because a call timed out. No fairness is assumed of operators, processes, crashes or restarts.

## What is proved

For every value of the constants (any hosts, domains, pids, calls, options, texts and documents, finite or not, unless
an assumption says so), from the named assumptions, which TLC evaluates on the instances of the runs:
`PeerAssumption` (hosts come in a pair), `CallAssumption`, `NameAssumption`, `PidAssumption`, `NoneIsNoOption`,
`LocalhostAssumption` (what stands for nothing is none of the things), `ConfigRoleAssumption` (a configuration names one
of the node roles), `LettersDiffer`, `OptionsFinite`, `DefaultsAreTexts`, `OptionsAdded` (the options the tool adds),
`TypedAssumption`, `AnswersAssumption` (a line is a sequence of tokens, an answer's message a text) and
`LenModAssumption`.

- `ButtonRpc_proofs`: `RpcTypeCorrect`; `SendReadyAlways`, `OneOutstandingAlways`, `AnswerMatchesAlways`.
  The properties speak of moments between calls, and are not inductive one by one. `RpcInv` is their conjunction with `RpcTypeOK` and `WaitingWhenCalling` (a call is in progress
  only on a socket that waits, and a daemon that is down has no socket), which is inductive. `InStep(k)` is all of it for
  one host; a step changes at most two hosts, so the proof shows `InStep(k)'` host by host, one step per action.
- `ColodHost_proofs`: `HostTypeCorrect`, `KillTargetAlways`, `NoForeignKillAlways`, `VmStaysRecordedAlways`,
  `RegistryMatchesFileAlways`.
  `KillTarget` with the types is inductive: it ties the pid in memory to the pid in the file and to the process table
  at once. `Target(k, e)` is its instance for one host and domain. The proof separates the domain a command is about
  from the others, for which the lemmas `TargetFrame`, `OwnChildKilled` and `OwnChildTaken` say that killing the child of
  one domain and handing out a free pid leave the children of the others. The steps that matter are the end of colod
  (the children are nobody's, but the entries are gone with the memory) and its start (`domains_init` makes no entry
  running). `NoForeignKill` follows: what a step kills is the target of a running domain, which is a child.
  `VmStaysRecorded` needs that an entry with the pid of a vm counts as running, and that a colod that is down has no
  children: `Known(n)`, inductive with the types; `KillTarget` says that destroy ends the vm it then forgets.
  `RegistryMatchesFile` with the types is inductive.
- `ColodPair_proofs`, with every fault: `PairTypeCorrect`, `PairKillTarget`, `CheckedWhenUsedAlways`,
  `SecondCallSafeAlways`, `EnabledIsSavedAlways`, `PairVmStaysRecordedAlways`, `PairRegistryMatchesFile`. A step of the
  pair is a step of one host (`ActsAt`), and what it does to that host's records and processes is one of few effects
  (`HostEffect`): a command or a process step of `ColodHost`, a destroy, a fork, the end or start of colod, the takeover
  of the peer's entry, a change of labels that touches no pid (`Relabels`), or nothing. Which action has which effect
  is proved once; each invariant is then proved once per effect. The invariants are `Waits(n)` (a handler waits exactly
  while its call does), `Target(h, e)`, `Checked(h)`, `SecondReady(h)`, `Saved(h, e)`, `Registered(h, e)`.
  `PairImplementsRpc` is the refinement of the call layer by the pair, every step of `PairSpec` being a step of
  `Rpc!RpcSpec` or none; `PairRpcInvariant` then carries the theorems of `ButtonRpc_proofs` over.
  Two properties were wrong before they were proved. `CheckedWhenUsed` said that a destroy that waits for its peer still
  has a vm in colo mode; `peer-save-domain` may have brought the pid of the other host, which can be any process here
  and end meanwhile. It now asks for what destroy would kill, which the save file decides. `PairVmStaysRecorded` took
  the pid in an entry for the vm; that entry of the peer's can have the pid of a vm here by chance, with the status
  shutoff, so the property is about entries that say the domain runs (`Runs`).
- `ColodPair_proofs`, without faults: `RolesOppositeUndisturbed`, `DomainRolesOppositeUndisturbed`,
  `PeerVmFirstUndisturbed`, under the hypothesis `Undisturbed` (no receive times out, no colod ends) and, for the first,
  `GoodConfigs` (no configuration file is refused, after which the role stays). These are the bounds of `pair_quiet`
  that are zero, for any number of commands, domains, pids and ends of vms. That `PeerVmFirst` needs the hypothesis is
  shown by the run `late_answer`; of the two properties about roles no run shows it. `Current(n)` (a handler that waits
  has its own call under way, and nothing else is) makes an answer mean what the caller thinks; on it rest `RolesAgree(n)`
  (the roles are opposite or a connect has yet to tell the peer), `OneLeads(n, e)` with `Proper(n, e)` (a domain has one
  primary or a colo-enable has yet to tell the peer) and `NotYet(n)` (a start under way has not forked).
- `SaveList_proofs`: `ListKeepsPromiseAlways`, `SaveList` implements `SaveFileSpec`, and `ReadersAgreeAlways`. `Holds(doc, f)`
  says that the document lists each saved record of `f` once, in some order; each function on the list is shown to take a
  document that holds `f` to one that holds what the function of `SaveFile` makes of `f`, its walk stopping at the first record of the
  name. vm_undefine copies the list in a loop, for which there is an induction over the items. `ListInv` says that a
  complete file holds the records, and that what is being written holds what one function makes of them.
- `CommandLine_proofs`: `ParseMeans`, that `parse` agrees with the meaning of a command line stated without a scan
  (`Means`), for any options and any line. `Follows(argv, i, st)` relates the scan after `i` arguments to what these say;
  `ScanDoes` is one step of it, a lemma per shape of an argument, with an induction over the letters of a bundle.
- `Wire_proofs`: `StringArrives`, what `ReadString` takes from what `WriteString` put, for a text of any length and
  anything after it; `RequestArrives`, that the server finds the function's name and hands on exactly the cells of the
  arguments.
- `ColoTool_proofs`: `FieldsArrive`, by induction over the fields, that any list of values reads back as it was sent, cut
  where `Serializer` cuts (with `LenMod` 1 no length could be told, hence the assumption that it is more);
  `MeansWhatItSaysAlways`; `HandlerGetsWhatWasTypedAlways`, `SaidIsTheAnswerAlways` from `ToolInv`, which says of the request, the handler
  and the answer that each belongs to the command that was typed or to the domain-test of a colo-enable, and that only
  one of the three is there. `DefinitionsAlways`: a record that names a path belongs to a domain whose definition
  file is there or was to be copied to here, and a file is empty only while a define is at it, after one was cut short,
  or by a copy (`DefinitionInv`). It rests on the order of define, which has closed the file before it saves the record
  (`SavedIsThere`, from which `ListedIsThere` holds of the list), and on nothing ever removing a definition file, so
  that what the tool found in the list is still there when it loads it (`LoadedIsThere`). `ExceptionOnlyOnCutFileAlways`
  follows step by step. `ToolWritesTheList`: every step of the tool's world is a step of `ListSpec` or none, which gives
  `ToolReadersAgree` and `ToolListKeepsPromise`.
- `VmStart_proofs`: `ChannelsAlwaysMeet`, `ChannelsMeet` for any hosts, addresses and definition files, along every
  step of `StartSpec`. Most of its content is about the definitions (`generate_pvm_cmd` and `generate_svm_cmd` for any five ports
  that differ): `PrimaryDevices` and `SecondaryDevices` compute the two command lines' devices, `DevicesMeet` pairs
  the connecting ones with the listening ones, `CommandsMeet` the QMP lists. The roles come from the condition
  `Paired`, which holds in any state, so no inductive invariant is needed. `MissingAlwaysRefused`: for any
  document, of any shape. A field's node is reached through the nodes of its path (`NodeOnPath`), a subscript of a
  missing or undefined node is an exception or nothing by its place, and `ReadingIs` goes through `vm_config_parse` as the code does,
  to the first field that fails: what was read before it was all there and of its type. The invariant `DefinedAsRead`
  ties `defined` to the outcome of `vm_define`; nothing begins before define, so a colod that ended then ended in it.

  `MirrorsAfterExport` and `AnsweredOnceGiven` are about the order of a start, and rest on the invariant `Underway` of
  `AlwaysUnderway`. It has two parts. `Control` holds in every behaviour, whatever dies, ends or times out: `Turn(n, p)`
  says what a host may have been asked while its peer is where it is, `Sides(n, p)` that the two vms have opposite roles
  as far as a host acts on them. `Sound` holds as long as no vm has ended, no do-failover has begun and at most one event
  came (`Good`, which later states only lose): `Counted` bounds the commands sent by those executed, the messages not
  yet read and the events; `Reached` and `Made` turn a position in a list into what the vm has; `Ordered` carries
  "the peer's list was executed" (`Told`) along the calls and answers, to the moment the own list begins or success is
  answered. With one event the last command may be unread (`j + events <= OwnLen(n)`), and nothing depends on it. Why a
  step preserves `Control` is shown by moves: an action is one of 22 kinds of step of a host, written with what it
  changes (`StepMoves`), and each part of the invariant is proved for each move.

  `FailoverLeavesNothing` is `FailoverTakesApart` along every step, and rests on the invariant `Leaving` of
  `AlwaysLeaving`: `Underway`, and for each host `Orderly`. Unlike `Sound` that is about one host alone and survives
  what befalls the other, since a do-failover is meant for exactly that. `Counts` says that with no event each message
  read is the answer to its command, so a do-failover that succeeds has had all of them executed; `Fresh` that the
  commands of a start are told once, so one that was executed was never refused; `Intact` what the vm has before the first
  command of do-failover, whatever the start had come to, and `Left(n, k)` what it still has after k of them if
  the start was executed whole. `FailoverAccepted` shows that the next command finds what it removes and that nothing
  uses it any more: an object before its devices, each of them once (`RemovedOnce`), and all that `PvmParts` and
  `SvmParts` find on the command lines. That the ports are paired (`Paired`) is not needed.

Only model-checked: liveness (`CallReturns`, `RequestTaken`, `TaskEnds`, `StartReturns`), which the prover does not
handle under fairness. Every safety property of a passing run is stated by a theorem.

## What is not modelled, and why

- The text of help, error messages and lists; what the tool's own scp of the definition and the disk image does to the
  other host (the tool goes on whatever comes of it; what the other host's tool does to here is in `ColoTool`).
- When QEMU refuses a command, beyond `Accepts`: its rules are not in the repository. do-failover removes `iothread1`
  before `comp0`, which was given it; the model lets it. A QEMU that refuses that would refuse a command of
  `FailoverTakesApart`.
- Options of a QEMU command line that nothing else refers to (cpu, memory, display, usb).
- `byte_orser` of `Serializer`: both ends apply it alike. Messages that are not what `call` or `run` wrote.
- `get_domain_list` and `get_connect_status` print and are called by nobody.
- A second domain on a host in `VmStart`: its vm would listen on the same QMP port, and which of the two gets the
  commands is then decided outside colod.
- Addresses and users in `rs.current_status`. The model has the configuration files that name a peer; a file that
  lacks `peer_ip` or an earlier field on a daemon that never had one makes the next colo-enable connect to an empty
  address, which throws.
- `connect-test` is bound by the server and called by no program. `list`'s output (what `list` writes is modelled).
- The failure of `execvp` leaves a second copy of the daemon in the child; the model has a child that ends.
- Two colods on one host, and ZeroMQ's reconnection beyond what `sent` and `kept` cover.
- The parser and emitter of yaml-cpp, `zmq.h`, the types of options `commandline.h` has and the tool does not use:
  third party.

## Plan

1. Done: the call layer, the daemon of one host, the pair, with their runs; proofs for the first two.
2. Done: `SaveList` against `SaveFileSpec`; the tool with its parser and the wire format (`ColoTool`); definitions,
   wiring and the QMP conversations (`VmDefinition`, `ColoWiring`, `VmStart`); proofs `VmStart_proofs`, `Wire_proofs`.
3. Done: the pair implements the call layer, and its invariants; the list implements the abstract save file; the parser
   and the tool; the reading of definitions.
4. An abstract specification of the pair: a domain runs on none, on one or on both hosts, and each vm is recorded.
   `VmStaysRecorded` and `PairVmStaysRecorded` say who forgets a vm; still to state is what becomes of the peer's when
   a start fails on the caller.
5. Findings to settle with runs of their own: the role that stays after a failed connect or colo-enable
   (`colod_service.cpp:522`), the path lost at restart, zombies that count as running.
6. Done: the order of a start, and what do-failover leaves of it.
