------------------------------- MODULE VmStart -------------------------------
(***************************************************************************)
(* The start of a colo domain, from the definition to the two vms that     *)
(* mirror each other: colod_start and the handlers it calls on the peer,   *)
(* the QMP conversations of send_qmp_cmds over qmp_socket, and afterwards  *)
(* set-params and do-failover, which hold such conversations too.          *)
(*                                                                         *)
(* ColodPair has the same commands with the calls, processes and the save  *)
(* file in detail and each conversation as one step; here a conversation   *)
(* is message by message, with the vms that take part in it.  The vms are  *)
(* QEMU, which is not part of colod: a vm opens its character devices in   *)
(* the order of the command line and answers QMP once its main loop runs.  *)
(* One start per behaviour that is not refused.                            *)
(***************************************************************************)
EXTENDS ColoWiring

CONSTANTS
  Document,   \* the definition files an operator may have written, by what tells them apart
  Node,       \* the hosts; a host also stands for its address
  Peer,       \* the other host
  MaxEvents   \* bound on the events the vms send of their own accord

ASSUME LocalhostAssumption == Localhost \notin Node
ASSUME PeerAssumption == \A n \in Node : Peer[n] # n /\ Node = {n, Peer[n]}

VARIABLES
  definition,    \* the file there is: a member of DOMAIN Document
  defined,       \* "no", "yes", "err"
  up,            \* colod of the host runs
  local_status,  \* rs.current_status.local_status
  entry,         \* rs.domains[domain_name]: status and colo_status
  task,          \* the handler colod is in
  asked,         \* the call that waits for this colod, or "none"
  reply,         \* the answer to the call this colod has made, or "none"
  answer,        \* what colod_start has answered the operator
  conv,          \* the conversation of colod with its own vm
  vm,            \* the vm of the host
  started,       \* the host of the start, if there was one
  events         \* events sent so far

startVars == <<definition, defined, up, local_status, entry, task, asked, reply, answer, conv, vm,
               started, events>>

\* What get_domain reads, each time it is called.  (With @@ TLC computes it once.)
Parsed == << >> @@ [i \in DOMAIN Document |-> vm_config_parse(Document[i])]
domain == Parsed[definition].domain

cs(n) == [local_status |-> local_status[n], host_ip |-> n, peer_ip |-> Peer[n]]

\* One of the roles of entry[n], as in the branches of the code.
Primary(n)   == entry[n].colo_status = "primary"
Secondary(n) == entry[n].colo_status = "secondary"

(***************************************************************************)
(* A vm: what kind of command line it was given, how far it is, the blocks *)
(* it has, the objects and devices taken away since, where it serves its   *)
(* disk, and the QMP commands it has executed and has refused.             *)
(***************************************************************************)
NoVm == [kind |-> "none", state |-> "none", blocks |-> {}, gone |-> {}, nbd |-> << >>,
         given |-> {}, refused |-> {}]

Line(n, kind) ==
  CASE kind = "pvm" -> generate_pvm_cmd(domain, cs(n))
    [] kind = "svm" -> generate_svm_cmd(domain, cs(n))
    [] OTHER        -> generate_vm_cmd(domain)

chardevs(n) == {c \in Line(n, vm[n].kind).chardevs : vm[n].kind # "none" /\ c.id \notin vm[n].gone}
objects(n)  == {o \in Line(n, vm[n].kind).objects : vm[n].kind # "none" /\ o.id \notin vm[n].gone}
incoming(n) == Line(n, vm[n].kind).incoming

(***************************************************************************)
(* next: the command to send next; done: how many the vm has executed;     *)
(* inbox: messages of the vm that qmp_recv has not taken yet.              *)
(***************************************************************************)
NoConv    == [phase |-> "none", cmds |-> << >>, next |-> 1, done |-> 0, inbox |-> 0, greeted |-> FALSE]
Opening(cmds) == [NoConv EXCEPT !.phase = "connect", !.cmds = cmds]

Roles == {r \in [Node -> {"primary", "secondary"}] : \A n \in Node : r[n] # r[Peer[n]]}

StartInit ==
  /\ definition \in DOMAIN Document
  /\ defined = "no"
  /\ local_status \in [Node -> {"primary", "secondary"}]
  /\ \E role \in Roles :
       entry = [n \in Node |-> [status |-> "shutoff", colo_status |-> role[n]]]
  /\ up = [n \in Node |-> TRUE]
  /\ task = [n \in Node |-> "idle"]
  /\ asked = [n \in Node |-> "none"]
  /\ reply = [n \in Node |-> "none"]
  /\ answer = [n \in Node |-> "none"]
  /\ conv = [n \in Node |-> NoConv]
  /\ vm = [n \in Node |-> NoVm]
  /\ started = {}
  /\ events = 0

Free(n)       == up[n] /\ task[n] = "idle"
Goto(n, t)    == task' = [task EXCEPT ![n] = t]
Answers(n, a) == answer' = [answer EXCEPT ![n] = a]
Talk(n, cmds) == conv' = [conv EXCEPT ![n] = Opening(cmds)]

SetEntry(n, field, v) == entry' = [entry EXCEPT ![n][field] = v]

Fork(n, kind) ==
  vm' = [vm EXCEPT ![n] = [NoVm EXCEPT !.kind = kind, !.state = "forked",
                                       !.blocks = Line(n, kind).blocks]]

ForkColo(n) == Fork(n, IF Primary(n) THEN "pvm" ELSE "svm")

\* colod ends by an exception nobody catches, or by SIGPIPE; its vm goes on.
ColodEnds(n) ==
  /\ up' = [up EXCEPT ![n] = FALSE]
  /\ Goto(n, "idle")
  /\ conv' = [conv EXCEPT ![n] = NoConv]
  /\ asked' = [asked EXCEPT ![n] = "none"]

-----------------------------------------------------------------------------
(***************************************************************************)
(* define, on one host; connect-peer and colo-enable have told the peer.   *)
(***************************************************************************)
define(n) ==
  /\ defined = "no" /\ Free(n)
  /\ LET outcome == vm_define(Document[definition])
     IN \/ /\ outcome = "throws"
           /\ ColodEnds(n)
           /\ UNCHANGED defined
        \/ /\ outcome # "throws"
           /\ defined' = IF outcome = "ok" THEN "yes" ELSE "err"
           /\ UNCHANGED <<up, task, conv, asked>>
  /\ UNCHANGED <<definition, local_status, entry, reply, answer, vm, started, events>>

StartFrame == <<definition, defined, up, local_status, started, events>>

(***************************************************************************)
(* colod_start.  get_domain reads the same file once more.                 *)
(***************************************************************************)
AskPeer(n, call) == asked' = [asked EXCEPT ![Peer[n]] = call]

Refuses(n) ==
  /\ Answers(n, "err")
  /\ UNCHANGED <<entry, task, asked, reply, conv, vm>>

\* The plain vm, whether or not the domain is colo-enabled.
StartsPlain(n) ==
  /\ Fork(n, "vm")
  /\ SetEntry(n, "status", "running")
  /\ Answers(n, "ok")
  /\ UNCHANGED <<task, asked, reply, conv>>

StartsColo(n) ==
  /\ AskPeer(n, "peer-start-domain")
  /\ Goto(n, "peer-start")
  /\ UNCHANGED <<entry, reply, answer, conv, vm>>

colod_start(n, colo_enable) ==
  /\ Free(n) /\ defined = "yes"
  /\ \/ vm[n].state # "none" /\ Refuses(n) /\ UNCHANGED started
     \/ /\ vm[n].state = "none" /\ started = {} /\ started' = {n}
        /\ \/ ~colo_enable /\ StartsPlain(n)
           \/ colo_enable /\ StartsColo(n)
  /\ UNCHANGED <<definition, defined, up, local_status, events>>

\* An answer reaches a caller that still waits for it.
Replies(p, a) ==
  /\ asked' = [asked EXCEPT ![p] = "none"]
  /\ reply' = [reply EXCEPT ![Peer[p]] =
                 IF task[Peer[p]] \in {"peer-start", "peer-qmp"} THEN a ELSE @]

peer_colod_start_domain(p) ==
  /\ Free(p) /\ asked[p] = "peer-start-domain"
  /\ ForkColo(p)
  /\ SetEntry(p, "status", "colo-enabled")
  /\ Replies(p, "ok")
  /\ UNCHANGED <<StartFrame, task, answer, conv>>

Taken(n) == reply' = [reply EXCEPT ![n] = "none"]

\* (The variant is not the code: the primary talks to its own vm first.)
after_peer_start_own_first(n) ==
  /\ task[n] = "peer-start" /\ reply[n] = "ok"
  /\ Taken(n) /\ ForkColo(n) /\ SetEntry(n, "status", "colo-enabled")
  /\ Goto(n, "own-qmp") /\ UNCHANGED asked
  /\ Talk(n, IF Primary(n) THEN generate_pvm_qmpcmd(domain, cs(n), entry[n].colo_status)
             ELSE generate_svm_qmpcmd(domain, cs(n), entry[n].colo_status))
  /\ UNCHANGED <<StartFrame, answer>>

\* The peer's vm was started: fork the own one; the primary has the peer prepared first.
after_peer_start(n) ==
  /\ task[n] = "peer-start" /\ reply[n] = "ok"
  /\ Taken(n) /\ ForkColo(n) /\ SetEntry(n, "status", "colo-enabled")
  /\ \/ /\ Primary(n)
        /\ AskPeer(n, "peer-send-qmpcmds-secondary")
        /\ Goto(n, "peer-qmp")
        /\ UNCHANGED conv
     \/ /\ Secondary(n)
        /\ Talk(n, generate_svm_qmpcmd(domain, cs(n), entry[n].colo_status))
        /\ Goto(n, "own-qmp")
        /\ UNCHANGED asked
  /\ UNCHANGED <<StartFrame, answer>>

\* For the primary role nothing is sent.
peer_colod_send_qmpcmds(p) ==
  /\ Free(p)
  /\ \/ /\ \/ asked[p] = "peer-send-qmpcmds-primary" /\ vm[p].state # "none" /\ Replies(p, "ok")
           \/ /\ asked[p] \in {"peer-send-qmpcmds-primary", "peer-send-qmpcmds-secondary"}
              /\ vm[p].state = "none" /\ Replies(p, "err")
        /\ UNCHANGED <<task, conv>>
     \/ /\ asked[p] = "peer-send-qmpcmds-secondary" /\ vm[p].state # "none"
        /\ Talk(p, generate_svm_qmpcmd(domain, cs(p), entry[p].colo_status))
        /\ Goto(p, "serve-qmp")
        /\ UNCHANGED <<asked, reply>>
  /\ UNCHANGED <<StartFrame, entry, answer, vm>>

after_peer_qmp(n) ==
  /\ task[n] = "peer-qmp" /\ reply[n] # "none"
  /\ Taken(n)
  /\ \/ /\ reply[n] = "ok" /\ Primary(n)
        /\ Talk(n, generate_pvm_qmpcmd(domain, cs(n), entry[n].colo_status))
        /\ Goto(n, "own-qmp")
        /\ UNCHANGED answer
     \/ /\ ~(reply[n] = "ok" /\ Primary(n))
        /\ Answers(n, reply[n])
        /\ Goto(n, "idle")
        /\ UNCHANGED conv
  /\ UNCHANGED <<StartFrame, entry, asked, vm>>

\* The call is given up after 20 seconds; what the peer does is not undone.
timed_out(n) ==
  /\ task[n] \in {"peer-start", "peer-qmp"} /\ reply[n] = "none"
  /\ Answers(n, "err")
  /\ Goto(n, "idle")
  /\ UNCHANGED <<StartFrame, entry, asked, reply, conv, vm>>

-----------------------------------------------------------------------------
(***************************************************************************)
(* The other commands that talk to the vm.                                 *)
(***************************************************************************)
PropertyName == {"checkpoint-time", "compare-timeout", "max-queue-size"}

colod_set_params(n, property) ==
  /\ Free(n) /\ entry[n].status # "shutoff"
  /\ Talk(n, set_params_cmds(property))
  /\ Goto(n, "set-params")
  /\ UNCHANGED <<StartFrame, entry, asked, reply, answer, vm>>

colod_do_failover(n) ==
  /\ Free(n) /\ entry[n].status # "shutoff"
  /\ \/ /\ Secondary(n)
        /\ SetEntry(n, "colo_status", "failover")
        /\ Talk(n, failover_svm_cmds)
     \/ /\ Primary(n)
        /\ Talk(n, failover_pvm_cmds)
        /\ UNCHANGED entry
  /\ Goto(n, "failover")
  /\ UNCHANGED <<StartFrame, asked, reply, answer, vm>>

(***************************************************************************)
(* The end of send_qmp_cmds, and what the handler does with its result.    *)
(***************************************************************************)
Finish(n, result) ==
  /\ conv' = [conv EXCEPT ![n] = NoConv]
  /\ \/ /\ task[n] = "own-qmp" /\ result = "ok" /\ Secondary(n)
        /\ AskPeer(n, "peer-send-qmpcmds-primary")
        /\ Goto(n, "peer-qmp")
        /\ UNCHANGED <<entry, reply, answer>>
     \/ /\ task[n] = "own-qmp" /\ ~(result = "ok" /\ Secondary(n))
        /\ Answers(n, result)
        /\ Goto(n, "idle")
        /\ UNCHANGED <<entry, asked, reply>>
     \/ /\ task[n] = "serve-qmp"
        /\ Replies(n, result)
        /\ Goto(n, "idle")
        /\ UNCHANGED <<entry, answer>>
     \/ /\ task[n] \in {"set-params", "failover"}
        /\ entry' = IF task[n] = "failover" /\ result = "ok"
                    THEN [entry EXCEPT ![n] = [status |-> "running", colo_status |-> "degrade"]]
                    ELSE entry
        /\ Goto(n, "idle")
        /\ UNCHANGED <<asked, reply, answer>>

\* The port is always 4444; a vm that has ended or not yet begun refuses.
Listening(n) ==
  /\ vm[n].state \in {"qmp", "channels", "runs"}
  /\ \E c \in chardevs(n) : c.listens /\ c.at = <<Localhost, 4444>>

qmp_connect(n) ==
  /\ conv[n].phase = "connect"
  /\ \/ /\ Listening(n)
        /\ conv' = [conv EXCEPT ![n].phase = "greeting"]
        /\ UNCHANGED <<entry, task, asked, reply, answer>>
     \/ ~Listening(n) /\ Finish(n, "err")
  /\ UNCHANGED <<StartFrame, vm>>

Dead(n) == vm[n].state = "dead"

\* (The variant is not the code: the loop ends one command early.)
LastSent_early(c) == c.next > Len(c.cmds) - 1

LastSent(c) == c.next > Len(c.cmds)

(***************************************************************************)
(* One recv takes what is there, at most 512 bytes of it, be it the answer *)
(* or an event.  There is no timeout.  From a vm that has ended it returns *)
(* nothing, which counts as an answer.                                     *)
(***************************************************************************)
qmp_recv(n) ==
  /\ conv[n].phase \in {"greeting", "answer"}
  /\ \E left \in {0, conv[n].inbox - 1} :
       /\ conv[n].inbox > 0 \/ (Dead(n) /\ left = 0)
       /\ \/ /\ LastSent(conv[n])
             /\ Finish(n, "ok")
          \/ /\ ~LastSent(conv[n])
             /\ conv' = [conv EXCEPT ![n].phase = "send", ![n].inbox = left]
             /\ UNCHANGED <<entry, task, asked, reply, answer>>
  /\ UNCHANGED <<StartFrame, vm>>

qmp_send(n) ==
  /\ conv[n].phase = "send"
  /\ conv' = [conv EXCEPT ![n].phase = "answer", ![n].next = @ + 1]
  /\ UNCHANGED <<StartFrame, entry, task, asked, reply, answer, vm>>

\* A receive error makes a string of length -1; a send to a closed socket is a SIGPIPE.
colod_ends(n) ==
  /\ Dead(n) /\ conv[n].phase \in {"greeting", "answer", "send"}
  /\ ColodEnds(n)
  /\ UNCHANGED <<definition, defined, local_status, entry, reply, answer, vm, started, events>>

-----------------------------------------------------------------------------
(***************************************************************************)
(* QEMU.                                                                   *)
(***************************************************************************)
Become(n, s) == vm' = [vm EXCEPT ![n].state = s]

\* Character devices that wait find the other end.
Met(c) == \E m \in Node : vm[m].state = "runs" /\ \E o \in chardevs(m) : ~o.listens /\ o.at = c.at

CannotBind(n) == \E c \in chardevs(n) : c.listens /\ c.at[1] \notin {Localhost, n}

vm_opens(n) ==
  /\ \/ vm[n].state = "forked" /\ Become(n, "qmp")
     \/ /\ vm[n].state = "qmp"
        /\ \A c \in chardevs(n) :
             c.id = "qmp" /\ c.wait => conv[n].phase \notin {"none", "connect"}
        /\ Become(n, IF CannotBind(n) THEN "dead" ELSE "channels")
     \/ /\ vm[n].state = "channels"
        /\ \A c \in chardevs(n) : c.wait /\ c.id # "qmp" => Met(c)
        /\ Become(n, "runs")
  /\ UNCHANGED <<StartFrame, entry, task, asked, reply, answer, conv>>

vm_greets(n) ==
  /\ vm[n].state = "runs" /\ conv[n].phase = "greeting" /\ ~conv[n].greeted
  /\ conv' = [conv EXCEPT ![n].inbox = 1, ![n].greeted = TRUE]
  /\ UNCHANGED <<StartFrame, entry, task, asked, reply, answer, vm>>

Has(n, b) == b \in vm[n].blocks

\* Whether QEMU executes a command.  (An object another object was given at its
\* creation, as comp0 was given iothread1, may be deleted.)
Accepts(n, c) ==
  CASE c.execute = "drive_add" -> \E m \in Node : vm[m].nbd = c.at /\ Has(m, "export")
    [] c.execute = "migrate" ->
         /\ Has(n, "x-colo")
         /\ \E m \in Node : vm[m].state = "runs" /\ c.at[1] = m /\ c.at[2] \in incoming(m)
    [] c.execute = "x-blockdev-change-add" -> Has(n, "colo-disk0") /\ Has(n, "replication0")
    [] c.execute = "x-blockdev-change-del" -> Has(n, "children.1")
    [] c.execute = "drive_del"             -> Has(n, "replication0")
    [] c.execute = "nbd-server-start"      -> c.at[1] = n /\ vm[n].nbd = << >>
    [] c.execute = "nbd-server-add"        -> Has(n, "parent0") /\ vm[n].nbd # << >>
    [] c.execute = "nbd-server-stop"       -> vm[n].nbd # << >>
    [] c.execute \in {"object-del", "qom-set"} -> \E o \in objects(n) : o.id = c.id
    [] c.execute = "chardev-remove" ->
         /\ \E o \in chardevs(n) : o.id = c.id
         /\ \A o \in objects(n) : c.id \notin o.uses
    [] OTHER -> TRUE

Adds(c) ==
  CASE c.execute = "drive_add"                -> {"replication0"}
    [] c.execute = "x-blockdev-change-add"    -> {"children.1"}
    [] c.execute = "migrate-set-capabilities" -> {"x-colo"}
    [] c.execute = "migrate"                  -> {"colo"}
    [] c.execute = "nbd-server-add"           -> {"export"}
    [] OTHER                                  -> {}

Takes(c) ==
  CASE c.execute = "x-blockdev-change-del" -> {"children.1"}
    [] c.execute = "drive_del"             -> {"replication0"}
    [] c.execute = "nbd-server-stop"       -> {"export"}
    [] c.execute = "x-colo-lost-heartbeat" -> {"colo"}
    [] OTHER                               -> {}

Executed(v, c) ==
  [v EXCEPT
     !.given = @ \cup {c},
     !.nbd = CASE c.execute = "nbd-server-start" -> c.at
               [] c.execute = "nbd-server-stop"  -> << >>
               [] OTHER                          -> @,
     !.blocks = (@ \cup Adds(c)) \ Takes(c),
     !.gone = IF c.execute \in {"object-del", "chardev-remove"} THEN @ \cup {c.id} ELSE @]

Refused(v, c) == [v EXCEPT !.refused = @ \cup {c}]

vm_executes(n) ==
  /\ vm[n].state = "runs" /\ conv[n].done < conv[n].next - 1
  /\ LET c == conv[n].cmds[conv[n].done + 1]
     IN vm' = [vm EXCEPT ![n] = IF Accepts(n, c) THEN Executed(@, c) ELSE Refused(@, c)]
  /\ conv' = [conv EXCEPT ![n].done = @ + 1, ![n].inbox = @ + 1]
  /\ UNCHANGED <<StartFrame, entry, task, asked, reply, answer>>

\* Events come once the capabilities are negotiated.
vm_event(n) ==
  /\ events < MaxEvents
  /\ vm[n].state = "runs" /\ conv[n].done > 0
  /\ conv' = [conv EXCEPT ![n].inbox = @ + 1]
  /\ events' = events + 1
  /\ UNCHANGED <<definition, defined, up, local_status, entry, task, asked, reply, answer, vm, started>>

vm_dies(n) ==
  /\ vm[n].state \notin {"none", "dead"}
  /\ Become(n, "dead")
  /\ UNCHANGED <<StartFrame, entry, task, asked, reply, answer, conv>>

-----------------------------------------------------------------------------
Operator(n) ==
  \/ define(n)
  \/ \E colo_enable \in BOOLEAN : colod_start(n, colo_enable)
  \/ \E property \in PropertyName : colod_set_params(n, property)
  \/ colod_do_failover(n)

ColodStep(n) ==
  \/ peer_colod_start_domain(n) \/ after_peer_start(n)
  \/ peer_colod_send_qmpcmds(n) \/ after_peer_qmp(n)
  \/ qmp_connect(n) \/ qmp_recv(n) \/ qmp_send(n)
  \/ colod_ends(n)

VmStep(n) == vm_opens(n) \/ vm_greets(n) \/ vm_executes(n)

Fault(n) == timed_out(n) \/ vm_event(n) \/ vm_dies(n)

StartNext == \E n \in Node : Operator(n) \/ ColodStep(n) \/ VmStep(n) \/ Fault(n)
StartSpec == StartInit /\ [][StartNext]_startVars

-----------------------------------------------------------------------------
(***************************************************************************)
(* Properties.  Whole: the definition was accepted and its operating       *)
(* system is one the command lines are written for.  Paired: also the two  *)
(* vms' ports are paired, as in the README's definition, and the hosts'    *)
(* roles are the ones the domain was enabled under.                        *)
(***************************************************************************)
Whole == defined = "yes" /\ KnownOS(domain)

Paired ==
  /\ Whole /\ PortsPaired(domain)
  /\ \A n \in Node : vm[n].kind \in {"pvm", "svm"} =>
       local_status[n] = IF vm[n].kind = "pvm" THEN "primary" ELSE "secondary"

\* No do-failover has begun on the host.
Coupled(n) ==
  entry[n].colo_status \in {"primary", "secondary"} /\ task[n] # "failover"

NoVmDied == \A n \in Node : ~Dead(n)

OwnCmds(n) ==
  ToSet(IF vm[n].kind = "pvm" THEN generate_pvm_qmpcmd(domain, cs(n), "primary")
        ELSE generate_svm_qmpcmd(domain, cs(n), "secondary"))

(***************************************************************************)
(* A definition is read whole or not at all: a field that is not there is  *)
(* an answer to the operator, an exception only ever means that a value    *)
(* of the wrong kind is there, and what is defined has every field the     *)
(* command lines are made of (vm_config_parse, vm_define).                 *)
(***************************************************************************)
Named(config)  == Converts(Get(config, "name"), "string")
Usable         == {i \in DOMAIN Document : Named(Document[i]) /\ Complete(Document[i])}
WithWrongValue ==
  {i \in DOMAIN Document : \/ Get(Document[i], "name") # Zombie /\ ~Named(Document[i])
                           \/ \E f \in ToSet(Fields) : IllTyped(Document[i], f)}

MissingIsRefused ==
  /\ definition \in Usable /\ defined = "err" => as_T(Get(Document[definition], "name")) = "save"
  /\ defined = "no" /\ (\E n \in Node : ~up[n]) => definition \in WithWrongValue
  /\ defined = "yes" => definition \in Usable

(***************************************************************************)
(* The two command lines fit together although two hosts make them on      *)
(* their own: each character device that connects finds exactly the one    *)
(* that is meant for it, each that listens does so on its own host, and    *)
(* the QMP commands name the addresses the other vm serves.                *)
(***************************************************************************)
ChannelsMeet ==
  \A p, s \in Node :
    /\ vm[p].kind = "pvm" /\ vm[s].kind = "svm" /\ "forked" \in {vm[p].state, vm[s].state}
    /\ Paired
    => Fits(domain, cs(p), cs(s))

(***************************************************************************)
(* The primary vm is told to mirror its disk and to migrate only when the  *)
(* secondary vm has the disk exported and waits for the migration, even if *)
(* one event was taken for an answer (two are one too many: the last       *)
(* command of the secondary's list may go unread, the one before must      *)
(* not): QEMU refuses none of these commands (colod_start's order of       *)
(* calls, generate_svm_qmpcmd's order of commands).                        *)
(***************************************************************************)
MirrorAfterExport ==
  \A n \in Node : \A c \in vm[n].refused :
    Whole /\ NoVmDied /\ events <= 1 /\ (\A m \in Node : Coupled(m)) => c \notin OwnCmds(n)

(***************************************************************************)
(* When colod_start has answered success, the vm of its host has executed  *)
(* every command of the list, and so has the peer's if it is the secondary *)
(* (unless an event was taken for the last answer, or a vm ended).         *)
(***************************************************************************)
AnsweredWhenGiven ==
  \A n \in Node :
    /\ answer[n] = "ok" /\ vm[n].kind \in {"pvm", "svm"}
    /\ Whole /\ NoVmDied /\ events = 0 /\ (\A m \in Node : Coupled(m))
    => /\ OwnCmds(n) \subseteq vm[n].given
       /\ vm[Peer[n]].kind = "svm" => OwnCmds(Peer[n]) \subseteq vm[Peer[n]].given

(***************************************************************************)
(* do-failover takes a started vm out of COLO whole: nothing it removes is *)
(* missing or still in use, and no device, export or mirror stays behind   *)
(* that waits for the other vm (colod_do_failover's two lists).            *)
(***************************************************************************)
TakenApart(n) ==
  /\ \A c \in vm[n].refused : c.execute = "qom-set"
  /\ {c.id : c \in chardevs(n)} = {"qmp"}
  /\ {o.id : o \in objects(n)} \subseteq {"rew0"}
  /\ vm[n].blocks \cap {"replication0", "children.1", "export", "colo"} = {}

FailoverTakesApart ==
  [][\A n \in Node :
       /\ task[n] = "failover" /\ entry'[n].colo_status = "degrade"
       /\ Paired /\ ~Dead(n) /\ events = 0
       /\ vm[n].kind \in {"pvm", "svm"} /\ OwnCmds(n) \subseteq vm[n].given
       => TakenApart(n)]_startVars

(***************************************************************************)
(* A start comes to an end on both hosts, without a timeout being needed,  *)
(* as long as both vms live and nobody takes one of them apart: each       *)
(* of the two vms waits at its opening for something only the right order  *)
(* of the conversations brings about, and qmp_recv waits for ever.         *)
(***************************************************************************)
Starting(n) == task[n] \in {"peer-start", "peer-qmp", "own-qmp", "serve-qmp"}

StartReturns == \A n \in Node : Starting(n) ~> (~Starting(n) \/ ~NoVmDied \/ \E m \in Node : ~Coupled(m))
=============================================================================
