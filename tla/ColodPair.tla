------------------------------ MODULE ColodPair ------------------------------
(***************************************************************************)
(* Two hosts whose colods run one colo domain between them: ColodHost for  *)
(* what each does alone, ButtonRpc for the calls they make to each other,  *)
(* and here the commands that need the peer and the handlers that serve    *)
(* them (colod_service.cpp).                                               *)
(*                                                                         *)
(* A handler runs without interruption, so a step is the part of one up to *)
(* its next call to the peer, or to a pause in which processes can change. *)
(* task[n] says where the handler of n that is under way stands; while     *)
(* there is one, the colod of n serves neither operator nor peer.          *)
(***************************************************************************)
EXTENDS ColodHost, Sequences

CONSTANTS
  Peer,        \* the other host
  ConfigRole   \* the values of local_status in the operators' config files

ASSUME PeerAssumption ==
  /\ Peer \in [Node -> Node]
  /\ \A n \in Node : Peer[n] # n /\ Peer[Peer[n]] = n

ASSUME ConfigRoleAssumption == ConfigRole \subseteq COLO_NODE_STATUS

VARIABLES
  local_status,        \* rs.current_status.local_status
  peer_init,           \* peer_init
  remote_client_init,  \* remote_client_init
  save_status,         \* the save file has a "save_status" section, as the shipped one
  cleared,             \* domains whose colo-enable tool has passed domain-test
  task,                \* the handler under way
  sock, m_error_code, calling, req, rep, closed   \* as in ButtonRpc

rpcOnly == <<sock, m_error_code, calling, req, rep, closed>>
coloVars == <<local_status, peer_init, remote_client_init, save_status, cleared>>
pairVars == <<hostVars, rpcOnly, coloVars, task>>

(***************************************************************************)
(* The calls.  peer-save-status carries the whole colo_status, of which    *)
(* only the role matters here; peer-save-domain the whole entry.           *)
(***************************************************************************)
PeerCall ==
  [m : {"peer-save-status"}, role : COLO_NODE_STATUS]
  \cup [m : {"connect-reply"}]
  \cup [m : {"peer-save-domain"}, ds : colod_domain_status]
  \cup [m : {"peer-start-domain", "peer-destroy-domain"}, dom : Name]
  \cup [m : {"peer-send-qmpcmds"}, dom : Name, cds : {"primary", "secondary"}]

NoPeerCall == [m |-> "none"]

Rpc == INSTANCE ButtonRpc WITH Call <- PeerCall, NoCall <- NoPeerCall

(***************************************************************************)
(* op: the command.  at: "call", about to call the peer; "wait", receiving *)
(* the answer; "qmp", sleeping after fork, then talking to the own vm.     *)
(* cur: cur_status, which colod_start reads at its beginning.              *)
(***************************************************************************)
Op == {"connect", "status", "enable", "start", "qmp", "destroy"}
Task == [op : Op, at : {"call", "wait", "qmp"}, dom : Name, cur : COLO_DOMAIN_STATUS]
Idle == [op |-> "none", at |-> "idle", dom |-> NoName, cur |-> "none"]
Doing(op, at, d, cur) == [op |-> op, at |-> at, dom |-> d, cur |-> cur]

PairTypeOK ==
  /\ HostTypeOK
  /\ Rpc!RpcTypeOK
  /\ local_status \in [Node -> COLO_NODE_STATUS]
  /\ peer_init \in [Node -> BOOLEAN]
  /\ remote_client_init \in [Node -> BOOLEAN]
  /\ save_status \in [Node -> BOOLEAN]
  /\ cleared \in [Node -> SUBSET Domain]
  /\ task \in [Node -> Task \cup {Idle}]

PairInit ==
  /\ HostInit
  /\ Rpc!RpcInit
  /\ local_status = [n \in Node |-> "none"]
  /\ peer_init = [n \in Node |-> FALSE]
  /\ remote_client_init = [n \in Node |-> FALSE]
  /\ save_status = [n \in Node |-> TRUE]
  /\ cleared = [n \in Node |-> {}]
  /\ task = [n \in Node |-> Idle]

-----------------------------------------------------------------------------
\* colod of n is at the receive of its server loop.  (The variant is not the
\* code: a server that also serves while a handler waits.)
FreeWhileWaiting(n) == up[n]

Free(n) == up[n] /\ task[n] = Idle

Goto(n, t) == task' = [task EXCEPT ![n] = t]

SetEntry(n, d, ds) == domains' = [domains EXCEPT ![n][d] = ds]

\* The end of colod: its memory and its socket go with it.
Ends(n, ps, kept) ==
  /\ DaemonEnds(n, ps)
  /\ \E sent \in BOOLEAN : Rpc!Crash(n, sent, kept)
  /\ local_status' = [local_status EXCEPT ![n] = "none"]
  /\ peer_init' = [peer_init EXCEPT ![n] = FALSE]
  /\ remote_client_init' = [remote_client_init EXCEPT ![n] = FALSE]
  /\ Goto(n, Idle)
  /\ UNCHANGED cleared

-----------------------------------------------------------------------------
(***************************************************************************)
(* The commands, up to the call to the peer.                               *)
(***************************************************************************)

\* A command of ColodHost.
LocalCommand(n) ==
  /\ Free(n) /\ Command(n)
  /\ UNCHANGED <<rpcOnly, coloVars, task>>

\* parse_config_file has set the role before anything else can fail.
colod_connect_peer(n, r) ==
  /\ Free(n)
  /\ local_status' = [local_status EXCEPT ![n] = r]
  /\ Rpc!as_client(n)
  /\ remote_client_init' = [remote_client_init EXCEPT ![n] = TRUE]
  /\ Goto(n, Doing("connect", "call", NoName, "none"))
  /\ UNCHANGED <<domains, file, procs, peer_init, save_status, cleared>>

\* The config file lacks a field that follows peer_ip.
colod_connect_peer_bad_config(n, r) ==
  /\ Free(n)
  /\ local_status' = [local_status EXCEPT ![n] = r]
  /\ UNCHANGED <<hostVars, rpcOnly, peer_init, remote_client_init, save_status,
                 cleared, task>>

colod_connect_status(n) ==
  /\ Free(n) /\ peer_init[n]
  /\ Goto(n, Doing("status", "call", NoName, "none"))
  /\ UNCHANGED <<hostVars, rpcOnly, coloVars>>

\* The tool asks domain-test first, then copies files, then sends colo-enable.
colo_enable_tool(n, d) ==
  /\ Free(n) /\ colod_domain_test(n, d)
  /\ Status(n, d) = "shutoff"
  /\ cleared' = [cleared EXCEPT ![n] = @ \cup {d}]
  /\ UNCHANGED <<rpcOnly, local_status, peer_init, remote_client_init, save_status, task>>

\* The tool reads the save file itself, and ends with an exception if there is
\* no definition file or no save_status; a domain it cannot find is no obstacle.
ToolReaches(n, d) ==
  ~GetDomainThrows(file[n], d) /\ (GetDomainOk(file[n], d) => save_status[n])

EnabledAs(ds, r) ==
  [ds EXCEPT !.colo_enable = TRUE,
             !.colo_status = IF r \in {"primary", "secondary"} THEN r ELSE @]

colod_colo_enable(n, d) ==
  /\ Free(n) /\ d \in cleared[n] /\ ToolReaches(n, d)
  /\ cleared' = [cleared EXCEPT ![n] = @ \ {d}]
  /\ local_status[n] \notin {"none", "error"}
  /\ SetEntry(n, d, EnabledAs(domains[n][d], local_status[n]))
  /\ IF remote_client_init[n] THEN UNCHANGED rpcOnly ELSE Rpc!as_client(n)
  /\ Goto(n, Doing("enable", "call", d, "none"))
  /\ UNCHANGED <<up, file, procs, local_status, peer_init, remote_client_init, save_status>>

colod_colo_disable(n, d) ==
  /\ Free(n) /\ MaySetColo(file[n], d)
  /\ file' = [file EXCEPT ![n] = set_domain_colo_disable(@, d)]
  /\ SetEntry(n, d, [domains[n][d] EXCEPT !.colo_enable = FALSE])
  /\ UNCHANGED <<up, procs, rpcOnly, coloVars, task>>

\* (The variant is not the code: it forks the own vm before it calls the peer.)
colod_start_colo_own_first(n, d) ==
  /\ Free(n) /\ MayStart(n, d) /\ domains[n][d].colo_enable
  /\ \E p \in Pid :
       /\ run_new_vm(n, d, p, "vm", TestedFile(n, d))
       /\ SetEntry(n, d, Started(domains[n][d], p, "colo-enabled"))
  /\ Goto(n, Doing("start", "call", d, domains[n][d].colo_status))
  /\ UNCHANGED <<up, rpcOnly, coloVars>>

colod_start_colo(n, d) ==
  /\ Free(n) /\ MayStart(n, d) /\ domains[n][d].colo_enable
  /\ test_domain_status(n, d)
  /\ Goto(n, Doing("start", "call", d, domains[n][d].colo_status))
  /\ UNCHANGED <<up, procs, rpcOnly, coloVars>>

\* start, in either mode, when get_domain throws.
colod_start_throws(n, d) ==
  /\ Free(n) /\ Status(n, d) = "shutoff" /\ GetDomainThrows(TestedFile(n, d), d)
  /\ \E kept \in BOOLEAN : Ends(n, procs[n], kept)
  /\ file' = [file EXCEPT ![n] = TestedFile(n, d)]
  /\ UNCHANGED save_status

colod_vm_status_throws(n, d) ==
  /\ Free(n) /\ GetDomainThrows(file[n], d)
  /\ \E kept \in BOOLEAN : Ends(n, procs[n], kept)
  /\ UNCHANGED <<file, save_status>>

colod_destroy_colo(n, d) ==
  /\ Free(n) /\ Status(n, d) = "colo-enabled"
  /\ Goto(n, Doing("destroy", "call", d, "none"))
  /\ UNCHANGED <<hostVars, rpcOnly, coloVars>>

\* The secondary's status changes before the commands are sent to the vm, the
\* primary's after they succeeded.
MayFailover(n, d) == domains[n][d].status # "shutoff" /\ domains[n][d].colo_enable

\* (The variant is not the code: the domain counts as shut off.)
Failover_shutoff(ds) == [ds EXCEPT !.status = "shutoff", !.colo_status = "degrade"]

Failover(ds) == [ds EXCEPT !.status = "running", !.colo_status = "degrade"]

colod_do_failover(n, d) ==
  /\ Free(n) /\ MayFailover(n, d)
  /\ domains[n][d].colo_status \in {"primary", "secondary"}
  /\ SetEntry(n, d, Failover(domains[n][d]))
  /\ UNCHANGED <<up, file, procs, rpcOnly, coloVars, task>>

colod_do_failover_fails(n, d) ==
  /\ Free(n) /\ MayFailover(n, d)
  /\ domains[n][d].colo_status = "secondary"
  /\ SetEntry(n, d, [domains[n][d] EXCEPT !.colo_status = "failover"])
  /\ UNCHANGED <<up, file, procs, rpcOnly, coloVars, task>>

-----------------------------------------------------------------------------
(***************************************************************************)
(* The call, and what the handler does with its outcome.  Only the sign of *)
(* the code in an answer is looked at; ANY answer that arrives is taken.   *)
(***************************************************************************)
CallOf(n) ==
  LET t == task[n] IN
  CASE t.op = "connect" -> [m |-> "peer-save-status", role |-> local_status[n]]
    [] t.op = "status"  -> [m |-> "connect-reply"]
    [] t.op = "enable"  -> [m |-> "peer-save-domain", ds |-> domains[n][t.dom]]
    [] t.op = "start"   -> [m |-> "peer-start-domain", dom |-> t.dom]
    [] t.op = "destroy" -> [m |-> "peer-destroy-domain", dom |-> t.dom]
    [] t.op = "qmp"     -> [m |-> "peer-send-qmpcmds", dom |-> t.dom,
                            cds |-> OppositeDomain(t.cur)]

call(n) ==
  /\ up[n] /\ task[n].at = "call" /\ ~Rpc!BadCall(n)
  /\ Rpc!net_call(n, CallOf(n))
  /\ Goto(n, [task[n] EXCEPT !.at = "wait"])
  /\ UNCHANGED <<domains, file, procs, coloVars>>

\* ZeroMQ refuses the call (or there is no socket): an exception ends colod.
call_throws(n) ==
  /\ up[n] /\ task[n].at = "call" /\ Rpc!BadCall(n)
  /\ \E kept \in BOOLEAN : Ends(n, procs[n], kept)
  /\ UNCHANGED <<file, save_status>>

Answered(n, op, ok) ==
  /\ task[n].op = op /\ task[n].at = "wait"
  /\ rep[n].ok = ok
  /\ Rpc!recv_reply(n)

\* The handler returns and leaves everything else as it is.
Return(n) == Goto(n, Idle) /\ UNCHANGED <<domains, file, procs, coloVars>>

connect_answered(n) ==
  /\ Answered(n, "connect", TRUE)
  /\ save_status' = [save_status EXCEPT ![n] = TRUE]
  /\ peer_init' = [peer_init EXCEPT ![n] = TRUE]
  /\ Goto(n, Idle)
  /\ UNCHANGED <<domains, file, procs, local_status, remote_client_init, cleared>>

refused(n) ==
  /\ \E op \in Op \ {"enable"} : Answered(n, op, FALSE)
  /\ Return(n)

status_or_qmp_answered(n) ==
  /\ Answered(n, "status", TRUE) \/ Answered(n, "qmp", TRUE)
  /\ Return(n)

\* What a timeout resets in rs.domains.  (The variant is not the code: nothing.)
timed_out_keeps(n) == UNCHANGED domains

timed_out_reset(n) ==
  IF task[n].op = "enable"
  THEN SetEntry(n, task[n].dom, [domains[n][task[n].dom] EXCEPT !.colo_enable = FALSE])
  ELSE UNCHANGED domains

\* (The variant is not the code: it goes on receiving.)
timed_out_goes_on(n) ==
  /\ task[n].at = "wait"
  /\ m_error_code' = [m_error_code EXCEPT ![n] = "recv_timeout"]
  /\ UNCHANGED <<hostVars, sock, calling, req, rep, closed, coloVars, task>>

timed_out(n) ==
  /\ task[n].at = "wait"
  /\ Rpc!recv_timeout(n)
  /\ timed_out_reset(n)
  /\ peer_init' = [peer_init EXCEPT ![n] = @ /\ task[n].op = "connect"]
  /\ Goto(n, Idle)
  /\ UNCHANGED <<file, procs, local_status, remote_client_init, save_status, cleared>>

enable_answered(n) ==
  LET d == task[n].dom IN
  /\ Answered(n, "enable", TRUE) /\ MaySetColo(file[n], d)
  /\ file' = [file EXCEPT ![n] = set_domain_colo_enable(@, d, domains[n][d].colo_status)]
  /\ Goto(n, Idle)
  /\ UNCHANGED <<domains, procs, coloVars>>

enable_refused(n) ==
  LET d == task[n].dom IN
  /\ \/ Answered(n, "enable", FALSE)
     \/ Answered(n, "enable", TRUE) /\ ~MaySetColo(file[n], d)
  /\ SetEntry(n, d, [domains[n][d] EXCEPT !.colo_enable = FALSE])
  /\ Goto(n, Idle)
  /\ UNCHANGED <<file, procs, coloVars>>

\* The peer's vm is up: fork the own one.  Without a role there is no command
\* line, and the child ends at once.
VmKind(cds) == IF cds \in {"primary", "secondary"} THEN "vm" ELSE "zombie"

AfterFork(d, cur) ==
  CASE cur = "primary"   -> Doing("qmp", "call", d, cur)
    [] cur = "secondary" -> Doing("qmp", "qmp", d, cur)
    [] OTHER             -> Idle

start_answered(n) ==
  LET d == task[n].dom
      cur == task[n].cur
  IN
  /\ Answered(n, "start", TRUE)
  /\ \E p \in Pid :
       /\ run_new_vm(n, d, p, VmKind(cur), file[n])
       /\ SetEntry(n, d, Started(domains[n][d], p, "colo-enabled"))
  /\ Goto(n, AfterFork(d, cur))
  /\ UNCHANGED coloVars

start_fork_fails(n) == Answered(n, "start", TRUE) /\ Return(n)

\* The secondary talks to its own vm first, and calls the primary if that worked.
own_qmp(n) ==
  /\ up[n] /\ task[n].at = "qmp"
  /\ \E t \in {Idle, [task[n] EXCEPT !.at = "call"]} : Goto(n, t)
  /\ UNCHANGED <<hostVars, rpcOnly, coloVars>>

destroy_answered(n) ==
  LET d == task[n].dom IN
  /\ Answered(n, "destroy", TRUE)
  /\ destroy_domain(n, d)
  /\ IF DestroyOk(n, d) THEN SetEntry(n, d, Stopped(domains[n][d])) ELSE UNCHANGED domains
  /\ Goto(n, Idle)
  /\ UNCHANGED coloVars

Proceed(n) ==
  \/ call(n) \/ call_throws(n)
  \/ connect_answered(n) \/ status_or_qmp_answered(n) \/ refused(n)
  \/ enable_answered(n) \/ enable_refused(n)
  \/ start_answered(n) \/ start_fork_fails(n) \/ own_qmp(n)
  \/ destroy_answered(n)

Continue(n) == Proceed(n) \/ timed_out(n)

-----------------------------------------------------------------------------
(***************************************************************************)
(* The handlers for the peer.  n is the caller; the handler runs on        *)
(* Peer[n].  A request is the current one of n's socket, or one that a     *)
(* closed socket of n still held.                                          *)
(***************************************************************************)
Pending(n) == ({req[n]} \ {NoPeerCall}) \cup {closed[n][i] : i \in DOMAIN closed[n]}

Serve(n, c, ok) ==
  /\ Free(Peer[n])
  /\ \/ c = req[n] /\ Rpc!run(n, ok)
     \/ \E i \in DOMAIN closed[n] : c = closed[n][i] /\ Rpc!run_closed(n, i)

ServeWithNewSocket(n, c, ok) ==
  /\ Free(Peer[n])
  /\ \/ c = req[n] /\ Rpc!run_as_client(n, ok)
     \/ \E i \in DOMAIN closed[n] : c = closed[n][i] /\ Rpc!run_closed_as_client(n, i)

peer_colod_connect_test_reply(n, c) ==
  /\ c.m = "connect-reply"
  /\ Serve(n, c, TRUE)
  /\ UNCHANGED <<domains, file, procs, coloVars, task>>

peer_colod_save_status(n, c) ==
  LET m == Peer[n] IN
  /\ c.m = "peer-save-status"
  /\ IF remote_client_init[m] THEN Serve(n, c, TRUE) ELSE ServeWithNewSocket(n, c, TRUE)
  /\ local_status' = [local_status EXCEPT ![m] = OppositeNode(c.role)]
  /\ save_status' = [save_status EXCEPT ![m] = TRUE]
  /\ peer_init' = [peer_init EXCEPT ![m] = TRUE]
  /\ UNCHANGED <<domains, file, procs, remote_client_init, cleared, task>>

\* The caller's entry, pid and status included, becomes the entry here.
TakenOver(ds) ==
  [ds EXCEPT !.colo_status = IF ds.colo_enable THEN OppositeDomain(@) ELSE @]

\* The record is written first and enabled second, because a new record is not
\* enabled.  (The variant is not the code: the other order.)
SavedEnabledSwapped(f, nds) ==
  save_domain_info(set_domain_colo_enable(f, nds.name, nds.colo_status), nds)

SavedEnabled(f, nds) ==
  set_domain_colo_enable(save_domain_info(f, nds), nds.name, nds.colo_status)

peer_colod_save_domain(n, c) ==
  LET m == Peer[n]
      nds == TakenOver(c.ds)
  IN
  /\ c.m = "peer-save-domain"
  /\ Serve(n, c, TRUE)
  /\ file' = [file EXCEPT ![m] = SavedEnabled(@, nds)]
  /\ SetEntry(m, nds.name, nds)
  /\ UNCHANGED <<procs, coloVars, task>>

\* No test whether the domain runs already.
peer_colod_start_domain(n, c) ==
  LET m == Peer[n]
      d == c.dom
  IN
  /\ c.m = "peer-start-domain"
  /\ domains[m][d].colo_enable /\ GetDomainOk(file[m], d)
  /\ Serve(n, c, TRUE)
  /\ \E p \in Pid :
       /\ run_new_vm(m, d, p, VmKind(domains[m][d].colo_status), file[m])
       /\ SetEntry(m, d, Started(domains[m][d], p, "colo-enabled"))
  /\ UNCHANGED <<coloVars, task>>

\* Not enabled here, not in the save file, or fork failed.
peer_colod_start_domain_refused(n, c) ==
  LET m == Peer[n] IN
  /\ c.m = "peer-start-domain"
  /\ ~(domains[m][c.dom].colo_enable /\ GetDomainThrows(file[m], c.dom))
  /\ Serve(n, c, FALSE)
  /\ UNCHANGED <<domains, file, procs, coloVars, task>>

peer_colod_destroy_domain(n, c) ==
  LET m == Peer[n]
      d == c.dom
  IN
  /\ c.m = "peer-destroy-domain"
  /\ domains[m][d].colo_enable /\ Status(m, d) # "shutoff"
  /\ Serve(n, c, DestroyOk(m, d))
  /\ destroy_domain(m, d)
  /\ IF DestroyOk(m, d) THEN SetEntry(m, d, Stopped(domains[m][d])) ELSE UNCHANGED domains
  /\ UNCHANGED <<coloVars, task>>

peer_colod_destroy_domain_refused(n, c) ==
  LET m == Peer[n]
      d == c.dom
  IN
  /\ c.m = "peer-destroy-domain"
  /\ Serve(n, c, FALSE)
  /\ IF domains[m][d].colo_enable
     THEN Status(m, d) = "shutoff" /\ test_domain_status(m, d)
     ELSE UNCHANGED <<domains, file>>
  /\ UNCHANGED <<procs, coloVars, task>>

\* For the role "primary" nothing is sent to the vm, and the answer is success.
peer_colod_send_qmpcmds(n, c) ==
  LET m == Peer[n] IN
  /\ c.m = "peer-send-qmpcmds"
  /\ Status(m, c.dom) # "shutoff" /\ ~GetDomainThrows(file[m], c.dom)
  /\ \E ok \in BOOLEAN :
       /\ ok => GetDomainOk(file[m], c.dom)
       /\ ~ok => ~GetDomainOk(file[m], c.dom) \/ c.cds = "secondary"
       /\ Serve(n, c, ok)
  /\ UNCHANGED <<domains, file, procs, coloVars, task>>

peer_colod_send_qmpcmds_refused(n, c) ==
  LET m == Peer[n] IN
  /\ c.m = "peer-send-qmpcmds"
  /\ Status(m, c.dom) = "shutoff"
  /\ Serve(n, c, FALSE)
  /\ test_domain_status(m, c.dom)
  /\ UNCHANGED <<procs, coloVars, task>>

\* get_domain throws in a handler: its colod ends, and the request with it.
peer_get_domain_throws(n, c) ==
  LET m == Peer[n] IN
  /\ Free(m)
  /\ \/ c.m = "peer-start-domain" /\ domains[m][c.dom].colo_enable
     \/ c.m = "peer-send-qmpcmds" /\ Status(m, c.dom) # "shutoff"
  /\ GetDomainThrows(file[m], c.dom)
  /\ Ends(m, procs[m], FALSE)
  /\ UNCHANGED <<file, save_status>>

Handler(n, c) ==
  \/ peer_colod_connect_test_reply(n, c)
  \/ peer_colod_save_status(n, c)
  \/ peer_colod_save_domain(n, c)
  \/ peer_colod_start_domain(n, c) \/ peer_colod_start_domain_refused(n, c)
  \/ peer_colod_destroy_domain(n, c) \/ peer_colod_destroy_domain_refused(n, c)
  \/ peer_colod_send_qmpcmds(n, c) \/ peer_colod_send_qmpcmds_refused(n, c)
  \/ peer_get_domain_throws(n, c)

Handle(n) == \E c \in Pending(n) : Handler(n, c)

-----------------------------------------------------------------------------
(***************************************************************************)
(* The hosts.                                                              *)
(***************************************************************************)
process_step(n) == ProcessStep(n) /\ UNCHANGED <<rpcOnly, coloVars, task>>

\* The end of colod at any point, also inside a write of the save file.
colod_crash(n) ==
  /\ \E kept \in BOOLEAN : Ends(n, procs[n], kept)
  /\ \/ UNCHANGED <<file, save_status>>
     \/ /\ file' = [file EXCEPT ![n] = EmptySave]
        /\ save_status' = [save_status EXCEPT ![n] = FALSE]

\* The end of colod after a fork for domain d and before save_domain_pid: in
\* a start without colo, in a colo start on the caller, or on the peer.
CrashAfterFork(n, d, kept) ==
  /\ \E p \in Pid :
       /\ procs[n][p].kind = "free"
       /\ Ends(n, [procs[n] EXCEPT ![p] = Child(d, "vm")], kept)
  /\ UNCHANGED save_status

crash_in_start(n, d) ==
  /\ Free(n) /\ MayStart(n, d)
  /\ \E kept \in BOOLEAN : CrashAfterFork(n, d, kept)
  /\ file' = [file EXCEPT ![n] = TestedFile(n, d)]

\* The request colod serves ends with it.
crash_in_colo_start(n, d) ==
  /\ \/ /\ task[n].op = "start" /\ task[n].dom = d
        /\ calling[n] # NoPeerCall /\ rep[n] # Rpc!NoReply /\ rep[n].ok
        /\ \E kept \in BOOLEAN : CrashAfterFork(n, d, kept)
     \/ /\ Free(n) /\ domains[n][d].colo_enable /\ GetDomainOk(file[n], d)
        /\ [m |-> "peer-start-domain", dom |-> d] \in Pending(Peer[n])
        /\ CrashAfterFork(n, d, FALSE)
  /\ UNCHANGED file

\* The end of colod after remove_domain_pid and before the kill: in a destroy
\* without colo, of a colo domain on the caller, or on the peer.
crash_in_destroy(n, d) ==
  /\ \/ /\ Free(n) /\ Status(n, d) = "running"
        /\ \E kept \in BOOLEAN : Ends(n, procs[n], kept)
     \/ /\ task[n].op = "destroy" /\ task[n].dom = d
        /\ calling[n] # NoPeerCall /\ rep[n] # Rpc!NoReply /\ rep[n].ok
        /\ \E kept \in BOOLEAN : Ends(n, procs[n], kept)
     \/ /\ Free(n) /\ domains[n][d].colo_enable /\ Status(n, d) # "shutoff"
        /\ [m |-> "peer-destroy-domain", dom |-> d] \in Pending(Peer[n])
        /\ Ends(n, procs[n], FALSE)
  /\ file' = [file EXCEPT ![n] = remove_domain_pid(@, d)]
  /\ UNCHANGED save_status

\* The end of colod between the two writes of peer_colod_save_domain.
crash_in_peer_save(n) ==
  /\ Free(n)
  /\ \E c \in Pending(Peer[n]) :
       /\ c.m = "peer-save-domain"
       /\ file' = [file EXCEPT ![n] = save_domain_info(@, TakenOver(c.ds))]
  /\ Ends(n, procs[n], FALSE)
  /\ UNCHANGED save_status

colod_boot(n) ==
  /\ ColodBoot(n) /\ Rpc!Boot(n)
  /\ UNCHANGED <<coloVars, task>>

-----------------------------------------------------------------------------
PeerCommand(n) ==
  \/ \E r \in ConfigRole : colod_connect_peer(n, r)
  \/ colod_connect_status(n)
  \/ \E d \in Domain :
       \/ colo_enable_tool(n, d)
       \/ colod_colo_enable(n, d)
       \/ colod_colo_disable(n, d)
       \/ colod_start_colo(n, d)
       \/ colod_destroy_colo(n, d)
       \/ colod_do_failover(n, d) \/ colod_do_failover_fails(n, d)

\* Commands that meet what colod does not catch, and a config file that lacks
\* a field.
BadCommand(n) ==
  \/ \E r \in ConfigRole : colod_connect_peer_bad_config(n, r)
  \/ \E d \in Domain : colod_start_throws(n, d) \/ colod_vm_status_throws(n, d)

CrashStep(n) ==
  \/ colod_crash(n)
  \/ \E d \in Domain : crash_in_start(n, d) \/ crash_in_colo_start(n, d) \/ crash_in_destroy(n, d)
  \/ crash_in_peer_save(n)

PairNext ==
  \E n \in Node :
    \/ LocalCommand(n) \/ PeerCommand(n) \/ BadCommand(n)
    \/ Continue(n) \/ Handle(n)
    \/ process_step(n) \/ CrashStep(n) \/ colod_boot(n)

PairSpec == PairInit /\ [][PairNext]_pairVars

\* The thread of colod runs, and every receive of net_call ends.
FairPairSpec == PairSpec /\ \A n \in Node : WF_pairVars(Continue(n))

-----------------------------------------------------------------------------
\* What a handler has checked before its call still holds when it acts on the
\* answer up to 20 s later.  For start: the domain is stopped, enabled, and has
\* the role that was read first.  For destroy: what would be killed still runs in
\* colo mode.  (A pid that peer-save-domain brought from the other host can be
\* any process here and end meanwhile; the save file does not name it, and
\* destroy kills nothing.)
CheckedWhenUsed ==
  \A n \in Node :
    LET d == task[n].dom IN
    /\ task[n].op = "start" =>
         /\ Status(n, d) = "shutoff"
         /\ GetDomainOk(file[n], d)
         /\ domains[n][d].colo_enable
         /\ domains[n][d].colo_status = task[n].cur
    /\ task[n].op = "destroy" /\ KillPid(n, d) # NoPid => Status(n, d) = "colo-enabled"

\* A domain that rs.domains calls enabled is enabled in the save file, so a
\* restart keeps it: no outcome of the call to the peer leaves it enabled in memory
\* only.  (In the file only it can be, after a colo-enable that failed again.)
EnabledIsSaved ==
  \A n \in Node, d \in Domain :
    /\ up[n] /\ domains[n][d].colo_enable /\ file[n][d].saved
    /\ ~(task[n].op = "enable" /\ task[n].dom = d)
    => file[n][d].colo_enable

\* The entry of d has the pid of the vm this colod started for d, and says that it
\* runs.  (The pid alone says less than on one host: the entry peer-save-domain
\* brings can by chance have the pid of a vm here, with the status shutoff.)
Runs(n, d, p) == Records(n, d, p) /\ domains[n][d].status # "shutoff"

\* In the pair a vm that runs is forgotten by the colod that started it only where
\* a handler writes over the entry without asking: define, and the peer's
\* peer-save-domain and peer-start-domain.  No start whose first call took up to
\* 20 s, no answer that comes late, no failed colo-enable or do-failover does it.
PairVmStaysRecorded ==
  [][\A n \in Node, d \in Domain, p \in Pid :
       Runs(n, d, p) /\ procs'[n][p] = procs[n][p] =>
         \/ Runs(n, d, p)' \/ colod_define(n, d)
         \/ \E c \in Pending(Peer[n]) :
              peer_colod_save_domain(Peer[n], c) \/ peer_colod_start_domain(Peer[n], c)]_pairVars

\* The order of colod_start ("start peer vm", then "start host vm"): the own
\* vm is forked on the peer's answer to the request to start this domain.
PeerVmFirst ==
  [][\A n \in Node :
       task[n].op = "start" /\ domains'[n][task[n].dom].status = "colo-enabled" =>
         rep[n].call = [m |-> "peer-start-domain", dom |-> task[n].dom]]_pairVars

\* connect-peer can be used whenever colod is up: its call is never refused by
\* its own fresh socket.
ConnectPeerSafe ==
  \A n \in Node : task[n].op = "connect" /\ task[n].at = "call" => ~Rpc!BadCall(n)

\* The second and later calls of one command find the socket ready.
SecondCallSafe ==
  \A n \in Node : task[n].op = "qmp" /\ task[n].at = "call" => ~Rpc!BadCall(n)

\* do-failover is for a colo-enabled running domain: one that runs in colo
\* mode, on a colod that is free, can be failed over.
FailoverAvailable ==
  \A n \in Node, d \in Domain :
    Free(n) /\ domains[n][d].status = "colo-enabled" =>
      domains[n][d].colo_enable /\ domains[n][d].colo_status \in {"primary", "secondary"}

\* Nothing is under way between the two hosts.
Quiet ==
  \A n \in Node : Free(n) /\ Pending(n) = {} /\ rep[n] = Rpc!NoReply

\* Once two colods have agreed on a role each, never both have the same.
RolesOpposite ==
  Quiet => \A n \in Node :
    local_status[n] \in {"primary", "secondary"} =>
      {local_status[n], local_status[Peer[n]]} = {"primary", "secondary"}

\* A domain both hosts hold and have enabled is primary on at most one of them.
DomainRolesOpposite ==
  Quiet => \A n \in Node, d \in Domain :
    LET here == domains[n][d]
        there == domains[Peer[n]][d]
    IN
    /\ here.name = d /\ here.colo_enable /\ here.colo_status = "primary"
    /\ there.name = d /\ there.colo_enable
    => there.colo_status # "primary"

\* Every command returns, also when both colods call each other.
TaskEnds == \A n \in Node : task[n] # Idle ~> task[n] = Idle
=============================================================================
