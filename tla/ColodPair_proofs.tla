-------------------------- MODULE ColodPair_proofs --------------------------
(***************************************************************************)
(* For any number of domains and pids, with every fault: the type          *)
(* invariant of ColodPair; that the pair implements ButtonRpc, so that the *)
(* invariants of the call layer hold in it; that what a handler checked    *)
(* before its call still holds after it; that destroy kills the process it *)
(* means; that a colod forgets a running vm only where a handler writes    *)
(* over its entry; that colo-enable leaves memory and save file agreeing.  *)
(*                                                                         *)
(* A step of the pair is a step of one host h (ActsAt).  What it does to   *)
(* the records and the processes of h is one of a few things (HostEffect), *)
(* and each invariant is proved once for each of those.                    *)
(***************************************************************************)
EXTENDS ColodPair, ColodHost_proofs, SequenceTheorems

RpcP == INSTANCE ButtonRpc_proofs WITH Call <- PeerCall, NoCall <- NoPeerCall

-----------------------------------------------------------------------------
(***************************************************************************)
(* The call layer of ColodPair (Rpc) is that of ButtonRpc_proofs (RpcP).   *)
(***************************************************************************)
LEMMA NoPeerCallIsNone == NoPeerCall \notin PeerCall
BY DEF NoPeerCall, PeerCall

\* The two instances have the same types and the same steps.
LEMMA SameRpc ==
  /\ Rpc!RpcTypeOK <=> RpcP!RpcTypeOK
  /\ [Rpc!RpcNext]_Rpc!rpcVars <=> [RpcP!RpcNext]_RpcP!rpcVars
<1>1. Rpc!RpcTypeOK <=> RpcP!RpcTypeOK
  BY DEF Rpc!RpcTypeOK, RpcP!RpcTypeOK, Rpc!Reply, RpcP!Reply, Rpc!NoReply, RpcP!NoReply
<1>2. ASSUME NEW n \in Node PROVE Rpc!ClientStep(n) <=> RpcP!ClientStep(n)
  BY DEF Rpc!ClientStep, RpcP!ClientStep, Rpc!connect, RpcP!connect,
         Rpc!as_client, RpcP!as_client, Rpc!net_call, RpcP!net_call,
         Rpc!recv_reply, RpcP!recv_reply, Rpc!recv_timeout, RpcP!recv_timeout,
         Rpc!NoSend, RpcP!NoSend, Rpc!Serving, RpcP!Serving, Rpc!NoReply, RpcP!NoReply
<1>3. ASSUME NEW n \in Node PROVE Rpc!ServerStep(n) <=> RpcP!ServerStep(n)
  BY DEF Rpc!ServerStep, RpcP!ServerStep, Rpc!run, RpcP!run,
         Rpc!run_as_client, RpcP!run_as_client, Rpc!run_closed, RpcP!run_closed,
         Rpc!run_closed_as_client, RpcP!run_closed_as_client,
         Rpc!WithoutIndex, RpcP!WithoutIndex, Rpc!Serving, RpcP!Serving,
         Rpc!NoReply, RpcP!NoReply
<1>4. ASSUME NEW n \in Node PROVE Rpc!FaultStep(n) <=> RpcP!FaultStep(n)
  BY DEF Rpc!FaultStep, RpcP!FaultStep, Rpc!Crash, RpcP!Crash, Rpc!Boot, RpcP!Boot,
         Rpc!NoReply, RpcP!NoReply
<1>5. Rpc!RpcNext <=> RpcP!RpcNext
  BY <1>2, <1>3, <1>4 DEF Rpc!RpcNext, RpcP!RpcNext
<1> QED BY <1>1, <1>5 DEF Rpc!rpcVars, RpcP!rpcVars

\* The step lemmas of ButtonRpc_proofs, for the pair.
LEMMA PairRpcTypeStep == Rpc!RpcTypeOK /\ [Rpc!RpcNext]_Rpc!rpcVars => Rpc!RpcTypeOK'
<1>1. Rpc!RpcTypeOK' <=> RpcP!RpcTypeOK'
  BY DEF Rpc!RpcTypeOK, RpcP!RpcTypeOK, Rpc!Reply, RpcP!Reply, Rpc!NoReply, RpcP!NoReply
<1> QED BY <1>1, SameRpc, RpcP!RpcTypeStep, PeerAssumption, NoPeerCallIsNone

\* The call layer starts with its invariant and keeps it.
LEMMA PairRpcInvStep ==
  /\ Rpc!RpcInit => RpcP!RpcInv
  /\ RpcP!RpcInv /\ Rpc!RpcTypeOK' /\ [Rpc!RpcNext]_Rpc!rpcVars => RpcP!RpcInv'
<1>1. Rpc!RpcTypeOK' <=> RpcP!RpcTypeOK'
  BY DEF Rpc!RpcTypeOK, RpcP!RpcTypeOK, Rpc!Reply, RpcP!Reply, Rpc!NoReply, RpcP!NoReply
<1>2. Rpc!RpcInit <=> RpcP!RpcInit
  BY DEF Rpc!RpcInit, RpcP!RpcInit, Rpc!NoReply, RpcP!NoReply
<1>3. RpcP!RpcInit => RpcP!RpcInv
  BY RpcP!RpcInvInit, PeerAssumption, NoPeerCallIsNone
<1>4. RpcP!RpcInv /\ RpcP!RpcTypeOK' /\ [RpcP!RpcNext]_RpcP!rpcVars => RpcP!RpcInv'
  BY RpcP!RpcInvStep, PeerAssumption, NoPeerCallIsNone
<1> QED BY <1>1, <1>2, <1>3, <1>4, SameRpc

-----------------------------------------------------------------------------
(***************************************************************************)
(* The steps of one host.                                                  *)
(***************************************************************************)
ActsAt(h) ==
  \/ LocalCommand(h) \/ PeerCommand(h) \/ BadCommand(h)
  \/ Continue(h) \/ Handle(Peer[h])
  \/ process_step(h) \/ CrashStep(h) \/ colod_boot(h)

\* A step of the pair is a command, a part of a handler, or a fault of one host.
LEMMA StepOfOneHost == PairNext => \E h \in Node : ActsAt(h)
BY PeerAssumption DEF PairNext, ActsAt

\* What the handlers find in a call that has arrived.
LEMMA CallFields ==
  ASSUME NEW c \in PeerCall
  PROVE  /\ c # NoPeerCall
         /\ c.m = "peer-save-status" => c.role \in COLO_NODE_STATUS
         /\ c.m = "peer-save-domain" => c.ds \in colod_domain_status
         /\ c.m \in {"peer-start-domain", "peer-destroy-domain", "peer-send-qmpcmds"} =>
              c.dom \in Name
BY DEF PeerCall, NoPeerCall

\* Whatever waits to be served is a call.
LEMMA PendingType ==
  ASSUME Rpc!RpcTypeOK, NEW n \in Node, NEW c \in Pending(n)
  PROVE  c \in PeerCall
<1>1. req[n] \in PeerCall \cup {NoPeerCall} /\ closed[n] \in Seq(PeerCall)
  BY DEF Rpc!RpcTypeOK
<1> QED BY <1>1, ElementOfSeq DEF Pending

\* The fields of the handler under way.
LEMMA TaskFields ==
  ASSUME PairTypeOK, NEW n \in Node
  PROVE  /\ task[n] \in Task \cup {Idle}
         /\ task[n].at \in {"call", "wait", "qmp"} \/ task[n].op \in Op => task[n] \in Task
         /\ task[n] = Idle => task[n].at = "idle" /\ task[n].op = "none"
         /\ task[n] \in Task => task[n] # Idle /\ task[n].dom \in Name
         /\ task[n].dom \in Name
BY DEF PairTypeOK, Task, Idle, Op, Name

\* The call a handler makes is one of the calls.
LEMMA CallOfType ==
  ASSUME PairTypeOK, NEW n \in Node, task[n] \in Task
  PROVE  CallOf(n) \in PeerCall
<1>1. /\ task[n].op \in Op /\ task[n].dom \in Name
      /\ local_status[n] \in COLO_NODE_STATUS
      /\ domains[n][task[n].dom] \in colod_domain_status
  BY DEF PairTypeOK, HostTypeOK, Task
<1> QED BY <1>1 DEF CallOf, PeerCall, Op, OppositeDomain

-----------------------------------------------------------------------------
(***************************************************************************)
(* The handler under way and the call layer: a handler waits exactly while *)
(* net_call receives, and only a colod that runs has one.                  *)
(***************************************************************************)
Waits(n) ==
  /\ task[n] # Idle => up[n]
  /\ calling[n] # NoPeerCall <=> task[n].at = "wait"

\* Every step of a host is a step of the call layer, or none of its business.
LEMMA RpcStep ==
  ASSUME PairTypeOK, NEW h \in Node, Waits(h), ActsAt(h)
  PROVE  [Rpc!RpcNext]_Rpc!rpcVars
<1>0. Free(h) => Rpc!Serving(h)
  BY TaskFields DEF Free, Waits, Rpc!Serving
<1>1. CASE Rpc!connect(h)
  BY <1>1 DEF Rpc!RpcNext, Rpc!ClientStep
<1>2. CASE UNCHANGED <<up, rpcOnly>>
  BY <1>2 DEF rpcOnly, Rpc!rpcVars
<1>3. ASSUME NEW ps, NEW kept \in BOOLEAN, Ends(h, ps, kept)
      PROVE  [Rpc!RpcNext]_Rpc!rpcVars
  BY <1>3 DEF Ends, Rpc!RpcNext, Rpc!FaultStep
<1>4. CASE Rpc!recv_reply(h) \/ Rpc!recv_timeout(h)
  BY <1>4 DEF Rpc!RpcNext, Rpc!ClientStep
<1>5. CASE LocalCommand(h) \/ process_step(h)
  BY <1>2, <1>5
     DEF LocalCommand, process_step, Command, colod_list, colod_define, colod_undefine,
         colod_domain_test, colod_start, colod_start_fork_fails, colod_destroy,
         ProcessStep, VmExit, OtherSpawn, OtherExit
<1>6. CASE PeerCommand(h)
  <2>1. ASSUME NEW r \in ConfigRole, colod_connect_peer(h, r)
        PROVE  [Rpc!RpcNext]_Rpc!rpcVars
    BY <1>0, <1>1, <2>1 DEF colod_connect_peer, Rpc!connect
  <2>2. ASSUME NEW d \in Domain, colod_colo_enable(h, d)
        PROVE  [Rpc!RpcNext]_Rpc!rpcVars
    BY <1>0, <1>1, <1>2, <2>2 DEF colod_colo_enable, Rpc!connect
  <2> QED BY <1>2, <1>6, <2>1, <2>2
          DEF PeerCommand, colod_connect_status, colo_enable_tool, colod_domain_test,
              colod_colo_disable, colod_start_colo, colod_destroy_colo, colod_do_failover,
              colod_do_failover_fails, hostVars
<1>7. CASE BadCommand(h)
  BY <1>2, <1>3, <1>7
     DEF BadCommand, colod_connect_peer_bad_config, colod_start_throws,
         colod_vm_status_throws, hostVars
<1>8. CASE Continue(h)
  <2>1. CASE call(h)
    <3>1. CallOf(h) \in PeerCall
      BY <2>1, CallOfType, TaskFields DEF call
    <3> QED BY <2>1, <3>1 DEF call, Rpc!RpcNext, Rpc!ClientStep
  <2>2. CASE call_throws(h)
    BY <1>3, <2>2 DEF call_throws
  <2>3. CASE timed_out(h)
    BY <1>4, <2>3 DEF timed_out
  <2>4. CASE own_qmp(h)
    BY <1>2, <2>4 DEF own_qmp, hostVars
  <2> QED BY <1>4, <1>8, <2>1, <2>2, <2>3, <2>4
          DEF Continue, Proceed, connect_answered, status_or_qmp_answered, refused,
              enable_answered, enable_refused, start_answered, start_fork_fails,
              destroy_answered, Answered
<1>9. CASE Handle(Peer[h])
  <2> DEFINE n == Peer[h]
  <2>0. n \in Node /\ Peer[n] = h
    BY PeerAssumption
  <2>1. ASSUME NEW c, NEW ok \in BOOLEAN, Serve(n, c, ok) \/ ServeWithNewSocket(n, c, ok)
        PROVE  [Rpc!RpcNext]_Rpc!rpcVars
    <3> HIDE DEF n
    <3> QED BY <2>0, <2>1 DEF Serve, ServeWithNewSocket, Rpc!RpcNext, Rpc!ServerStep
  <2>2. PICK c \in Pending(n) : Handler(n, c)
    BY <1>9 DEF Handle
  <2>3. CASE peer_get_domain_throws(n, c)
    BY <1>3, <2>0, <2>3 DEF peer_get_domain_throws
  <2>4. DestroyOk(h, c.dom) \in BOOLEAN
    BY DEF DestroyOk, Alive
  <2> HIDE DEF n
  <2> QED BY <2>0, <2>1, <2>2, <2>3, <2>4
          DEF Handler, peer_colod_connect_test_reply, peer_colod_save_status,
              peer_colod_save_domain, peer_colod_start_domain, peer_colod_start_domain_refused,
              peer_colod_destroy_domain, peer_colod_destroy_domain_refused,
              peer_colod_send_qmpcmds, peer_colod_send_qmpcmds_refused
<1>10. CASE CrashStep(h)
  BY <1>3, <1>10
     DEF CrashStep, colod_crash, crash_in_start, crash_in_colo_start, CrashAfterFork,
         crash_in_destroy, crash_in_peer_save
<1>11. CASE colod_boot(h)
  BY <1>11 DEF colod_boot, Rpc!RpcNext, Rpc!FaultStep
<1> QED BY <1>5, <1>6, <1>7, <1>8, <1>9, <1>10, <1>11 DEF ActsAt

-----------------------------------------------------------------------------
(***************************************************************************)
(* What a step leaves alone: everything but the requests and answers of    *)
(* the other hosts.                                                        *)
(***************************************************************************)
SameAt(k) ==
  /\ up'[k] = up[k] /\ domains'[k] = domains[k] /\ file'[k] = file[k] /\ procs'[k] = procs[k]
  /\ sock'[k] = sock[k] /\ m_error_code'[k] = m_error_code[k] /\ calling'[k] = calling[k]
  /\ local_status'[k] = local_status[k] /\ cleared'[k] = cleared[k] /\ task'[k] = task[k]

\* The end of a colod.
LEMMA EndsElsewhere ==
  ASSUME PairTypeOK, NEW h \in Node, NEW ps, NEW kept, Ends(h, ps, kept),
         NEW k \in Node \ {h}, file'[k] = file[k]
  PROVE  SameAt(k)
BY DEF Ends, DaemonEnds, Rpc!Crash, Goto, SameAt, PairTypeOK, HostTypeOK, Rpc!RpcTypeOK

\* A step of h leaves everything else of the other hosts alone.
LEMMA OtherHostsSame ==
  ASSUME PairTypeOK, NEW h \in Node, ActsAt(h), NEW k \in Node \ {h}
  PROVE  SameAt(k)
<1>0. /\ HostTypeOK /\ Rpc!RpcTypeOK
      /\ local_status \in [Node -> COLO_NODE_STATUS]
      /\ cleared \in [Node -> SUBSET Domain]
      /\ task \in [Node -> Task \cup {Idle}]
  BY DEF PairTypeOK
<1>1. CASE LocalCommand(h) \/ process_step(h)
  <2>1. Command(h) \/ ProcessStep(h)
    BY <1>1 DEF LocalCommand, process_step
  <2> QED BY <1>0, <1>1, <2>1, OneHostSteps
          DEF LocalCommand, process_step, rpcOnly, coloVars, SameAt
<1>2. CASE PeerCommand(h)
  <2> USE <1>0 DEF SameAt, HostTypeOK, Rpc!RpcTypeOK, Goto, SetEntry, rpcOnly, coloVars, hostVars
  <2>1. ASSUME NEW r \in ConfigRole, colod_connect_peer(h, r) PROVE SameAt(k)
    BY <2>1 DEF colod_connect_peer, Rpc!as_client
  <2>2. ASSUME NEW d \in Domain, colod_colo_enable(h, d) PROVE SameAt(k)
    BY <2>2 DEF colod_colo_enable, Rpc!as_client
  <2>3. ASSUME NEW d \in Domain,
               \/ colo_enable_tool(h, d) \/ colod_colo_disable(h, d) \/ colod_start_colo(h, d)
        PROVE  SameAt(k)
    BY <2>3 DEF colo_enable_tool, colod_domain_test, test_domain_status, colod_colo_disable,
                colod_start_colo
  <2>4. ASSUME NEW d \in Domain,
               \/ colod_destroy_colo(h, d)
               \/ colod_do_failover(h, d) \/ colod_do_failover_fails(h, d)
        PROVE  SameAt(k)
    BY <2>4 DEF colod_destroy_colo, colod_do_failover, colod_do_failover_fails
  <2>5. CASE colod_connect_status(h)
    BY <2>5 DEF colod_connect_status
  <2> QED BY <1>2, <2>1, <2>2, <2>3, <2>4, <2>5 DEF PeerCommand
<1>3. CASE BadCommand(h)
  <2>1. ASSUME NEW r \in ConfigRole, colod_connect_peer_bad_config(h, r) PROVE SameAt(k)
    BY <1>0, <2>1 DEF colod_connect_peer_bad_config, hostVars, rpcOnly, SameAt
  <2>2. ASSUME NEW d \in Domain, colod_start_throws(h, d) PROVE SameAt(k)
    BY <1>0, <2>2, EndsElsewhere DEF colod_start_throws, HostTypeOK
  <2>3. ASSUME NEW d \in Domain, colod_vm_status_throws(h, d) PROVE SameAt(k)
    BY <2>3, EndsElsewhere DEF colod_vm_status_throws
  <2> QED BY <1>3, <2>1, <2>2, <2>3 DEF BadCommand
<1>4. CASE Continue(h)
  <2>1. CASE call_throws(h)
    BY <2>1, EndsElsewhere DEF call_throws
  <2> USE <1>0 DEF SameAt, HostTypeOK, Rpc!RpcTypeOK, Goto, SetEntry, rpcOnly, coloVars, hostVars
  <2>2. CASE call(h)
    BY <2>2 DEF call, Rpc!net_call
  <2>3. CASE timed_out(h)
    BY <2>3 DEF timed_out, timed_out_reset, Rpc!recv_timeout
  <2>4. CASE own_qmp(h)
    BY <2>4 DEF own_qmp
  <2>5. CASE connect_answered(h) \/ status_or_qmp_answered(h) \/ refused(h) \/ start_fork_fails(h)
    BY <2>5 DEF connect_answered, status_or_qmp_answered, refused, start_fork_fails, Return,
                Answered, Rpc!recv_reply
  <2>6. CASE enable_answered(h) \/ enable_refused(h)
    BY <2>6 DEF enable_answered, enable_refused, Answered, Rpc!recv_reply
  <2>7. CASE start_answered(h)
    BY <2>7 DEF start_answered, run_new_vm, Answered, Rpc!recv_reply
  <2>8. CASE destroy_answered(h)
    BY <2>8 DEF destroy_answered, destroy_domain, Answered, Rpc!recv_reply
  <2> QED BY <1>4, <2>1, <2>2, <2>3, <2>4, <2>5, <2>6, <2>7, <2>8 DEF Continue, Proceed
<1>5. CASE Handle(Peer[h])
  <2> DEFINE n == Peer[h]
  <2>0. n \in Node /\ Peer[n] = h /\ n # h
    BY PeerAssumption
  <2>1. ASSUME NEW c, NEW ok, Serve(n, c, ok) \/ ServeWithNewSocket(n, c, ok)
        PROVE  up' = up /\ sock'[k] = sock[k] /\ m_error_code' = m_error_code /\ calling' = calling
    <3> HIDE DEF n
    <3>1. CASE Serve(n, c, ok)
      BY <3>1 DEF Serve, Rpc!run, Rpc!run_closed
    <3>2. CASE ServeWithNewSocket(n, c, ok)
      BY <1>0, <2>0, <3>2
         DEF ServeWithNewSocket, Rpc!run_as_client, Rpc!run_closed_as_client, Rpc!RpcTypeOK
    <3> QED BY <2>1, <3>1, <3>2
  <2>2. PICK c \in Pending(n) : Handler(n, c)
    BY <1>5 DEF Handle
  <2> HIDE DEF n
  <2>3. CASE peer_get_domain_throws(n, c)
    BY <2>0, <2>3, EndsElsewhere DEF peer_get_domain_throws
  <2> USE <1>0, <2>0, <2>1 DEF SameAt, HostTypeOK, SetEntry, coloVars
  <2>4. CASE peer_colod_connect_test_reply(n, c)
    BY <2>4 DEF peer_colod_connect_test_reply
  <2>5. CASE peer_colod_save_status(n, c)
    BY <2>5 DEF peer_colod_save_status
  <2>6. CASE peer_colod_save_domain(n, c)
    BY <2>6 DEF peer_colod_save_domain
  <2>7. CASE peer_colod_start_domain(n, c)
    BY <2>7 DEF peer_colod_start_domain, run_new_vm
  <2>8. CASE peer_colod_start_domain_refused(n, c) \/ peer_colod_send_qmpcmds(n, c)
    BY <2>8 DEF peer_colod_start_domain_refused, peer_colod_send_qmpcmds
  <2>9. CASE peer_colod_destroy_domain(n, c)
    BY <2>9 DEF peer_colod_destroy_domain, destroy_domain
  <2>10. CASE peer_colod_destroy_domain_refused(n, c) \/ peer_colod_send_qmpcmds_refused(n, c)
    BY <2>10 DEF peer_colod_destroy_domain_refused, peer_colod_send_qmpcmds_refused,
                 test_domain_status
  <2> QED BY <2>2, <2>3, <2>4, <2>5, <2>6, <2>7, <2>8, <2>9, <2>10 DEF Handler
<1>6. CASE CrashStep(h)
  BY <1>0, <1>6, EndsElsewhere
     DEF CrashStep, colod_crash, crash_in_start, crash_in_colo_start, CrashAfterFork,
         crash_in_destroy, crash_in_peer_save, HostTypeOK
<1>7. CASE colod_boot(h)
  BY <1>0, <1>7
     DEF colod_boot, ColodBoot, Rpc!Boot, coloVars, SameAt, HostTypeOK
<1> QED BY <1>1, <1>2, <1>3, <1>4, <1>5, <1>6, <1>7 DEF ActsAt

\* A handler waits exactly while net_call receives: for the host that acts ...
LEMMA WaitsStep ==
  ASSUME PairTypeOK, NEW h \in Node, Waits(h), ActsAt(h)
  PROVE  Waits(h)'
<1>0. /\ HostTypeOK /\ Rpc!RpcTypeOK
      /\ task \in [Node -> Task \cup {Idle}]
      /\ \A op, d, cur : Doing(op, "call", d, cur).at = "call"
      /\ \A op, d, cur : Doing(op, "qmp", d, cur).at = "qmp"
      /\ Idle.at = "idle"
  BY DEF PairTypeOK, Doing, Idle
<1> USE <1>0 DEF Waits, HostTypeOK, Rpc!RpcTypeOK
<1>1. CASE task'[h] = Idle /\ calling'[h] = NoPeerCall
  BY <1>1
<1>2. CASE up'[h] /\ calling'[h] = NoPeerCall /\ task'[h].at \in {"call", "qmp", "idle"}
  BY <1>2
<1>3. CASE up'[h] /\ UNCHANGED <<calling, task>>
  BY <1>3
<1>4. ASSUME NEW ps, NEW kept, Ends(h, ps, kept) PROVE Waits(h)'
  BY <1>1, <1>4 DEF Ends, Goto, Rpc!Crash
<1>5. Free(h) => up[h] /\ task[h] = Idle /\ calling[h] = NoPeerCall
  BY DEF Free
<1>6. CASE LocalCommand(h) \/ process_step(h)
  <2>1. up' = up
    BY <1>6 DEF LocalCommand, process_step, Command, colod_list, colod_define,
       colod_undefine, colod_domain_test, colod_start, colod_start_fork_fails, colod_destroy,
       ProcessStep, VmExit, OtherSpawn, OtherExit
  <2>2. UNCHANGED <<calling, task>>
    BY <1>6 DEF LocalCommand, process_step, rpcOnly
  <2> QED BY <2>1, <2>2
<1>7. CASE PeerCommand(h)
  <2>1. calling' = calling /\ up' = up /\ Free(h)
    BY <1>7
       DEF PeerCommand, colod_connect_peer, colod_connect_status, colo_enable_tool,
           colod_domain_test, colod_colo_enable, colod_colo_disable, colod_start_colo,
           colod_destroy_colo, colod_do_failover, colod_do_failover_fails, Rpc!as_client,
           rpcOnly, hostVars
  <2>2. UNCHANGED task \/ \E op, d, cur : Goto(h, Doing(op, "call", d, cur))
    BY <1>7
       DEF PeerCommand, colod_connect_peer, colod_connect_status, colo_enable_tool,
           colod_colo_enable, colod_colo_disable, colod_start_colo,
           colod_destroy_colo, colod_do_failover, colod_do_failover_fails
  <2>3. task'[h] = Idle \/ task'[h].at = "call"
    BY <1>5, <2>1, <2>2 DEF Goto
  <2> QED BY <1>2, <1>5, <2>1, <2>3
<1>8. CASE BadCommand(h)
  BY <1>3, <1>4, <1>5, <1>8
     DEF BadCommand, colod_connect_peer_bad_config, colod_start_throws,
         colod_vm_status_throws, hostVars, rpcOnly
<1>9. CASE Continue(h)
  <2>1. CASE call(h)
    <3>1. task[h] \in Task /\ CallOf(h) # NoPeerCall
      BY <2>1, TaskFields, CallOfType, NoPeerCallIsNone DEF call
    <3>2. task'[h] # Idle /\ task'[h].at = "wait"
      BY <2>1, <3>1 DEF call, Goto, Task, Idle
    <3> QED BY <2>1, <3>1, <3>2 DEF call, Rpc!net_call, Rpc!Serving
  <2>2. CASE call_throws(h)
    BY <1>4, <2>2 DEF call_throws
  <2>3. CASE timed_out(h)
    BY <1>1, <2>3 DEF timed_out, Goto, Rpc!recv_timeout
  <2>4. CASE own_qmp(h)
    <3>1. task[h] \in Task
      BY <2>4, TaskFields DEF own_qmp
    <3>2. task'[h] = Idle \/ task'[h].at = "call"
      BY <2>4, <3>1 DEF own_qmp, Goto, Task
    <3> QED BY <1>2, <2>4, <3>2 DEF own_qmp, hostVars, rpcOnly
  <2>5. ASSUME Rpc!recv_reply(h), NEW t, t.at \in {"call", "qmp", "idle"}, Goto(h, t)
        PROVE  Waits(h)'
    BY <1>2, <2>5 DEF Rpc!recv_reply, Goto
  <2>6. \A d, cur : AfterFork(d, cur).at \in {"call", "qmp", "idle"}
    BY DEF AfterFork
  <2> QED BY <1>9, <2>1, <2>2, <2>3, <2>4, <2>5, <2>6
          DEF Continue, Proceed, connect_answered, status_or_qmp_answered, refused,
              enable_answered, enable_refused, start_answered, start_fork_fails,
              destroy_answered, Answered, Return
<1>10. CASE Handle(Peer[h])
  <2> DEFINE n == Peer[h]
  <2>0. n \in Node /\ Peer[n] = h /\ n # h
    BY PeerAssumption
  <2>1. PICK c \in Pending(n) : Handler(n, c)
    BY <1>10 DEF Handle
  <2> HIDE DEF n
  <2>2. ASSUME NEW e, NEW ok, Serve(n, e, ok) \/ ServeWithNewSocket(n, e, ok)
        PROVE  up' = up /\ calling' = calling /\ up[h]
    BY <2>0, <2>2 DEF Serve, ServeWithNewSocket, Free, Rpc!run, Rpc!run_closed,
       Rpc!run_as_client, Rpc!run_closed_as_client
  <2> QED BY <1>3, <1>4, <2>0, <2>1, <2>2
          DEF Handler, peer_colod_connect_test_reply, peer_colod_save_status,
              peer_colod_save_domain, peer_colod_start_domain,
              peer_colod_start_domain_refused, peer_colod_destroy_domain,
              peer_colod_destroy_domain_refused, peer_colod_send_qmpcmds,
              peer_colod_send_qmpcmds_refused, peer_get_domain_throws
<1>11. CASE CrashStep(h)
  BY <1>4, <1>11
     DEF CrashStep, colod_crash, crash_in_start, crash_in_colo_start, CrashAfterFork,
         crash_in_destroy, crash_in_peer_save
<1>12. CASE colod_boot(h)
  BY <1>3, <1>12 DEF colod_boot, ColodBoot, Rpc!Boot
<1> QED BY <1>6, <1>7, <1>8, <1>9, <1>10, <1>11, <1>12 DEF ActsAt

\* ... and for the others.
LEMMA WaitsElsewhere ==
  ASSUME NEW k \in Node, Waits(k), SameAt(k)
  PROVE  Waits(k)'
BY DEF Waits, SameAt

-----------------------------------------------------------------------------
(***************************************************************************)
(* What a step does to the records and the processes of its host: what     *)
(* ColodHost knows, or one of five things more.                            *)
(***************************************************************************)

\* It changes whether domain d is enabled, or its role, or what kind of running
\* it is in; neither a pid nor whether it runs.
SameProcesses(f, g) == \A x \in Name : f[x].pid = g[x].pid /\ f[x].saved = g[x].saved

Relabels(h, d) ==
  \E ds \in colod_domain_status, f \in SaveContents :
    /\ SetEntry(h, d, ds) /\ file' = [file EXCEPT ![h] = f] /\ UNCHANGED <<up, procs>>
    /\ ds.name = domains[h][d].name /\ ds.pid = domains[h][d].pid
    /\ ds.status = "shutoff" <=> domains[h][d].status = "shutoff"
    /\ SameProcesses(f, file[h])

\* It forks a vm for d and records its pid.
Forks(h, d) ==
  /\ \E p \in Pid, kind \in {"vm", "zombie"} :
       /\ run_new_vm(h, d, p, kind, file[h])
       /\ SetEntry(h, d, Started(domains[h][d], p, "colo-enabled"))
  /\ UNCHANGED up

\* It destroys d, or finds that it cannot.
Destroys(h, d) ==
  /\ destroy_domain(h, d)
  /\ IF DestroyOk(h, d) THEN SetEntry(h, d, Stopped(domains[h][d])) ELSE UNCHANGED domains
  /\ UNCHANGED up

\* It takes over an entry from the peer.
TakesOver(h, ds) ==
  /\ file' = [file EXCEPT ![h] = SavedEnabled(@, ds)]
  /\ SetEntry(h, ds.name, ds)
  /\ UNCHANGED <<up, procs>>

\* It ends colod, perhaps just after a fork.
Falls(h) ==
  \E ps \in [Pid -> Process], f \in SaveContents :
    /\ DaemonEnds(h, ps) /\ file' = [file EXCEPT ![h] = f]
    /\ \A p \in Pid : procs[h][p].kind # "free" => ps[p] = procs[h][p]

QuietEffect(h) ==
  \/ UNCHANGED hostVars
  \/ Command(h) \/ ProcessStep(h) \/ ColodBoot(h) \/ Falls(h)
  \/ \E d \in Name : colod_domain_test(h, d) \/ Destroys(h, d)

PlainEffect(h) ==
  \/ QuietEffect(h)
  \/ \E d \in Name : Forks(h, d)
  \/ \E ds \in colod_domain_status : TakesOver(h, ds)

HostEffect(h) == PlainEffect(h) \/ \E d \in Name : Relabels(h, d)

\* The steps that relabel a domain.
RelabelStep(h) ==
  \/ \E d \in Domain : \/ colod_colo_enable(h, d) \/ colod_colo_disable(h, d)
                       \/ colod_do_failover(h, d) \/ colod_do_failover_fails(h, d)
  \/ timed_out(h) \/ enable_answered(h) \/ enable_refused(h)

\* The steps that give a domain a new pid or a new entry.
OverwriteStep(h) ==
  \/ start_answered(h)
  \/ \E c \in Pending(Peer[h]) :
       peer_colod_save_domain(Peer[h], c) \/ peer_colod_start_domain(Peer[h], c)

\* The two functions on the save file that concern colo.
LEMMA ColoSaveTypes ==
  ASSUME NEW f \in SaveContents, NEW d \in Name
  PROVE  /\ \A cs \in COLO_DOMAIN_STATUS :
              /\ set_domain_colo_enable(f, d, cs) \in SaveContents
              /\ SameProcesses(set_domain_colo_enable(f, d, cs), f)
         /\ set_domain_colo_disable(f, d) \in SaveContents
         /\ SameProcesses(set_domain_colo_disable(f, d), f)
BY DEF set_domain_colo_enable, set_domain_colo_disable, SaveContents, SavedDomain, SameProcesses

\* The entries the colo handlers make.
LEMMA ColoEntryTypes ==
  ASSUME NEW ds \in colod_domain_status
  PROVE  /\ TakenOver(ds) \in colod_domain_status /\ TakenOver(ds).name = ds.name
         /\ \A r : /\ EnabledAs(ds, r) \in colod_domain_status
                   /\ EnabledAs(ds, r).name = ds.name
                   /\ EnabledAs(ds, r).pid = ds.pid
                   /\ EnabledAs(ds, r).status = ds.status
         /\ \A p \in Pid : Started(ds, p, "colo-enabled") \in colod_domain_status
         /\ Stopped(ds) \in colod_domain_status
BY DEF TakenOver, OppositeDomain, EnabledAs, Started, Stopped, colod_domain_status,
   DOMAIN_STATUS, COLO_DOMAIN_STATUS

\* What those steps do.
LEMMA RelabelSteps ==
  ASSUME PairTypeOK, NEW h \in Node, RelabelStep(h)
  PROVE  \E d \in Name : Relabels(h, d)
<1>0. /\ \A d \in Name : domains[h][d] \in colod_domain_status
      /\ file[h] \in SaveContents /\ file = [file EXCEPT ![h] = file[h]]
      /\ Domain \subseteq Name
      /\ task[h].dom \in Name
      /\ SameProcesses(file[h], file[h])
  BY TaskFields DEF PairTypeOK, HostTypeOK, Name, SameProcesses
<1>k. ASSUME NEW d \in Name, UNCHANGED domains PROVE SetEntry(h, d, domains[h][d])
  BY <1>k DEF SetEntry, PairTypeOK, HostTypeOK
<1>e. ASSUME NEW ds \in colod_domain_status
      PROVE  \E ex \in colod_domain_status :
               /\ ex = [ds EXCEPT !.colo_enable = FALSE]
               /\ ex.name = ds.name /\ ex.pid = ds.pid /\ ex.status = ds.status
  <2> DEFINE ex == [ds EXCEPT !.colo_enable = FALSE]
  <2>1. /\ ex \in colod_domain_status
        /\ ex.name = ds.name /\ ex.pid = ds.pid /\ ex.status = ds.status
    BY DEF colod_domain_status
  <2> HIDE DEF ex
  <2>2. \E y \in colod_domain_status :
          y = ex /\ y.name = ds.name /\ y.pid = ds.pid /\ y.status = ds.status
    BY <2>1
  <2> QED BY <2>2 DEF ex
<1>r. ASSUME NEW d \in Name, NEW ds \in colod_domain_status, SetEntry(h, d, ds),
             ds.name = domains[h][d].name, ds.pid = domains[h][d].pid,
             ds.status = "shutoff" <=> domains[h][d].status = "shutoff",
             NEW f \in SaveContents, file' = [file EXCEPT ![h] = f],
             SameProcesses(f, file[h]), UNCHANGED <<up, procs>>
      PROVE  \E x \in Name : Relabels(h, x)
  BY <1>r DEF Relabels
<1>1. ASSUME NEW d \in Domain, colod_colo_enable(h, d) PROVE \E x \in Name : Relabels(h, x)
  <2>1. /\ SetEntry(h, d, EnabledAs(domains[h][d], local_status[h]))
        /\ UNCHANGED file /\ UNCHANGED <<up, procs>>
    BY <1>1 DEF colod_colo_enable
  <2> QED BY <1>0, <1>r, <2>1, ColoEntryTypes
<1>2. ASSUME NEW d \in Domain, colod_colo_disable(h, d) PROVE \E x \in Name : Relabels(h, x)
  <2>1. PICK ex \in colod_domain_status :
          /\ SetEntry(h, d, ex) /\ ex.name = domains[h][d].name
          /\ ex.pid = domains[h][d].pid /\ ex.status = domains[h][d].status
    BY <1>0, <1>2, <1>e DEF colod_colo_disable
  <2>2. /\ file' = [file EXCEPT ![h] = set_domain_colo_disable(file[h], d)]
        /\ UNCHANGED <<up, procs>>
    BY <1>2 DEF colod_colo_disable
  <2> QED BY <1>0, <1>r, <2>1, <2>2, ColoSaveTypes
<1>3. ASSUME NEW d \in Domain, colod_do_failover(h, d) \/ colod_do_failover_fails(h, d)
      PROVE  \E x \in Name : Relabels(h, x)
  <2>1. domains[h][d].status # "shutoff" /\ UNCHANGED <<up, procs>> /\ UNCHANGED file
    BY <1>3 DEF colod_do_failover, colod_do_failover_fails, MayFailover
  <2>2. ASSUME NEW ds \in colod_domain_status, ds.status # "shutoff"
        PROVE  \A ex \in {Failover(ds), [ds EXCEPT !.colo_status = "failover"]} :
                 /\ ex \in colod_domain_status /\ ex.name = ds.name
                 /\ ex.pid = ds.pid /\ ex.status # "shutoff"
    BY <2>2 DEF Failover, colod_domain_status, DOMAIN_STATUS, COLO_DOMAIN_STATUS
  <2>3. PICK ex \in {Failover(domains[h][d]), [domains[h][d] EXCEPT !.colo_status = "failover"]} :
          SetEntry(h, d, ex)
    BY <1>3 DEF colod_do_failover, colod_do_failover_fails
  <2>4. /\ ex \in colod_domain_status /\ ex.name = domains[h][d].name
        /\ ex.pid = domains[h][d].pid /\ ex.status # "shutoff"
    BY <1>0, <2>1, <2>2, <2>3
  <2> QED BY <1>0, <1>r, <2>1, <2>3, <2>4
<1>4. CASE timed_out(h)
  <2>1. /\ \/ SetEntry(h, task[h].dom, [domains[h][task[h].dom] EXCEPT !.colo_enable = FALSE])
           \/ UNCHANGED domains
        /\ UNCHANGED file /\ UNCHANGED <<up, procs>>
    BY <1>4 DEF timed_out, timed_out_reset, Rpc!recv_timeout
  <2>2. PICK ex \in colod_domain_status :
          /\ SetEntry(h, task[h].dom, ex) /\ ex.name = domains[h][task[h].dom].name
          /\ ex.pid = domains[h][task[h].dom].pid /\ ex.status = domains[h][task[h].dom].status
    BY <1>0, <1>e, <1>k, <2>1
  <2> QED BY <1>0, <1>r, <2>1, <2>2
<1>5. CASE enable_answered(h)
  <2> DEFINE d == task[h].dom
             f == set_domain_colo_enable(file[h], d, domains[h][d].colo_status)
  <2>1. UNCHANGED domains /\ file' = [file EXCEPT ![h] = f] /\ UNCHANGED <<up, procs>>
    BY <1>5 DEF enable_answered, Answered, Rpc!recv_reply
  <2>2. domains[h][d].colo_status \in COLO_DOMAIN_STATUS
    BY <1>0 DEF colod_domain_status
  <2>3. f \in SaveContents /\ SameProcesses(f, file[h])
    BY <1>0, <2>2, ColoSaveTypes
  <2> HIDE DEF f
  <2> QED BY <1>0, <1>k, <1>r, <2>1, <2>3
<1>6. CASE enable_refused(h)
  <2>1. /\ SetEntry(h, task[h].dom, [domains[h][task[h].dom] EXCEPT !.colo_enable = FALSE])
        /\ UNCHANGED file /\ UNCHANGED <<up, procs>>
    BY <1>6 DEF enable_refused, Answered, Rpc!recv_reply
  <2>2. PICK ex \in colod_domain_status :
          /\ SetEntry(h, task[h].dom, ex) /\ ex.name = domains[h][task[h].dom].name
          /\ ex.pid = domains[h][task[h].dom].pid /\ ex.status = domains[h][task[h].dom].status
    BY <1>0, <1>e, <2>1
  <2> QED BY <1>0, <1>r, <2>1, <2>2
<1> QED BY <1>1, <1>2, <1>3, <1>4, <1>5, <1>6 DEF RelabelStep

\* Every other step leaves each entry with its pid, or without one.
LEMMA QuietSteps ==
  ASSUME PairTypeOK, NEW h \in Node, ActsAt(h),
         ~RelabelStep(h), ~OverwriteStep(h)
  PROVE  QuietEffect(h)
<1>0. /\ HostTypeOK /\ file[h] \in SaveContents /\ file = [file EXCEPT ![h] = file[h]]
      /\ procs[h] \in [Pid -> Process] /\ EmptySave \in SaveContents
      /\ \A d \in Domain : TestedFile(h, d) \in SaveContents
      /\ task[h].dom \in Name /\ Domain \subseteq Name
  BY EmptySaveType, TestedType, TaskFields DEF PairTypeOK, HostTypeOK, Name
<1>1. ASSUME NEW kept, NEW f \in SaveContents, Ends(h, procs[h], kept),
             file' = [file EXCEPT ![h] = f]
      PROVE  QuietEffect(h)
  BY <1>0, <1>1 DEF Ends, QuietEffect, Falls
<1>2. CASE LocalCommand(h) \/ process_step(h) \/ colod_boot(h)
  BY <1>2 DEF LocalCommand, process_step, colod_boot, QuietEffect
<1>3. CASE PeerCommand(h)
  <2>1. ASSUME NEW d \in Domain, colo_enable_tool(h, d) PROVE QuietEffect(h)
    BY <1>0, <2>1 DEF colo_enable_tool, QuietEffect
  <2>2. ASSUME NEW d \in Domain, colod_start_colo(h, d) PROVE QuietEffect(h)
    BY <1>0, <2>2 DEF colod_start_colo, QuietEffect, colod_domain_test, Free
  <2>3. ASSUME NEW d \in Domain,
               \/ colod_colo_enable(h, d) \/ colod_colo_disable(h, d)
               \/ colod_do_failover(h, d) \/ colod_do_failover_fails(h, d)
        PROVE  QuietEffect(h)
    BY <2>3 DEF RelabelStep
  <2>4. CASE \/ \E r \in ConfigRole : colod_connect_peer(h, r)
             \/ colod_connect_status(h)
             \/ \E d \in Domain : colod_destroy_colo(h, d)
    BY <2>4 DEF colod_connect_peer, Rpc!as_client, colod_connect_status, colod_destroy_colo,
                QuietEffect, hostVars
  <2> QED BY <1>3, <2>1, <2>2, <2>3, <2>4 DEF PeerCommand
<1>4. CASE BadCommand(h)
  <2>1. CASE \E r \in ConfigRole : colod_connect_peer_bad_config(h, r)
    BY <2>1 DEF colod_connect_peer_bad_config, QuietEffect
  <2>2. ASSUME NEW d \in Domain, colod_start_throws(h, d) \/ colod_vm_status_throws(h, d)
        PROVE  QuietEffect(h)
    BY <1>0, <1>1, <2>2 DEF colod_start_throws, colod_vm_status_throws
  <2> QED BY <1>4, <2>1, <2>2 DEF BadCommand
<1>5. CASE Continue(h)
  <2>1. CASE timed_out(h) \/ enable_answered(h) \/ enable_refused(h)
    BY <2>1 DEF RelabelStep
  <2>2. CASE call_throws(h)
    BY <1>0, <1>1, <2>2 DEF call_throws
  <2>3. CASE start_answered(h)
    BY <2>3 DEF OverwriteStep
  <2>4. CASE destroy_answered(h)
    <3>1. Destroys(h, task[h].dom)
      BY <2>4 DEF destroy_answered, Destroys, Answered, Rpc!recv_reply
    <3> QED BY <1>0, <3>1 DEF QuietEffect
  <2>5. CASE \/ call(h) \/ connect_answered(h) \/ status_or_qmp_answered(h) \/ refused(h)
             \/ start_fork_fails(h) \/ own_qmp(h)
    BY <2>5 DEF call, Rpc!net_call, connect_answered, status_or_qmp_answered, refused,
                start_fork_fails, own_qmp, Return, Answered, Rpc!recv_reply, QuietEffect, hostVars
  <2> QED BY <1>5, <2>1, <2>2, <2>3, <2>4, <2>5 DEF Continue, Proceed
<1>6. CASE Handle(Peer[h])
  <2> DEFINE n == Peer[h]
  <2>0. n \in Node /\ Peer[n] = h
    BY PeerAssumption
  <2>1. PICK c \in Pending(n) : Handler(n, c)
    BY <1>6 DEF Handle
  <2>2. c.m \in {"peer-destroy-domain", "peer-send-qmpcmds"} => c.dom \in Name
    <3>1. c \in PeerCall
      BY <2>0, PendingType DEF PairTypeOK
    <3> QED BY <3>1, CallFields
  <2>5. ~peer_colod_save_domain(n, c) /\ ~peer_colod_start_domain(n, c)
    BY <2>1 DEF OverwriteStep
  <2> HIDE DEF n
  <2>3. ASSUME NEW e, NEW ok, Serve(n, e, ok) \/ ServeWithNewSocket(n, e, ok)
        PROVE  up' = up /\ up[h]
    BY <2>0, <2>3 DEF Serve, ServeWithNewSocket, Free, Rpc!run, Rpc!run_closed,
       Rpc!run_as_client, Rpc!run_closed_as_client
  <2>4. CASE peer_get_domain_throws(n, c)
    BY <1>0, <1>1, <2>0, <2>4 DEF peer_get_domain_throws
  <2>7. CASE peer_colod_destroy_domain(n, c)
    <3>1. Destroys(h, c.dom)
      BY <2>0, <2>3, <2>7 DEF peer_colod_destroy_domain, Destroys
    <3> QED BY <2>2, <2>7, <3>1 DEF QuietEffect, peer_colod_destroy_domain
  <2>8. CASE peer_colod_destroy_domain_refused(n, c) \/ peer_colod_send_qmpcmds_refused(n, c)
    <3>1. UNCHANGED hostVars \/ colod_domain_test(h, c.dom)
      BY <2>0, <2>3, <2>8
         DEF peer_colod_destroy_domain_refused, peer_colod_send_qmpcmds_refused,
             colod_domain_test, hostVars
    <3>2. c.dom \in Name
      BY <2>2, <2>8 DEF peer_colod_destroy_domain_refused, peer_colod_send_qmpcmds_refused
    <3> QED BY <3>1, <3>2 DEF QuietEffect
  <2>9. CASE \/ peer_colod_connect_test_reply(n, c) \/ peer_colod_save_status(n, c)
             \/ peer_colod_start_domain_refused(n, c) \/ peer_colod_send_qmpcmds(n, c)
    BY <2>0, <2>3, <2>9
       DEF peer_colod_connect_test_reply, peer_colod_save_status,
           peer_colod_start_domain_refused, peer_colod_send_qmpcmds, QuietEffect, hostVars
  <2> QED BY <2>1, <2>4, <2>5, <2>7, <2>8, <2>9 DEF Handler
<1>7. CASE CrashStep(h)
  <2>1. CASE colod_crash(h)
    BY <1>0, <1>1, <2>1 DEF colod_crash
  <2>2. ASSUME NEW d \in Domain, NEW kept, CrashAfterFork(h, d, kept), NEW f \in SaveContents,
               file' = [file EXCEPT ![h] = f]
        PROVE  QuietEffect(h)
    <3>1. PICK p \in Pid, ps \in [Pid -> Process] :
            /\ procs[h][p].kind = "free" /\ ps = [procs[h] EXCEPT ![p] = Child(d, "vm")]
            /\ DaemonEnds(h, ps)
      <4>1. PICK p \in Pid :
              /\ procs[h][p].kind = "free"
              /\ DaemonEnds(h, [procs[h] EXCEPT ![p] = Child(d, "vm")])
        BY <2>2 DEF CrashAfterFork, Ends
      <4>2. [procs[h] EXCEPT ![p] = Child(d, "vm")] \in [Pid -> Process]
        BY <1>0 DEF Child, Process
      <4> QED BY <4>1, <4>2
    <3>2. \A q \in Pid : procs[h][q].kind # "free" => ps[q] = procs[h][q]
      BY <1>0, <3>1
    <3> QED BY <2>2, <3>1, <3>2 DEF QuietEffect, Falls
  <2>3. ASSUME NEW d \in Domain, crash_in_destroy(h, d) PROVE QuietEffect(h)
    <3>1. remove_domain_pid(file[h], d) \in SaveContents
      BY <1>0, SaveTypes
    <3> QED BY <1>1, <2>3, <3>1 DEF crash_in_destroy
  <2>4. CASE crash_in_peer_save(h)
    <3>1. PICK c \in Pending(Peer[h]) :
            /\ c.m = "peer-save-domain"
            /\ file' = [file EXCEPT ![h] = save_domain_info(@, TakenOver(c.ds))]
      BY <2>4 DEF crash_in_peer_save
    <3>2. save_domain_info(file[h], TakenOver(c.ds)) \in SaveContents
      <4>1. c \in PeerCall
        BY PeerAssumption, PendingType DEF PairTypeOK
      <4> QED BY <1>0, <3>1, <4>1, CallFields, ColoEntryTypes, SaveTypes
    <3> QED BY <1>1, <2>4, <3>1, <3>2 DEF crash_in_peer_save
  <2> QED BY <1>0, <1>7, <2>1, <2>2, <2>3, <2>4 DEF CrashStep, crash_in_start, crash_in_colo_start
<1> QED BY <1>2, <1>3, <1>4, <1>5, <1>6, <1>7 DEF ActsAt

\* The overwriting ones fork a vm for a domain, on the caller or on the peer ...
LEMMA ForkSteps ==
  ASSUME PairTypeOK, NEW h \in Node,
         start_answered(h) \/ \E c \in Pending(Peer[h]) : peer_colod_start_domain(Peer[h], c)
  PROVE  \E d \in Name : Forks(h, d)
<1> DEFINE n == Peer[h]
<1>0. n \in Node /\ Peer[n] = h
  BY PeerAssumption
<1>1. CASE start_answered(h)
  <2>1. Forks(h, task[h].dom)
    BY <1>1 DEF start_answered, Forks, VmKind, Answered, Rpc!recv_reply
  <2> QED BY <2>1, TaskFields
<1>2. ASSUME NEW c \in Pending(n), peer_colod_start_domain(n, c) PROVE \E d \in Name : Forks(h, d)
  <2>1. c \in PeerCall
    BY <1>0, PendingType DEF PairTypeOK
  <2> HIDE DEF n
  <2>2. ASSUME NEW ok, Serve(n, c, ok) PROVE up' = up
    BY <2>2 DEF Serve, Rpc!run, Rpc!run_closed
  <2>3. Forks(h, c.dom)
    BY <1>0, <1>2, <2>2 DEF peer_colod_start_domain, Forks, VmKind
  <2> QED BY <1>2, <2>1, <2>3, CallFields DEF peer_colod_start_domain
<1> QED BY <1>1, <1>2

\* ... or put the peer's entry in the place of the own one.
LEMMA TakeOverStep ==
  ASSUME PairTypeOK, NEW h \in Node, NEW c \in Pending(Peer[h]), peer_colod_save_domain(Peer[h], c)
  PROVE  TakenOver(c.ds) \in colod_domain_status /\ TakesOver(h, TakenOver(c.ds))
<1> DEFINE n == Peer[h]
<1>0. n \in Node /\ Peer[n] = h
  BY PeerAssumption
<1>1. c \in PeerCall
  BY <1>0, PendingType DEF PairTypeOK
<1> HIDE DEF n
<1>2. ASSUME NEW ok, Serve(n, c, ok) PROVE up' = up
  BY <1>2 DEF Serve, Rpc!run, Rpc!run_closed
<1>3. peer_colod_save_domain(n, c)
  BY DEF n
<1>4. TakesOver(h, TakenOver(c.ds))
  BY <1>0, <1>2, <1>3 DEF peer_colod_save_domain, TakesOver
<1> QED BY <1>1, <1>3, <1>4, CallFields, ColoEntryTypes DEF peer_colod_save_domain

\* So an overwriting step does one of the two.
LEMMA OverwriteSteps ==
  ASSUME PairTypeOK, NEW h \in Node, OverwriteStep(h)
  PROVE  (\E d \in Name : Forks(h, d)) \/ \E ds \in colod_domain_status : TakesOver(h, ds)
BY ForkSteps, TakeOverStep DEF OverwriteStep

\* And a step that does not relabel has a plain effect.
LEMMA PlainSteps ==
  ASSUME PairTypeOK, NEW h \in Node, ActsAt(h), ~RelabelStep(h)
  PROVE  PlainEffect(h)
BY QuietSteps, OverwriteSteps DEF PlainEffect

\* So every step has one of these effects.
LEMMA EffectOfStep ==
  ASSUME PairTypeOK, NEW h \in Node, ActsAt(h)
  PROVE  HostEffect(h)
BY RelabelSteps, PlainSteps DEF HostEffect

-----------------------------------------------------------------------------
(***************************************************************************)
(* Types.                                                                  *)
(***************************************************************************)

\* Writing the record of a domain taken over from the peer.
LEMMA SavedEnabledType ==
  ASSUME NEW f \in SaveContents, NEW ds \in colod_domain_status
  PROVE  /\ SavedEnabled(f, ds) \in SaveContents
         /\ SavedEnabled(f, ds)[ds.name].pid = NoPid
         /\ SavedEnabled(f, ds)[ds.name].saved
         /\ \A x \in Name \ {ds.name} : SavedEnabled(f, ds)[x] = f[x]
<1>1. ds.name \in Name /\ ds.colo_status \in COLO_DOMAIN_STATUS
  BY DEF colod_domain_status
<1>2. PICK g \in SaveContents : g = save_domain_info(f, ds)
  BY SaveTypes, <1>1
<1>3. /\ g[ds.name].saved /\ g[ds.name].pid = NoPid
      /\ \A x \in Name \ {ds.name} : g[x] = f[x]
  BY <1>1, <1>2 DEF save_domain_info, SaveContents
<1>4. /\ set_domain_colo_enable(g, ds.name, ds.colo_status) \in SaveContents
      /\ SameProcesses(set_domain_colo_enable(g, ds.name, ds.colo_status), g)
  BY <1>1, ColoSaveTypes
<1>5. \A x \in Name \ {ds.name} : set_domain_colo_enable(g, ds.name, ds.colo_status)[x] = g[x]
  BY <1>1 DEF set_domain_colo_enable, SaveContents
<1> QED BY <1>1, <1>2, <1>3, <1>4, <1>5 DEF SavedEnabled, SameProcesses

\* What every effect leaves in the variables of ColodHost.
LEMMA EffectTypes ==
  ASSUME HostTypeOK, NEW h \in Node, HostEffect(h)
  PROVE  HostTypeOK'
<1>0. /\ domains[h] \in [Name -> colod_domain_status]
      /\ file[h] \in SaveContents
      /\ procs[h] \in [Pid -> Process]
  BY DEF HostTypeOK
<1>1. CASE UNCHANGED hostVars
  BY <1>1 DEF hostVars, HostTypeOK
<1>2. CASE Command(h) \/ ProcessStep(h) \/ ColodBoot(h)
  BY <1>2, HostTypeStep DEF FaultStep
<1>3. CASE Falls(h)
  BY <1>3, EndTypes DEF Falls, HostTypeOK
<1>4. ASSUME NEW d \in Name, colod_domain_test(h, d) PROVE HostTypeOK'
  <2>1. Tested(h, d) \in colod_domain_status /\ TestedFile(h, d) \in SaveContents
    BY TestedType
  <2> QED BY <1>4, <2>1 DEF colod_domain_test, test_domain_status, HostTypeOK
<1>5. ASSUME NEW d \in Name, Relabels(h, d) PROVE HostTypeOK'
  <2>1. PICK ds \in colod_domain_status, f \in SaveContents :
          SetEntry(h, d, ds) /\ file' = [file EXCEPT ![h] = f] /\ UNCHANGED <<up, procs>>
    BY <1>5 DEF Relabels
  <2> QED BY <2>1 DEF SetEntry, HostTypeOK
<1>6. ASSUME NEW d \in Name, Forks(h, d) PROVE HostTypeOK'
  <2>1. PICK p \in Pid, kind \in {"vm", "zombie"} :
          /\ run_new_vm(h, d, p, kind, file[h])
          /\ SetEntry(h, d, Started(domains[h][d], p, "colo-enabled"))
    BY <1>6 DEF Forks
  <2>2. save_domain_pid(file[h], d, p) \in SaveContents
    BY <1>0, SaveTypes
  <2>3. PICK ds \in colod_domain_status : ds = Started(domains[h][d], p, "colo-enabled")
    BY <1>0, ColoEntryTypes
  <2>4. PICK proc \in Process : proc = Child(d, kind)
    BY <1>0, ProcessTypes DEF Process, Child
  <2> QED BY <1>6, <2>1, <2>2, <2>3, <2>4 DEF Forks, run_new_vm, SetEntry, HostTypeOK
<1>7. ASSUME NEW d \in Name, Destroys(h, d) PROVE HostTypeOK'
  <2>1. remove_domain_pid(file[h], d) \in SaveContents
    BY <1>0, SaveTypes
  <2>2. PICK ds \in colod_domain_status : ds = Stopped(domains[h][d])
    BY <1>0, ColoEntryTypes
  <2>3. \A p \in Pid : Killed(procs[h][p]) \in Process
    BY <1>0, ProcessTypes
  <2>4. procs' \in [Node -> [Pid -> Process]]
    BY <1>0, <1>7, <2>3 DEF Destroys, destroy_domain, HostTypeOK
  <2>5. UNCHANGED domains \/ SetEntry(h, d, ds)
    BY <1>7, <2>2 DEF Destroys
  <2>6. domains' \in [Node -> [Name -> colod_domain_status]]
    <3>1. CASE UNCHANGED domains
      BY <3>1 DEF HostTypeOK
    <3>2. CASE SetEntry(h, d, ds)
      BY <3>2 DEF SetEntry, HostTypeOK
    <3> QED BY <2>5, <3>1, <3>2
  <2> QED BY <1>7, <2>1, <2>4, <2>6 DEF Destroys, destroy_domain, HostTypeOK
<1>8. ASSUME NEW ds \in colod_domain_status, TakesOver(h, ds) PROVE HostTypeOK'
  <2>1. SavedEnabled(file[h], ds) \in SaveContents /\ ds.name \in Name
    BY <1>0, SavedEnabledType DEF colod_domain_status
  <2> QED BY <1>8, <2>1 DEF TakesOver, SetEntry, HostTypeOK
<1> QED BY <1>1, <1>2, <1>3, <1>4, <1>5, <1>6, <1>7, <1>8 DEF HostEffect, PlainEffect, QuietEffect

\* The handler under way, after a step.
LEMMA TaskTypeStep ==
  ASSUME PairTypeOK, NEW h \in Node, ActsAt(h)
  PROVE  task' \in [Node -> Task \cup {Idle}]
<1>0. /\ task \in [Node -> Task \cup {Idle}] /\ NoName \in Name /\ Domain \subseteq Name
      /\ \A d \in Domain : domains[h][d].colo_status \in COLO_DOMAIN_STATUS
      /\ "none" \in COLO_DOMAIN_STATUS
  BY DEF PairTypeOK, HostTypeOK, colod_domain_status, Name, COLO_DOMAIN_STATUS
<1>1. CASE UNCHANGED task
  BY <1>0, <1>1
<1>2. ASSUME NEW t \in Task \cup {Idle}, Goto(h, t) PROVE task' \in [Node -> Task \cup {Idle}]
  BY <1>0, <1>2 DEF Goto
<1>3. \A op \in Op, at \in {"call", "qmp"}, d \in Name, cur \in COLO_DOMAIN_STATUS :
        Doing(op, at, d, cur) \in Task
  BY DEF Doing, Task
<1>4. ASSUME NEW ps, NEW kept, Ends(h, ps, kept) PROVE task' \in [Node -> Task \cup {Idle}]
  BY <1>2, <1>4 DEF Ends
<1>5. CASE LocalCommand(h) \/ process_step(h) \/ colod_boot(h)
  BY <1>1, <1>5 DEF LocalCommand, process_step, colod_boot
<1>6. CASE PeerCommand(h)
  <2>1. \/ UNCHANGED task
        \/ \E op \in Op, d \in Name, cur \in COLO_DOMAIN_STATUS : Goto(h, Doing(op, "call", d, cur))
    BY <1>0, <1>6
       DEF PeerCommand, colod_connect_peer, colod_connect_status, colo_enable_tool,
           colod_colo_enable, colod_colo_disable, colod_start_colo, colod_destroy_colo,
           colod_do_failover, colod_do_failover_fails, Op
  <2> QED BY <1>1, <1>2, <1>3, <2>1
<1>7. CASE BadCommand(h)
  BY <1>1, <1>4, <1>7
     DEF BadCommand, colod_connect_peer_bad_config, colod_start_throws, colod_vm_status_throws
<1>8. CASE Continue(h)
  <2>1. task[h] \in Task => \A at \in {"call", "wait"} : [task[h] EXCEPT !.at = at] \in Task
    BY DEF Task
  <2>2. CASE call(h)
    BY <1>2, <2>1, <2>2, TaskFields DEF call
  <2>3. CASE own_qmp(h)
    BY <1>2, <2>1, <2>3, TaskFields DEF own_qmp
  <2>4. CASE call_throws(h)
    BY <1>4, <2>4 DEF call_throws
  <2>5. CASE start_answered(h)
    <3>1. Goto(h, AfterFork(task[h].dom, task[h].cur)) /\ task[h].dom \in Name
      BY <2>5, TaskFields DEF start_answered
    <3>2. \/ AfterFork(task[h].dom, task[h].cur) = Idle
          \/ \E at \in {"call", "qmp"} :
               AfterFork(task[h].dom, task[h].cur) = Doing("qmp", at, task[h].dom, task[h].cur)
               /\ task[h].cur \in COLO_DOMAIN_STATUS
      BY DEF AfterFork, COLO_DOMAIN_STATUS
    <3> QED BY <1>2, <1>3, <3>1, <3>2 DEF Op
  <2>6. CASE Goto(h, Idle)
    BY <1>2, <2>6
  <2> QED BY <1>8, <2>2, <2>3, <2>4, <2>5, <2>6
          DEF Continue, Proceed, connect_answered, status_or_qmp_answered, refused,
              enable_answered, enable_refused, start_fork_fails, destroy_answered, Return,
              timed_out
<1>9. CASE Handle(Peer[h])
  <2>1. PICK c \in Pending(Peer[h]) : Handler(Peer[h], c)
    BY <1>9 DEF Handle
  <2>2. Peer[Peer[h]] = h
    BY PeerAssumption
  <2> QED BY <1>1, <1>4, <2>1, <2>2
          DEF Handler, peer_colod_connect_test_reply, peer_colod_save_status,
              peer_colod_save_domain, peer_colod_start_domain,
              peer_colod_start_domain_refused, peer_colod_destroy_domain,
              peer_colod_destroy_domain_refused, peer_colod_send_qmpcmds,
              peer_colod_send_qmpcmds_refused, peer_get_domain_throws
<1>10. CASE CrashStep(h)
  BY <1>4, <1>10
     DEF CrashStep, colod_crash, crash_in_start, crash_in_colo_start, CrashAfterFork,
         crash_in_destroy, crash_in_peer_save
<1> QED BY <1>5, <1>6, <1>7, <1>8, <1>9, <1>10 DEF ActsAt

\* The types of the variables that concern the peer.
ColoTypeOK ==
  /\ local_status \in [Node -> COLO_NODE_STATUS]
  /\ peer_init \in [Node -> BOOLEAN]
  /\ remote_client_init \in [Node -> BOOLEAN]
  /\ save_status \in [Node -> BOOLEAN]
  /\ cleared \in [Node -> SUBSET Domain]

\* A step keeps them in their types.
LEMMA ColoTypeStep ==
  ASSUME PairTypeOK, NEW h \in Node, ActsAt(h)
  PROVE  ColoTypeOK'
<1>0. ColoTypeOK /\ "none" \in COLO_NODE_STATUS /\ ConfigRole \subseteq COLO_NODE_STATUS
  BY ConfigRoleAssumption DEF PairTypeOK, ColoTypeOK, COLO_NODE_STATUS
<1>1. CASE UNCHANGED coloVars
  BY <1>0, <1>1 DEF coloVars, ColoTypeOK
<1>2. ASSUME NEW ps, NEW kept, Ends(h, ps, kept), NEW s \in BOOLEAN,
             save_status' = [save_status EXCEPT ![h] = s]
      PROVE  ColoTypeOK'
  BY <1>0, <1>2 DEF Ends, ColoTypeOK
<1>3. ASSUME NEW ps, NEW kept, Ends(h, ps, kept), UNCHANGED save_status
      PROVE  ColoTypeOK'
  BY <1>0, <1>3 DEF Ends, ColoTypeOK
<1>5. CASE LocalCommand(h) \/ process_step(h) \/ colod_boot(h)
  BY <1>1, <1>5 DEF LocalCommand, process_step, colod_boot
<1>6. CASE PeerCommand(h)
  <2>1. ASSUME NEW r \in ConfigRole, colod_connect_peer(h, r) PROVE ColoTypeOK'
    BY <1>0, <2>1 DEF colod_connect_peer, ColoTypeOK
  <2>2. ASSUME NEW d \in Domain, colo_enable_tool(h, d) \/ colod_colo_enable(h, d)
        PROVE  ColoTypeOK'
    BY <1>0, <2>2 DEF colo_enable_tool, colod_colo_enable, ColoTypeOK
  <2> QED BY <1>1, <1>6, <2>1, <2>2
          DEF PeerCommand, colod_connect_status, colod_colo_disable, colod_start_colo,
              colod_destroy_colo, colod_do_failover, colod_do_failover_fails
<1>7. CASE BadCommand(h)
  <2>1. ASSUME NEW r \in ConfigRole, colod_connect_peer_bad_config(h, r) PROVE ColoTypeOK'
    BY <1>0, <2>1 DEF colod_connect_peer_bad_config, ColoTypeOK
  <2> QED BY <1>3, <1>7, <2>1 DEF BadCommand, colod_start_throws, colod_vm_status_throws
<1>8. CASE Continue(h)
  <2>1. CASE connect_answered(h)
    BY <1>0, <2>1 DEF connect_answered, ColoTypeOK
  <2>2. CASE timed_out(h)
    BY <1>0, <2>2 DEF timed_out, ColoTypeOK
  <2>3. CASE call_throws(h)
    BY <1>3, <2>3 DEF call_throws
  <2> QED BY <1>1, <1>8, <2>1, <2>2, <2>3
          DEF Continue, Proceed, call, status_or_qmp_answered, refused, enable_answered,
              enable_refused, start_answered, start_fork_fails, own_qmp, destroy_answered, Return
<1>9. CASE Handle(Peer[h])
  <2>1. PICK c \in Pending(Peer[h]) : Handler(Peer[h], c)
    BY <1>9 DEF Handle
  <2>2. Peer[Peer[h]] = h
    BY PeerAssumption
  <2>3. CASE peer_colod_save_status(Peer[h], c)
    <3>1. \A r : OppositeNode(r) \in COLO_NODE_STATUS
      BY DEF OppositeNode, COLO_NODE_STATUS
    <3> QED BY <1>0, <2>2, <2>3, <3>1 DEF peer_colod_save_status, ColoTypeOK
  <2> QED BY <1>1, <1>3, <2>1, <2>2, <2>3
          DEF Handler, peer_colod_connect_test_reply,
              peer_colod_save_domain, peer_colod_start_domain,
              peer_colod_start_domain_refused, peer_colod_destroy_domain,
              peer_colod_destroy_domain_refused, peer_colod_send_qmpcmds,
              peer_colod_send_qmpcmds_refused, peer_get_domain_throws
<1>10. CASE CrashStep(h)
  BY <1>2, <1>3, <1>10
     DEF CrashStep, colod_crash, crash_in_start, crash_in_colo_start, CrashAfterFork,
         crash_in_destroy, crash_in_peer_save
<1> QED BY <1>5, <1>6, <1>7, <1>8, <1>9, <1>10 DEF ActsAt

-----------------------------------------------------------------------------
\* Every step keeps the types, and keeps handlers and call layer in step.
LEMMA PairTypeStep ==
  ASSUME PairTypeOK, \A n \in Node : Waits(n), [PairNext]_pairVars
  PROVE  PairTypeOK' /\ \A n \in Node : Waits(n)'
<1>1. CASE UNCHANGED pairVars
  BY <1>1 DEF pairVars, hostVars, rpcOnly, coloVars, PairTypeOK, HostTypeOK, Rpc!RpcTypeOK, Waits
<1>2. ASSUME NEW h \in Node, ActsAt(h)
      PROVE  PairTypeOK' /\ \A n \in Node : Waits(n)'
  <2>1. HostTypeOK'
    BY <1>2, EffectOfStep, EffectTypes DEF PairTypeOK
  <2>2. Rpc!RpcTypeOK'
    BY <1>2, RpcStep, PairRpcTypeStep DEF PairTypeOK
  <2>3. ColoTypeOK' /\ task' \in [Node -> Task \cup {Idle}]
    BY <1>2, ColoTypeStep, TaskTypeStep
  <2>4. \A n \in Node : Waits(n)'
    BY <1>2, WaitsStep, WaitsElsewhere, OtherHostsSame
  <2> QED BY <2>1, <2>2, <2>3, <2>4 DEF PairTypeOK, ColoTypeOK
<1> QED BY <1>1, <1>2, StepOfOneHost

\* At the beginning no handler is under way.
LEMMA PairTypeInit == PairInit => PairTypeOK /\ \A n \in Node : Waits(n)
<1> SUFFICES ASSUME PairInit PROVE PairTypeOK /\ \A n \in Node : Waits(n)
  OBVIOUS
<1>1. HostTypeOK
  BY EmptySaveType, ZeroEntryType
     DEF PairInit, HostInit, HostTypeOK, Process, NoProcess, Name
<1>2. Rpc!RpcTypeOK
  BY EmptySeq DEF PairInit, Rpc!RpcInit, Rpc!RpcTypeOK, Rpc!NoReply
<1>3. \A n \in Node : Waits(n)
  BY DEF PairInit, Rpc!RpcInit, HostInit, Waits, Idle
<1> QED BY <1>1, <1>2, <1>3 DEF PairInit, PairTypeOK, COLO_NODE_STATUS

\* In the pair every variable keeps its type, and a colod waits for an answer
\* exactly while its one handler is inside net_call.
THEOREM PairTypeCorrect == PairSpec => [](PairTypeOK /\ \A n \in Node : Waits(n))
<1>1. PairTypeOK /\ (\A n \in Node : Waits(n)) /\ [PairNext]_pairVars
        => (PairTypeOK /\ \A n \in Node : Waits(n))'
  BY PairTypeStep
<1> QED BY <1>1, PairTypeInit, PTL DEF PairSpec

\* The two colods of a pair use the call layer as ButtonRpc describes it: what
\* the commands and handlers do with it is always one of its steps.
THEOREM PairImplementsRpc == PairSpec => Rpc!RpcSpec
<1>1. PairInit => Rpc!RpcInit
  BY DEF PairInit
<1>2. PairTypeOK /\ (\A n \in Node : Waits(n)) /\ [PairNext]_pairVars
        => [Rpc!RpcNext]_Rpc!rpcVars
  <2> SUFFICES ASSUME PairTypeOK, \A n \in Node : Waits(n), [PairNext]_pairVars
               PROVE  [Rpc!RpcNext]_Rpc!rpcVars
    OBVIOUS
  <2>1. CASE UNCHANGED pairVars
    BY <2>1 DEF pairVars, hostVars, rpcOnly, Rpc!rpcVars
  <2> QED BY <2>1, StepOfOneHost, RpcStep
<1> QED BY <1>1, <1>2, PairTypeCorrect, PTL DEF PairSpec, Rpc!RpcSpec

\* So what was proved of the call layer holds between the two colods: no call
\* sends on a socket that waits, and a call after no timeout is answered by the
\* answer to itself.
THEOREM PairRpcInvariant == PairSpec => []RpcP!RpcInv
<1>1. PairInit => RpcP!RpcInv
  BY PairRpcInvStep DEF PairInit
<1>2. RpcP!RpcInv /\ PairTypeOK' /\ [Rpc!RpcNext]_Rpc!rpcVars => RpcP!RpcInv'
  BY PairRpcInvStep DEF PairTypeOK
<1> QED BY <1>1, <1>2, PairImplementsRpc, PairTypeCorrect, PTL DEF PairSpec, Rpc!RpcSpec

-----------------------------------------------------------------------------
(***************************************************************************)
(* What destroy would kill.                                                *)
(***************************************************************************)

\* The end of colod leaves nothing to kill; so does writing a record anew.
LEMMA TargetEffect ==
  ASSUME HostTypeOK, NEW h \in Node, NEW e \in Domain, Target(h, e), HostEffect(h)
  PROVE  Target(h, e)'
<1>0. /\ domains[h] \in [Name -> colod_domain_status]
      /\ domains[h][e] \in colod_domain_status
      /\ file[h] \in SaveContents
      /\ procs[h] \in [Pid -> Process]
      /\ e \in Name
  BY DEF HostTypeOK, Name
<1>1. CASE UNCHANGED hostVars
  BY <1>1, TargetOtherHost DEF hostVars
<1>2. CASE Command(h) \/ ProcessStep(h) \/ ColodBoot(h)
  BY <1>2, TargetStep DEF FaultStep
<1>3. CASE Falls(h)
  <2>1. ~up'[h]
    BY <1>3 DEF Falls, DaemonEnds, HostTypeOK
  <2> QED BY <2>1, TargetGone
<1>4. ASSUME NEW d \in Name, colod_domain_test(h, d) PROVE Target(h, e)'
  <2>1. CASE d \in Domain
    <3>1. Command(h)
      BY <1>4, <2>1 DEF Command
    <3> QED BY <3>1, TargetStep
  <2>2. CASE d \notin Domain
    <3>1. domains'[h][e] = domains[h][e] /\ file'[h][e] = file[h][e]
      BY <1>0, <1>4, <2>2, TestedFacts DEF colod_domain_test, test_domain_status, HostTypeOK
    <3> QED BY <1>4, <3>1, TargetFrame DEF colod_domain_test, OwnChild
  <2> QED BY <2>1, <2>2
<1>5. ASSUME NEW d \in Name, Relabels(h, d) PROVE Target(h, e)'
  <2>1. PICK ds \in colod_domain_status, f \in SaveContents :
          /\ SetEntry(h, d, ds) /\ file' = [file EXCEPT ![h] = f] /\ UNCHANGED <<up, procs>>
          /\ ds.pid = domains[h][d].pid
          /\ ds.status = "shutoff" <=> domains[h][d].status = "shutoff"
          /\ SameProcesses(f, file[h])
    BY <1>5 DEF Relabels
  <2>2. /\ domains'[h][e].pid = domains[h][e].pid
        /\ domains'[h][e].status = "shutoff" <=> domains[h][e].status = "shutoff"
    BY <1>0, <2>1 DEF SetEntry, HostTypeOK
  <2>3. file'[h][e].pid = file[h][e].pid /\ file'[h][e].saved = file[h][e].saved
    BY <1>0, <2>1 DEF SameProcesses, HostTypeOK
  <2>4. KillPid(h, e)' = KillPid(h, e)
    BY <2>3 DEF KillPid, get_domain_pid
  <2>5. \A p : OwnChild(h, p, e)' <=> OwnChild(h, p, e)
    BY <2>1 DEF OwnChild
  <2> QED BY <2>1, <2>2, <2>4, <2>5 DEF Target
<1>6. ASSUME NEW d \in Name, Forks(h, d) PROVE Target(h, e)'
  <2>1. PICK p \in Pid, kind \in {"vm", "zombie"} :
          /\ run_new_vm(h, d, p, kind, file[h])
          /\ SetEntry(h, d, Started(domains[h][d], p, "colo-enabled"))
    BY <1>6 DEF Forks
  <2>2. /\ procs[h][p].kind = "free" /\ procs' = [procs EXCEPT ![h][p] = Child(d, kind)]
        /\ file'[h] = save_domain_pid(file[h], d, p)
    BY <2>1 DEF run_new_vm, HostTypeOK
  <2>3. CASE e = d
    <3>1. domains'[h][e].pid = p
      BY <1>0, <2>1, <2>3 DEF SetEntry, HostTypeOK, Started, colod_domain_status
    <3>2. file'[h][d].saved => file'[h][d].pid = p
      BY <1>0, <2>2 DEF save_domain_pid, SaveContents, SavedDomain
    <3>3. procs'[h][p] = Child(d, kind)
      BY <1>0, <2>2 DEF HostTypeOK
    <3>4. OwnChild(h, p, d)'
      BY <3>3 DEF OwnChild, Child
    <3> QED BY <2>3, <3>1, <3>2, <3>4 DEF Target, KillPid, get_domain_pid
  <2>4. CASE e # d
    <3>1. domains'[h][e] = domains[h][e]
      BY <1>0, <2>1, <2>4 DEF SetEntry, HostTypeOK
    <3>2. file'[h][e] = file[h][e]
      BY <1>0, <2>2, <2>4 DEF save_domain_pid, SaveContents
    <3>3. ASSUME NEW q \in Pid, OwnChild(h, q, e) PROVE OwnChild(h, q, e)'
      <4>1. q # p
        BY <2>2, <3>3 DEF OwnChild
      <4>2. procs'[h][q] = procs[h][q]
        BY <1>0, <2>2, <4>1 DEF HostTypeOK
      <4> QED BY <3>3, <4>2 DEF OwnChild
    <3>4. up'[h] = up[h]
      BY <1>6 DEF Forks
    <3> QED BY <3>1, <3>2, <3>3, <3>4, TargetFrame
  <2> QED BY <2>3, <2>4
<1>7. ASSUME NEW d \in Name, Destroys(h, d) PROVE Target(h, e)'
  <2>0. file'[h] = remove_domain_pid(file[h], d) /\ up' = up
    BY <1>7 DEF Destroys, destroy_domain, HostTypeOK
  <2>1. CASE e = d
    <3>1. ~file'[h][e].saved \/ file'[h][e].pid = NoPid
      BY <1>0, <2>0, <2>1, RemovePid
    <3> QED BY <3>1, TargetGone
  <2>2. CASE e # d
    <3>1. domains'[h][e] = domains[h][e] /\ file'[h][e] = file[h][e]
      BY <1>0, <1>7, <2>0, <2>2, RemovePid DEF Destroys, SetEntry, HostTypeOK
    <3>2. ASSUME NEW q \in Pid, OwnChild(h, q, e) PROVE OwnChild(h, q, e)'
      <4>1. CASE procs' = procs
        BY <3>2, <4>1 DEF OwnChild
      <4>2. CASE KillPid(h, d) \in Pid /\ procs' = [procs EXCEPT ![h][KillPid(h, d)] = Killed(@)]
        BY <3>2, <4>2, OwnChildKilled
      <4>3. CASE KillPid(h, d) \notin Pid
        <5>1. KillPid(h, d) = NoPid
          BY <1>0, <4>3, SaveTypes DEF KillPid
        <5> QED BY <1>7, <4>1, <5>1 DEF Destroys, destroy_domain, DestroyOk
      <4> QED BY <1>7, <4>1, <4>2, <4>3 DEF Destroys, destroy_domain
    <3> QED BY <2>0, <3>1, <3>2, TargetFrame
  <2> QED BY <2>1, <2>2
<1>8. ASSUME NEW ds \in colod_domain_status, TakesOver(h, ds) PROVE Target(h, e)'
  <2>0. ds.name \in Name
    BY DEF colod_domain_status
  <2>1. file'[h] = SavedEnabled(file[h], ds)
    BY <1>8 DEF TakesOver, HostTypeOK
  <2>2. CASE e = ds.name
    BY <1>0, <2>1, <2>2, SavedEnabledType, TargetGone
  <2>3. CASE e # ds.name
    <3>1. domains'[h][e] = domains[h][e]
      BY <1>0, <1>8, <2>0, <2>3 DEF TakesOver, SetEntry, HostTypeOK
    <3>2. file'[h][e] = file[h][e]
      BY <1>0, <2>1, <2>3, SavedEnabledType
    <3> QED BY <1>8, <3>1, <3>2, TargetFrame DEF TakesOver, OwnChild
  <2> QED BY <2>2, <2>3
<1> QED BY <1>1, <1>2, <1>3, <1>4, <1>5, <1>6, <1>7, <1>8 DEF HostEffect, PlainEffect, QuietEffect

\* Each step of the pair keeps the target of every destroy.
LEMMA KillTargetStep ==
  ASSUME PairTypeOK, KillTarget, [PairNext]_pairVars
  PROVE  KillTarget'
<1> SUFFICES ASSUME NEW k \in Node, NEW e \in Domain PROVE Target(k, e)'
  BY DEF KillTarget, Target
<1>1. Target(k, e)
  BY DEF KillTarget, Target
<1>2. CASE UNCHANGED pairVars
  BY <1>1, <1>2, TargetOtherHost DEF pairVars, hostVars
<1>3. ASSUME NEW h \in Node, ActsAt(h) PROVE Target(k, e)'
  <2>1. CASE k = h
    BY <1>1, <1>3, <2>1, EffectOfStep, TargetEffect DEF PairTypeOK
  <2>2. CASE k # h
    BY <1>1, <1>3, <2>2, OtherHostsSame, TargetOtherHost DEF SameAt
  <2> QED BY <2>1, <2>2
<1> QED BY <1>2, <1>3, StepOfOneHost

\* In the pair too, SIGKILL is only aimed at the process this colod started for
\* the domain: not at one named by the pid that the peer's entry carries, nor at
\* one that took the number of a vm while a handler waited for the peer.
THEOREM PairKillTarget == PairSpec => []KillTarget
<1>1. PairInit => KillTarget
  BY DEF PairInit, HostInit, KillTarget, ZeroEntry, Name
<1> QED BY <1>1, KillTargetStep, PairTypeCorrect, PTL DEF PairSpec

-----------------------------------------------------------------------------
(***************************************************************************)
(* The handler under way.                                                  *)
(***************************************************************************)

\* What begins one.
LEMMA Begins ==
  ASSUME PairTypeOK, NEW h \in Node, Waits(h), ActsAt(h), task[h] = Idle, task'[h] # Idle
  PROVE  /\ task'[h].at = "call"
         /\ \/ task'[h].op = "connect" /\ \E r \in ConfigRole : colod_connect_peer(h, r)
            \/ task'[h].op = "status" /\ colod_connect_status(h)
            \/ task'[h].op = "enable" /\ colod_colo_enable(h, task'[h].dom)
            \/ task'[h].op = "start" /\ colod_start_colo(h, task'[h].dom)
            \/ task'[h].op = "destroy" /\ colod_destroy_colo(h, task'[h].dom)
         /\ task'[h].dom \in Domain \/ task'[h].op \in {"connect", "status"}
<1>0. task \in [Node -> Task \cup {Idle}] /\ task[h].at = "idle"
  BY TaskFields DEF PairTypeOK
<1>1. ASSUME NEW op, NEW d, NEW cur, Goto(h, Doing(op, "call", d, cur))
      PROVE  task'[h].op = op /\ task'[h].at = "call" /\ task'[h].dom = d
  BY <1>0, <1>1 DEF Goto, Doing
<1>2. CASE PeerCommand(h)
  BY <1>1, <1>2
     DEF PeerCommand, colod_connect_peer, colod_connect_status, colo_enable_tool,
         colod_colo_enable, colod_colo_disable, colod_start_colo, colod_destroy_colo,
         colod_do_failover, colod_do_failover_fails
<1>3. ASSUME Goto(h, Idle) \/ UNCHANGED task PROVE FALSE
  BY <1>0, <1>3 DEF Goto
<1>4. ASSUME NEW ps, NEW kept, Ends(h, ps, kept) PROVE FALSE
  BY <1>3, <1>4 DEF Ends
<1>5. CASE Handle(Peer[h])
  <2>1. PICK c \in Pending(Peer[h]) : Handler(Peer[h], c)
    BY <1>5 DEF Handle
  <2>2. Peer[Peer[h]] = h
    BY PeerAssumption
  <2> QED BY <1>3, <1>4, <2>1, <2>2
          DEF Handler, peer_colod_connect_test_reply, peer_colod_save_status,
              peer_colod_save_domain, peer_colod_start_domain,
              peer_colod_start_domain_refused, peer_colod_destroy_domain,
              peer_colod_destroy_domain_refused, peer_colod_send_qmpcmds,
              peer_colod_send_qmpcmds_refused, peer_get_domain_throws
<1>6. CASE Continue(h)
  <2>1. calling[h] = NoPeerCall /\ task[h].op = "none"
    BY <1>0, TaskFields DEF Waits, PairTypeOK
  <2> QED BY <1>0, <1>6, <2>1
          DEF Continue, Proceed, call, call_throws, connect_answered, status_or_qmp_answered,
              refused, enable_answered, enable_refused, start_answered, start_fork_fails,
              own_qmp, destroy_answered, timed_out, Answered
<1> QED BY <1>2, <1>3, <1>4, <1>5, <1>6
        DEF ActsAt, LocalCommand, process_step, colod_boot, BadCommand,
            colod_connect_peer_bad_config, colod_start_throws, colod_vm_status_throws,
            CrashStep, colod_crash, crash_in_start, crash_in_colo_start, CrashAfterFork,
            crash_in_destroy, crash_in_peer_save

\* Meanwhile its colod serves nobody.
LEMMA Busy ==
  ASSUME PairTypeOK, NEW h \in Node, Waits(h), ActsAt(h), task[h] # Idle
  PROVE  Continue(h) \/ process_step(h) \/ \E ps, kept : Ends(h, ps, kept)
<1>0. up[h] /\ ~Free(h)
  BY DEF Waits, Free
<1>1. ~LocalCommand(h) /\ ~PeerCommand(h)
  BY <1>0
     DEF LocalCommand, PeerCommand, colod_connect_peer, colod_connect_status,
         colo_enable_tool, colod_colo_enable, colod_colo_disable, colod_start_colo,
         colod_destroy_colo, colod_do_failover, colod_do_failover_fails
<1>2. ~BadCommand(h)
  BY <1>0
     DEF BadCommand, colod_connect_peer_bad_config, colod_start_throws, colod_vm_status_throws
<1>3. ~Handle(Peer[h])
  <2>1. Peer[Peer[h]] = h
    BY PeerAssumption
  <2> QED BY <1>0, <2>1
          DEF Handle, Handler, peer_colod_connect_test_reply, peer_colod_save_status,
              peer_colod_save_domain, peer_colod_start_domain,
              peer_colod_start_domain_refused, peer_colod_destroy_domain,
              peer_colod_destroy_domain_refused, peer_colod_send_qmpcmds,
              peer_colod_send_qmpcmds_refused, peer_get_domain_throws,
              Serve, ServeWithNewSocket
<1>4. CrashStep(h) => \E ps, kept : Ends(h, ps, kept)
  BY DEF CrashStep, colod_crash, crash_in_start, crash_in_colo_start, CrashAfterFork,
         crash_in_destroy, crash_in_peer_save
<1>5. ~colod_boot(h)
  BY <1>0 DEF colod_boot, ColodBoot
<1> QED BY <1>1, <1>2, <1>3, <1>4, <1>5 DEF ActsAt

\* What can happen at its host meanwhile, unless it ends: colod serves nobody.
LEMMA Goes ==
  ASSUME PairTypeOK, NEW h \in Node, Waits(h), ActsAt(h), task[h] # Idle, task'[h] # Idle
  PROVE  /\ call(h) \/ own_qmp(h) \/ process_step(h) \/ start_answered(h)
         /\ task'[h].dom = task[h].dom /\ task'[h].cur = task[h].cur
         /\ ~start_answered(h) => /\ UNCHANGED <<domains, file>>
                                  /\ task'[h].op = task[h].op
         /\ start_answered(h) => task[h].op = "start" /\ task'[h].op = "qmp"
<1>0. task \in [Node -> Task \cup {Idle}] /\ task[h] \in Task
  BY DEF PairTypeOK
<1>1. ASSUME Goto(h, Idle) PROVE FALSE
  BY <1>0, <1>1 DEF Goto
<1>2. ASSUME NEW ps, NEW kept, Ends(h, ps, kept) PROVE FALSE
  BY <1>1, <1>2 DEF Ends
<1>6. call(h) \/ own_qmp(h) \/ process_step(h) \/ start_answered(h)
  BY <1>1, <1>2, Busy
     DEF Continue, Proceed, call_throws, connect_answered, status_or_qmp_answered,
         refused, enable_answered, enable_refused, start_fork_fails, destroy_answered,
         Return, timed_out
<1>7. CASE call(h) \/ own_qmp(h)
  <2>1. \E at \in {"call", "wait"} : Goto(h, [task[h] EXCEPT !.at = at])
    BY <1>1, <1>7 DEF call, own_qmp
  <2>2. \E at \in {"call", "wait"} : task'[h] = [task[h] EXCEPT !.at = at]
    BY <1>0, <2>1 DEF Goto
  <2>3. task'[h].dom = task[h].dom /\ task'[h].cur = task[h].cur /\ task'[h].op = task[h].op
    BY <1>0, <2>2 DEF Task
  <2>4. UNCHANGED <<domains, file>>
    BY <1>7 DEF call, own_qmp, hostVars
  <2>5. ~start_answered(h)
    BY <1>7 DEF start_answered, Answered, call, own_qmp
  <2> QED BY <1>6, <2>3, <2>4, <2>5
<1>8. CASE process_step(h)
  <2>1. UNCHANGED <<domains, file, task, calling>>
    BY <1>8 DEF process_step, ProcessStep, VmExit, OtherSpawn, OtherExit, rpcOnly
  <2>2. ~start_answered(h)
    BY <1>0, <2>1 DEF start_answered, Answered, Rpc!recv_reply, PairTypeOK, Rpc!RpcTypeOK
  <2> QED BY <1>6, <2>1, <2>2
<1>9. CASE start_answered(h)
  <2>1. task'[h] = AfterFork(task[h].dom, task[h].cur) /\ task[h].op = "start"
    BY <1>0, <1>9 DEF start_answered, Goto, Answered
  <2>2. \E at \in {"call", "qmp"} : task'[h] = Doing("qmp", at, task[h].dom, task[h].cur)
    <3>1. task'[h] # Idle
      OBVIOUS
    <3> QED BY <2>1, <3>1 DEF AfterFork
  <2> QED BY <1>9, <2>1, <2>2 DEF Doing
<1> QED BY <1>6, <1>7, <1>8, <1>9

(***************************************************************************)
(* What it has checked, of the records alone: whether a process of the     *)
(* recorded pid is alive can change while the handler waits.               *)
(***************************************************************************)
Checked(h) ==
  LET d == task[h].dom IN
  /\ task[h].op = "start" =>
       /\ domains[h][d].pid = NoPid \/ domains[h][d].status = "shutoff"
       /\ GetDomainOk(file[h], d)
       /\ domains[h][d].colo_enable
       /\ domains[h][d].colo_status = task[h].cur
  /\ task[h].op = "destroy" =>
       d \in Domain /\ domains[h][d].status = "colo-enabled" /\ domains[h][d].pid # NoPid

\* What a handler of h has checked, when h acts.
LEMMA CheckedStep ==
  ASSUME PairTypeOK, NEW h \in Node, Waits(h), Checked(h), ActsAt(h)
  PROVE  Checked(h)'
<1>0. HostTypeOK /\ task \in [Node -> Task \cup {Idle}] /\ Domain \subseteq Name
  BY DEF PairTypeOK, Name
<1>1. CASE task'[h] = Idle
  BY <1>1 DEF Checked, Idle
<1>2. CASE task[h] # Idle /\ task'[h] # Idle
  BY <1>2, Goes DEF Checked
<1>3. CASE task[h] = Idle /\ task'[h] # Idle
  <2> DEFINE d == task'[h].dom
  <2>1. CASE task'[h].op = "start"
    <3>1. d \in Domain /\ colod_start_colo(h, d)
      BY <1>3, <2>1, Begins
    <3> HIDE DEF d
    <3>2. /\ domains[h][d] \in colod_domain_status /\ domains'[h][d] = Tested(h, d)
          /\ file'[h] = TestedFile(h, d)
          /\ task'[h].cur = domains[h][d].colo_status
      BY <1>0, <3>1 DEF colod_start_colo, test_domain_status, Goto, Doing, HostTypeOK
    <3>3. Status(h, d) = "shutoff" /\ GetDomainOk(TestedFile(h, d), d) /\ domains[h][d].colo_enable
      BY <3>1 DEF colod_start_colo, MayStart
    <3>4. /\ Tested(h, d).colo_enable = domains[h][d].colo_enable
          /\ Tested(h, d).colo_status = domains[h][d].colo_status
          /\ Tested(h, d).pid = NoPid \/ Tested(h, d).status = "shutoff"
      BY <3>2, <3>3 DEF Tested, Status, colod_domain_status
    <3> QED BY <2>1, <3>2, <3>3, <3>4 DEF Checked, d
  <2>2. CASE task'[h].op = "destroy"
    <3>1. d \in Domain /\ colod_destroy_colo(h, d)
      BY <1>3, <2>2, Begins
    <3>2. UNCHANGED <<domains, file>> /\ Status(h, d) = "colo-enabled"
      BY <3>1 DEF colod_destroy_colo, hostVars
    <3> QED BY <2>2, <3>1, <3>2 DEF Checked, Status
  <2> QED BY <2>1, <2>2 DEF Checked
<1> QED BY <1>1, <1>2, <1>3

\* The records of a host that does nothing stay, and its handler.
LEMMA CheckedPairStep ==
  ASSUME PairTypeOK, \A n \in Node : Waits(n) /\ Checked(n), [PairNext]_pairVars
  PROVE  \A n \in Node : Checked(n)'
<1> SUFFICES ASSUME NEW k \in Node PROVE Checked(k)'
  OBVIOUS
<1>1. CASE UNCHANGED pairVars
  BY <1>1 DEF pairVars, hostVars, Checked
<1>2. ASSUME NEW h \in Node, ActsAt(h) PROVE Checked(k)'
  <2>1. CASE k # h
    BY <1>2, <2>1, OtherHostsSame DEF SameAt, Checked
  <2> QED BY <1>2, <2>1, CheckedStep
<1> QED BY <1>1, <1>2, StepOfOneHost

\* Along every behaviour, what a handler has checked still holds of the records.
LEMMA PairChecked == PairSpec => [](\A n \in Node : Checked(n))
<1>1. PairInit => \A n \in Node : Checked(n)
  <2> SUFFICES ASSUME PairInit, NEW n \in Node PROVE Checked(n)
    OBVIOUS
  <2>1. task[n].op = "none"
    BY DEF PairInit, Idle
  <2> QED BY <2>1 DEF Checked
<1>2. PairTypeOK /\ (\A n \in Node : Waits(n)) /\ (\A n \in Node : Checked(n)) /\ [PairNext]_pairVars
        => (\A n \in Node : Checked(n))'
  BY CheckedPairStep
<1> QED BY <1>1, <1>2, PairTypeCorrect, PTL DEF PairSpec

\* A process of the recorded pid that this colod started keeps that number, so
\* the status destroy has read is still the status.
LEMMA CheckedIsUsed ==
  ASSUME PairTypeOK, KillTarget, \A n \in Node : Waits(n) /\ Checked(n)
  PROVE  CheckedWhenUsed
<1> SUFFICES ASSUME NEW n \in Node
             PROVE  LET d == task[n].dom IN
                    /\ task[n].op = "start" =>
                         /\ Status(n, d) = "shutoff"
                         /\ GetDomainOk(file[n], d)
                         /\ domains[n][d].colo_enable
                         /\ domains[n][d].colo_status = task[n].cur
                    /\ task[n].op = "destroy" /\ KillPid(n, d) # NoPid =>
                         Status(n, d) = "colo-enabled"
  BY DEF CheckedWhenUsed
<1> DEFINE d == task[n].dom
<1>1. CASE task[n].op = "start"
  <2>1. Status(n, d) = "shutoff"
    BY <1>1 DEF Checked, Status
  <2> QED BY <1>1, <2>1 DEF Checked
<1>2. CASE task[n].op = "destroy" /\ KillPid(n, d) # NoPid
  <2>1. /\ d \in Domain /\ up[n]
        /\ domains[n][d].status = "colo-enabled" /\ domains[n][d].pid # NoPid
    BY <1>2 DEF Checked, Waits, Idle
  <2>2. OwnChild(n, domains[n][d].pid, d)
    BY <1>2, <2>1 DEF KillTarget
  <2>3. ~Gone(n, d)
    BY <2>2 DEF OwnChild, Gone, Alive
  <2> QED BY <1>2, <2>1, <2>3 DEF Status
<1> QED BY <1>1, <1>2

\* Whatever happens while a handler waits for the peer, for 20 s, in a sleep, or
\* over an answer that belongs to another call: what it checked before is still
\* so when it goes on.
THEOREM CheckedWhenUsedAlways == PairSpec => []CheckedWhenUsed
<1>1. /\ PairTypeOK /\ \A n \in Node : Waits(n)
      /\ KillTarget
      /\ \A n \in Node : Checked(n)
      => CheckedWhenUsed
  BY CheckedIsUsed
<1> QED BY <1>1, PairChecked, PairTypeCorrect, PairKillTarget, PTL

-----------------------------------------------------------------------------
(***************************************************************************)
(* The second call of a start is made on a socket that has just received   *)
(* an answer, and nobody replaces it meanwhile.                            *)
(***************************************************************************)
SecondReady(h) ==
  /\ task[h].at = "qmp" => task[h].op = "qmp"
  /\ task[h].op = "qmp" /\ task[h].at \in {"call", "qmp"} =>
       sock[h] = "ready" /\ m_error_code[h] = "success"

\* The socket between two calls of one command, when h acts.
LEMMA SecondReadyStep ==
  ASSUME PairTypeOK, NEW h \in Node, Waits(h), SecondReady(h), ActsAt(h)
  PROVE  SecondReady(h)'
<1>0. /\ task \in [Node -> Task \cup {Idle}]
      /\ sock \in [Node -> {"none", "ready", "waiting"}]
      /\ m_error_code \in [Node -> {"success", "recv_timeout"}]
  BY DEF PairTypeOK, Rpc!RpcTypeOK
<1>1. CASE task'[h] = Idle
  BY <1>1 DEF SecondReady, Idle
<1>2. CASE task[h] = Idle /\ task'[h] # Idle
  <2>1. task'[h].op # "qmp" /\ task'[h].at = "call"
    BY <1>2, Begins
  <2> QED BY <2>1 DEF SecondReady
<1>3. CASE task[h] # Idle /\ task'[h] # Idle
  <2>1. CASE call(h)
    <3>1. task'[h].at = "wait"
      BY <1>0, <1>3, <2>1 DEF call, Goto, Task
    <3> QED BY <3>1 DEF SecondReady
  <2>2. CASE own_qmp(h)
    <3>1. task[h].op = task'[h].op /\ task[h].at = "qmp"
      BY <1>3, <2>2, Goes DEF own_qmp, start_answered, Answered
    <3>2. task'[h].at = "call"
      BY <1>0, <1>3, <2>2 DEF own_qmp, Goto, Task
    <3> QED BY <2>2, <3>1, <3>2 DEF own_qmp, rpcOnly, SecondReady
  <2>3. CASE process_step(h)
    BY <2>3 DEF process_step, rpcOnly, SecondReady
  <2>4. CASE start_answered(h)
    <3>1. task'[h].op = "qmp"
      BY <1>3, <2>4, Goes
    <3> QED BY <1>0, <2>4, <3>1 DEF start_answered, Answered, Rpc!recv_reply, SecondReady
  <2> QED BY <1>3, <2>1, <2>2, <2>3, <2>4, Goes
<1> QED BY <1>1, <1>2, <1>3

\* Along every behaviour the socket is ready between two calls of one command.
LEMMA PairSecondReady == PairSpec => [](\A n \in Node : SecondReady(n))
<1>1. PairInit => \A n \in Node : SecondReady(n)
  <2> SUFFICES ASSUME PairInit, NEW n \in Node PROVE SecondReady(n)
    OBVIOUS
  <2>1. task[n].op = "none" /\ task[n].at = "idle"
    BY DEF PairInit, Idle
  <2> QED BY <2>1 DEF SecondReady
<1>2. /\ PairTypeOK /\ \A n \in Node : Waits(n)
      /\ \A n \in Node : SecondReady(n)
      /\ [PairNext]_pairVars
      => (\A n \in Node : SecondReady(n))'
  <2> SUFFICES ASSUME PairTypeOK, \A n \in Node : Waits(n) /\ SecondReady(n),
                      [PairNext]_pairVars, NEW k \in Node
               PROVE  SecondReady(k)'
    OBVIOUS
  <2>1. CASE UNCHANGED pairVars
    BY <2>1 DEF pairVars, rpcOnly, SecondReady
  <2>2. ASSUME NEW h \in Node, ActsAt(h) PROVE SecondReady(k)'
    <3>1. CASE k # h
      BY <2>2, <3>1, OtherHostsSame DEF SameAt, SecondReady
    <3> QED BY <2>2, <3>1, SecondReadyStep
  <2> QED BY <2>1, <2>2, StepOfOneHost
<1> QED BY <1>1, <1>2, PairTypeCorrect, PTL DEF PairSpec

\* The call that sends the QMP commands, made after seconds of sleep inside the
\* start, is never refused by its own socket, so it cannot end colod.
THEOREM SecondCallSafeAlways == PairSpec => []SecondCallSafe
<1>1. (\A n \in Node : SecondReady(n)) => SecondCallSafe
  BY DEF SecondReady, SecondCallSafe, Rpc!BadCall, Rpc!NoSend
<1> QED BY <1>1, PairSecondReady, PTL

-----------------------------------------------------------------------------
(***************************************************************************)
(* EnabledIsSaved, for one host and domain.                                *)
(***************************************************************************)
Enabling(h, e) == task[h].op = "enable" /\ task[h].dom = e

Saved(h, e) ==
  up[h] /\ domains[h][e].colo_enable /\ file[h][e].saved /\ ~Enabling(h, e)
  => file[h][e].colo_enable

\* A step that makes it true, or that changes none of the three flags.
KeepsEnabled(h, e) ==
  \/ ~up'[h] \/ ~domains'[h][e].colo_enable \/ ~file'[h][e].saved \/ file'[h][e].colo_enable
  \/ /\ up[h] /\ domains[h][e].colo_enable /\ file[h][e].saved
     /\ file'[h][e].colo_enable = file[h][e].colo_enable

\* Which flags the functions on the save file set.
LEMMA FlagsOfFile ==
  ASSUME NEW f \in SaveContents, NEW d \in Name, NEW e \in Name
  PROVE  /\ remove_domain_pid(f, d)[e].saved = f[e].saved
         /\ remove_domain_pid(f, d)[e].colo_enable = f[e].colo_enable
         /\ \A p \in Pid : /\ save_domain_pid(f, d, p)[e].saved = f[e].saved
                           /\ save_domain_pid(f, d, p)[e].colo_enable = f[e].colo_enable
         /\ vm_undefine(f, d)[e] = IF e = d THEN NotSaved ELSE f[e]
BY DEF remove_domain_pid, save_domain_pid, vm_undefine, SaveContents, SavedDomain

\* Whether the entries the commands make are enabled.
LEMMA FlagsOfEntry ==
  ASSUME NEW ds \in colod_domain_status
  PROVE  /\ Stopped(ds).colo_enable = ds.colo_enable
         /\ \A p \in Pid \cup {NoPid}, s \in {"running", "colo-enabled"} :
              Started(ds, p, s).colo_enable = ds.colo_enable
         /\ Failover(ds).colo_enable = ds.colo_enable
         /\ [ds EXCEPT !.colo_status = "failover"].colo_enable = ds.colo_enable
         /\ [ds EXCEPT !.status = "shutoff"].colo_enable = ds.colo_enable
         /\ ~[ds EXCEPT !.colo_enable = FALSE].colo_enable
BY DEF Stopped, Started, Failover, colod_domain_status

\* test_domain_status sets none.
LEMMA FlagsOfTest ==
  ASSUME HostTypeOK, NEW n \in Node, NEW x \in Name, NEW e \in Name
  PROVE  /\ Tested(n, x).colo_enable = domains[n][x].colo_enable
         /\ TestedFile(n, x)[e].saved = file[n][e].saved
         /\ TestedFile(n, x)[e].colo_enable = file[n][e].colo_enable
<1>1. domains[n][x] \in colod_domain_status /\ file[n] \in SaveContents
  BY DEF HostTypeOK
<1> QED BY <1>1, FlagsOfFile, FlagsOfEntry DEF Tested, TestedFile

\* A record that is taken over is enabled in the file.
LEMMA FlagsTakenOver ==
  ASSUME NEW f \in SaveContents, NEW ds \in colod_domain_status
  PROVE  SavedEnabled(f, ds)[ds.name].colo_enable
<1>1. ds.name \in Name /\ save_domain_info(f, ds) \in SaveContents
  BY SaveTypes, NameAssumption DEF colod_domain_status, Name
<1>2. save_domain_info(f, ds)[ds.name].saved
  BY <1>1 DEF save_domain_info, SaveContents
<1> QED BY <1>1, <1>2 DEF SavedEnabled, set_domain_colo_enable, SaveContents, SavedDomain

\* The commands of ColodHost.
LEMMA EnabledCommand ==
  ASSUME HostTypeOK, NEW h \in Node, NEW e \in Domain, Command(h)
  PROVE  KeepsEnabled(h, e)
<1>0. /\ domains[h] \in [Name -> colod_domain_status]
      /\ domains[h][e] \in colod_domain_status
      /\ file[h] \in SaveContents
      /\ e \in Name /\ Domain \subseteq Name
  BY DEF HostTypeOK, Name
<1>f. ASSUME up[h],
             domains'[h][e].colo_enable = domains[h][e].colo_enable,
             file'[h][e].saved = file[h][e].saved,
             file'[h][e].colo_enable = file[h][e].colo_enable
      PROVE  KeepsEnabled(h, e)
  BY <1>f DEF KeepsEnabled
<1>1. CASE colod_list(h)
  <2>1. domains'[h][e] = Tested(h, e)
    BY <1>0, <1>1 DEF colod_list, HostTypeOK
  <2>2. file'[h][e] \in {file[h][e], remove_domain_pid(file[h], e)[e]} /\ up[h]
    BY <1>0, <1>1 DEF colod_list, HostTypeOK
  <2> QED BY <1>0, <1>f, <2>1, <2>2, FlagsOfTest, FlagsOfFile
<1>2. ASSUME NEW d \in Domain, colod_define(h, d) PROVE KeepsEnabled(h, e)
  <2>1. CASE e = d
    <3>1. ~domains'[h][e].colo_enable
      BY <1>0, <1>2, <2>1 DEF colod_define, HostTypeOK
    <3> QED BY <3>1 DEF KeepsEnabled
  <2>2. CASE e # d
    <3>1. domains'[h][e] = domains[h][e] /\ file'[h][e] = file[h][e] /\ up[h]
      BY <1>0, <1>2, <2>2 DEF colod_define, save_domain_info, SaveContents, HostTypeOK
    <3> QED BY <1>f, <3>1
  <2> QED BY <2>1, <2>2
<1>3. ASSUME NEW d \in Domain, colod_undefine(h, d) PROVE KeepsEnabled(h, e)
  <2>1. file'[h] = vm_undefine(TestedFile(h, d), d) /\ up[h]
    BY <1>3 DEF colod_undefine, HostTypeOK
  <2>2. file'[h][e] = IF e = d THEN NotSaved ELSE TestedFile(h, d)[e]
    BY <1>0, <2>1, TestedType, FlagsOfFile
  <2>3. e # d => domains'[h][e] = domains[h][e]
    BY <1>0, <1>3 DEF colod_undefine, HostTypeOK
  <2>4. CASE e = d
    BY <2>2, <2>4 DEF NotSaved, KeepsEnabled
  <2>5. CASE e # d
    BY <1>0, <1>f, <2>1, <2>2, <2>3, <2>5, FlagsOfTest
  <2> QED BY <2>4, <2>5
<1>4. ASSUME NEW d \in Domain, colod_domain_test(h, d) PROVE KeepsEnabled(h, e)
  <2>1. /\ domains'[h][e] = IF e = d THEN Tested(h, d) ELSE domains[h][e]
        /\ file'[h] = TestedFile(h, d) /\ up[h]
    BY <1>0, <1>4 DEF colod_domain_test, test_domain_status, HostTypeOK
  <2> QED BY <1>0, <1>f, <2>1, FlagsOfTest
<1>5. ASSUME NEW d \in Domain, NEW p \in Pid \cup {NoPid}, up[h],
             domains' = [domains EXCEPT ![h][d] = Started(@, p, "running")],
             \/ file'[h] = TestedFile(h, d)
             \/ p \in Pid /\ file'[h] = save_domain_pid(TestedFile(h, d), d, p)
      PROVE  KeepsEnabled(h, e)
  <2>1. domains'[h][e] = IF e = d THEN Started(domains[h][e], p, "running") ELSE domains[h][e]
    BY <1>0, <1>5 DEF HostTypeOK
  <2>2. domains'[h][e].colo_enable = domains[h][e].colo_enable
    BY <1>0, <2>1, FlagsOfEntry
  <2>3. /\ file'[h][e].saved = TestedFile(h, d)[e].saved
        /\ file'[h][e].colo_enable = TestedFile(h, d)[e].colo_enable
    BY <1>0, <1>5, TestedType, FlagsOfFile
  <2> QED BY <1>0, <1>f, <1>5, <2>2, <2>3, FlagsOfTest
<1>6. ASSUME NEW d \in Domain, colod_destroy(h, d) PROVE KeepsEnabled(h, e)
  <2>1. domains'[h][e] \in {domains[h][e], Stopped(domains[h][e])} /\ up[h]
    BY <1>0, <1>6 DEF colod_destroy, HostTypeOK
  <2>2. file'[h] = remove_domain_pid(file[h], d)
    BY <1>6 DEF colod_destroy, destroy_domain, HostTypeOK
  <2> QED BY <1>0, <1>f, <2>1, <2>2, FlagsOfEntry, FlagsOfFile
<1>7. ASSUME NEW d \in Domain, colod_start(h, d) PROVE KeepsEnabled(h, e)
  BY <1>5, <1>7 DEF colod_start, run_new_vm, HostTypeOK
<1>8. ASSUME NEW d \in Domain, colod_start_fork_fails(h, d) PROVE KeepsEnabled(h, e)
  BY <1>5, <1>8 DEF colod_start_fork_fails, HostTypeOK
<1> QED BY <1>1, <1>2, <1>3, <1>4, <1>6, <1>7, <1>8 DEF Command

\* Every effect but a relabelling.
LEMMA EnabledPlain ==
  ASSUME HostTypeOK, NEW h \in Node, NEW e \in Domain, PlainEffect(h)
  PROVE  KeepsEnabled(h, e)
<1>0. /\ domains[h] \in [Name -> colod_domain_status]
      /\ domains[h][e] \in colod_domain_status
      /\ file[h] \in SaveContents
      /\ e \in Name /\ Domain \subseteq Name
  BY DEF HostTypeOK, Name
<1>f. ASSUME up'[h] = up[h],
             domains'[h][e].colo_enable = domains[h][e].colo_enable,
             file'[h][e].saved = file[h][e].saved,
             file'[h][e].colo_enable = file[h][e].colo_enable
      PROVE  KeepsEnabled(h, e)
  BY <1>f DEF KeepsEnabled
<1>1. CASE UNCHANGED hostVars
  BY <1>1, <1>f DEF hostVars
<1>2. CASE Command(h)
  BY <1>2, EnabledCommand
<1>3. CASE ProcessStep(h)
  BY <1>3, <1>f DEF ProcessStep, VmExit, OtherSpawn, OtherExit
<1>4. CASE ColodBoot(h)
  <2>1. domains'[h] = domains_init(file[h]) /\ file' = file
    BY <1>4 DEF ColodBoot, HostTypeOK
  <2>2. domains_init(file[h])[e].colo_enable => file[h][e].colo_enable
    BY <1>0 DEF domains_init, ZeroEntry
  <2> QED BY <2>1, <2>2 DEF KeepsEnabled
<1>5. CASE Falls(h)
  <2>1. ~up'[h]
    BY <1>5 DEF Falls, DaemonEnds, HostTypeOK
  <2> QED BY <2>1 DEF KeepsEnabled
<1>6. ASSUME NEW d \in Name, colod_domain_test(h, d) PROVE KeepsEnabled(h, e)
  <2>1. /\ domains'[h][e] = IF e = d THEN Tested(h, d) ELSE domains[h][e]
        /\ file'[h] = TestedFile(h, d) /\ up' = up
    BY <1>0, <1>6 DEF colod_domain_test, test_domain_status, HostTypeOK
  <2> QED BY <1>0, <1>f, <2>1, FlagsOfTest
<1>7. ASSUME NEW d \in Name, Forks(h, d) PROVE KeepsEnabled(h, e)
  <2>1. PICK p \in Pid :
          /\ file'[h] = save_domain_pid(file[h], d, p)
          /\ SetEntry(h, d, Started(domains[h][d], p, "colo-enabled"))
    BY <1>7 DEF Forks, run_new_vm, HostTypeOK
  <2>2. domains'[h][e] \in {domains[h][e], Started(domains[h][e], p, "colo-enabled")}
    BY <1>0, <2>1 DEF SetEntry, HostTypeOK
  <2> QED BY <1>0, <1>7, <1>f, <2>1, <2>2, FlagsOfEntry, FlagsOfFile DEF Forks
<1>8. ASSUME NEW d \in Name, Destroys(h, d) PROVE KeepsEnabled(h, e)
  <2>1. domains'[h][e] \in {domains[h][e], Stopped(domains[h][e])}
    BY <1>0, <1>8 DEF Destroys, SetEntry, HostTypeOK
  <2>2. file'[h] = remove_domain_pid(file[h], d) /\ up' = up
    BY <1>8 DEF Destroys, destroy_domain, HostTypeOK
  <2> QED BY <1>0, <1>f, <2>1, <2>2, FlagsOfEntry, FlagsOfFile
<1>9. ASSUME NEW ds \in colod_domain_status, TakesOver(h, ds) PROVE KeepsEnabled(h, e)
  <2>1. file'[h] = SavedEnabled(file[h], ds) /\ ds.name \in Name /\ up' = up
    BY <1>9 DEF TakesOver, HostTypeOK, colod_domain_status
  <2>2. CASE e = ds.name
    BY <1>0, <2>1, <2>2, FlagsTakenOver DEF KeepsEnabled
  <2>3. CASE e # ds.name
    <3>1. domains'[h][e] = domains[h][e]
      BY <1>0, <1>9, <2>1, <2>3 DEF TakesOver, SetEntry, HostTypeOK
    <3>2. file'[h][e] = SavedEnabled(file[h], ds)[e]
      BY <2>1
    <3>3. SavedEnabled(file[h], ds)[e] = file[h][e]
      BY <1>0, <2>3, SavedEnabledType
    <3> QED BY <1>f, <2>1, <3>1, <3>2, <3>3
  <2> QED BY <2>2, <2>3
<1> QED BY <1>1, <1>2, <1>3, <1>4, <1>5, <1>6, <1>7, <1>8, <1>9 DEF PlainEffect, QuietEffect

\* A colo-enable ends with one of the steps that set the flag, or with colod.
LEMMA EnableEnds ==
  ASSUME PairTypeOK, NEW h \in Node, Waits(h), SecondReady(h), ActsAt(h),
         task[h].op = "enable", task'[h] = Idle
  PROVE  RelabelStep(h) \/ ~up'[h]
<1>1. task[h] # Idle
  BY DEF Idle
<1>2. ASSUME NEW ps, NEW kept, Ends(h, ps, kept) PROVE ~up'[h]
  BY <1>2 DEF Ends, DaemonEnds, PairTypeOK, HostTypeOK
<1>3. ASSUME NEW t, t # Idle, Goto(h, t) PROVE FALSE
  BY <1>3 DEF Goto, PairTypeOK
<1>4. CASE process_step(h)
  BY <1>1, <1>4 DEF process_step
<1>5. CASE Continue(h)
  <2>1. task[h] \in Task => \A at : [task[h] EXCEPT !.at = at] # Idle
    BY DEF Task, Idle
  <2>2. ~call(h)
    BY <1>3, <2>1, TaskFields DEF call
  <2> QED BY <1>2, <1>5, <2>2
          DEF Continue, Proceed, call_throws, connect_answered, status_or_qmp_answered, refused,
              start_answered, start_fork_fails, own_qmp, destroy_answered, Answered,
              RelabelStep, SecondReady
<1> QED BY <1>1, <1>2, <1>4, <1>5, Busy

\* The step of the flag in memory and the flag in the save file.
LEMMA SavedStep ==
  ASSUME PairTypeOK, NEW h \in Node, Waits(h), SecondReady(h), ActsAt(h),
         NEW e \in Domain, Saved(h, e)
  PROVE  Saved(h, e)'
<1>0. /\ HostTypeOK /\ task \in [Node -> Task \cup {Idle}]
      /\ domains[h] \in [Name -> colod_domain_status]
      /\ domains[h][e] \in colod_domain_status
      /\ file[h] \in SaveContents
      /\ task[h].dom \in Name /\ e \in Name /\ Domain \subseteq Name
  BY TaskFields DEF PairTypeOK, HostTypeOK, Name
<1>1. CASE ~RelabelStep(h)
  <2>1. KeepsEnabled(h, e)
    BY <1>0, <1>1, PlainSteps, EnabledPlain
  <2>2. CASE Enabling(h, e) /\ task'[h] = Idle
    BY <1>1, <2>2, EnableEnds DEF Enabling, Saved
  <2>3. CASE Enabling(h, e) /\ task'[h] # Idle
    <3>1. task[h] # Idle
      BY <2>3 DEF Enabling, Idle
    <3>2. Enabling(h, e)'
      BY <2>3, <3>1, Goes DEF Enabling
    <3> QED BY <3>2 DEF Saved
  <2>4. CASE ~Enabling(h, e)
    BY <2>1, <2>4 DEF KeepsEnabled, Saved
  <2> QED BY <2>2, <2>3, <2>4
<1>2. ASSUME NEW d \in Domain,
             \/ colod_colo_enable(h, d) \/ colod_colo_disable(h, d)
             \/ colod_do_failover(h, d) \/ colod_do_failover_fails(h, d)
      PROVE  Saved(h, e)'
  <2>0. ~Enabling(h, e)
    BY <1>2
       DEF colod_colo_enable, colod_colo_disable, colod_do_failover, colod_do_failover_fails,
           Free, Enabling, Idle
  <2>1. up' = up
    BY <1>2
       DEF colod_colo_enable, colod_colo_disable, colod_do_failover, colod_do_failover_fails
  <2>2. CASE e # d
    <3>1. domains'[h][e] = domains[h][e]
      BY <1>0, <1>2, <2>2
         DEF colod_colo_enable, colod_colo_disable, colod_do_failover,
             colod_do_failover_fails, SetEntry, HostTypeOK
    <3>2. file'[h][e] = file[h][e]
      BY <1>0, <1>2, <2>2
         DEF colod_colo_enable, colod_colo_disable, colod_do_failover,
             colod_do_failover_fails, set_domain_colo_disable, SaveContents, HostTypeOK
    <3> QED BY <2>0, <2>1, <3>1, <3>2 DEF Saved
  <2>3. CASE e = d /\ colod_colo_enable(h, d)
    <3>1. Enabling(h, e)'
      BY <1>0, <2>3 DEF colod_colo_enable, Goto, Doing, Enabling
    <3> QED BY <3>1 DEF Saved
  <2>4. CASE e = d /\ colod_colo_disable(h, d)
    <3>1. domains'[h][e] = [domains[h][e] EXCEPT !.colo_enable = FALSE]
      BY <1>0, <2>4 DEF colod_colo_disable, SetEntry, HostTypeOK
    <3> QED BY <1>0, <3>1, FlagsOfEntry DEF Saved
  <2>5. CASE e = d /\ (colod_do_failover(h, d) \/ colod_do_failover_fails(h, d))
    <3>1. /\ domains'[h][e] \in {Failover(domains[h][e]),
                                 [domains[h][e] EXCEPT !.colo_status = "failover"]}
          /\ file' = file
      BY <1>0, <2>5 DEF colod_do_failover, colod_do_failover_fails, SetEntry, HostTypeOK
    <3>2. domains'[h][e].colo_enable = domains[h][e].colo_enable
      BY <1>0, <3>1, FlagsOfEntry
    <3> QED BY <2>0, <2>1, <3>1, <3>2 DEF Saved
  <2> QED BY <1>2, <2>2, <2>3, <2>4, <2>5
<1>3. CASE timed_out(h) \/ enable_refused(h)
  <2>1. up' = up /\ file' = file
    BY <1>3 DEF timed_out, enable_refused, Answered, Rpc!recv_reply, Rpc!recv_timeout
  <2>2. CASE Enabling(h, e)
    <3>1. domains'[h][e] = [domains[h][e] EXCEPT !.colo_enable = FALSE]
      BY <1>0, <1>3, <2>2
         DEF timed_out, timed_out_reset, enable_refused, Enabling, SetEntry, HostTypeOK
    <3> QED BY <1>0, <3>1, FlagsOfEntry DEF Saved
  <2>3. CASE ~Enabling(h, e)
    <3>1. domains'[h][e] = domains[h][e]
      BY <1>0, <1>3, <2>3
         DEF timed_out, timed_out_reset, enable_refused, Answered, Enabling, SetEntry, HostTypeOK
    <3> QED BY <2>1, <2>3, <3>1 DEF Saved
  <2> QED BY <2>2, <2>3
<1>4. CASE enable_answered(h)
  <2> DEFINE cds == domains[h][task[h].dom].colo_status
  <2>1. /\ up' = up /\ domains' = domains
        /\ file'[h] = set_domain_colo_enable(file[h], task[h].dom, cds)
    BY <1>4 DEF enable_answered, Answered, Rpc!recv_reply, PairTypeOK, HostTypeOK
  <2> HIDE DEF cds
  <2>2. CASE Enabling(h, e)
    <3>1. file'[h][e].saved => file'[h][e].colo_enable
      BY <1>0, <2>1, <2>2 DEF set_domain_colo_enable, Enabling, SaveContents, SavedDomain
    <3> QED BY <3>1 DEF Saved
  <2>3. CASE ~Enabling(h, e)
    <3>1. e # task[h].dom
      BY <1>4, <2>3 DEF enable_answered, Answered, Enabling
    <3>2. file'[h][e] = file[h][e]
      BY <1>0, <2>1, <3>1 DEF set_domain_colo_enable, SaveContents
    <3> QED BY <2>1, <2>3, <3>2 DEF Saved
  <2> QED BY <2>2, <2>3
<1> QED BY <1>1, <1>2, <1>3, <1>4 DEF RelabelStep

\* No outcome of the call inside colo-enable, no answer that belongs to another
\* call and no crash makes the memory of a colod say enabled what its save file
\* does not: a restart keeps what the operator was told.
THEOREM EnabledIsSavedAlways == PairSpec => []EnabledIsSaved
<1> DEFINE Inv == \A n \in Node, e \in Domain : Saved(n, e)
<1>1. PairInit => Inv
  BY DEF PairInit, HostInit, Saved, ZeroEntry, Name
<1>2. /\ PairTypeOK /\ \A n \in Node : Waits(n)
      /\ \A n \in Node : SecondReady(n)
      /\ Inv /\ [PairNext]_pairVars
      => Inv'
  <2> SUFFICES ASSUME PairTypeOK, \A n \in Node : Waits(n), \A n \in Node : SecondReady(n),
                      Inv, [PairNext]_pairVars, NEW k \in Node, NEW e \in Domain
               PROVE  Saved(k, e)'
    OBVIOUS
  <2>1. Saved(k, e)
    OBVIOUS
  <2> HIDE DEF Inv
  <2>2. CASE UNCHANGED pairVars
    BY <2>1, <2>2 DEF pairVars, hostVars, Saved, Enabling
  <2>3. ASSUME NEW h \in Node, ActsAt(h) PROVE Saved(k, e)'
    <3>1. CASE k # h
      BY <2>1, <2>3, <3>1, OtherHostsSame DEF SameAt, Saved, Enabling
    <3> QED BY <2>1, <2>3, <3>1, SavedStep
  <2> QED BY <2>2, <2>3, StepOfOneHost
<1>3. Inv => EnabledIsSaved
  BY DEF Saved, Enabling, EnabledIsSaved
<1> QED BY <1>1, <1>2, <1>3, PairTypeCorrect, PairSecondReady, PTL DEF PairSpec

-----------------------------------------------------------------------------
(***************************************************************************)
(* A vm that runs on, at the host h of the step.                           *)
(***************************************************************************)

\* Its entry keeps the pid and says that it runs, unless the step writes a new
\* one.
LEMMA RunsEffect ==
  ASSUME HostTypeOK, KillTarget, NEW h \in Node, NEW e \in Domain, NEW p \in Pid,
         Runs(h, e, p), procs'[h][p] = procs[h][p],
         QuietEffect(h) \/ \E d \in Name : Relabels(h, d)
  PROVE  Runs(h, e, p)' \/ colod_define(h, e)
<1>0. /\ domains[h] \in [Name -> colod_domain_status]
      /\ procs[h] \in [Pid -> Process]
      /\ e \in Name /\ p # NoPid /\ p # ZeroPid
  BY PidAssumption DEF HostTypeOK, Name
<1>1. /\ up[h] /\ domains[h][e].pid = p /\ domains[h][e].status # "shutoff"
      /\ procs[h][p].kind = "vm" /\ procs[h][p].child
  BY DEF Runs, Records
<1>k. ASSUME up'[h], domains'[h][e].pid = domains[h][e].pid,
             domains'[h][e].status = "shutoff" <=> domains[h][e].status = "shutoff"
      PROVE  Runs(h, e, p)'
  BY <1>k DEF Runs, Records
<1>2. CASE UNCHANGED hostVars
  BY <1>1, <1>2, <1>k DEF hostVars
<1>3. CASE Command(h) \/ ProcessStep(h) \/ ColodBoot(h)
  <2>1. (domains'[h][e] = domains[h][e] /\ up'[h]) \/ colod_define(h, e)
    BY <1>1, <1>3, RecordsStep DEF FaultStep, Runs
  <2> QED BY <1>1, <1>k, <2>1
<1>4. CASE Falls(h)
  <2>1. procs'[h][p] = Orphan(procs[h][p])
    BY <1>1, <1>4 DEF Falls, DaemonEnds, HostTypeOK
  <2> QED BY <1>0, <1>1, <2>1 DEF Orphan, Process
<1>5. ASSUME NEW d \in Name, colod_domain_test(h, d) PROVE Runs(h, e, p)'
  <2>1. Tested(h, e) = domains[h][e]
    BY <1>1, RecordedStatus
  <2>2. domains'[h][e] = domains[h][e] /\ up' = up
    BY <1>0, <1>5, <2>1 DEF colod_domain_test, test_domain_status, HostTypeOK
  <2> QED BY <1>1, <1>k, <2>2
<1>6. ASSUME NEW d \in Name, Destroys(h, d) PROVE Runs(h, e, p)'
  <2>1. CASE DestroyOk(h, d) /\ d = e
    <3>1. KillPid(h, e) = p
      BY <1>0, <1>1, <2>1 DEF DestroyOk, KillTarget
    <3>2. procs'[h][p] = Killed(procs[h][p])
      BY <1>0, <1>6, <2>1, <3>1 DEF Destroys, destroy_domain, HostTypeOK
    <3> QED BY <1>0, <1>1, <3>2, KilledVm
  <2>2. CASE ~DestroyOk(h, d) \/ d # e
    <3>1. domains'[h][e] = domains[h][e] /\ up' = up
      BY <1>0, <1>6, <2>2 DEF Destroys, SetEntry, HostTypeOK
    <3> QED BY <1>1, <1>k, <3>1
  <2> QED BY <2>1, <2>2
<1>7. ASSUME NEW d \in Name, Relabels(h, d) PROVE Runs(h, e, p)'
  <2>1. PICK ds \in colod_domain_status :
          /\ SetEntry(h, d, ds) /\ up' = up /\ ds.pid = domains[h][d].pid
          /\ ds.status = "shutoff" <=> domains[h][d].status = "shutoff"
    BY <1>7 DEF Relabels
  <2>2. /\ domains'[h][e].pid = domains[h][e].pid
        /\ domains'[h][e].status = "shutoff" <=> domains[h][e].status = "shutoff"
    BY <1>0, <2>1 DEF SetEntry, HostTypeOK
  <2> QED BY <1>1, <1>k, <2>1, <2>2
<1> QED BY <1>2, <1>3, <1>4, <1>5, <1>6, <1>7 DEF QuietEffect

\* The own vm of a start is forked for a domain that has none.
LEMMA RunsStep ==
  ASSUME PairTypeOK, KillTarget, CheckedWhenUsed, NEW h \in Node, ActsAt(h),
         NEW e \in Domain, NEW p \in Pid, Runs(h, e, p), procs'[h][p] = procs[h][p]
  PROVE  \/ Runs(h, e, p)' \/ colod_define(h, e)
         \/ \E c \in Pending(Peer[h]) :
              peer_colod_save_domain(Peer[h], c) \/ peer_colod_start_domain(Peer[h], c)
<1>0. HostTypeOK /\ domains[h] \in [Name -> colod_domain_status] /\ e \in Name
  BY DEF PairTypeOK, HostTypeOK, Name
<1>1. CASE RelabelStep(h)
  BY <1>0, <1>1, RelabelSteps, RunsEffect
<1>2. CASE ~RelabelStep(h) /\ ~OverwriteStep(h)
  BY <1>0, <1>2, QuietSteps, RunsEffect
<1>3. CASE start_answered(h)
  <2> DEFINE d == task[h].dom
  <2>1. task[h].op = "start" /\ up' = up
    BY <1>3 DEF start_answered, Answered, Rpc!recv_reply
  <2>2. PICK q \in Pid : SetEntry(h, d, Started(domains[h][d], q, "colo-enabled"))
    BY <1>3 DEF start_answered
  <2>3. Status(h, d) = "shutoff"
    BY <2>1 DEF CheckedWhenUsed
  <2>4. Status(h, e) # "shutoff"
    BY <1>0, PidAssumption, RecordedStatus DEF Runs, Records, Status
  <2>5. domains'[h][e] = domains[h][e]
    BY <1>0, <2>2, <2>3, <2>4 DEF SetEntry, HostTypeOK
  <2> QED BY <2>1, <2>5 DEF Runs, Records
<1> QED BY <1>1, <1>2, <1>3 DEF OverwriteStep

\* In the pair, in every order of commands, calls, late answers, timeouts, ended
\* processes and restarts, only define, peer-save-domain and peer-start-domain,
\* and the end of colod, make it forget a vm that runs.
THEOREM PairVmStaysRecordedAlways == PairSpec => PairVmStaysRecorded
<1>1. PairTypeOK /\ KillTarget /\ CheckedWhenUsed /\ [PairNext]_pairVars =>
        [\A n \in Node, d \in Domain, p \in Pid :
           Runs(n, d, p) /\ procs'[n][p] = procs[n][p] =>
             \/ Runs(n, d, p)' \/ colod_define(n, d)
             \/ \E c \in Pending(Peer[n]) :
                  peer_colod_save_domain(Peer[n], c) \/ peer_colod_start_domain(Peer[n], c)]_pairVars
  <2> SUFFICES ASSUME PairTypeOK, KillTarget, CheckedWhenUsed, [PairNext]_pairVars,
                      ~UNCHANGED pairVars, NEW k \in Node, NEW d \in Domain, NEW p \in Pid,
                      Runs(k, d, p), procs'[k][p] = procs[k][p]
               PROVE  \/ Runs(k, d, p)' \/ colod_define(k, d)
                      \/ \E c \in Pending(Peer[k]) :
                           \/ peer_colod_save_domain(Peer[k], c)
                           \/ peer_colod_start_domain(Peer[k], c)
    OBVIOUS
  <2>1. PICK h \in Node : ActsAt(h)
    BY StepOfOneHost
  <2>2. CASE k = h
    BY <2>1, <2>2, RunsStep
  <2>3. CASE k # h
    BY <2>1, <2>3, OtherHostsSame DEF SameAt, Runs, Records
  <2> QED BY <2>2, <2>3
<1> QED BY <1>1, PairTypeCorrect, PairKillTarget, CheckedWhenUsedAlways, PTL
        DEF PairSpec, PairVmStaysRecorded

-----------------------------------------------------------------------------
(***************************************************************************)
(* The table in memory and the save file name the same domains.            *)
(***************************************************************************)
Registered(h, e) == up[h] => (file[h][e].saved <=> domains[h][e].name = e)

\* Neither a relabelled entry nor a forked or destroyed domain changes its name or
\* leaves the file; what is taken over enters both.
LEMMA RegistryEffect ==
  ASSUME HostTypeOK, NEW h \in Node, NEW e \in Domain, Registered(h, e), HostEffect(h)
  PROVE  Registered(h, e)'
<1>0. /\ domains[h] \in [Name -> colod_domain_status]
      /\ domains[h][e] \in colod_domain_status
      /\ file[h] \in SaveContents
      /\ e \in Name
  BY DEF HostTypeOK, Name
<1>k. ASSUME up'[h] = up[h], domains'[h][e].name = domains[h][e].name,
             file'[h][e].saved = file[h][e].saved
      PROVE  Registered(h, e)'
  BY <1>k DEF Registered
<1>1. CASE UNCHANGED hostVars
  BY <1>1, <1>k DEF hostVars
<1>2. CASE Command(h) \/ ProcessStep(h) \/ ColodBoot(h)
  BY <1>2, RegistryStep DEF FaultStep, Registered
<1>3. CASE Falls(h)
  <2>1. ~up'[h]
    BY <1>3 DEF Falls, DaemonEnds, HostTypeOK
  <2> QED BY <2>1 DEF Registered
<1>4. ASSUME NEW d \in Name, colod_domain_test(h, d) PROVE Registered(h, e)'
  <2>1. CASE d \in Domain
    BY <1>4, <2>1, RegistryStep DEF Command, Registered
  <2>2. CASE d \notin Domain
    <3>1. domains'[h][e] = domains[h][e] /\ file'[h][e] = file[h][e]
      BY <1>0, <1>4, <2>2, TestedFacts DEF colod_domain_test, test_domain_status, HostTypeOK
    <3> QED BY <1>4, <1>k, <3>1 DEF colod_domain_test
  <2> QED BY <2>1, <2>2
<1>5. ASSUME NEW d \in Name, Relabels(h, d) PROVE Registered(h, e)'
  <2>1. PICK ds \in colod_domain_status, f \in SaveContents :
          /\ SetEntry(h, d, ds) /\ file' = [file EXCEPT ![h] = f] /\ UNCHANGED <<up, procs>>
          /\ ds.name = domains[h][d].name
          /\ SameProcesses(f, file[h])
    BY <1>5 DEF Relabels
  <2>2. domains'[h][e].name = domains[h][e].name
    BY <1>0, <2>1 DEF SetEntry, HostTypeOK
  <2>3. file'[h][e].saved = file[h][e].saved
    BY <1>0, <2>1 DEF SameProcesses, HostTypeOK
  <2> QED BY <1>k, <2>1, <2>2, <2>3
<1>6. ASSUME NEW d \in Name, Forks(h, d) PROVE Registered(h, e)'
  <2>1. PICK p \in Pid, kind \in {"vm", "zombie"} :
          /\ run_new_vm(h, d, p, kind, file[h])
          /\ SetEntry(h, d, Started(domains[h][d], p, "colo-enabled"))
    BY <1>6 DEF Forks
  <2>2. file'[h] = save_domain_pid(file[h], d, p)
    BY <2>1 DEF run_new_vm, HostTypeOK
  <2>3. file'[h][e].saved = file[h][e].saved
    BY <1>0, <2>2, FlagsOfFile
  <2>4. Started(domains[h][d], p, "colo-enabled").name = domains[h][d].name
    BY <1>0 DEF Started, colod_domain_status
  <2>5. domains'[h][e].name = domains[h][e].name
    BY <1>0, <2>1, <2>4 DEF SetEntry, HostTypeOK
  <2> QED BY <1>6, <1>k, <2>3, <2>5 DEF Forks
<1>7. ASSUME NEW d \in Name, Destroys(h, d) PROVE Registered(h, e)'
  <2>1. file'[h] = remove_domain_pid(file[h], d)
    BY <1>7 DEF Destroys, destroy_domain, HostTypeOK
  <2>2. file'[h][e].saved = file[h][e].saved
    BY <1>0, <2>1, FlagsOfFile
  <2>3. Stopped(domains[h][d]).name = domains[h][d].name
    BY <1>0 DEF Stopped, colod_domain_status
  <2>4. domains'[h][e].name = domains[h][e].name
    BY <1>0, <1>7, <2>3 DEF Destroys, SetEntry, HostTypeOK
  <2> QED BY <1>7, <1>k, <2>2, <2>4 DEF Destroys
<1>8. ASSUME NEW ds \in colod_domain_status, TakesOver(h, ds) PROVE Registered(h, e)'
  <2>0. ds.name \in Name
    BY DEF colod_domain_status
  <2>1. file'[h] = SavedEnabled(file[h], ds) /\ up' = up
    BY <1>8 DEF TakesOver, HostTypeOK
  <2>2. CASE e = ds.name
    <3>1. domains'[h][e] = ds
      BY <1>0, <1>8, <2>0, <2>2 DEF TakesOver, SetEntry, HostTypeOK
    <3> QED BY <1>0, <2>1, <2>2, <3>1, SavedEnabledType DEF Registered
  <2>3. CASE e # ds.name
    <3>1. domains'[h][e] = domains[h][e]
      BY <1>0, <1>8, <2>0, <2>3 DEF TakesOver, SetEntry, HostTypeOK
    <3>2. file'[h][e] = file[h][e]
      BY <1>0, <2>1, <2>3, SavedEnabledType
    <3> QED BY <1>k, <2>1, <3>1, <3>2
  <2> QED BY <2>2, <2>3
<1> QED BY <1>1, <1>2, <1>3, <1>4, <1>5, <1>6, <1>7, <1>8 DEF HostEffect, PlainEffect, QuietEffect

\* In the pair too, rs.domains and the save file hold the same domains after every
\* step: also the domains that peer-save-domain brings, and through the end of
\* either colod between the two halves of a command.
THEOREM PairRegistryMatchesFile == PairSpec => []RegistryMatchesFile
<1>1. PairInit => RegistryMatchesFile
  BY NameAssumption DEF PairInit, HostInit, RegistryMatchesFile, EmptySave, NotSaved, ZeroEntry, Name
<1>2. PairTypeOK /\ RegistryMatchesFile /\ [PairNext]_pairVars => RegistryMatchesFile'
  <2> SUFFICES ASSUME PairTypeOK, RegistryMatchesFile, [PairNext]_pairVars,
                      NEW k \in Node, NEW e \in Domain
               PROVE  Registered(k, e)'
    BY DEF RegistryMatchesFile, Registered
  <2>1. Registered(k, e)
    BY DEF RegistryMatchesFile, Registered
  <2>2. CASE UNCHANGED pairVars
    BY <2>1, <2>2 DEF pairVars, hostVars, Registered
  <2>3. ASSUME NEW h \in Node, ActsAt(h) PROVE Registered(k, e)'
    <3>1. CASE k = h
      BY <2>1, <2>3, <3>1, EffectOfStep, RegistryEffect DEF PairTypeOK
    <3>2. CASE k # h
      BY <2>1, <2>3, <3>2, OtherHostsSame DEF SameAt, Registered
    <3> QED BY <3>1, <3>2
  <2> QED BY <2>2, <2>3, StepOfOneHost
<1> QED BY <1>1, <1>2, PairTypeCorrect, PTL DEF PairSpec

-----------------------------------------------------------------------------
(***************************************************************************)
(* What two colods keep as long as no call times out and none of them      *)
(* ends: that their roles are opposite, that at most one of them leads a   *)
(* domain, and that the peer's vm is started before the own one.  With a   *)
(* timeout or an end these can fail (the runs of MCPair that expect a      *)
(* violation), so the theorems say what the faults are needed for: for any *)
(* number of commands, domains and processes, nothing else breaks them.    *)
(***************************************************************************)
\* No receive of net_call times out, and no colod ends.
Undisturbed == [][\A n \in Node : up'[n] /\ ~timed_out(n)]_pairVars

-----------------------------------------------------------------------------
(***************************************************************************)
(* The call layer: a handler that waits receives the answer to its own     *)
(* call, and nothing is left over from another.                            *)
(***************************************************************************)
Current(n) ==
  /\ up[n] /\ m_error_code[n] = "success" /\ closed[n] = << >>
  /\ task[n].at = "wait" => calling[n] = CallOf(n)

\* What follows from the invariant of the call layer.
LEMMA NothingLeft ==
  ASSUME PairTypeOK, RpcP!RpcInv, NEW n \in Node, Waits(n), Current(n)
  PROVE  /\ req[n] = NoPeerCall \/ rep[n] = Rpc!NoReply
         /\ task[n].at # "wait" => req[n] = NoPeerCall /\ rep[n] = Rpc!NoReply
         /\ task[n].at = "wait" =>
              /\ req[n] \in {NoPeerCall, CallOf(n)}
              /\ rep[n].call \in {NoPeerCall, CallOf(n)}
         /\ Pending(n) = {req[n]} \ {NoPeerCall}
<1>1. /\ req[n] = NoPeerCall \/ rep[n] = Rpc!NoReply
      /\ sock[n] # "waiting" => req[n] = NoPeerCall /\ rep[n] = Rpc!NoReply
      /\ RpcP!Serving(n) /\ sock[n] = "waiting" => RpcP!NoSend(n)
      /\ calling[n] # NoPeerCall /\ ~RpcP!NoSend(n) =>
           req[n] \in {NoPeerCall, calling[n]} /\ rep[n].call \in {NoPeerCall, calling[n]}
  BY DEF RpcP!RpcInv, RpcP!OneOutstanding, RpcP!SendReady, RpcP!AnswerMatches,
         RpcP!NoReply, Rpc!NoReply
<1>2. ~RpcP!NoSend(n) /\ up[n]
  BY DEF Current, RpcP!NoSend
<1>3. task[n].at # "wait" => RpcP!Serving(n)
  BY <1>2 DEF Waits, RpcP!Serving
<1>4. closed[n] = << >>
  BY DEF Current
<1>5. {closed[n][i] : i \in DOMAIN closed[n]} = {}
  BY <1>4
<1> QED BY <1>1, <1>2, <1>3, <1>5 DEF Current, Waits, Pending

(***************************************************************************)
(* What a step of host h does with the calls.                              *)
(***************************************************************************)

\* It takes the request of its peer and answers it.
Takes(h, ok) ==
  LET n == Peer[h] IN
  /\ Free(h) /\ req[n] # NoPeerCall
  /\ req' = [req EXCEPT ![n] = NoPeerCall]
  /\ rep' = [rep EXCEPT ![n] = [call |-> req[n], ok |-> ok]]
  /\ UNCHANGED <<up, m_error_code, calling, closed, task>>

Quiets(h) == UNCHANGED <<up, m_error_code, calling, req, rep, closed>>

\* A new socket has nothing to throw away when the last call was answered.
LEMMA NewSocketQuiets ==
  ASSUME PairTypeOK, NEW h \in Node, req[h] = NoPeerCall, rep[h] = Rpc!NoReply, Rpc!as_client(h)
  PROVE  Quiets(h)
BY DEF Rpc!as_client, PairTypeOK, Rpc!RpcTypeOK, Quiets

\* A handler that serves its peer takes its one request.
LEMMA ServedIsTaken ==
  ASSUME PairTypeOK, RpcP!RpcInv, \A n \in Node : Waits(n) /\ Current(n),
         NEW h \in Node, NEW c, NEW ok, UNCHANGED task,
         Serve(Peer[h], c, ok) \/ ServeWithNewSocket(Peer[h], c, ok)
  PROVE  c = req[Peer[h]] /\ Takes(h, ok)
<1> DEFINE n == Peer[h]
<1>0. n \in Node /\ Peer[n] = h /\ n # h
  BY PeerAssumption
<1> HIDE DEF n
<1>1. Free(h) /\ DOMAIN closed[n] = {}
  BY <1>0 DEF Serve, ServeWithNewSocket, Current, n
<1>2. req[h] = NoPeerCall /\ rep[h] = Rpc!NoReply
  <2>1. task[h].at # "wait"
    BY <1>1 DEF Free, Idle
  <2> QED BY <2>1, NothingLeft
<1>3. c = req[n] /\ (Rpc!run(n, ok) \/ Rpc!run_as_client(n, ok))
  BY <1>1 DEF Serve, ServeWithNewSocket, n
<1>4. CASE Rpc!run(n, ok)
  BY <1>1, <1>3, <1>4 DEF Rpc!run, Takes, n
<1>5. CASE Rpc!run_as_client(n, ok)
  <2>1. /\ req' = [req EXCEPT ![n] = NoPeerCall, ![h] = NoPeerCall]
        /\ rep' = [rep EXCEPT ![n] = [call |-> req[n], ok |-> ok], ![h] = Rpc!NoReply]
        /\ closed' = [closed EXCEPT ![h] = closed[h]]
        /\ req[n] # NoPeerCall /\ UNCHANGED <<up, m_error_code, calling>>
    BY <1>0, <1>2, <1>5 DEF Rpc!run_as_client
  <2>2. /\ req \in [Node -> PeerCall \cup {NoPeerCall}]
        /\ rep = [k \in Node |-> rep[k]]
        /\ closed = [k \in Node |-> closed[k]]
    BY DEF PairTypeOK, Rpc!RpcTypeOK
  <2>3. req' = [req EXCEPT ![n] = NoPeerCall] /\ closed' = closed
    BY <1>0, <1>2, <2>1, <2>2
  <2>4. rep' = [rep EXCEPT ![n] = [call |-> req[n], ok |-> ok]]
    BY <1>0, <1>2, <2>1, <2>2
  <2> QED BY <1>1, <1>3, <2>1, <2>3, <2>4 DEF Takes, n
<1> QED BY <1>3, <1>4, <1>5 DEF n

\* A step of a host leaves the calls alone, makes one, receives the answer to
\* one, or serves the peer's.
LEMMA CallsOfStep ==
  ASSUME PairTypeOK, RpcP!RpcInv, \A n \in Node : Waits(n) /\ Current(n),
         NEW h \in Node, ActsAt(h), up'[h], ~timed_out(h)
  PROVE  \/ Quiets(h)
         \/ call(h)
         \/ Rpc!recv_reply(h) /\ task'[h].at # "wait" /\ task[h] # Idle
         \/ /\ Handle(Peer[h])
            /\ \E c \in Pending(Peer[h]), ok \in BOOLEAN :
                 Handler(Peer[h], c) /\ c = req[Peer[h]] /\ Takes(h, ok)
<1>0. /\ \A n \in Node : up[n] /\ Waits(n) /\ Current(n)
      /\ up \in [Node -> BOOLEAN] /\ task \in [Node -> Task \cup {Idle}]
  BY DEF Current, PairTypeOK, HostTypeOK
<1>1. CASE UNCHANGED <<up, rpcOnly>>
  BY <1>1 DEF rpcOnly, Quiets
<1>2. ASSUME NEW ps, NEW kept, Ends(h, ps, kept) PROVE FALSE
  BY <1>0, <1>2 DEF Ends, DaemonEnds
<1>3. ASSUME Free(h), Rpc!as_client(h) PROVE Quiets(h)
  <2>1. task[h].at # "wait"
    BY <1>3 DEF Free, Idle
  <2> QED BY <1>0, <1>3, <2>1, NothingLeft, NewSocketQuiets
<1>5. CASE LocalCommand(h) \/ process_step(h)
  BY <1>1, <1>5
     DEF LocalCommand, process_step, Command, colod_list, colod_define, colod_undefine,
         colod_domain_test, colod_start, colod_start_fork_fails, colod_destroy,
         ProcessStep, VmExit, OtherSpawn, OtherExit
<1>6. CASE PeerCommand(h)
  <2>1. ASSUME NEW r \in ConfigRole, colod_connect_peer(h, r) PROVE Quiets(h)
    BY <1>3, <2>1 DEF colod_connect_peer
  <2>2. ASSUME NEW d \in Domain, colod_colo_enable(h, d) PROVE Quiets(h)
    BY <1>1, <1>3, <2>2 DEF colod_colo_enable, Quiets, rpcOnly
  <2> QED BY <1>1, <1>6, <2>1, <2>2
          DEF PeerCommand, colod_connect_status, colo_enable_tool, colod_domain_test,
              colod_colo_disable, colod_start_colo, colod_destroy_colo, colod_do_failover,
              colod_do_failover_fails, hostVars
<1>7. CASE BadCommand(h)
  BY <1>1, <1>2, <1>7
     DEF BadCommand, colod_connect_peer_bad_config, colod_start_throws,
         colod_vm_status_throws, hostVars
<1>8. CASE Continue(h)
  <2>1. CASE call(h)
    BY <2>1
  <2>2. CASE call_throws(h)
    BY <1>2, <2>2 DEF call_throws
  <2>3. CASE own_qmp(h)
    BY <1>1, <2>3 DEF own_qmp, hostVars
  <2>4. CASE \/ connect_answered(h) \/ status_or_qmp_answered(h) \/ refused(h)
             \/ enable_answered(h) \/ enable_refused(h) \/ start_answered(h)
             \/ start_fork_fails(h) \/ destroy_answered(h)
    <3>1. Rpc!recv_reply(h) /\ task[h].at = "wait"
      BY <2>4
         DEF connect_answered, status_or_qmp_answered, refused, enable_answered, enable_refused,
             start_answered, start_fork_fails, destroy_answered, Answered
    <3>2. Goto(h, Idle) \/ \E d, cur : Goto(h, AfterFork(d, cur))
      BY <2>4
         DEF connect_answered, status_or_qmp_answered, refused, enable_answered, enable_refused,
             start_answered, start_fork_fails, destroy_answered, Return
    <3>3. Idle.at # "wait" /\ \A d, cur : AfterFork(d, cur).at # "wait"
      BY DEF AfterFork, Doing, Idle
    <3> QED BY <1>0, <3>1, <3>2, <3>3 DEF Goto
  <2> QED BY <1>8, <2>1, <2>2, <2>3, <2>4 DEF Continue, Proceed
<1>9. CASE Handle(Peer[h])
  <2> DEFINE n == Peer[h]
  <2>0. n \in Node /\ Peer[n] = h
    BY PeerAssumption
  <2>2. PICK c \in Pending(n) : Handler(n, c)
    BY <1>9 DEF Handle
  <2>3. ~peer_get_domain_throws(n, c)
    BY <1>2, <2>0 DEF peer_get_domain_throws
  <2>4. DestroyOk(h, c.dom) \in BOOLEAN
    BY DEF DestroyOk, Alive
  <2> HIDE DEF n
  <2>5. /\ UNCHANGED task
        /\ \E ok \in BOOLEAN : Serve(n, c, ok) \/ ServeWithNewSocket(n, c, ok)
    BY <2>0, <2>2, <2>3, <2>4
       DEF Handler, peer_colod_connect_test_reply, peer_colod_save_status,
           peer_colod_save_domain, peer_colod_start_domain, peer_colod_start_domain_refused,
           peer_colod_destroy_domain, peer_colod_destroy_domain_refused,
           peer_colod_send_qmpcmds, peer_colod_send_qmpcmds_refused
  <2>6. \E ok \in BOOLEAN : c = req[Peer[h]] /\ Takes(h, ok)
    BY <1>0, <2>5, ServedIsTaken DEF n
  <2> QED BY <1>9, <2>2, <2>6 DEF n
<1>10. CASE CrashStep(h)
  BY <1>2, <1>10
     DEF CrashStep, colod_crash, crash_in_start, crash_in_colo_start, CrashAfterFork,
         crash_in_destroy, crash_in_peer_save
<1>11. CASE colod_boot(h)
  BY <1>0, <1>11 DEF colod_boot, ColodBoot
<1> QED BY <1>5, <1>6, <1>7, <1>8, <1>9, <1>10, <1>11 DEF ActsAt

\* The call a handler waits for stays the one it has made: neither its task nor
\* what the call was made from changes before it returns.
LEMMA CallStays ==
  ASSUME PairTypeOK, NEW k \in Node, NEW h \in Node, Waits(k), ActsAt(h), ~call(h),
         task[k].at = "wait", task'[k].at = "wait"
  PROVE  /\ CallOf(k)' = CallOf(k) /\ calling'[k] = calling[k] /\ task'[k] = task[k]
         /\ local_status'[k] = local_status[k]
<1>0. /\ task[k] # Idle /\ task'[k] # Idle /\ task \in [Node -> Task \cup {Idle}]
      /\ task[k].op = "connect" => task[k] \in Task
  BY TaskFields DEF Idle, PairTypeOK
<1>s. ASSUME task'[k] = task[k], domains'[k] = domains[k], local_status'[k] = local_status[k]
      PROVE  CallOf(k)' = CallOf(k)
  BY <1>s DEF CallOf
<1>1. CASE k # h
  <2>1. SameAt(k)
    BY <1>1, OtherHostsSame
  <2> QED BY <1>s, <2>1 DEF SameAt
<1>2. CASE k = h
  <2>1. ~own_qmp(h) /\ ~start_answered(h)
    <3>1. ~own_qmp(h)
      BY <1>2 DEF own_qmp
    <3>2. ASSUME NEW d, NEW cur, Goto(h, AfterFork(d, cur)) PROVE FALSE
      <4>1. task'[h] = AfterFork(d, cur)
        BY <1>0, <3>2 DEF Goto
      <4> QED BY <1>2, <4>1 DEF AfterFork, Doing, Idle
    <3> QED BY <3>1, <3>2 DEF start_answered
  <2>2. process_step(h)
    BY <1>0, <1>2, <2>1, Goes
  <2> QED BY <1>2, <1>s, <2>2
          DEF process_step, ProcessStep, VmExit, OtherSpawn, OtherExit, rpcOnly, coloVars
<1> QED BY <1>1, <1>2

\* A step leaves each handler that waits with its own call.
LEMMA CurrentStep ==
  ASSUME PairTypeOK, RpcP!RpcInv, \A n \in Node : Waits(n) /\ Current(n),
         NEW h \in Node, ActsAt(h), up'[h], ~timed_out(h),
         NEW k \in Node, Waits(k)'
  PROVE  Current(k)'
<1>0. /\ Waits(k) /\ Current(k) /\ up[k]
      /\ task \in [Node -> Task \cup {Idle}]
      /\ m_error_code \in [Node -> {"success", "recv_timeout"}]
      /\ calling \in [Node -> PeerCall \cup {NoPeerCall}]
  BY DEF Current, PairTypeOK, Rpc!RpcTypeOK
<1>1. up'[k]
  BY <1>0, OtherHostsSame DEF SameAt
<1>2. m_error_code'[k] = "success" /\ closed'[k] = << >>
  BY <1>0, CallsOfStep
     DEF Quiets, call, Rpc!net_call, Rpc!recv_reply, Takes, Current
<1>3. ASSUME task'[k].at = "wait" PROVE calling'[k] = CallOf(k)'
  <2>1. CASE call(h) /\ k = h
    <3>1. calling'[h] = CallOf(h) /\ task'[h] = [task[h] EXCEPT !.at = "wait"] /\ task[h] \in Task
      BY <1>0, <2>1, TaskFields DEF call, Rpc!net_call, Goto
    <3>2. task'[h].op = task[h].op /\ task'[h].dom = task[h].dom /\ task'[h].cur = task[h].cur
      BY <3>1 DEF Task
    <3>3. UNCHANGED <<domains, local_status>>
      BY <2>1 DEF call, coloVars
    <3> QED BY <2>1, <3>1, <3>2, <3>3 DEF CallOf
  <2>2. CASE call(h) /\ k # h
    <3>1. SameAt(k)
      BY <2>2, OtherHostsSame
    <3> QED BY <1>0, <1>3, <3>1 DEF SameAt, Current, CallOf
  <2>3. CASE ~call(h)
    <3>1. task[k].at = "wait"
      <4>1. calling'[k] # NoPeerCall
        BY <1>3 DEF Waits
      <4>2. calling'[k] # NoPeerCall => calling[k] # NoPeerCall
        BY <1>0, <2>3, CallsOfStep DEF Quiets, Rpc!recv_reply, Takes
      <4> QED BY <1>0, <4>1, <4>2 DEF Waits
    <3> QED BY <1>0, <1>3, <2>3, <3>1, CallStays DEF Current
  <2> QED BY <2>1, <2>2, <2>3
<1> QED BY <1>1, <1>2, <1>3 DEF Current

\* A step with neither a timeout nor the end of a colod.
CalmNext == [PairNext]_pairVars /\ [\A n \in Node : up'[n] /\ ~timed_out(n)]_pairVars

\* What holds before and after each such step.
Calm == PairTypeOK /\ RpcP!RpcInv /\ \A n \in Node : Waits(n) /\ Current(n)

\* As long as nothing is disturbed, each colod that waits has no other call on the
\* way than the one it waits for, and one that does not wait has none.
LEMMA PairCalm == PairSpec /\ Undisturbed => []Calm
<1>1. PairInit => \A n \in Node : Current(n)
  <2> SUFFICES ASSUME PairInit, NEW n \in Node PROVE Current(n)
    OBVIOUS
  <2>1. task[n].at = "idle"
    BY DEF PairInit, Idle
  <2> QED BY <2>1 DEF PairInit, HostInit, Rpc!RpcInit, Current
<1>2. /\ PairTypeOK /\ \A n \in Node : Waits(n)
      /\ (\A n \in Node : Waits(n))'
      /\ RpcP!RpcInv /\ \A n \in Node : Current(n)
      /\ CalmNext
      => (\A n \in Node : Current(n))'
  <2> SUFFICES ASSUME PairTypeOK, RpcP!RpcInv, \A n \in Node : Waits(n) /\ Current(n), CalmNext,
                      NEW k \in Node, Waits(k)'
               PROVE  Current(k)'
    OBVIOUS
  <2>1. CASE UNCHANGED pairVars
    BY <2>1 DEF pairVars, hostVars, rpcOnly, coloVars, Current, CallOf
  <2>2. CASE ~UNCHANGED pairVars
    <3>1. PairNext /\ \A n \in Node : up'[n] /\ ~timed_out(n)
      BY <2>2 DEF CalmNext
    <3> QED BY <3>1, StepOfOneHost, CurrentStep
  <2> QED BY <2>1, <2>2
<1>3. /\ PairTypeOK /\ (\A n \in Node : Waits(n))
      /\ RpcP!RpcInv /\ (\A n \in Node : Current(n))
      => Calm
  BY DEF Calm
<1> QED BY <1>1, <1>2, <1>3, PairTypeCorrect, PairRpcInvariant, PTL DEF PairSpec, Undisturbed, CalmNext

\* The handler of n is about to call, or its call has not been taken.
Calls(n) == task[n] # Idle /\ (task[n].at = "call" \/ req[n] # NoPeerCall)

\* Its call is the next thing that happens to it, and then that the peer takes it.
LEMMA CallUntilTaken ==
  ASSUME Calm, NEW h \in Node, ActsAt(h), up'[h], ~timed_out(h),
         NEW k \in Node, Calls(k)
  PROVE  /\ local_status'[k] = local_status[k] /\ domains'[k] = domains[k]
         /\ task'[k].op = task[k].op /\ task'[k].dom = task[k].dom
         /\ \/ Calls(k)'
            \/ h = Peer[k] /\ CallOf(k) \in Pending(k) /\ Handler(k, CallOf(k))
<1>0. /\ PairTypeOK /\ RpcP!RpcInv /\ (\A n \in Node : Waits(n) /\ Current(n))
      /\ task \in [Node -> Task \cup {Idle}] /\ task[k] \in Task /\ task[k] # Idle
      /\ req \in [Node -> PeerCall \cup {NoPeerCall}]
      /\ Peer[h] \in Node /\ Peer[Peer[h]] = h
  BY PeerAssumption DEF Calm, Calls, PairTypeOK, Rpc!RpcTypeOK
<1>1. \/ task[k].at = "call" /\ req[k] = NoPeerCall
      \/ task[k].at = "wait" /\ req[k] # NoPeerCall /\ req[k] = CallOf(k) /\ rep[k] = Rpc!NoReply
  BY <1>0, NothingLeft DEF Calls
<1>3. CASE h # k
  <2>1. SameAt(k)
    BY <1>0, <1>3, OtherHostsSame
  <2>2. CASE req'[k] = req[k]
    BY <2>1, <2>2 DEF SameAt, Calls
  <2>3. CASE Quiets(h) \/ call(h) \/ Rpc!recv_reply(h)
    BY <1>0, <1>3, <2>2, <2>3 DEF Quiets, call, Rpc!net_call, Rpc!recv_reply
  <2>4. ASSUME NEW c, NEW ok, Handler(Peer[h], c), c = req[Peer[h]], Takes(h, ok)
        PROVE  \/ req'[k] = req[k]
               \/ h = Peer[k] /\ CallOf(k) \in Pending(k) /\ Handler(k, CallOf(k))
    <3>1. CASE Peer[h] # k
      BY <1>0, <2>4, <3>1 DEF Takes
    <3>2. CASE Peer[h] = k
      BY <1>0, <1>1, <2>4, <3>2 DEF Takes, Pending
    <3> QED BY <3>1, <3>2
  <2> QED BY <1>0, <2>1, <2>2, <2>3, <2>4, CallsOfStep DEF SameAt
<1>4. CASE h = k
  <2>0. \A ps, kept : ~Ends(h, ps, kept)
    BY <1>0 DEF Ends, DaemonEnds, PairTypeOK, HostTypeOK
  <2>1. Continue(h) \/ process_step(h)
    BY <1>0, <1>4, <2>0, Busy
  <2>2. CASE process_step(h)
    BY <1>4, <2>2
       DEF process_step, ProcessStep, VmExit, OtherSpawn, OtherExit, rpcOnly, coloVars, Calls
  <2>3. ~Rpc!recv_reply(h)
    BY <1>0, <1>1, <1>4 DEF Waits, Rpc!recv_reply
  <2>4. CASE Continue(h)
    <3>1. call(h)
      BY <1>1, <1>4, <2>0, <2>3, <2>4
         DEF Continue, Proceed, call_throws, connect_answered, status_or_qmp_answered, refused,
             enable_answered, enable_refused, start_answered, start_fork_fails, own_qmp,
             destroy_answered, Answered
    <3>2. /\ task'[h] = [task[h] EXCEPT !.at = "wait"]
          /\ local_status' = local_status /\ domains' = domains
      BY <1>0, <3>1 DEF call, Goto, coloVars
    <3>3. task'[h].op = task[h].op /\ task'[h].dom = task[h].dom /\ task'[h] # Idle
      BY <1>0, <1>4, <3>2 DEF Task, Idle
    <3>4. req'[h] = CallOf(h)
      BY <1>0, <3>1 DEF call, Rpc!net_call, Rpc!NoSend, Current
    <3>5. req'[h] # NoPeerCall
      BY <1>0, <1>4, <3>4, CallOfType, CallFields
    <3> QED BY <1>4, <3>2, <3>3, <3>5 DEF Calls
  <2> QED BY <2>1, <2>2, <2>4
<1> QED BY <1>3, <1>4

-----------------------------------------------------------------------------
(***************************************************************************)
(* The roles of the two hosts: opposite, or one of the hosts is about to   *)
(* tell the other.                                                         *)
(***************************************************************************)
Agreed(n) == {local_status[n], local_status[Peer[n]]} = {"primary", "secondary"}

Announces(n) ==
  task[n].op = "connect" /\ (task[n].at = "call" \/ req[n] # NoPeerCall)

RolesAgree(n) ==
  local_status[n] \in {"primary", "secondary"} =>
    Agreed(n) \/ Announces(n) \/ Announces(Peer[n])


\* While a host has something to announce, it goes on until the peer has taken it.
LEMMA AnnouncesUntilTaken ==
  ASSUME Calm, NEW h \in Node, ActsAt(h), up'[h], ~timed_out(h),
         NEW k \in Node, Announces(k)
  PROVE  \/ Announces(k)'
         \/ CallOf(k) \in Pending(k) /\ peer_colod_save_status(k, CallOf(k))
<1>1. Calls(k) /\ task[k].op = "connect"
  BY DEF Announces, Calls, Idle
<1>2. CallOf(k).m = "peer-save-status"
  BY <1>1 DEF CallOf
<1>3. Handler(k, CallOf(k)) => peer_colod_save_status(k, CallOf(k))
  BY <1>2
     DEF Handler, peer_colod_connect_test_reply, peer_colod_save_domain,
         peer_colod_start_domain, peer_colod_start_domain_refused,
         peer_colod_destroy_domain, peer_colod_destroy_domain_refused,
         peer_colod_send_qmpcmds, peer_colod_send_qmpcmds_refused, peer_get_domain_throws
<1> QED BY <1>1, <1>3, CallUntilTaken DEF Announces, Calls

\* Only connect-peer and the handler for the peer's announcement set a role.
LEMMA RoleIsSet ==
  ASSUME Calm, NEW h \in Node, ActsAt(h), up'[h],
         \A r \in ConfigRole : ~colod_connect_peer_bad_config(h, r)
  PROVE  \/ local_status' = local_status
         \/ Announces(h)'
         \/ \E c \in Pending(Peer[h]) : peer_colod_save_status(Peer[h], c)
<1>0. \A ps, kept : ~Ends(h, ps, kept)
  BY DEF Ends, DaemonEnds, Calm, PairTypeOK, HostTypeOK
<1>1. CASE UNCHANGED coloVars
  BY <1>1 DEF coloVars
<1>2. CASE LocalCommand(h) \/ process_step(h) \/ colod_boot(h)
  BY <1>2 DEF LocalCommand, process_step, colod_boot, coloVars
<1>3. CASE PeerCommand(h)
  <2>1. ASSUME NEW r \in ConfigRole, colod_connect_peer(h, r) PROVE Announces(h)'
    BY <2>1 DEF colod_connect_peer, Goto, Doing, Announces, Calm, PairTypeOK
  <2> QED BY <1>3, <2>1
          DEF PeerCommand, colod_connect_status, colo_enable_tool, colod_colo_enable,
              colod_colo_disable, colod_start_colo, colod_destroy_colo, colod_do_failover,
              colod_do_failover_fails, coloVars
<1>4. CASE BadCommand(h)
  BY <1>0, <1>4 DEF BadCommand, colod_start_throws, colod_vm_status_throws
<1>5. CASE Continue(h)
  BY <1>0, <1>5
     DEF Continue, Proceed, call, call_throws, connect_answered, status_or_qmp_answered, refused,
         enable_answered, enable_refused, start_answered, start_fork_fails, own_qmp,
         destroy_answered, timed_out, Return, coloVars
<1>6. CASE Handle(Peer[h])
  <2>1. PICK c \in Pending(Peer[h]) : Handler(Peer[h], c)
    BY <1>6 DEF Handle
  <2>2. Peer[Peer[h]] = h
    BY PeerAssumption
  <2> QED BY <1>0, <2>1, <2>2
          DEF Handler, peer_colod_connect_test_reply, peer_colod_save_domain,
              peer_colod_start_domain, peer_colod_start_domain_refused,
              peer_colod_destroy_domain, peer_colod_destroy_domain_refused,
              peer_colod_send_qmpcmds, peer_colod_send_qmpcmds_refused,
              peer_get_domain_throws, coloVars
<1>7. CASE CrashStep(h)
  BY <1>0, <1>7
     DEF CrashStep, colod_crash, crash_in_start, crash_in_colo_start, CrashAfterFork,
         crash_in_destroy, crash_in_peer_save
<1> QED BY <1>2, <1>3, <1>4, <1>5, <1>6, <1>7 DEF ActsAt

\* What the peer takes is the role the announcing host has, and it takes the
\* opposite one: each of the two roles on one host.
LEMMA TakenRoleAgrees ==
  ASSUME Calm, NEW m \in Node, NEW c \in Pending(m), peer_colod_save_status(m, c)
  PROVE  /\ local_status'[m] \in {"primary", "secondary"}
              \/ local_status'[Peer[m]] \in {"primary", "secondary"}
            => {local_status'[m], local_status'[Peer[m]]} = {"primary", "secondary"}
<1>0. /\ local_status \in [Node -> COLO_NODE_STATUS]
      /\ Peer[m] \in Node /\ Peer[m] # m
      /\ PairTypeOK /\ RpcP!RpcInv /\ Waits(m) /\ Current(m)
  BY PeerAssumption DEF Calm, PairTypeOK
<1>1. c = req[m] /\ c # NoPeerCall
  BY <1>0, NothingLeft
<1>2. c = CallOf(m) /\ task[m].at = "wait"
  BY <1>0, <1>1, NothingLeft
<1>3. c.m = "peer-save-status"
  BY DEF peer_colod_save_status
<1>4. task[m] \in Task
  BY <1>0, <1>2, TaskFields
<1>5. c = [m |-> "peer-save-status", role |-> local_status[m]]
  BY <1>2, <1>3, <1>4 DEF CallOf, Task, Op
<1>6. /\ local_status'[Peer[m]] = OppositeNode(local_status[m])
      /\ local_status'[m] = local_status[m]
  BY <1>0, <1>5 DEF peer_colod_save_status
<1> QED BY <1>6 DEF OppositeNode

\* What a step does to the roles: host h acts, k is any host.
LEMMA RolesStep ==
  ASSUME Calm, NEW h \in Node, ActsAt(h), up'[h], ~timed_out(h),
         \A r \in ConfigRole : ~colod_connect_peer_bad_config(h, r),
         NEW k \in Node, RolesAgree(k)
  PROVE  RolesAgree(k)'
<1> DEFINE p == Peer[k]
<1>0. p \in Node /\ Peer[p] = k /\ p # k /\ PairTypeOK
  BY PeerAssumption DEF Calm
<1>1. ASSUME NEW m \in {k, p}, NEW c \in Pending(m), peer_colod_save_status(m, c)
      PROVE  RolesAgree(k)'
  <2>1. {local_status'[m], local_status'[Peer[m]]} = {local_status'[k], local_status'[Peer[k]]}
    BY <1>0
  <2>2. \/ local_status'[m] \in {"primary", "secondary"}
        \/ local_status'[Peer[m]] \in {"primary", "secondary"}
        => {local_status'[m], local_status'[Peer[m]]} = {"primary", "secondary"}
    BY <1>0, <1>1, TakenRoleAgrees
  <2>3. local_status'[k] \in {local_status'[m], local_status'[Peer[m]]}
    BY <1>0
  <2> QED BY <2>1, <2>2, <2>3 DEF RolesAgree, Agreed
<1>2. CASE Announces(k)' \/ Announces(p)'
  BY <1>2 DEF RolesAgree
<1>3. CASE local_status'[k] = local_status[k] /\ local_status'[p] = local_status[p]
  <2>1. CASE Agreed(k) \/ local_status[k] \notin {"primary", "secondary"}
    BY <1>3, <2>1 DEF RolesAgree, Agreed
  <2>2. ASSUME NEW m \in {k, p}, Announces(m) PROVE RolesAgree(k)'
    <3>1. CASE Announces(m)'
      BY <1>2, <3>1
    <3>2. CASE CallOf(m) \in Pending(m) /\ peer_colod_save_status(m, CallOf(m))
      BY <1>1, <3>2
    <3> QED BY <1>0, <2>2, <3>1, <3>2, AnnouncesUntilTaken
  <2> QED BY <2>1, <2>2 DEF RolesAgree
<1>4. CASE h \notin {k, p}
  BY <1>0, <1>3, <1>4, OtherHostsSame DEF SameAt
<1>5. CASE h \in {k, p}
  <2>1. Peer[h] \in {k, p}
    BY <1>0, <1>5
  <2> QED BY <1>1, <1>2, <1>3, <1>5, <2>1, RoleIsSet
<1> QED BY <1>4, <1>5

\* No config file lacks a field that follows peer_ip.
GoodConfigs ==
  [][\A n \in Node, r \in ConfigRole : ~colod_connect_peer_bad_config(n, r)]_pairVars

\* Two hosts that have agreed on roles never hold the same one, whoever connects
\* how often with what role in the config file, one after the other or at once:
\* this takes a timeout, a colod that ends, or a bad config file.
THEOREM RolesOppositeUndisturbed ==
  PairSpec /\ Undisturbed /\ GoodConfigs => []RolesOpposite
<1> DEFINE Inv == \A n \in Node : RolesAgree(n)
           Good == [\A n \in Node, r \in ConfigRole : ~colod_connect_peer_bad_config(n, r)]_pairVars
<1>1. PairInit => Inv
  BY DEF PairInit, RolesAgree
<1>2. Calm /\ CalmNext /\ Good /\ Inv => Inv'
  <2> SUFFICES ASSUME Calm, CalmNext, Good, Inv, NEW k \in Node PROVE RolesAgree(k)'
    OBVIOUS
  <2>0. RolesAgree(k)
    OBVIOUS
  <2> HIDE DEF Inv
  <2>1. CASE UNCHANGED pairVars
    BY <2>0, <2>1 DEF pairVars, coloVars, rpcOnly, RolesAgree, Agreed, Announces
  <2>2. CASE ~UNCHANGED pairVars
    <3>1. /\ PairNext /\ \A n \in Node : up'[n] /\ ~timed_out(n)
          /\ \A n \in Node, r \in ConfigRole : ~colod_connect_peer_bad_config(n, r)
      BY <2>2 DEF CalmNext
    <3>2. PICK h \in Node : ActsAt(h)
      BY <3>1, StepOfOneHost
    <3> QED BY <2>0, <3>1, <3>2, RolesStep
  <2> QED BY <2>1, <2>2
<1>3. Calm /\ Inv => RolesOpposite
  <2> SUFFICES ASSUME Calm, Inv, Quiet, NEW n \in Node,
                      local_status[n] \in {"primary", "secondary"}
               PROVE  {local_status[n], local_status[Peer[n]]} = {"primary", "secondary"}
    BY DEF RolesOpposite
  <2>1. \A m \in Node : ~Announces(m)
    BY DEF Quiet, Free, Announces, Idle
  <2> QED BY <2>1, PeerAssumption DEF RolesAgree, Agreed
<1> QED BY <1>1, <1>2, <1>3, PairCalm, PTL DEF PairSpec, Undisturbed, CalmNext, GoodConfigs

-----------------------------------------------------------------------------
(***************************************************************************)
(* The roles of a domain on the two hosts: not both primary, or one of the *)
(* hosts is about to send its entry to the other.                          *)
(***************************************************************************)
Leads(n, e) ==
  /\ domains[n][e].name = e
  /\ domains[n][e].colo_enable /\ domains[n][e].colo_status = "primary"

Offers(n, e) ==
  /\ task[n].op = "enable" /\ task[n].dom = e
  /\ task[n].at = "call" \/ req[n] # NoPeerCall

OneLeads(n, e) ==
  Leads(n, e) /\ Leads(Peer[n], e) => Offers(n, e) \/ Offers(Peer[n], e)

\* An entry is that of its name, and a vm that runs in colo mode has a pid.
Proper(n, e) ==
  /\ domains[n][e].name \in {e, NoName}
  /\ domains[n][e].status = "colo-enabled" => domains[n][e].pid # NoPid

\* What nearly every step does to an entry: it makes no domain lead, and takes from
\* no domain in colo mode its pid.
Keeps(old, new) ==
  /\ new.name = old.name
  /\ new.colo_enable /\ new.colo_status = "primary" => old.colo_enable /\ old.colo_status = "primary"
  /\ new.status = "colo-enabled" =>
       new.pid # NoPid \/ (old.status = "colo-enabled" /\ new.pid = old.pid)

\* The entries the commands and handlers make of an entry.
LEMMA KeepsEntry ==
  ASSUME NEW ds \in colod_domain_status
  PROVE  /\ Keeps(ds, ds) /\ Keeps(ds, Stopped(ds)) /\ Keeps(ds, Failover(ds))
         /\ Keeps(ds, [ds EXCEPT !.status = "shutoff"])
         /\ Keeps(ds, [ds EXCEPT !.colo_enable = FALSE])
         /\ Keeps(ds, [ds EXCEPT !.colo_status = "failover"])
         /\ \A p : Keeps(ds, Started(ds, p, "running"))
         /\ \A p \in Pid : Keeps(ds, Started(ds, p, "colo-enabled"))
<1>0. DOMAIN ds = {"name", "pid", "status", "colo_enable", "colo_status", "path"}
  BY DEF colod_domain_status
<1>1. Keeps(ds, ds) /\ Keeps(ds, Stopped(ds)) /\ Keeps(ds, Failover(ds))
  BY <1>0 DEF Keeps, Stopped, Failover
<1>2. /\ Keeps(ds, [ds EXCEPT !.status = "shutoff"])
      /\ Keeps(ds, [ds EXCEPT !.colo_enable = FALSE])
      /\ Keeps(ds, [ds EXCEPT !.colo_status = "failover"])
  BY <1>0 DEF Keeps
<1>3. ASSUME NEW p PROVE Keeps(ds, Started(ds, p, "running"))
  BY <1>0 DEF Keeps, Started
<1>4. ASSUME NEW p \in Pid PROVE Keeps(ds, Started(ds, p, "colo-enabled"))
  BY <1>0, <1>4, PidAssumption DEF Keeps, Started
<1> QED BY <1>1, <1>2, <1>3, <1>4

\* What a step leaves of the entry of e.
Settles(h, e) ==
  /\ Proper(h, e) => Proper(h, e)'
  /\ Leads(h, e)' => Leads(h, e)

\* An entry that keeps these is settled.
LEMMA KeepsSettles ==
  ASSUME NEW h \in Node, NEW e \in Name, Keeps(domains[h][e], domains'[h][e])
  PROVE  Settles(h, e)
BY DEF Keeps, Settles, Proper, Leads

\* The commands of ColodHost.
LEMMA CommandSettles ==
  ASSUME HostTypeOK, NEW h \in Node, NEW e \in Name, Command(h)
  PROVE  Settles(h, e)
<1>0. /\ domains[h] \in [Name -> colod_domain_status]
      /\ domains[h][e] \in colod_domain_status
      /\ e \in Name /\ Domain \subseteq Name
  BY DEF HostTypeOK, Name
<1>1. Keeps(domains[h][e], domains[h][e]) /\ Keeps(domains[h][e], Tested(h, e))
  BY <1>0, KeepsEntry DEF Tested
<1>2. CASE colod_list(h)
  <2>1. domains'[h][e] = Tested(h, e)
    BY <1>0, <1>2 DEF colod_list, HostTypeOK
  <2> QED BY <1>1, <2>1, KeepsSettles
<1>3. ASSUME NEW d \in Domain, colod_define(h, d) \/ colod_undefine(h, d) PROVE Settles(h, e)
  <2>1. CASE e = d
    <3>0. ASSUME NEW ds, domains' = [domains EXCEPT ![h][d] = ds] PROVE domains'[h][e] = ds
      BY <1>0, <2>1, <3>0 DEF HostTypeOK
    <3>1. \/ domains'[h][e] = ZeroEntry
          \/ domains'[h][e] = [name |-> e, pid |-> NoPid, status |-> "shutoff",
                               colo_enable |-> FALSE, colo_status |-> "none", path |-> TRUE]
      BY <1>3, <2>1, <3>0 DEF colod_define, colod_undefine
    <3>2. /\ domains'[h][e].name \in {e, NoName} /\ ~domains'[h][e].colo_enable
          /\ domains'[h][e].status = "shutoff"
      BY <3>1 DEF ZeroEntry
    <3> QED BY <3>2 DEF Settles, Proper, Leads
  <2>2. CASE e # d
    <3>1. domains'[h][e] = domains[h][e]
      BY <1>0, <1>3, <2>2 DEF colod_define, colod_undefine, HostTypeOK
    <3> QED BY <1>1, <3>1, KeepsSettles
  <2> QED BY <2>1, <2>2
<1>4. ASSUME NEW d \in Domain, colod_domain_test(h, d) PROVE Settles(h, e)
  <2>1. domains'[h][e] = IF e = d THEN Tested(h, d) ELSE domains[h][e]
    BY <1>0, <1>4 DEF colod_domain_test, test_domain_status, HostTypeOK
  <2> QED BY <1>1, <2>1, KeepsSettles
<1>5. ASSUME NEW d \in Domain, NEW p, domains' = [domains EXCEPT ![h][d] = Started(@, p, "running")]
      PROVE  Settles(h, e)
  <2>1. domains'[h][e] = IF e = d THEN Started(domains[h][e], p, "running") ELSE domains[h][e]
    BY <1>0, <1>5 DEF HostTypeOK
  <2> QED BY <1>0, <1>1, <2>1, KeepsEntry, KeepsSettles
<1>6. ASSUME NEW d \in Domain, colod_start(h, d) \/ colod_start_fork_fails(h, d)
      PROVE  Settles(h, e)
  BY <1>5, <1>6 DEF colod_start, colod_start_fork_fails
<1>7. ASSUME NEW d \in Domain, colod_destroy(h, d) PROVE Settles(h, e)
  <2>1. domains'[h][e] \in {domains[h][e], Stopped(domains[h][e])}
    BY <1>0, <1>7 DEF colod_destroy, HostTypeOK
  <2> QED BY <1>0, <1>1, <2>1, KeepsEntry, KeepsSettles
<1> QED BY <1>2, <1>3, <1>4, <1>6, <1>7 DEF Command

\* A fork, and every effect but a relabelling or a takeover.
LEMMA EffectSettles ==
  ASSUME HostTypeOK, NEW h \in Node, NEW e \in Name, up[h], up'[h],
         QuietEffect(h) \/ \E d \in Name : Forks(h, d)
  PROVE  Settles(h, e)
<1>0. /\ domains[h] \in [Name -> colod_domain_status]
      /\ domains[h][e] \in colod_domain_status
      /\ e \in Name
  BY DEF HostTypeOK, Name
<1>1. Keeps(domains[h][e], domains[h][e]) /\ Keeps(domains[h][e], Tested(h, e))
  BY <1>0, KeepsEntry DEF Tested
<1>2. CASE UNCHANGED hostVars \/ ProcessStep(h)
  <2>1. domains'[h][e] = domains[h][e]
    BY <1>2 DEF hostVars, ProcessStep, VmExit, OtherSpawn, OtherExit
  <2> QED BY <1>1, <2>1, KeepsSettles
<1>3. ~ColodBoot(h) /\ ~Falls(h)
  BY DEF ColodBoot, Falls, DaemonEnds, HostTypeOK
<1>4. ASSUME NEW d \in Name, colod_domain_test(h, d) PROVE Settles(h, e)
  <2>1. domains'[h][e] = IF e = d THEN Tested(h, d) ELSE domains[h][e]
    BY <1>0, <1>4 DEF colod_domain_test, test_domain_status, HostTypeOK
  <2> QED BY <1>1, <2>1, KeepsSettles
<1>5. ASSUME NEW d \in Name, Forks(h, d) PROVE Settles(h, e)
  <2>1. PICK p \in Pid : SetEntry(h, d, Started(domains[h][d], p, "colo-enabled"))
    BY <1>5 DEF Forks
  <2>2. domains'[h][e] \in {domains[h][e], Started(domains[h][e], p, "colo-enabled")}
    BY <1>0, <2>1 DEF SetEntry, HostTypeOK
  <2> QED BY <1>0, <1>1, <2>2, KeepsEntry, KeepsSettles
<1>6. ASSUME NEW d \in Name, Destroys(h, d) PROVE Settles(h, e)
  <2>1. domains'[h][e] \in {domains[h][e], Stopped(domains[h][e])}
    BY <1>0, <1>6 DEF Destroys, SetEntry, HostTypeOK
  <2> QED BY <1>0, <1>1, <2>1, KeepsEntry, KeepsSettles
<1> QED BY <1>2, <1>3, <1>4, <1>5, <1>6, CommandSettles DEF QuietEffect

\* A relabelling other than colo-enable.
LEMMA RelabelSettles ==
  ASSUME PairTypeOK, NEW h \in Node, NEW e \in Name, RelabelStep(h), ~colod_colo_enable(h, e)
  PROVE  Settles(h, e)
<1>0. /\ domains \in [Node -> [Name -> colod_domain_status]]
      /\ domains[h][e] \in colod_domain_status
      /\ e \in Name /\ Domain \subseteq Name
  BY DEF PairTypeOK, HostTypeOK, Name
<1>1. \/ domains'[h][e] = domains[h][e]
      \/ domains'[h][e] = Failover(domains[h][e])
      \/ domains'[h][e] = [domains[h][e] EXCEPT !.colo_enable = FALSE]
      \/ domains'[h][e] = [domains[h][e] EXCEPT !.colo_status = "failover"]
  <2>1. ASSUME NEW d, NEW ds, SetEntry(h, d, ds), d # e
        PROVE  domains'[h][e] = domains[h][e]
    BY <1>0, <2>1 DEF SetEntry
  <2>2. ASSUME NEW ds, SetEntry(h, e, ds) PROVE domains'[h][e] = ds
    BY <1>0, <2>2 DEF SetEntry
  <2>3. ASSUME NEW d \in Domain, colod_colo_enable(h, d)
        PROVE  domains'[h][e] = domains[h][e]
    BY <2>1, <2>3 DEF colod_colo_enable
  <2>4. ASSUME NEW d, SetEntry(h, d, [domains[h][d] EXCEPT !.colo_enable = FALSE])
        PROVE  \/ domains'[h][e] = domains[h][e]
               \/ domains'[h][e] = [domains[h][e] EXCEPT !.colo_enable = FALSE]
    BY <2>1, <2>2, <2>4
  <2>5. ASSUME NEW d \in Domain, colod_do_failover(h, d) \/ colod_do_failover_fails(h, d)
        PROVE  \/ domains'[h][e] = domains[h][e]
               \/ domains'[h][e] = Failover(domains[h][e])
               \/ domains'[h][e] = [domains[h][e] EXCEPT !.colo_status = "failover"]
    BY <2>1, <2>2, <2>5 DEF colod_do_failover, colod_do_failover_fails
  <2>6. ASSUME NEW d \in Domain, colod_colo_disable(h, d)
        PROVE  SetEntry(h, d, [domains[h][d] EXCEPT !.colo_enable = FALSE])
    BY <2>6 DEF colod_colo_disable
  <2>7. CASE timed_out(h) \/ enable_refused(h)
    BY <2>4, <2>7 DEF timed_out, timed_out_reset, enable_refused
  <2>8. CASE enable_answered(h)
    BY <2>8 DEF enable_answered
  <2> QED BY <2>3, <2>4, <2>5, <2>6, <2>7, <2>8 DEF RelabelStep
<1> QED BY <1>0, <1>1, KeepsEntry, KeepsSettles

\* What a step does to the entry of e: next to nothing, unless it is colo-enable or
\* the handler for the peer's colo-enable.
LEMMA StepEntry ==
  ASSUME PairTypeOK, NEW h \in Node, NEW e \in Name, ActsAt(h), up[h], up'[h]
  PROVE  \/ Settles(h, e) \/ colod_colo_enable(h, e)
         \/ \E c \in Pending(Peer[h]) : peer_colod_save_domain(Peer[h], c)
<1>0. HostTypeOK
  BY DEF PairTypeOK
<1>1. CASE RelabelStep(h)
  BY <1>1, RelabelSettles
<1>2. CASE OverwriteStep(h)
  BY <1>0, <1>2, ForkSteps, EffectSettles DEF OverwriteStep
<1>3. CASE ~RelabelStep(h) /\ ~OverwriteStep(h)
  BY <1>0, <1>3, QuietSteps, EffectSettles
<1> QED BY <1>1, <1>2, <1>3

\* The handler for the peer's colo-enable: the entry is the one the peer sends, with
\* the other role.
LEMMA TakenOverEntry ==
  ASSUME Calm, NEW h \in Node, NEW e \in Name,
         NEW c \in Pending(Peer[h]), peer_colod_save_domain(Peer[h], c),
         \A x \in Name : Proper(Peer[h], x)
  PROVE  /\ Free(h)
         /\ Proper(h, e) => Proper(h, e)'
         /\ Leads(h, e)' /\ e # NoName /\ Leads(Peer[h], e) =>
              Leads(h, e) /\ ~Offers(Peer[h], e)
<1> DEFINE o == Peer[h]
           ds == domains[o][task[o].dom]
<1>0. /\ o \in Node /\ Peer[o] = h /\ PairTypeOK /\ RpcP!RpcInv /\ Waits(o) /\ Current(o)
      /\ domains \in [Node -> [Name -> colod_domain_status]]
      /\ task[o].dom \in Name /\ ds \in colod_domain_status
  BY PeerAssumption, TaskFields DEF Calm, PairTypeOK, HostTypeOK
<1>1. Free(h) /\ c.m = "peer-save-domain"
  BY <1>0 DEF peer_colod_save_domain, Serve
<1>2. c = CallOf(o) /\ task[o].at = "wait"
  BY <1>0, NothingLeft
<1>3. c.ds = ds
  BY <1>0, <1>1, <1>2, TaskFields DEF CallOf, Task, Op
<1> HIDE DEF o
<1>4. SetEntry(h, TakenOver(ds).name, TakenOver(ds))
  BY <1>0, <1>3 DEF peer_colod_save_domain, o
<1>5. Proper(o, task[o].dom)
  BY <1>0 DEF o
<1> HIDE DEF ds
<1>6. /\ TakenOver(ds).name = ds.name /\ TakenOver(ds).status = ds.status
      /\ TakenOver(ds).pid = ds.pid /\ TakenOver(ds).colo_enable = ds.colo_enable
      /\ ds.colo_enable => TakenOver(ds).colo_status = OppositeDomain(ds.colo_status)
  BY <1>0 DEF TakenOver, colod_domain_status
<1>7. /\ ds.name \in Name /\ ds.name \in {task[o].dom, NoName}
      /\ ds.status = "colo-enabled" => ds.pid # NoPid
  BY <1>0, <1>5 DEF Proper, ds, colod_domain_status
<1>8. /\ e = ds.name => domains'[h][e] = TakenOver(ds)
      /\ e # ds.name => domains'[h][e] = domains[h][e]
  BY <1>0, <1>4, <1>6, <1>7 DEF SetEntry
<1>9. Proper(h, e) => Proper(h, e)'
  BY <1>6, <1>7, <1>8 DEF Proper
<1>10. ASSUME Leads(h, e)', e # NoName, Leads(o, e)
       PROVE  Leads(h, e) /\ ~Offers(o, e)
  <2>1. CASE e = ds.name
    <3>1. e = task[o].dom
      BY <1>7, <1>10, <2>1
    <3>2. ds.colo_enable /\ ds.colo_status = "primary"
      BY <1>10, <3>1 DEF Leads, ds
    <3>3. domains'[h][e].colo_status = "secondary"
      BY <1>6, <1>8, <2>1, <3>2 DEF OppositeDomain
    <3> QED BY <1>10, <3>3 DEF Leads
  <2>2. CASE e # ds.name
    <3>1. e # task[o].dom
      BY <1>10, <2>2 DEF Leads, ds
    <3> QED BY <1>8, <1>10, <2>2, <3>1 DEF Leads, Offers
  <2> QED BY <2>1, <2>2
<1> QED BY <1>1, <1>9, <1>10 DEF o

\* The own steps keep entries proper, and so does an entry the peer sends.
LEMMA ProperStep ==
  ASSUME Calm, NEW h \in Node, ActsAt(h), up'[h], NEW k \in Node, NEW e \in Name,
         \A n \in Node, x \in Name : Proper(n, x)
  PROVE  Proper(k, e)'
<1>0. PairTypeOK /\ up[h] /\ Peer[h] \in Node
  BY PeerAssumption DEF Calm, Current
<1>1. CASE k # h
  BY <1>0, <1>1, OtherHostsSame DEF SameAt, Proper
<1>2. CASE k = h
  <2>1. CASE Settles(h, e)
    BY <1>2, <2>1 DEF Settles
  <2>2. CASE colod_colo_enable(h, e)
    <3>1. domains'[h][e] = EnabledAs(domains[h][e], local_status[h])
      BY <1>0, <2>2 DEF colod_colo_enable, SetEntry, PairTypeOK, HostTypeOK
    <3>2. domains[h][e] \in colod_domain_status
      BY <1>0 DEF PairTypeOK, HostTypeOK
    <3>3. /\ domains'[h][e].name = domains[h][e].name /\ domains'[h][e].pid = domains[h][e].pid
          /\ domains'[h][e].status = domains[h][e].status
      BY <3>1, <3>2 DEF EnabledAs, colod_domain_status
    <3> QED BY <1>2, <3>3 DEF Proper
  <2>3. ASSUME NEW c \in Pending(Peer[h]), peer_colod_save_domain(Peer[h], c)
        PROVE  Proper(k, e)'
    BY <1>0, <1>2, <2>3, TakenOverEntry
  <2> QED BY <1>0, <2>1, <2>2, <2>3, StepEntry
<1> QED BY <1>1, <1>2

\* As long as nothing is disturbed, the entries stay proper.
LEMMA PairProper ==
  PairSpec /\ Undisturbed => [](\A n \in Node, x \in Name : Proper(n, x))
<1> DEFINE Inv == \A n \in Node, x \in Name : Proper(n, x)
<1>1. PairInit => Inv
  BY DEF PairInit, HostInit, Proper, ZeroEntry
<1>2. Calm /\ CalmNext /\ Inv => Inv'
  <2> SUFFICES ASSUME Calm, CalmNext, Inv, NEW k \in Node, NEW e \in Name PROVE Proper(k, e)'
    OBVIOUS
  <2>1. CASE UNCHANGED pairVars
    BY <2>1 DEF pairVars, hostVars, Proper
  <2>2. CASE ~UNCHANGED pairVars
    <3>1. PairNext /\ \A n \in Node : up'[n] /\ ~timed_out(n)
      BY <2>2 DEF CalmNext
    <3> QED BY <3>1, StepOfOneHost, ProperStep
  <2> QED BY <2>1, <2>2
<1> QED BY <1>1, <1>2, PairCalm, PTL DEF PairSpec, Undisturbed, CalmNext

\* A host that offers its entry goes on until the peer has taken it over.
LEMMA OffersUntilTaken ==
  ASSUME Calm, NEW h \in Node, ActsAt(h), up'[h], ~timed_out(h),
         NEW k \in Node, NEW e \in Name, Offers(k, e)
  PROVE  \/ Offers(k, e)'
         \/ /\ h = Peer[k] /\ CallOf(k) \in Pending(k)
            /\ peer_colod_save_domain(k, CallOf(k))
<1>1. Calls(k) /\ task[k].op = "enable"
  BY DEF Offers, Calls, Idle
<1>2. CallOf(k).m = "peer-save-domain"
  BY <1>1 DEF CallOf
<1>3. Handler(k, CallOf(k)) => peer_colod_save_domain(k, CallOf(k))
  BY <1>2
     DEF Handler, peer_colod_connect_test_reply, peer_colod_save_status,
         peer_colod_start_domain, peer_colod_start_domain_refused,
         peer_colod_destroy_domain, peer_colod_destroy_domain_refused,
         peer_colod_send_qmpcmds, peer_colod_send_qmpcmds_refused, peer_get_domain_throws
<1> QED BY <1>1, <1>3, CallUntilTaken DEF Offers, Calls

\* The one domain role: host h acts, k is any host.
LEMMA OneLeadsStep ==
  ASSUME Calm, NEW h \in Node, ActsAt(h), up'[h], ~timed_out(h),
         \A n \in Node, x \in Name : Proper(n, x),
         NEW k \in Node, NEW e \in Domain, OneLeads(k, e)
  PROVE  OneLeads(k, e)'
<1> DEFINE p == Peer[k]
           o == Peer[h]
<1>0. /\ p \in Node /\ Peer[p] = k /\ o \in Node /\ Peer[o] = h /\ o # h /\ PairTypeOK
      /\ up[h] /\ e \in Name /\ e # NoName
  BY PeerAssumption, NameAssumption DEF Calm, Current, Name
<1> HIDE DEF o, p
<1>1. CASE h \notin {k, p}
  <2>1. SameAt(k) /\ SameAt(p)
    BY <1>0, <1>1, OtherHostsSame
  <2>2. ASSUME NEW m \in {k, p}, Offers(m, e) PROVE Offers(m, e)'
    <3>1. h # Peer[m]
      BY <1>0, <1>1 DEF p
    <3> QED BY <1>0, <2>2, <3>1, OffersUntilTaken
  <2> QED BY <2>1, <2>2 DEF OneLeads, SameAt, Leads, p
<1>2. CASE h \in {k, p}
  <2>0. {h, o} = {k, p}
    BY <1>0, <1>2 DEF p, o
  <2>1. Leads(h, e) /\ Leads(o, e) => Offers(h, e) \/ Offers(o, e)
    BY <2>0 DEF OneLeads, p
  <2>2. Leads(o, e)' <=> Leads(o, e)
    BY <1>0, OtherHostsSame DEF SameAt, Leads
  <2>3. ASSUME Leads(h, e)', Leads(o, e)' PROVE Offers(h, e)' \/ Offers(o, e)'
    <3>1. ASSUME NEW c \in Pending(o), peer_colod_save_domain(o, c) PROVE FALSE
      <4>1. Free(h) /\ Leads(h, e) /\ ~Offers(o, e)
        BY <1>0, <2>2, <2>3, <3>1, TakenOverEntry DEF o
      <4>2. ~Offers(h, e)
        BY <4>1 DEF Free, Offers, Idle
      <4> QED BY <2>1, <2>2, <2>3, <4>1, <4>2
    <3>2. CASE colod_colo_enable(h, e)
      BY <1>0, <3>2 DEF colod_colo_enable, Goto, Doing, Offers, PairTypeOK
    <3>3. CASE Settles(h, e)
      <4>1. Offers(h, e) \/ Offers(o, e)
        BY <2>1, <2>2, <2>3, <3>3 DEF Settles
      <4>2. ASSUME NEW m \in {h, o}, Offers(m, e) PROVE Offers(m, e)'
        <5>1. m \in Node /\ (h = Peer[m] => m = o)
          BY <1>0 DEF o
        <5> QED BY <1>0, <3>1, <4>2, <5>1, OffersUntilTaken
      <4> QED BY <4>1, <4>2
    <3> QED BY <1>0, <3>1, <3>2, <3>3, StepEntry DEF o
  <2> QED BY <2>0, <2>3 DEF OneLeads, p
<1> QED BY <1>1, <1>2

\* A domain both hosts hold and have enabled is primary on at most one of them,
\* whoever enables it, in whatever roles, on one host or on both at once: this takes
\* a timeout or a colod that ends.
THEOREM DomainRolesOppositeUndisturbed ==
  PairSpec /\ Undisturbed => []DomainRolesOpposite
<1> DEFINE Props == \A n \in Node, x \in Name : Proper(n, x)
           Inv == \A n \in Node, e \in Domain : OneLeads(n, e)
<1>1. PairInit => Inv
  BY DEF PairInit, HostInit, OneLeads, Leads, ZeroEntry, Name
<1>2. Calm /\ CalmNext /\ Props /\ Inv => Inv'
  <2> SUFFICES ASSUME Calm, CalmNext, Props, Inv, NEW k \in Node, NEW e \in Domain
               PROVE  OneLeads(k, e)'
    OBVIOUS
  <2>0. OneLeads(k, e)
    OBVIOUS
  <2> HIDE DEF Inv
  <2>1. CASE UNCHANGED pairVars
    BY <2>0, <2>1 DEF pairVars, hostVars, rpcOnly, OneLeads, Leads, Offers
  <2>2. CASE ~UNCHANGED pairVars
    <3>1. PairNext /\ \A n \in Node : up'[n] /\ ~timed_out(n)
      BY <2>2 DEF CalmNext
    <3>2. PICK h \in Node : ActsAt(h)
      BY <3>1, StepOfOneHost
    <3> QED BY <2>0, <3>1, <3>2, OneLeadsStep
  <2> QED BY <2>1, <2>2
<1>3. Inv => DomainRolesOpposite
  <2>1. ASSUME Quiet, NEW n \in Node, NEW e \in Domain PROVE ~Offers(n, e)
    BY <2>1 DEF Quiet, Free, Offers, Idle
  <2> QED BY <2>1, PeerAssumption DEF DomainRolesOpposite, OneLeads, Leads
<1> QED BY <1>1, <1>2, <1>3, PairProper, PairCalm, PTL DEF PairSpec, Undisturbed, CalmNext

-----------------------------------------------------------------------------
(***************************************************************************)
(* The order of colod_start.  A domain that is to be started does not run  *)
(* in colo mode, and nothing but the peer's answer makes it.               *)
(***************************************************************************)
NotYet(n) == task[n].op = "start" => domains[n][task[n].dom].status # "colo-enabled"

\* A start begins only with a domain that does not run in colo mode (MayStart).
LEMMA NotYetStep ==
  ASSUME Calm, NEW h \in Node, ActsAt(h), up'[h],
         \A n \in Node, x \in Name : Proper(n, x),
         NEW k \in Node, NotYet(k)
  PROVE  NotYet(k)'
<1>0. PairTypeOK /\ Waits(h) /\ task[h].dom \in Name
  BY TaskFields DEF Calm
<1>1. CASE k # h
  BY <1>0, <1>1, OtherHostsSame DEF SameAt, NotYet
<1>2. CASE k = h /\ task[h] = Idle
  <2> SUFFICES ASSUME task'[h].op = "start" PROVE domains'[h][task'[h].dom].status # "colo-enabled"
    BY <1>2 DEF NotYet
  <2> DEFINE d == task'[h].dom
  <2>1. colod_start_colo(h, d) /\ d \in Domain
    BY <1>0, <1>2, Begins DEF Idle
  <2>2. d \in Name /\ Proper(h, d) /\ domains[h][d] \in colod_domain_status
    BY <1>0, <2>1 DEF Name, PairTypeOK, HostTypeOK
  <2> HIDE DEF d
  <2>3. domains'[h][d] = Tested(h, d) /\ Status(h, d) = "shutoff"
    BY <1>0, <2>1, <2>2
       DEF colod_start_colo, MayStart, test_domain_status, PairTypeOK, HostTypeOK
  <2>4. domains'[h][d].status # "colo-enabled"
    BY <2>2, <2>3 DEF Tested, Status, Proper, colod_domain_status
  <2> QED BY <2>4 DEF d
<1>3. CASE k = h /\ task[h] # Idle /\ task'[h] # Idle
  BY <1>0, <1>3, Goes DEF NotYet
<1>4. CASE k = h /\ task'[h] = Idle
  BY <1>4 DEF NotYet, Idle
<1> QED BY <1>1, <1>2, <1>3, <1>4

\* The own vm is forked on the peer's answer to the request to start this domain,
\* never on the answer to another call: that takes a timeout or a colod that ends.
THEOREM PeerVmFirstUndisturbed == PairSpec /\ Undisturbed => PeerVmFirst
<1> DEFINE Props == \A n \in Node, x \in Name : Proper(n, x)
           Inv == \A n \in Node : NotYet(n)
           First == \A n \in Node :
             task[n].op = "start" /\ domains'[n][task[n].dom].status = "colo-enabled" =>
               rep[n].call = [m |-> "peer-start-domain", dom |-> task[n].dom]
<1>1. PairInit => Inv
  <2> SUFFICES ASSUME PairInit, NEW n \in Node PROVE NotYet(n)
    OBVIOUS
  <2>1. task[n].op = "none"
    BY DEF PairInit, Idle
  <2> QED BY <2>1 DEF NotYet
<1>2. Calm /\ CalmNext /\ Props /\ Inv => Inv'
  <2> SUFFICES ASSUME Calm, CalmNext, Props, Inv, NEW k \in Node PROVE NotYet(k)'
    OBVIOUS
  <2>0. NotYet(k)
    OBVIOUS
  <2> HIDE DEF Inv
  <2>1. CASE UNCHANGED pairVars
    BY <2>0, <2>1 DEF pairVars, hostVars, NotYet
  <2>2. CASE ~UNCHANGED pairVars
    <3>1. PairNext /\ \A n \in Node : up'[n] /\ ~timed_out(n)
      BY <2>2 DEF CalmNext
    <3>2. PICK h \in Node : ActsAt(h)
      BY <3>1, StepOfOneHost
    <3> QED BY <2>0, <3>1, <3>2, NotYetStep
  <2> QED BY <2>1, <2>2
<1>3. Calm /\ CalmNext /\ Inv => [First]_pairVars
  <2> SUFFICES ASSUME Calm, CalmNext, Inv, ~UNCHANGED pairVars, NEW n \in Node,
                      task[n].op = "start", domains'[n][task[n].dom].status = "colo-enabled"
               PROVE  rep[n].call = [m |-> "peer-start-domain", dom |-> task[n].dom]
    OBVIOUS
  <2>0. /\ PairNext /\ \A m \in Node : up'[m] /\ ~timed_out(m)
        /\ PairTypeOK /\ RpcP!RpcInv /\ Waits(n) /\ Current(n)
        /\ domains[n][task[n].dom].status # "colo-enabled" /\ task[n].dom \in Name
    BY TaskFields DEF CalmNext, Calm, NotYet
  <2>1. PICK h \in Node : ActsAt(h)
    BY <2>0, StepOfOneHost
  <2>2. h = n
    BY <2>0, <2>1, OtherHostsSame DEF SameAt
  <2>3. Continue(n)
    <3>1. task[n] # Idle
      BY DEF Idle
    <3>2. ~process_step(n)
      BY <2>0 DEF process_step, ProcessStep, VmExit, OtherSpawn, OtherExit
    <3>3. \A ps, kept : ~Ends(n, ps, kept)
      BY <2>0 DEF Ends, DaemonEnds, PairTypeOK, HostTypeOK
    <3> QED BY <2>0, <2>1, <2>2, <3>1, <3>2, <3>3, Busy
  <2>4. start_answered(n)
    BY <2>0, <2>3
       DEF Continue, Proceed, call, call_throws, connect_answered, status_or_qmp_answered,
           refused, enable_answered, enable_refused, start_fork_fails, own_qmp,
           destroy_answered, Answered, Return, hostVars, Ends, DaemonEnds, PairTypeOK, HostTypeOK
  <2>5. rep[n] # Rpc!NoReply /\ task[n].at = "wait"
    BY <2>4 DEF start_answered, Answered, Rpc!recv_reply
  <2>6. rep[n].call = CallOf(n)
    <3>1. rep[n] \in Rpc!Reply
      BY <2>0, <2>5 DEF PairTypeOK, Rpc!RpcTypeOK
    <3>2. rep[n].call # NoPeerCall
      BY <3>1, NoPeerCallIsNone DEF Rpc!Reply
    <3> QED BY <2>0, <2>5, <3>2, NothingLeft
  <2> QED BY <2>6 DEF CallOf
<1> QED BY <1>1, <1>2, <1>3, PairProper, PairCalm, PTL
        DEF PairSpec, Undisturbed, CalmNext, PeerVmFirst
=============================================================================
