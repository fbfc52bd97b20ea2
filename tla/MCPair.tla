------------------------------- MODULE MCPair --------------------------------
(***************************************************************************)
(* Two hosts and one domain for ColodPair.  Budgets bound what operators,  *)
(* clocks, processes and crashes can do; what colod does itself is not     *)
(* bounded.  The runs start from a pair that was just installed, or from   *)
(* one whose operators have connected the hosts and enabled the domain.    *)
(***************************************************************************)
EXTENDS ColodPair, TLC

CONSTANTS
  a, b,
  MaxCommands, MaxConnects, MaxTimeouts, MaxCrashes, MaxProcessSteps, MaxBadConfigs,
  Enabled   \* start from a connected pair with enabled domains

MCPeer == a :> b @@ b :> a

VARIABLE spent

mcVars == <<pairVars, spent>>

Spend(what, limit) == spent[what] < limit /\ spent' = [spent EXCEPT ![what] = @ + 1]

Entry(d, r) ==
  [name |-> d, pid |-> NoPid, status |-> "shutoff", colo_enable |-> TRUE,
   colo_status |-> r, path |-> TRUE]
SavedAs(r) ==
  [saved |-> TRUE, pid |-> NoPid, status |-> "shutoff", colo_enable |-> TRUE,
   colo_status |-> r, path |-> TRUE]
Role(n) == IF n = a THEN "primary" ELSE "secondary"

\* connect-peer, define and colo-enable have been run on a.  remote_client_init
\* is set only where connect-peer ran.
EnabledInit ==
  /\ up = [n \in Node |-> TRUE]
  /\ domains = [n \in Node |-> [x \in Name |-> IF x \in Domain THEN Entry(x, Role(n)) ELSE ZeroEntry]]
  /\ file = [n \in Node |-> [x \in Name |-> IF x \in Domain THEN SavedAs(Role(n)) ELSE NotSaved]]
  /\ procs = [n \in Node |-> [p \in Pid |-> NoProcess]]
  /\ sock = [n \in Node |-> "ready"]
  /\ m_error_code = [n \in Node |-> "success"]
  /\ calling = [n \in Node |-> NoPeerCall]
  /\ req = [n \in Node |-> NoPeerCall]
  /\ rep = [n \in Node |-> Rpc!NoReply]
  /\ closed = [n \in Node |-> << >>]
  /\ local_status = [n \in Node |-> Role(n)]
  /\ peer_init = [n \in Node |-> TRUE]
  /\ remote_client_init = [n \in Node |-> n = a]
  /\ save_status = [n \in Node |-> TRUE]
  /\ cleared = [n \in Node |-> {}]
  /\ task = [n \in Node |-> Idle]

MCInit ==
  /\ IF Enabled THEN EnabledInit ELSE PairInit
  /\ spent = [commands |-> 0, connects |-> 0, badConfigs |-> 0,
             timeouts |-> 0, crashes |-> 0, processes |-> 0]

MCCommand(n) ==
  \/ LocalCommand(n)
  \/ colod_connect_status(n)
  \/ \E d \in Domain :
       \/ colo_enable_tool(n, d)
       \/ colod_colo_enable(n, d)
       \/ colod_colo_disable(n, d)
       \/ colod_start_colo(n, d)
       \/ colod_destroy_colo(n, d)
       \/ colod_do_failover(n, d) \/ colod_do_failover_fails(n, d)
       \/ colod_start_throws(n, d) \/ colod_vm_status_throws(n, d)

\* Continue, with a budget for its timeouts.
MCContinue(n) ==
  \/ Proceed(n) /\ UNCHANGED spent
  \/ timed_out(n) /\ Spend("timeouts", MaxTimeouts)

MCNext ==
  \E n \in Node :
    \/ MCCommand(n) /\ Spend("commands", MaxCommands)
    \/ \E r \in ConfigRole :
         colod_connect_peer(n, r) /\ Spend("connects", MaxConnects)
    \/ \E r \in ConfigRole :
         colod_connect_peer_bad_config(n, r) /\ Spend("badConfigs", MaxBadConfigs)
    \/ MCContinue(n)
    \/ Handle(n) /\ UNCHANGED spent
    \/ process_step(n) /\ Spend("processes", MaxProcessSteps)
    \/ CrashStep(n) /\ Spend("crashes", MaxCrashes)
    \/ colod_boot(n) /\ UNCHANGED spent

Symmetry == Permutations(Pid)

MCSpec == MCInit /\ [][MCNext]_mcVars
MCFairSpec == MCSpec /\ \A n \in Node : WF_mcVars(MCContinue(n))
=============================================================================
