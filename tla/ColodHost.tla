------------------------------ MODULE ColodHost ------------------------------
(***************************************************************************)
(* The daemon of one host and the processes it manages: the commands that  *)
(* concern this host alone (define, undefine, list, domain-test, start and *)
(* destroy without colo), the table rs.domains, the save file, and the     *)
(* process table of the host (colod_service.cpp, runvm.cpp).               *)
(*                                                                         *)
(* colod has one thread, so a command is one step.  It never waits for its *)
(* children: a virtual machine that ends stays a zombie, and keeps its     *)
(* pid, until colod itself ends.  After that the pid is free for any       *)
(* process.                                                                *)
(***************************************************************************)
EXTENDS SaveFile

VARIABLES
  up,       \* up[n]: the colod of n runs
  domains,  \* domains[n]: rs.domains; a name that is not in it has ZeroEntry
  file,     \* file[n]: the domains of the save file of n
  procs     \* procs[n][p]: the process with pid p on n

hostVars == <<up, domains, file, procs>>

(***************************************************************************)
(* A process: "free" (none), "vm" (started by a colod for dom), "zombie"   *)
(* (a vm that ended), "other" (not started by colod).  child: its parent   *)
(* is the colod that runs now.                                             *)
(***************************************************************************)
Process == [kind : {"free", "vm", "zombie", "other"}, dom : Name, child : BOOLEAN]
NoProcess == [kind |-> "free", dom |-> NoName, child |-> FALSE]
OtherProcess == [kind |-> "other", dom |-> NoName, child |-> FALSE]
Child(d, kind) == [kind |-> kind, dom |-> d, child |-> TRUE]

HostTypeOK ==
  /\ up \in [Node -> BOOLEAN]
  /\ domains \in [Node -> [Name -> colod_domain_status]]
  /\ file \in [Node -> SaveContents]
  /\ procs \in [Node -> [Pid -> Process]]

HostInit ==
  /\ up = [n \in Node |-> TRUE]
  /\ domains = [n \in Node |-> [x \in Name |-> ZeroEntry]]
  /\ file = [n \in Node |-> EmptySave]
  /\ procs = [n \in Node |-> [p \in Pid |-> NoProcess]]

-----------------------------------------------------------------------------
\* kill(p, 0) succeeds: for a zombie too, and for pid 0 (colod's own group).
Alive(n, p) == p = ZeroPid \/ (p \in Pid /\ procs[n][p].kind # "free")

(***************************************************************************)
(* test_domain_status: what it returns, and what it leaves in rs.domains   *)
(* and in the save file when the process is gone.  The pid stays in        *)
(* rs.domains.                                                             *)
(***************************************************************************)
Gone(n, x) == domains[n][x].pid # NoPid /\ ~Alive(n, domains[n][x].pid)

Status(n, x) ==
  IF domains[n][x].pid = NoPid \/ Gone(n, x) THEN "shutoff" ELSE domains[n][x].status

Tested(n, x) ==
  IF Gone(n, x) THEN [domains[n][x] EXCEPT !.status = "shutoff"] ELSE domains[n][x]

TestedFile(n, x) == IF Gone(n, x) THEN remove_domain_pid(file[n], x) ELSE file[n]

test_domain_status(n, x) ==
  /\ domains' = [domains EXCEPT ![n][x] = Tested(n, x)]
  /\ file' = [file EXCEPT ![n] = TestedFile(n, x)]

\* run_new_vm, in the parent: fork, then save_domain_pid into contents f.
run_new_vm(n, d, p, kind, f) ==
  /\ procs[n][p].kind = "free"
  /\ procs' = [procs EXCEPT ![n][p] = Child(d, kind)]
  /\ file' = [file EXCEPT ![n] = save_domain_pid(f, d, p)]

(***************************************************************************)
(* destroy_domain: the pid is the one in the save file; it is removed      *)
(* there first, then tested, then killed.                                  *)
(***************************************************************************)
KillPid(n, d) == get_domain_pid(file[n], d)

DestroyOk(n, d) == KillPid(n, d) # NoPid /\ Alive(n, KillPid(n, d))

Killed(proc) ==
  IF proc.child THEN [proc EXCEPT !.kind = "zombie"] ELSE NoProcess

destroy_domain(n, d) ==
  /\ file' = [file EXCEPT ![n] = remove_domain_pid(@, d)]
  /\ procs' = IF DestroyOk(n, d)
              THEN [procs EXCEPT ![n][KillPid(n, d)] = Killed(@)]
              ELSE procs

\* The entry that a successful destroy leaves.
Stopped(ds) == [ds EXCEPT !.pid = NoPid, !.status = "shutoff"]

-----------------------------------------------------------------------------
(***************************************************************************)
(* The commands.                                                           *)
(***************************************************************************)

\* No test of a running domain of that name: both records are written anew.
colod_define(n, d) ==
  LET ds == [name |-> d, pid |-> NoPid, status |-> "shutoff", colo_enable |-> FALSE,
             colo_status |-> "none", path |-> TRUE]
  IN /\ up[n]
     /\ file' = [file EXCEPT ![n] = save_domain_info(@, ds)]
     /\ domains' = [domains EXCEPT ![n][d] = ds]
     /\ UNCHANGED <<up, procs>>

colod_undefine(n, d) ==
  /\ up[n] /\ Status(n, d) = "shutoff"
  /\ file' = [file EXCEPT ![n] = vm_undefine(TestedFile(n, d), d)]
  /\ domains' = [domains EXCEPT ![n][d] = ZeroEntry]
  /\ UNCHANGED <<up, procs>>

colod_domain_test(n, d) ==
  /\ up[n]
  /\ test_domain_status(n, d)
  /\ UNCHANGED <<up, procs>>

colod_list(n) ==
  /\ up[n]
  /\ domains' = [domains EXCEPT ![n] = [x \in Name |-> Tested(n, x)]]
  /\ file' = [file EXCEPT ![n] =
                [x \in Name |-> IF Gone(n, x) THEN remove_domain_pid(@, x)[x] ELSE @[x]]]
  /\ UNCHANGED <<up, procs>>

\* start without --colo.  The result of fork is not looked at: -1 becomes the
\* pid of a domain that counts as running.
\* (The variant is not the code: the status is not tested.)
MayStart_untested(n, d) == GetDomainOk(TestedFile(n, d), d)

MayStart(n, d) == Status(n, d) = "shutoff" /\ GetDomainOk(TestedFile(n, d), d)

Started(ds, p, s) == [ds EXCEPT !.pid = p, !.status = s]

colod_start(n, d) ==
  /\ up[n] /\ MayStart(n, d)
  /\ \E p \in Pid :
       /\ run_new_vm(n, d, p, "vm", TestedFile(n, d))
       /\ domains' = [domains EXCEPT ![n][d] = Started(@, p, "running")]
  /\ UNCHANGED up

colod_start_fork_fails(n, d) ==
  /\ up[n] /\ MayStart(n, d)
  /\ domains' = [domains EXCEPT ![n][d] = Started(@, NoPid, "running")]
  /\ file' = [file EXCEPT ![n] = TestedFile(n, d)]
  /\ UNCHANGED <<up, procs>>

\* destroy of a domain that runs without colo.
colod_destroy(n, d) ==
  /\ up[n] /\ Status(n, d) = "running"
  /\ destroy_domain(n, d)
  /\ domains' = IF DestroyOk(n, d)
                THEN [domains EXCEPT ![n][d] = Stopped(@)]
                ELSE domains
  /\ UNCHANGED up

-----------------------------------------------------------------------------
(***************************************************************************)
(* The host: processes that end and begin, and the end of colod.           *)
(***************************************************************************)

\* A vm ends (or its exec failed).  Only colod can be waiting for its child.
VmExit(n, p) ==
  /\ procs[n][p].kind = "vm"
  /\ procs' = [procs EXCEPT ![n][p] = Killed(@)]
  /\ UNCHANGED <<up, domains, file>>

OtherSpawn(n, p) ==
  /\ procs[n][p].kind = "free"
  /\ procs' = [procs EXCEPT ![n][p] = OtherProcess]
  /\ UNCHANGED <<up, domains, file>>

OtherExit(n, p) ==
  /\ procs[n][p].kind = "other"
  /\ procs' = [procs EXCEPT ![n][p] = NoProcess]
  /\ UNCHANGED <<up, domains, file>>

\* What the end of colod makes of a process: init adopts the virtual machines
\* and reaps the zombies.
Orphan(proc) ==
  CASE proc.kind = "vm"     -> [proc EXCEPT !.child = FALSE]
    [] proc.kind = "zombie" -> NoProcess
    [] OTHER                -> proc

\* Memory is lost; the processes become contents ps first.
DaemonEnds(n, ps) ==
  /\ up[n]
  /\ up' = [up EXCEPT ![n] = FALSE]
  /\ domains' = [domains EXCEPT ![n] = [x \in Name |-> ZeroEntry]]
  /\ procs' = [procs EXCEPT ![n] = [p \in Pid |-> Orphan(ps[p])]]

\* The end of colod between two writes of the save file, or inside one: the
\* file was truncated and nothing of the new text is in it.
ColodCrash(n) ==
  /\ DaemonEnds(n, procs[n])
  /\ \/ file' = file
     \/ file' = [file EXCEPT ![n] = EmptySave]

\* The end of colod inside start, after fork and before save_domain_pid.
ColodCrashInStart(n, d) ==
  /\ up[n] /\ MayStart(n, d)
  /\ \E p \in Pid :
       /\ procs[n][p].kind = "free"
       /\ DaemonEnds(n, [procs[n] EXCEPT ![p] = Child(d, "vm")])
  /\ file' = [file EXCEPT ![n] = TestedFile(n, d)]

\* The end of colod inside destroy, after remove_domain_pid and before the kill.
ColodCrashInDestroy(n, d) ==
  /\ Status(n, d) = "running"
  /\ DaemonEnds(n, procs[n])
  /\ file' = [file EXCEPT ![n] = remove_domain_pid(@, d)]

\* rs_init.
ColodBoot(n) ==
  /\ ~up[n]
  /\ up' = [up EXCEPT ![n] = TRUE]
  /\ domains' = [domains EXCEPT ![n] = domains_init(file[n])]
  /\ UNCHANGED <<file, procs>>

-----------------------------------------------------------------------------
Command(n) ==
  \/ colod_list(n)
  \/ \E d \in Domain :
       \/ colod_define(n, d)
       \/ colod_undefine(n, d)
       \/ colod_domain_test(n, d)
       \/ colod_start(n, d)
       \/ colod_start_fork_fails(n, d)
       \/ colod_destroy(n, d)

ProcessStep(n) == \E p \in Pid : VmExit(n, p) \/ OtherSpawn(n, p) \/ OtherExit(n, p)

FaultStep(n) ==
  \/ ColodCrash(n)
  \/ \E d \in Domain : ColodCrashInStart(n, d) \/ ColodCrashInDestroy(n, d)
  \/ ColodBoot(n)

HostNext == \E n \in Node : Command(n) \/ ProcessStep(n) \/ FaultStep(n)

HostSpec == HostInit /\ [][HostNext]_hostVars

-----------------------------------------------------------------------------
\* The pid of a domain that counts as running is the pid destroy would send
\* SIGKILL to, and it belongs to the process that this colod started for this
\* domain (alive or a zombie): never to a process that took the number over.
OwnChild(n, p, d) ==
  p \in Pid /\ procs[n][p].child /\ procs[n][p].dom = d
            /\ procs[n][p].kind \in {"vm", "zombie"}

KillTarget ==
  \A n \in Node, d \in Domain :
    LET ds == domains[n][d] IN
      up[n] /\ ds.status # "shutoff" /\ ds.pid # NoPid /\ KillPid(n, d) # NoPid =>
        ds.pid = KillPid(n, d) /\ OwnChild(n, ds.pid, d)

\* No step but its own end stops a process that colod did not start.
NoForeignKill ==
  [][\A n \in Node, p \in Pid :
       procs[n][p].kind = "other" => procs'[n][p] = procs[n][p] \/ OtherExit(n, p)]_hostVars

\* rs.domains knows the vm that runs for d as process p, a child of this colod.
Records(n, d, p) ==
  p \in Pid /\ up[n] /\ domains[n][d].pid = p
            /\ procs[n][p] = [kind |-> "vm", dom |-> d, child |-> TRUE]

\* While a vm runs, the colod that started it keeps its pid, so that it can be
\* destroyed: only a define of the domain, which does not ask, and the end of
\* colod make it forget.  No start, list, test or undefine does, however the
\* commands follow each other.
VmStaysRecorded ==
  [][\A n \in Node, d \in Domain, p \in Pid :
       Records(n, d, p) /\ procs'[n][p] = procs[n][p] =>
         Records(n, d, p)' \/ colod_define(n, d)]_hostVars

\* rs.domains and the save file hold the same domains, through crashes and
\* truncated writes.
RegistryMatchesFile ==
  \A n \in Node, d \in Domain :
    up[n] => (file[n][d].saved <=> domains[n][d].name = d)

\* destroy is for a running domain: while the process that the save file names
\* for a domain is alive, colod does not call the domain shut off.
RunningIsDestroyable ==
  \A n \in Node, d \in Domain :
    LET p == file[n][d].pid IN
      up[n] /\ p \in Pid /\ procs[n][p].kind = "vm" /\ procs[n][p].dom = d
      => Status(n, d) # "shutoff"
=============================================================================
