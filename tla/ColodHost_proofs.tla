-------------------------- MODULE ColodHost_proofs --------------------------
(***************************************************************************)
(* For any number of hosts, domains and pids: the type invariant of        *)
(* ColodHost, that rs.domains and the save file hold the same domains, and *)
(* that the SIGKILL of destroy only ever reaches the process this colod    *)
(* started for that domain.                                                *)
(***************************************************************************)
EXTENDS ColodHost, TLAPS

-----------------------------------------------------------------------------
(***************************************************************************)
(* The functions on the save file keep its type.                           *)
(***************************************************************************)
LEMMA SaveTypes ==
  ASSUME NEW f \in SaveContents, NEW d \in Name
  PROVE  /\ remove_domain_pid(f, d) \in SaveContents
         /\ vm_undefine(f, d) \in SaveContents
         /\ \A p \in Pid : save_domain_pid(f, d, p) \in SaveContents
         /\ \A ds \in colod_domain_status : save_domain_info(f, ds) \in SaveContents
         /\ get_domain_pid(f, d) \in Pid \cup {NoPid}
<1> USE DEF SaveContents, SavedDomain
<1>1. remove_domain_pid(f, d) \in SaveContents
  BY DEF remove_domain_pid
<1>2. vm_undefine(f, d) \in SaveContents
  BY DEF vm_undefine, NotSaved, COLO_DOMAIN_STATUS
<1>3. \A p \in Pid : save_domain_pid(f, d, p) \in SaveContents
  BY DEF save_domain_pid
<1>4. ASSUME NEW ds \in colod_domain_status
      PROVE  save_domain_info(f, ds) \in SaveContents
  BY DEF save_domain_info, colod_domain_status, COLO_DOMAIN_STATUS
<1>5. get_domain_pid(f, d) \in Pid \cup {NoPid}
  BY DEF get_domain_pid
<1> QED BY <1>1, <1>2, <1>3, <1>4, <1>5

\* What a crash inside a write leaves is a save file.
LEMMA EmptySaveType == EmptySave \in SaveContents
BY DEF EmptySave, SaveContents, SavedDomain, NotSaved, COLO_DOMAIN_STATUS

\* What operator[] inserts is an entry.
LEMMA ZeroEntryType == ZeroEntry \in colod_domain_status
BY DEF ZeroEntry, colod_domain_status, DOMAIN_STATUS, COLO_DOMAIN_STATUS, Name

\* What start and destroy make of an entry.
LEMMA EntryTypes ==
  ASSUME NEW ds \in colod_domain_status
  PROVE  /\ Stopped(ds) \in colod_domain_status
         /\ \A p \in Pid \cup {NoPid} : Started(ds, p, "running") \in colod_domain_status
BY DEF Stopped, Started, colod_domain_status, DOMAIN_STATUS

\* What a starting colod loads is a table of entries.
LEMMA InitType ==
  ASSUME NEW f \in SaveContents
  PROVE  domains_init(f) \in [Name -> colod_domain_status]
BY ZeroEntryType
   DEF domains_init, SaveContents, SavedDomain, colod_domain_status, DOMAIN_STATUS

\* What test_domain_status leaves.
LEMMA TestedType ==
  ASSUME HostTypeOK, NEW n \in Node, NEW x \in Name
  PROVE  /\ Tested(n, x) \in colod_domain_status
         /\ TestedFile(n, x) \in SaveContents
<1>1. domains[n][x] \in colod_domain_status /\ file[n] \in SaveContents
  BY DEF HostTypeOK
<1>2. Tested(n, x) \in colod_domain_status
  BY <1>1 DEF Tested, colod_domain_status, DOMAIN_STATUS
<1>3. TestedFile(n, x) \in SaveContents
  BY <1>1, SaveTypes DEF TestedFile
<1> QED BY <1>2, <1>3

\* Processes stay processes, whatever ends or begins.
LEMMA ProcessTypes ==
  ASSUME NEW proc \in Process, NEW d \in Name
  PROVE  /\ Killed(proc) \in Process
         /\ Orphan(proc) \in Process
         /\ \A kind \in {"vm", "zombie"} : Child(d, kind) \in Process
         /\ OtherProcess \in Process
         /\ NoProcess \in Process
BY DEF Process, Killed, Orphan, Child, OtherProcess, NoProcess, Name

-----------------------------------------------------------------------------
\* The end of colod leaves a process table, and an empty table of domains.
LEMMA EndTypes ==
  ASSUME HostTypeOK, NEW n \in Node, NEW ps \in [Pid -> Process], DaemonEnds(n, ps)
  PROVE  /\ up' \in [Node -> BOOLEAN]
         /\ domains' \in [Node -> [Name -> colod_domain_status]]
         /\ procs' \in [Node -> [Pid -> Process]]
<1>1. [p \in Pid |-> Orphan(ps[p])] \in [Pid -> Process]
  BY ProcessTypes DEF Name
<1>2. [x \in Name |-> ZeroEntry] \in [Name -> colod_domain_status]
  BY ZeroEntryType
<1> QED BY <1>1, <1>2 DEF DaemonEnds, HostTypeOK

\* Every step of a host keeps the types.
LEMMA HostTypeStep ==
  ASSUME HostTypeOK, NEW n \in Node, Command(n) \/ ProcessStep(n) \/ FaultStep(n)
  PROVE  HostTypeOK'
<1>0. Domain \subseteq Name
  BY DEF Name
<1>1. CASE Command(n)
  <2>0. file[n] \in SaveContents /\ domains[n] \in [Name -> colod_domain_status]
    BY DEF HostTypeOK
  <2>1. CASE colod_list(n)
    <3> DEFINE f == [x \in Name |-> IF Gone(n, x) THEN remove_domain_pid(file[n], x)[x]
                                    ELSE file[n][x]]
    <3>1. f \in SaveContents
      BY <2>0, SaveTypes DEF SaveContents
    <3>2. [x \in Name |-> Tested(n, x)] \in [Name -> colod_domain_status]
      BY TestedType
    <3>3. file' = [file EXCEPT ![n] = f]
      BY <2>1 DEF colod_list
    <3> QED BY <2>1, <3>1, <3>2, <3>3 DEF colod_list, HostTypeOK
  <2>2. ASSUME NEW d \in Domain, colod_define(n, d) PROVE HostTypeOK'
    <3> DEFINE ds == [name |-> d, pid |-> NoPid, status |-> "shutoff",
                      colo_enable |-> FALSE, colo_status |-> "none", path |-> TRUE]
    <3>1. ds \in colod_domain_status
      BY <1>0 DEF colod_domain_status, DOMAIN_STATUS, COLO_DOMAIN_STATUS
    <3>2. save_domain_info(file[n], ds) \in SaveContents
      BY <1>0, <2>0, <3>1, SaveTypes
    <3>3. /\ file' = [file EXCEPT ![n] = save_domain_info(file[n], ds)]
          /\ domains' = [domains EXCEPT ![n][d] = ds]
          /\ UNCHANGED <<up, procs>>
      BY <2>2 DEF colod_define
    <3> HIDE DEF ds
    <3> QED BY <1>0, <3>1, <3>2, <3>3 DEF HostTypeOK
  <2>3. ASSUME NEW d \in Domain, colod_undefine(n, d) PROVE HostTypeOK'
    <3>1. vm_undefine(TestedFile(n, d), d) \in SaveContents
      BY <1>0, TestedType, SaveTypes
    <3> QED BY <1>0, <2>3, <3>1, ZeroEntryType DEF colod_undefine, HostTypeOK
  <2>4. ASSUME NEW d \in Domain, colod_domain_test(n, d) PROVE HostTypeOK'
    <3>1. Tested(n, d) \in colod_domain_status /\ TestedFile(n, d) \in SaveContents
      BY <1>0, TestedType
    <3> QED BY <1>0, <2>4, <3>1 DEF colod_domain_test, test_domain_status, HostTypeOK
  <2>5. ASSUME NEW d \in Domain, colod_start(n, d) PROVE HostTypeOK'
    <3>1. PICK p \in Pid :
            /\ run_new_vm(n, d, p, "vm", TestedFile(n, d))
            /\ domains' = [domains EXCEPT ![n][d] = Started(@, p, "running")]
      BY <2>5 DEF colod_start
    <3>2. save_domain_pid(TestedFile(n, d), d, p) \in SaveContents
      BY <1>0, TestedType, SaveTypes
    <3>3. Started(domains[n][d], p, "running") \in colod_domain_status
      BY <1>0, <2>0, EntryTypes
    <3>4. Child(d, "vm") \in Process
      BY <1>0 DEF Child, Process
    <3>5. domains' \in [Node -> [Name -> colod_domain_status]]
      BY <1>0, <3>1, <3>3 DEF HostTypeOK
    <3>6. procs' \in [Node -> [Pid -> Process]]
      BY <3>1, <3>4 DEF run_new_vm, HostTypeOK
    <3> QED BY <2>5, <3>1, <3>2, <3>5, <3>6 DEF colod_start, run_new_vm, HostTypeOK
  <2>6. ASSUME NEW d \in Domain, colod_start_fork_fails(n, d) PROVE HostTypeOK'
    <3>1. TestedFile(n, d) \in SaveContents
      BY <1>0, TestedType
    <3>2. Started(domains[n][d], NoPid, "running") \in colod_domain_status
      BY <1>0, <2>0, EntryTypes
    <3> QED BY <1>0, <2>6, <3>1, <3>2 DEF colod_start_fork_fails, HostTypeOK
  <2>7. ASSUME NEW d \in Domain, colod_destroy(n, d) PROVE HostTypeOK'
    <3>1. remove_domain_pid(file[n], d) \in SaveContents
      BY <1>0, <2>0, SaveTypes
    <3>2. Stopped(domains[n][d]) \in colod_domain_status
      BY <1>0, <2>0, EntryTypes
    <3>3. domains' \in [Node -> [Name -> colod_domain_status]]
      BY <1>0, <2>7, <3>2 DEF colod_destroy, HostTypeOK
    <3>4. procs' \in [Node -> [Pid -> Process]]
      <4>1. \A p \in Pid : Killed(procs[n][p]) \in Process
        BY <1>0, ProcessTypes DEF HostTypeOK
      <4> QED BY <2>7, <4>1 DEF colod_destroy, destroy_domain, HostTypeOK
    <3> QED BY <2>7, <3>1, <3>3, <3>4 DEF colod_destroy, destroy_domain, HostTypeOK
  <2> QED BY <1>1, <2>1, <2>2, <2>3, <2>4, <2>5, <2>6, <2>7 DEF Command
<1>2. CASE ProcessStep(n)
  <2>1. PICK p \in Pid : VmExit(n, p) \/ OtherSpawn(n, p) \/ OtherExit(n, p)
    BY <1>2 DEF ProcessStep
  <2>2. /\ Killed(procs[n][p]) \in Process
        /\ OtherProcess \in Process
        /\ NoProcess \in Process
    BY ProcessTypes DEF HostTypeOK, Name
  <2>3. PICK proc \in Process : procs' = [procs EXCEPT ![n][p] = proc]
    BY <2>1, <2>2 DEF VmExit, OtherSpawn, OtherExit
  <2>4. UNCHANGED <<up, domains, file>>
    BY <2>1 DEF VmExit, OtherSpawn, OtherExit
  <2> QED BY <2>3, <2>4 DEF HostTypeOK
<1>3. CASE FaultStep(n)
  <2>2. CASE ColodCrash(n)
    <3>1. procs[n] \in [Pid -> Process]
      BY DEF HostTypeOK
    <3> QED BY EndTypes, <2>2, <3>1, EmptySaveType DEF ColodCrash, HostTypeOK
  <2>3. ASSUME NEW d \in Domain, ColodCrashInStart(n, d) PROVE HostTypeOK'
    <3>1. PICK p \in Pid : DaemonEnds(n, [procs[n] EXCEPT ![p] = Child(d, "vm")])
      BY <2>3 DEF ColodCrashInStart
    <3>2. [procs[n] EXCEPT ![p] = Child(d, "vm")] \in [Pid -> Process]
      BY <1>0 DEF HostTypeOK, Child, Process
    <3>3. TestedFile(n, d) \in SaveContents
      BY <1>0, TestedType
    <3> QED BY EndTypes, <2>3, <3>1, <3>2, <3>3 DEF ColodCrashInStart, HostTypeOK
  <2>5. ASSUME NEW d \in Domain, ColodCrashInDestroy(n, d) PROVE HostTypeOK'
    <3>1. procs[n] \in [Pid -> Process] /\ remove_domain_pid(file[n], d) \in SaveContents
      BY <1>0, SaveTypes DEF HostTypeOK
    <3> QED BY EndTypes, <2>5, <3>1 DEF ColodCrashInDestroy, HostTypeOK
  <2>4. CASE ColodBoot(n)
    <3>1. domains_init(file[n]) \in [Name -> colod_domain_status]
      BY InitType DEF HostTypeOK
    <3> QED BY <2>4, <3>1 DEF ColodBoot, HostTypeOK
  <2> QED BY <1>3, <2>2, <2>3, <2>4, <2>5 DEF FaultStep
<1> QED BY <1>1, <1>2, <1>3

\* Every variable keeps its type.
THEOREM HostTypeCorrect == HostSpec => []HostTypeOK
<1>1. HostInit => HostTypeOK
  BY EmptySaveType, ZeroEntryType
     DEF HostInit, HostTypeOK, Process, NoProcess, Name
<1>2. HostTypeOK /\ [HostNext]_hostVars => HostTypeOK'
  <2>1. HostTypeOK /\ UNCHANGED hostVars => HostTypeOK'
    BY DEF hostVars, HostTypeOK
  <2> QED BY <2>1, HostTypeStep DEF HostNext
<1> QED BY <1>1, <1>2, PTL DEF HostSpec

-----------------------------------------------------------------------------
(***************************************************************************)
(* KillTarget for one host and one domain, and what it takes to keep it    *)
(* for a domain a step does not concern: its two records stay, and the     *)
(* process this colod started for it stays its child.                      *)
(***************************************************************************)
Target(k, e) ==
  LET ds == domains[k][e] IN
    up[k] /\ ds.status # "shutoff" /\ ds.pid # NoPid /\ KillPid(k, e) # NoPid =>
      ds.pid = KillPid(k, e) /\ OwnChild(k, ds.pid, e)

\* The target of a destroy depends on one record and one process.
LEMMA TargetFrame ==
  ASSUME NEW k \in Node, NEW e \in Domain, Target(k, e),
         up'[k] = up[k], domains'[k][e] = domains[k][e], file'[k][e] = file[k][e],
         \A p \in Pid : OwnChild(k, p, e) => OwnChild(k, p, e)'
  PROVE  Target(k, e)'
<1>1. KillPid(k, e)' = KillPid(k, e)
  BY DEF KillPid, get_domain_pid
<1>2. OwnChild(k, domains[k][e].pid, e) => domains[k][e].pid \in Pid
  BY DEF OwnChild
<1> QED BY <1>1, <1>2 DEF Target

\* A host a step does not touch.
LEMMA TargetOtherHost ==
  ASSUME NEW k \in Node, NEW e \in Domain, Target(k, e),
         up'[k] = up[k], domains'[k] = domains[k], file'[k] = file[k], procs'[k] = procs[k]
  PROVE  Target(k, e)'
BY TargetFrame DEF OwnChild

\* Removing the pid, or a status of shutoff, leaves nothing to kill.
LEMMA TargetGone ==
  ASSUME NEW k \in Node, NEW e \in Domain,
         \/ ~up'[k]
         \/ domains'[k][e].status = "shutoff"
         \/ domains'[k][e].pid = NoPid
         \/ ~file'[k][e].saved
         \/ file'[k][e].pid = NoPid
  PROVE  Target(k, e)'
BY DEF Target, KillPid, get_domain_pid

\* remove_domain_pid concerns one record, and leaves no pid in it.
LEMMA RemovePid ==
  ASSUME NEW f \in SaveContents, NEW d \in Name
  PROVE  /\ \A x \in Name \ {d} : remove_domain_pid(f, d)[x] = f[x]
         /\ remove_domain_pid(f, d)[d].saved = f[d].saved
         /\ f[d].saved => remove_domain_pid(f, d)[d].pid = NoPid
BY DEF remove_domain_pid, SaveContents, SavedDomain

\* So does test_domain_status, for the domain it finds gone.
LEMMA TestedFacts ==
  ASSUME HostTypeOK, NEW n \in Node, NEW x \in Name
  PROVE  /\ Gone(n, x) => Tested(n, x).status = "shutoff"
         /\ ~Gone(n, x) => Tested(n, x) = domains[n][x] /\ TestedFile(n, x) = file[n]
         /\ Tested(n, x).name = domains[n][x].name
         /\ \A y \in Name \ {x} : TestedFile(n, x)[y] = file[n][y]
         /\ \A y \in Name : TestedFile(n, x)[y].saved = file[n][y].saved
<1>1. domains[n][x] \in colod_domain_status /\ file[n] \in SaveContents
  BY DEF HostTypeOK
<1>2. /\ Gone(n, x) => Tested(n, x).status = "shutoff"
      /\ Tested(n, x).name = domains[n][x].name
  BY <1>1 DEF Tested, colod_domain_status
<1>3. ~Gone(n, x) => Tested(n, x) = domains[n][x] /\ TestedFile(n, x) = file[n]
  BY DEF Tested, TestedFile
<1> QED BY <1>1, <1>2, <1>3, RemovePid DEF TestedFile

\* A child that is killed, or ends, is still the child of its colod.
LEMMA KilledChild ==
  ASSUME NEW proc \in Process, proc.child
  PROVE  Killed(proc).child /\ Killed(proc).dom = proc.dom /\ Killed(proc).kind = "zombie"
BY DEF Killed, Process

\* A child that ends or is killed; a free pid that is taken.
LEMMA OwnChildKilled ==
  ASSUME HostTypeOK, NEW k \in Node, NEW q \in Pid,
         procs' = [procs EXCEPT ![k][q] = Killed(@)],
         NEW p \in Pid, NEW e \in Domain, OwnChild(k, p, e)
  PROVE  OwnChild(k, p, e)'
<1>1. procs[k][q] \in Process /\ procs[k] \in [Pid -> Process]
  BY DEF HostTypeOK
<1>2. procs'[k][p] = IF p = q THEN Killed(procs[k][p]) ELSE procs[k][p]
  BY <1>1 DEF HostTypeOK
<1> QED BY <1>1, <1>2, KilledChild DEF OwnChild

\* A pid that is handed out was not the child of another domain.
LEMMA OwnChildTaken ==
  ASSUME HostTypeOK, NEW k \in Node, NEW q \in Pid, NEW proc,
         procs[k][q].kind \in {"free", "other"},
         procs' = [procs EXCEPT ![k][q] = proc],
         NEW p \in Pid, NEW e \in Domain, OwnChild(k, p, e)
  PROVE  OwnChild(k, p, e)'
<1>1. p # q
  BY DEF OwnChild
<1>2. procs'[k][p] = procs[k][p]
  BY <1>1 DEF HostTypeOK
<1> QED BY <1>2 DEF OwnChild

\* Each step of a host keeps the fact for each of its domains.
LEMMA TargetStep ==
  ASSUME HostTypeOK, NEW n \in Node, NEW e \in Domain, Target(n, e),
         Command(n) \/ ProcessStep(n) \/ FaultStep(n)
  PROVE  Target(n, e)'
<1>0. /\ domains[n] \in [Name -> colod_domain_status]
      /\ file[n] \in SaveContents
      /\ procs[n] \in [Pid -> Process]
      /\ Domain \subseteq Name
      /\ e \in Name
  BY DEF HostTypeOK, Name
<1>1. CASE colod_list(n)
  <2>1. CASE Gone(n, e)
    <3>1. domains'[n][e] = Tested(n, e)
      BY <1>0, <1>1 DEF colod_list, HostTypeOK
    <3> QED BY <1>0, <2>1, <3>1, TestedFacts, TargetGone
  <2>2. CASE ~Gone(n, e)
    <3>1. domains'[n][e] = domains[n][e] /\ file'[n][e] = file[n][e]
      BY <1>0, <1>1, <2>2, TestedFacts DEF colod_list, HostTypeOK
    <3>2. up' = up /\ procs' = procs
      BY <1>1 DEF colod_list
    <3> QED BY <3>1, <3>2, TargetFrame DEF OwnChild
  <2> QED BY <2>1, <2>2
<1>2. ASSUME NEW d \in Domain, colod_define(n, d) PROVE Target(n, e)'
  <2>1. CASE e = d
    <3>1. domains'[n][e].pid = NoPid
      BY <1>0, <1>2, <2>1 DEF colod_define, HostTypeOK
    <3> QED BY <3>1, TargetGone
  <2>2. CASE e # d
    <3>1. domains'[n][e] = domains[n][e] /\ file'[n][e] = file[n][e]
      BY <1>0, <1>2, <2>2 DEF colod_define, save_domain_info, SaveContents, HostTypeOK
    <3> QED BY <1>2, <3>1, TargetFrame DEF colod_define, OwnChild
  <2> QED BY <2>1, <2>2
<1>3. ASSUME NEW d \in Domain, colod_undefine(n, d) PROVE Target(n, e)'
  <2>1. CASE e = d
    <3>1. domains'[n][e] = ZeroEntry
      BY <1>0, <1>3, <2>1 DEF colod_undefine, HostTypeOK
    <3> QED BY <3>1, TargetGone DEF ZeroEntry
  <2>2. CASE e # d
    <3>1. domains'[n][e] = domains[n][e]
      BY <1>0, <1>3, <2>2 DEF colod_undefine, HostTypeOK
    <3>2. file'[n][e] = TestedFile(n, d)[e]
      BY <1>0, <1>3, <2>2, TestedType DEF colod_undefine, vm_undefine, SaveContents, HostTypeOK
    <3>3. file'[n][e] = file[n][e]
      BY <1>0, <2>2, <3>2, TestedFacts
    <3> QED BY <1>3, <3>1, <3>3, TargetFrame DEF colod_undefine, OwnChild
  <2> QED BY <2>1, <2>2
<1>4. ASSUME NEW d \in Domain, colod_domain_test(n, d) PROVE Target(n, e)'
  <2>1. CASE e = d /\ Gone(n, d)
    <3>1. domains'[n][e] = Tested(n, e)
      BY <1>0, <1>4, <2>1 DEF colod_domain_test, test_domain_status, HostTypeOK
    <3> QED BY <1>0, <2>1, <3>1, TestedFacts, TargetGone
  <2>2. CASE e # d \/ ~Gone(n, d)
    <3>1. domains'[n][e] = domains[n][e] /\ file'[n][e] = file[n][e]
      BY <1>0, <1>4, <2>2, TestedFacts
         DEF colod_domain_test, test_domain_status, HostTypeOK
    <3> QED BY <1>4, <3>1, TargetFrame DEF colod_domain_test, OwnChild
  <2> QED BY <2>1, <2>2
<1>5. ASSUME NEW d \in Domain, colod_start(n, d) PROVE Target(n, e)'
  <2>1. PICK p \in Pid :
          /\ run_new_vm(n, d, p, "vm", TestedFile(n, d))
          /\ domains' = [domains EXCEPT ![n][d] = Started(@, p, "running")]
    BY <1>5 DEF colod_start
  <2>2. procs'[n][p] = Child(d, "vm") /\ procs[n][p].kind = "free"
    BY <1>0, <2>1 DEF run_new_vm, HostTypeOK
  <2>3. up'[n] = up[n]
    BY <1>5 DEF colod_start
  <2>4. CASE e = d
    <3>1. domains'[n][e].pid = p
      BY <1>0, <2>1, <2>4 DEF HostTypeOK, Started, colod_domain_status
    <3>2. file'[n] = save_domain_pid(TestedFile(n, d), d, p)
      BY <2>1 DEF run_new_vm, HostTypeOK
    <3>3. file'[n][d].saved => file'[n][d].pid = p
      BY <1>0, <3>2, TestedType DEF save_domain_pid, SaveContents, SavedDomain
    <3>4. OwnChild(n, p, d)'
      BY <2>2 DEF OwnChild, Child
    <3> QED BY <2>4, <3>1, <3>3, <3>4 DEF Target, KillPid, get_domain_pid
  <2>5. CASE e # d
    <3>1. domains'[n][e] = domains[n][e]
      BY <1>0, <2>1, <2>5 DEF HostTypeOK
    <3>2. file'[n] = save_domain_pid(TestedFile(n, d), d, p)
      BY <2>1 DEF run_new_vm, HostTypeOK
    <3>3. file'[n][e] = TestedFile(n, d)[e]
      BY <1>0, <2>5, <3>2, TestedType DEF save_domain_pid, SaveContents
    <3>4. file'[n][e] = file[n][e]
      BY <1>0, <2>5, <3>3, TestedFacts
    <3>5. ASSUME NEW q \in Pid, OwnChild(n, q, e) PROVE OwnChild(n, q, e)'
      <4>1. q # p
        BY <2>2, <3>5 DEF OwnChild
      <4>2. procs'[n][q] = procs[n][q]
        BY <1>0, <2>1, <4>1 DEF run_new_vm, HostTypeOK
      <4> QED BY <3>5, <4>2 DEF OwnChild
    <3> QED BY <2>3, <3>1, <3>4, <3>5, TargetFrame
  <2> QED BY <2>4, <2>5
<1>6. ASSUME NEW d \in Domain, colod_start_fork_fails(n, d) PROVE Target(n, e)'
  <2>1. CASE e = d
    <3>1. domains'[n][e].pid = NoPid
      BY <1>0, <1>6, <2>1
         DEF colod_start_fork_fails, HostTypeOK, Started, colod_domain_status
    <3> QED BY <3>1, TargetGone
  <2>2. CASE e # d
    <3>1. domains'[n][e] = domains[n][e] /\ file'[n][e] = file[n][e]
      BY <1>0, <1>6, <2>2, TestedFacts DEF colod_start_fork_fails, HostTypeOK
    <3> QED BY <1>6, <3>1, TargetFrame DEF colod_start_fork_fails, OwnChild
  <2> QED BY <2>1, <2>2
<1>7. ASSUME NEW d \in Domain, colod_destroy(n, d) PROVE Target(n, e)'
  <2>0. file'[n] = remove_domain_pid(file[n], d) /\ up'[n] = up[n]
    BY <1>7 DEF colod_destroy, destroy_domain, HostTypeOK
  <2>1. CASE e = d
    <3>1. ~file'[n][e].saved \/ file'[n][e].pid = NoPid
      BY <1>0, <2>0, <2>1, RemovePid
    <3> QED BY <3>1, TargetGone
  <2>2. CASE e # d
    <3>1. domains'[n][e] = domains[n][e] /\ file'[n][e] = file[n][e]
      BY <1>0, <1>7, <2>0, <2>2, RemovePid DEF colod_destroy, HostTypeOK
    <3>2. ASSUME NEW q \in Pid, OwnChild(n, q, e) PROVE OwnChild(n, q, e)'
      <4>1. CASE procs' = procs
        BY <3>2, <4>1 DEF OwnChild
      <4>2. CASE KillPid(n, d) \in Pid /\ procs' = [procs EXCEPT ![n][KillPid(n, d)] = Killed(@)]
        BY <3>2, <4>2, OwnChildKilled
      <4>3. CASE KillPid(n, d) \notin Pid
        <5>1. KillPid(n, d) = NoPid
          BY <1>0, <4>3, SaveTypes DEF KillPid
        <5> QED BY <1>7, <4>1, <5>1 DEF colod_destroy, destroy_domain, DestroyOk
      <4> QED BY <1>7, <4>1, <4>2, <4>3 DEF colod_destroy, destroy_domain
    <3> QED BY <2>0, <3>1, <3>2, TargetFrame
  <2> QED BY <2>1, <2>2
<1>8. ASSUME NEW q \in Pid, VmExit(n, q) \/ OtherSpawn(n, q) \/ OtherExit(n, q)
      PROVE  Target(n, e)'
  <2>1. UNCHANGED <<up, domains, file>>
    BY <1>8 DEF VmExit, OtherSpawn, OtherExit
  <2>2. ASSUME NEW p \in Pid, OwnChild(n, p, e) PROVE OwnChild(n, p, e)'
    BY <1>8, <2>2, OwnChildKilled, OwnChildTaken DEF VmExit, OtherSpawn, OtherExit
  <2> QED BY <2>1, <2>2, TargetFrame
<1>9. ASSUME NEW ps, DaemonEnds(n, ps) PROVE Target(n, e)'
  BY <1>9, TargetGone DEF DaemonEnds, HostTypeOK
<1>10. CASE ColodBoot(n)
  <2>1. domains'[n][e].status = "shutoff"
    BY <1>0, <1>10 DEF ColodBoot, domains_init, ZeroEntry, HostTypeOK
  <2> QED BY <2>1, TargetGone
<1> QED
  BY <1>1, <1>2, <1>3, <1>4, <1>5, <1>6, <1>7, <1>8, <1>9, <1>10
     DEF Command, ProcessStep, FaultStep, ColodCrash, ColodCrashInStart, ColodCrashInDestroy

\* A step of one host leaves the others alone.
LEMMA OneHostSteps ==
  ASSUME HostTypeOK, NEW n \in Node, Command(n) \/ ProcessStep(n) \/ FaultStep(n),
         NEW k \in Node \ {n}
  PROVE  up'[k] = up[k] /\ domains'[k] = domains[k] /\ file'[k] = file[k] /\ procs'[k] = procs[k]
<1> USE DEF HostTypeOK
<1>1. CASE Command(n)
  BY <1>1 DEF Command, colod_list, colod_define, colod_undefine, colod_domain_test,
     test_domain_status, colod_start, run_new_vm, colod_start_fork_fails,
     colod_destroy, destroy_domain
<1>2. CASE ProcessStep(n)
  BY <1>2 DEF ProcessStep, VmExit, OtherSpawn, OtherExit
<1>3. CASE FaultStep(n)
  BY <1>3 DEF FaultStep, ColodCrash, ColodCrashInStart, ColodCrashInDestroy, DaemonEnds, ColodBoot
<1> QED BY <1>1, <1>2, <1>3

\* SIGKILL is only ever aimed at the process this colod started for the domain:
\* pids reused after a restart of colod are never mistaken for it.
THEOREM KillTargetAlways == HostSpec => []KillTarget
<1>1. HostInit => KillTarget
  BY DEF HostInit, KillTarget, ZeroEntry, Name
<1>2. KillTarget /\ HostTypeOK /\ [HostNext]_hostVars => KillTarget'
  <2> SUFFICES ASSUME KillTarget, HostTypeOK, [HostNext]_hostVars,
                      NEW k \in Node, NEW e \in Domain
               PROVE  Target(k, e)'
    BY DEF KillTarget, Target
  <2>1. Target(k, e)
    BY DEF KillTarget, Target
  <2>2. CASE UNCHANGED hostVars
    BY <2>1, <2>2, TargetOtherHost DEF hostVars
  <2>3. ASSUME NEW n \in Node, Command(n) \/ ProcessStep(n) \/ FaultStep(n)
        PROVE  Target(k, e)'
    BY <2>1, <2>3, TargetStep, TargetOtherHost, OneHostSteps
  <2> QED BY <2>2, <2>3 DEF HostNext
<1> QED BY <1>1, <1>2, HostTypeCorrect, PTL DEF HostSpec

-----------------------------------------------------------------------------
\* Only destroy kills, and what it kills is the child of its own daemon: every
\* process colod did not start ends by itself.
THEOREM NoForeignKillAlways == HostSpec => NoForeignKill
<1>1. KillTarget /\ HostTypeOK /\ [HostNext]_hostVars =>
        [\A n \in Node, p \in Pid :
           procs[n][p].kind = "other" => procs'[n][p] = procs[n][p] \/ OtherExit(n, p)]_hostVars
  <2> SUFFICES ASSUME KillTarget, HostTypeOK, [HostNext]_hostVars, ~UNCHANGED hostVars,
                      NEW k \in Node, NEW p \in Pid, procs[k][p].kind = "other"
               PROVE  procs'[k][p] = procs[k][p] \/ OtherExit(k, p)
    OBVIOUS
  <2>1. PICK n \in Node : Command(n) \/ ProcessStep(n) \/ FaultStep(n)
    BY DEF HostNext
  <2>2. CASE k # n
    BY <2>1, <2>2, OneHostSteps
  <2>3. CASE k = n /\ Command(n)
    <3>1. procs[n] \in [Pid -> Process]
      BY DEF HostTypeOK
    <3>2. CASE \E d \in Domain : colod_start(n, d)
      BY <2>3, <3>1, <3>2 DEF colod_start, run_new_vm, HostTypeOK
    <3>3. ASSUME NEW d \in Domain, colod_destroy(n, d) PROVE procs'[k][p] = procs[k][p]
      <4>1. CASE DestroyOk(n, d)
        <5>1. KillPid(n, d) # NoPid /\ up[n] /\ Status(n, d) = "running"
          BY <3>3, <4>1 DEF DestroyOk, colod_destroy
        <5>2. domains[n][d].status # "shutoff" /\ domains[n][d].pid # NoPid
          BY <5>1 DEF Status
        <5>3. OwnChild(n, KillPid(n, d), d)
          BY <5>1, <5>2 DEF KillTarget
        <5>4. KillPid(n, d) # p
          BY <2>3, <5>3 DEF OwnChild
        <5>5. procs' = [procs EXCEPT ![n][KillPid(n, d)] = Killed(@)]
          BY <3>3, <4>1 DEF colod_destroy, destroy_domain
        <5> QED BY <2>3, <3>1, <5>4, <5>5 DEF HostTypeOK
      <4>2. CASE ~DestroyOk(n, d)
        BY <3>3, <4>2 DEF colod_destroy, destroy_domain
      <4> QED BY <4>1, <4>2
    <3> QED BY <2>3, <3>2, <3>3
            DEF Command, colod_list, colod_define, colod_undefine, colod_domain_test,
                colod_start_fork_fails
  <2>4. CASE k = n /\ ProcessStep(n)
    <3>1. PICK q \in Pid : VmExit(n, q) \/ OtherSpawn(n, q) \/ OtherExit(n, q)
      BY <2>4 DEF ProcessStep
    <3>2. CASE q = p
      BY <2>4, <3>1, <3>2 DEF VmExit, OtherSpawn
    <3>3. CASE q # p
      BY <2>4, <3>1, <3>3 DEF VmExit, OtherSpawn, OtherExit, HostTypeOK
    <3> QED BY <3>2, <3>3
  <2>5. CASE k = n /\ FaultStep(n)
    <3>0. procs[n] \in [Pid -> Process]
      BY DEF HostTypeOK
    <3>1. ASSUME NEW ps, DaemonEnds(n, ps), ps[p] = procs[n][p]
          PROVE  procs'[k][p] = procs[k][p]
      BY <2>5, <3>1 DEF DaemonEnds, Orphan, HostTypeOK
    <3>2. CASE ColodCrash(n) \/ \E d \in Domain : ColodCrashInDestroy(n, d)
      BY <3>1, <3>2 DEF ColodCrash, ColodCrashInDestroy
    <3>3. CASE \E d \in Domain : ColodCrashInStart(n, d)
      <4>1. PICK d \in Domain, q \in Pid :
              /\ procs[n][q].kind = "free"
              /\ DaemonEnds(n, [procs[n] EXCEPT ![q] = Child(d, "vm")])
        BY <3>3 DEF ColodCrashInStart
      <4>2. [procs[n] EXCEPT ![q] = Child(d, "vm")][p] = procs[n][p]
        BY <2>5, <3>0, <4>1
      <4> QED BY <3>1, <4>1, <4>2
    <3>4. CASE ColodBoot(n)
      BY <3>4 DEF ColodBoot
    <3> QED BY <2>5, <3>2, <3>3, <3>4 DEF FaultStep
  <2> QED BY <2>1, <2>2, <2>3, <2>4, <2>5
<1> QED BY <1>1, KillTargetAlways, HostTypeCorrect, PTL DEF HostSpec, NoForeignKill

-----------------------------------------------------------------------------
\* Every step of a host writes a name into the table and the file, or out of
\* them, together.
LEMMA RegistryStep ==
  ASSUME HostTypeOK, NEW n \in Node, NEW e \in Domain, up'[n],
         up[n] => (file[n][e].saved <=> domains[n][e].name = e),
         Command(n) \/ ProcessStep(n) \/ FaultStep(n)
  PROVE  file'[n][e].saved <=> domains'[n][e].name = e
<1>0. Domain \subseteq Name /\ e \in Name
  BY DEF Name
<1>1. CASE up[n]
  <2>0. /\ file[n] \in SaveContents /\ domains[n] \in [Name -> colod_domain_status]
        /\ domains[n][e] \in colod_domain_status
        /\ file[n][e].saved <=> domains[n][e].name = e
    BY <1>0, <1>1 DEF HostTypeOK, RegistryMatchesFile
  <2>1. CASE colod_list(n)
    <3>1. domains'[n][e] = Tested(n, e)
      BY <1>0, <2>1 DEF colod_list, HostTypeOK
    <3>2. file'[n][e].saved = file[n][e].saved
      BY <1>0, <2>0, <2>1, RemovePid DEF colod_list, HostTypeOK
    <3> QED BY <1>0, <1>1, <2>0, <3>1, <3>2, TestedFacts
  <2>2. ASSUME NEW d \in Domain, colod_define(n, d)
        PROVE  file'[n][e].saved <=> domains'[n][e].name = e
    BY <1>0, <2>0, <2>2 DEF colod_define, save_domain_info, SaveContents, HostTypeOK
  <2>3. ASSUME NEW d \in Domain, colod_undefine(n, d)
        PROVE  file'[n][e].saved <=> domains'[n][e].name = e
    <3>1. file'[n] = vm_undefine(TestedFile(n, d), d)
      BY <2>3 DEF colod_undefine, HostTypeOK
    <3>2. domains'[n][e] = IF e = d THEN ZeroEntry ELSE domains[n][e]
      BY <1>0, <2>0, <2>3 DEF colod_undefine, HostTypeOK
    <3>3. file'[n][e] = IF e = d THEN NotSaved ELSE TestedFile(n, d)[e]
      BY <1>0, <3>1, TestedType DEF vm_undefine, SaveContents
    <3>5. ZeroEntry.name # e
      BY NameAssumption DEF ZeroEntry
    <3>6. CASE e = d
      BY <3>2, <3>3, <3>5, <3>6 DEF NotSaved
    <3>7. CASE e # d
      <4>1. TestedFile(n, d)[e].saved = file[n][e].saved
        BY <1>0, TestedFacts
      <4> QED BY <2>0, <3>2, <3>3, <3>7, <4>1
    <3> QED BY <3>6, <3>7
  <2>4. ASSUME NEW d \in Domain, colod_domain_test(n, d)
        PROVE  file'[n][e].saved <=> domains'[n][e].name = e
    <3>1. file'[n] = TestedFile(n, d)
      BY <2>4 DEF colod_domain_test, test_domain_status, HostTypeOK
    <3>2. domains'[n][e] = IF e = d THEN Tested(n, d) ELSE domains[n][e]
      BY <1>0, <2>0, <2>4 DEF colod_domain_test, test_domain_status, HostTypeOK
    <3> QED BY <1>0, <2>0, <3>1, <3>2, TestedFacts
  <2>5. ASSUME NEW d \in Domain, NEW p \in Pid,
               file'[n] = save_domain_pid(TestedFile(n, d), d, p),
               domains' = [domains EXCEPT ![n][d] = Started(@, p, "running")]
        PROVE  file'[n][e].saved <=> domains'[n][e].name = e
    <3>1. domains'[n][e].name = domains[n][e].name
      BY <1>0, <2>0, <2>5 DEF Started, colod_domain_status, HostTypeOK
    <3>2. file'[n][e].saved = TestedFile(n, d)[e].saved
      BY <1>0, <2>5, TestedType DEF save_domain_pid, SaveContents, SavedDomain
    <3> QED BY <1>0, <2>0, <3>1, <3>2, TestedFacts
  <2>6. ASSUME NEW d \in Domain, colod_start_fork_fails(n, d)
        PROVE  file'[n][e].saved <=> domains'[n][e].name = e
    <3>1. domains'[n][e].name = domains[n][e].name
      BY <1>0, <2>0, <2>6
         DEF colod_start_fork_fails, Started, colod_domain_status, HostTypeOK
    <3>2. file'[n] = TestedFile(n, d)
      BY <2>6 DEF colod_start_fork_fails, HostTypeOK
    <3> QED BY <1>0, <2>0, <3>1, <3>2, TestedFacts
  <2>7. ASSUME NEW d \in Domain, colod_destroy(n, d)
        PROVE  file'[n][e].saved <=> domains'[n][e].name = e
    <3>1. domains'[n][e].name = domains[n][e].name
      BY <1>0, <2>0, <2>7 DEF colod_destroy, Stopped, colod_domain_status, HostTypeOK
    <3>2. file'[n] = remove_domain_pid(file[n], d)
      BY <2>7 DEF colod_destroy, destroy_domain, HostTypeOK
    <3>3. file'[n][e].saved = file[n][e].saved
      BY <1>0, <2>0, <3>2, RemovePid
    <3> QED BY <2>0, <3>1, <3>3
  <2>8. CASE Command(n)
    BY <1>1, <2>1, <2>2, <2>3, <2>4, <2>5, <2>6, <2>7, <2>8
       DEF Command, colod_start, run_new_vm, HostTypeOK
  <2>9. CASE ProcessStep(n)
    BY <1>1, <2>0, <2>9 DEF ProcessStep, VmExit, OtherSpawn, OtherExit
  <2>10. ~FaultStep(n)
    BY <1>1
       DEF FaultStep, ColodCrash, ColodCrashInStart, ColodCrashInDestroy, DaemonEnds, ColodBoot, HostTypeOK
  <2> QED BY <1>1, <2>8, <2>9, <2>10
<1>2. CASE ~up[n]
  <2>1. CASE ColodBoot(n)
    <3>1. domains'[n] = domains_init(file[n]) /\ file' = file
      BY <2>1 DEF ColodBoot, HostTypeOK
    <3>2. domains_init(file[n])[e].name = e <=> file[n][e].saved
      BY <1>0, NameAssumption DEF domains_init, ZeroEntry
    <3> QED BY <1>2, <3>1, <3>2
  <2>2. ~Command(n)
    BY <1>2 DEF Command, colod_list, colod_define, colod_undefine, colod_domain_test,
       colod_start, colod_start_fork_fails, colod_destroy
  <2>3. ~ProcessStep(n)
    BY <1>2 DEF ProcessStep, VmExit, OtherSpawn, OtherExit, HostTypeOK
  <2> QED BY <1>2, <2>1, <2>2, <2>3
           DEF FaultStep, ColodCrash, ColodCrashInStart, ColodCrashInDestroy, DaemonEnds
<1> QED BY <1>1, <1>2

\* rs.domains and the save file always hold the same domains; what colod finds
\* at its start is what the file says.
THEOREM RegistryMatchesFileAlways == HostSpec => []RegistryMatchesFile
<1>1. HostInit => RegistryMatchesFile
  BY NameAssumption DEF HostInit, RegistryMatchesFile, ZeroEntry, EmptySave, NotSaved, Name
<1>2. RegistryMatchesFile /\ HostTypeOK /\ [HostNext]_hostVars => RegistryMatchesFile'
  <2> SUFFICES ASSUME RegistryMatchesFile, HostTypeOK, [HostNext]_hostVars,
                      NEW k \in Node, NEW e \in Domain, up'[k]
               PROVE  file'[k][e].saved <=> domains'[k][e].name = e
    BY DEF RegistryMatchesFile
  <2>1. CASE UNCHANGED hostVars
    BY <2>1 DEF hostVars, RegistryMatchesFile
  <2>2. ASSUME NEW n \in Node, Command(n) \/ ProcessStep(n) \/ FaultStep(n)
        PROVE  file'[k][e].saved <=> domains'[k][e].name = e
    BY <2>2, RegistryStep, OneHostSteps DEF RegistryMatchesFile
  <2> QED BY <2>1, <2>2 DEF HostNext
<1> QED BY <1>1, <1>2, HostTypeCorrect, PTL DEF HostSpec

-----------------------------------------------------------------------------
(***************************************************************************)
(* A vm that rs.domains knows counts as running, which is what makes every *)
(* command but define leave it alone; and only a colod that runs has       *)
(* children.                                                               *)
(***************************************************************************)
Known(n) ==
  /\ ~up[n] => \A p \in Pid : procs[n][p].kind = "vm" => ~procs[n][p].child
  /\ \A d \in Domain, p \in Pid : Records(n, d, p) => domains[n][d].status # "shutoff"

\* The vm of a recorded pid is not gone: test_domain_status leaves its entry.
LEMMA RecordedStatus ==
  ASSUME HostTypeOK, NEW n \in Node, NEW d \in Domain, NEW p \in Pid,
         domains[n][d].pid = p, procs[n][p].kind = "vm"
  PROVE  /\ ~Gone(n, d) /\ Tested(n, d) = domains[n][d]
         /\ Status(n, d) = domains[n][d].status
BY PidAssumption DEF Gone, Alive, Tested, Status

\* A process that is killed or ends is no vm any more.
LEMMA KilledVm ==
  ASSUME NEW proc \in Process
  PROVE  Killed(proc).kind # "vm"
BY DEF Killed, NoProcess, Process

\* Each command of a host leaves its colod up, and an entry counts as running
\* that has the pid of a vm.
LEMMA KnownCommand ==
  ASSUME HostTypeOK, NEW n \in Node, Known(n), Command(n),
         NEW e \in Domain, NEW p \in Pid, Records(n, e, p)'
  PROVE  domains'[n][e].status # "shutoff"
<1>0. /\ domains[n] \in [Name -> colod_domain_status]
      /\ procs[n] \in [Pid -> Process]
      /\ e \in Name /\ p # NoPid /\ p # ZeroPid
  BY PidAssumption DEF HostTypeOK, Name
<1>p. domains'[n][e].pid = p /\ procs'[n][p] = Child(e, "vm")
  BY DEF Records, Child
<1>s. ASSUME up[n], domains[n][e].pid = p, procs[n][p] = Child(e, "vm")
      PROVE  domains[n][e].status # "shutoff" /\ Tested(n, e) = domains[n][e]
  BY <1>0, <1>s, RecordedStatus DEF Known, Records, Child
<1>t. Tested(n, e).pid = domains[n][e].pid
  BY <1>0 DEF Tested, colod_domain_status
<1>1. CASE colod_list(n)
  <2>1. domains'[n][e] = Tested(n, e) /\ procs' = procs /\ up[n]
    BY <1>0, <1>1 DEF colod_list, HostTypeOK
  <2> QED BY <1>p, <1>s, <1>t, <2>1
<1>2. ASSUME NEW d \in Domain, colod_define(n, d) PROVE domains'[n][e].status # "shutoff"
  <2>1. CASE e = d
    <3>1. domains'[n][e].pid = NoPid
      BY <1>0, <1>2, <2>1 DEF colod_define, HostTypeOK
    <3> QED BY <1>0, <1>p, <3>1
  <2>2. CASE e # d
    <3>1. domains'[n][e] = domains[n][e] /\ procs' = procs /\ up[n]
      BY <1>0, <1>2, <2>2 DEF colod_define, HostTypeOK
    <3> QED BY <1>p, <1>s, <3>1
  <2> QED BY <2>1, <2>2
<1>3. ASSUME NEW d \in Domain, colod_undefine(n, d) PROVE domains'[n][e].status # "shutoff"
  <2>1. CASE e = d
    <3>1. domains'[n][e].pid = ZeroPid
      BY <1>0, <1>3, <2>1 DEF colod_undefine, HostTypeOK, ZeroEntry
    <3> QED BY <1>0, <1>p, <3>1
  <2>2. CASE e # d
    <3>1. domains'[n][e] = domains[n][e] /\ procs' = procs /\ up[n]
      BY <1>0, <1>3, <2>2 DEF colod_undefine, HostTypeOK
    <3> QED BY <1>p, <1>s, <3>1
  <2> QED BY <2>1, <2>2
<1>4. ASSUME NEW d \in Domain, colod_domain_test(n, d) PROVE domains'[n][e].status # "shutoff"
  <2>1. /\ domains'[n][e] = IF e = d THEN Tested(n, e) ELSE domains[n][e]
        /\ procs' = procs /\ up[n]
    BY <1>0, <1>4 DEF colod_domain_test, test_domain_status, HostTypeOK
  <2> QED BY <1>p, <1>s, <1>t, <2>1
<1>5. ASSUME NEW d \in Domain, colod_start(n, d) PROVE domains'[n][e].status # "shutoff"
  <2>1. PICK q \in Pid :
          /\ procs[n][q].kind = "free"
          /\ procs' = [procs EXCEPT ![n][q] = Child(d, "vm")]
          /\ domains' = [domains EXCEPT ![n][d] = Started(@, q, "running")]
    BY <1>5 DEF colod_start, run_new_vm
  <2>2. CASE e = d
    BY <1>0, <2>1, <2>2 DEF Started, HostTypeOK, colod_domain_status
  <2>3. CASE e # d
    <3>1. domains'[n][e] = domains[n][e] /\ up[n]
      BY <1>0, <1>5, <2>1, <2>3 DEF colod_start, HostTypeOK
    <3>2. p # q
      BY <1>0, <1>p, <2>1, <2>3 DEF HostTypeOK, Child
    <3>3. procs'[n][p] = procs[n][p]
      BY <1>0, <2>1, <3>2 DEF HostTypeOK
    <3> QED BY <1>p, <1>s, <3>1, <3>3
  <2> QED BY <2>2, <2>3
<1>6. ASSUME NEW d \in Domain, colod_start_fork_fails(n, d)
      PROVE  domains'[n][e].status # "shutoff"
  <2>1. CASE e = d
    BY <1>0, <1>6, <2>1 DEF colod_start_fork_fails, Started, HostTypeOK, colod_domain_status
  <2>2. CASE e # d
    <3>1. domains'[n][e] = domains[n][e] /\ procs' = procs /\ up[n]
      BY <1>0, <1>6, <2>2 DEF colod_start_fork_fails, HostTypeOK
    <3> QED BY <1>p, <1>s, <3>1
  <2> QED BY <2>1, <2>2
<1>7. ASSUME NEW d \in Domain, colod_destroy(n, d) PROVE domains'[n][e].status # "shutoff"
  <2>1. procs'[n][p] = procs[n][p]
    <3>1. procs'[n][p] \in {procs[n][p], Killed(procs[n][p])}
      BY <1>0, <1>7 DEF colod_destroy, destroy_domain, HostTypeOK
    <3>2. Killed(procs[n][p]) # Child(e, "vm")
      <4>1. Killed(procs[n][p]).kind # "vm"
        BY <1>0, KilledVm
      <4>2. Child(e, "vm").kind = "vm"
        BY DEF Child
      <4> QED BY <4>1, <4>2
    <3> QED BY <1>p, <3>1, <3>2
  <2>2. domains'[n][e] \in {domains[n][e], Stopped(domains[n][e])} /\ up[n]
    BY <1>0, <1>7 DEF colod_destroy, HostTypeOK
  <2>3. Stopped(domains[n][e]).pid = NoPid
    BY <1>0 DEF Stopped, colod_domain_status
  <2> QED BY <1>0, <1>p, <1>s, <2>1, <2>2, <2>3
<1> QED BY <1>1, <1>2, <1>3, <1>4, <1>5, <1>6, <1>7 DEF Command

\* Commands, processes, the end and the start of colod keep it.
LEMMA KnownStep ==
  ASSUME HostTypeOK, NEW n \in Node, Known(n), Command(n) \/ ProcessStep(n) \/ FaultStep(n)
  PROVE  Known(n)'
<1>0. procs[n] \in [Pid -> Process]
  BY DEF HostTypeOK
<1>1. CASE Command(n)
  <2>1. up'[n]
    BY <1>1 DEF Command, colod_list, colod_define, colod_undefine, colod_domain_test,
       colod_start, colod_start_fork_fails, colod_destroy
  <2> QED BY <1>1, <2>1, KnownCommand DEF Known
<1>2. CASE ProcessStep(n)
  <2>1. PICK q \in Pid : VmExit(n, q) \/ OtherSpawn(n, q) \/ OtherExit(n, q)
    BY <1>2 DEF ProcessStep
  <2>2. up' = up /\ domains' = domains
    BY <2>1 DEF VmExit, OtherSpawn, OtherExit
  <2>3. ASSUME NEW p \in Pid
        PROVE  \/ procs'[n][p] = procs[n][p]
               \/ procs'[n][p].kind # "vm"
    <3>1. Killed(procs[n][p]).kind # "vm" /\ NoProcess.kind # "vm" /\ OtherProcess.kind # "vm"
      BY <1>0, KilledVm DEF NoProcess, OtherProcess
    <3>2. PICK proc \in {Killed(procs[n][q]), NoProcess, OtherProcess} :
            procs' = [procs EXCEPT ![n][q] = proc]
      BY <2>1 DEF VmExit, OtherSpawn, OtherExit
    <3>3. procs'[n][p] = IF p = q THEN proc ELSE procs[n][p]
      BY <1>0, <3>2 DEF HostTypeOK
    <3> QED BY <3>1, <3>2, <3>3
  <2> QED BY <2>2, <2>3 DEF Known, Records
<1>3. CASE \E ps \in [Pid -> Process] : DaemonEnds(n, ps)
  <2>1. PICK ps \in [Pid -> Process] : DaemonEnds(n, ps)
    BY <1>3
  <2>2. ~up'[n]
    BY <2>1 DEF DaemonEnds, HostTypeOK
  <2>3. ASSUME NEW p \in Pid
        PROVE  procs'[n][p].kind = "vm" => ~procs'[n][p].child
    <3>1. ps[p] \in Process /\ procs'[n][p] = Orphan(ps[p])
      BY <2>1 DEF DaemonEnds, HostTypeOK
    <3> QED BY <3>1 DEF Orphan, NoProcess, Process
  <2> QED BY <2>2, <2>3 DEF Known, Records
<1>4. CASE FaultStep(n)
  <2>1. CASE ColodCrash(n) \/ \E d \in Domain : ColodCrashInDestroy(n, d)
    BY <1>0, <1>3, <2>1 DEF ColodCrash, ColodCrashInDestroy
  <2>2. CASE \E d \in Domain : ColodCrashInStart(n, d)
    <3>1. PICK d \in Domain, q \in Pid : DaemonEnds(n, [procs[n] EXCEPT ![q] = Child(d, "vm")])
      BY <2>2 DEF ColodCrashInStart
    <3>2. [procs[n] EXCEPT ![q] = Child(d, "vm")] \in [Pid -> Process]
      BY <1>0 DEF Child, Process, Name
    <3> QED BY <1>3, <3>1, <3>2
  <2>3. CASE ColodBoot(n)
    <3>1. ~up[n] /\ procs' = procs /\ up'[n]
      BY <2>3 DEF ColodBoot, HostTypeOK
    <3> QED BY <3>1 DEF Known, Records
  <2> QED BY <1>4, <2>1, <2>2, <2>3 DEF FaultStep
<1> QED BY <1>1, <1>2, <1>4

\* Each step of the host, for a vm that runs on.
LEMMA RecordsStep ==
  ASSUME HostTypeOK, KillTarget, NEW n \in Node,
         Command(n) \/ ProcessStep(n) \/ FaultStep(n),
         NEW e \in Domain, NEW p \in Pid, Records(n, e, p), procs'[n][p] = procs[n][p],
         domains[n][e].status # "shutoff"
  PROVE  (domains'[n][e] = domains[n][e] /\ up'[n]) \/ colod_define(n, e)
<1>0. /\ domains[n] \in [Name -> colod_domain_status]
      /\ procs[n] \in [Pid -> Process]
      /\ e \in Name /\ p # NoPid /\ p # ZeroPid
  BY PidAssumption DEF HostTypeOK, Name
<1>1. /\ up[n] /\ domains[n][e].pid = p
      /\ procs[n][p].kind = "vm" /\ procs[n][p].child
      /\ procs[n][p] = procs'[n][p]
  BY DEF Records
<1>2. /\ Tested(n, e) = domains[n][e]
      /\ Status(n, e) = domains[n][e].status /\ Status(n, e) # "shutoff"
  BY <1>1, RecordedStatus
<1>3. CASE Command(n)
  <2>u. up'[n]
    BY <1>3 DEF Command, colod_list, colod_define, colod_undefine, colod_domain_test,
       colod_start, colod_start_fork_fails, colod_destroy
  <2>1. CASE colod_list(n)
    BY <1>0, <1>2, <2>1 DEF colod_list, HostTypeOK
  <2>2. ASSUME NEW d \in Domain,
               \/ colod_define(n, d) \/ colod_undefine(n, d) \/ colod_domain_test(n, d)
               \/ colod_start(n, d) \/ colod_start_fork_fails(n, d) \/ colod_destroy(n, d)
        PROVE  domains'[n][e] = domains[n][e] \/ colod_define(n, e)
    <3>1. CASE d # e
      BY <1>0, <2>2, <3>1
         DEF colod_define, colod_undefine, colod_domain_test, test_domain_status,
             colod_start, colod_start_fork_fails, colod_destroy, HostTypeOK
    <3>2. CASE d = e /\ colod_define(n, d)
      BY <3>2
    <3>3. CASE d = e /\ colod_domain_test(n, d)
      BY <1>0, <1>2, <3>3 DEF colod_domain_test, test_domain_status, HostTypeOK
    <3>4. CASE d = e /\ (colod_undefine(n, d) \/ colod_start(n, d) \/ colod_start_fork_fails(n, d))
      BY <1>2, <3>4 DEF colod_undefine, colod_start, colod_start_fork_fails, MayStart
    <3>5. CASE d = e /\ colod_destroy(n, d)
      <4>1. CASE DestroyOk(n, e)
        <5>1. KillPid(n, e) = p
          BY <1>0, <1>1, <1>2, <4>1 DEF DestroyOk, KillTarget
        <5>2. procs'[n][p] = Killed(procs[n][p])
          BY <1>0, <3>5, <4>1, <5>1 DEF colod_destroy, destroy_domain, HostTypeOK
        <5> QED BY <1>0, <1>1, <5>2, KilledVm
      <4>2. CASE ~DestroyOk(n, e)
        BY <3>5, <4>2 DEF colod_destroy
      <4> QED BY <4>1, <4>2
    <3> QED BY <2>2, <3>1, <3>2, <3>3, <3>4, <3>5
  <2> QED BY <1>3, <2>u, <2>1, <2>2 DEF Command
<1>4. CASE ProcessStep(n)
  BY <1>1, <1>4 DEF ProcessStep, VmExit, OtherSpawn, OtherExit
<1>5. ASSUME NEW ps, DaemonEnds(n, ps), ps[p] = procs[n][p] PROVE FALSE
  <2>1. procs'[n][p] = Orphan(procs[n][p])
    BY <1>5 DEF DaemonEnds, HostTypeOK
  <2> QED BY <1>0, <1>1, <2>1 DEF Orphan, Process
<1>6. CASE FaultStep(n)
  <2>1. CASE ColodCrash(n) \/ \E d \in Domain : ColodCrashInDestroy(n, d)
    BY <1>5, <2>1 DEF ColodCrash, ColodCrashInDestroy
  <2>2. CASE \E d \in Domain : ColodCrashInStart(n, d)
    <3>1. PICK d \in Domain, q \in Pid :
            /\ procs[n][q].kind = "free"
            /\ DaemonEnds(n, [procs[n] EXCEPT ![q] = Child(d, "vm")])
      BY <2>2 DEF ColodCrashInStart
    <3>2. [procs[n] EXCEPT ![q] = Child(d, "vm")][p] = procs[n][p]
      BY <1>0, <1>1, <3>1
    <3> QED BY <1>5, <3>1, <3>2
  <2>3. CASE ColodBoot(n)
    BY <1>1, <2>3 DEF ColodBoot
  <2> QED BY <1>6, <2>1, <2>2, <2>3 DEF FaultStep
<1> QED BY <1>3, <1>4, <1>6

\* In every order of commands, crashes, restarts and reused pids, on any number
\* of hosts: nothing but define and the end of colod makes it forget a vm.
THEOREM VmStaysRecordedAlways == HostSpec => VmStaysRecorded
<1> DEFINE Inv == \A n \in Node : Known(n)
<1>1. HostInit => Inv
  <2> SUFFICES ASSUME HostInit, NEW n \in Node PROVE Known(n)
    OBVIOUS
  <2>1. up[n] /\ \A p \in Pid : procs[n][p].kind = "free"
    BY DEF HostInit, NoProcess
  <2>2. ASSUME NEW d \in Domain, NEW p \in Pid, Records(n, d, p) PROVE FALSE
    BY <2>1, <2>2 DEF Records
  <2> QED BY <2>1, <2>2 DEF Known
<1>2. Inv /\ HostTypeOK /\ [HostNext]_hostVars => Inv'
  <2> SUFFICES ASSUME Inv, HostTypeOK, [HostNext]_hostVars, NEW k \in Node
               PROVE  Known(k)'
    OBVIOUS
  <2>1. CASE UNCHANGED hostVars
    BY <2>1 DEF hostVars, Known, Records
  <2>2. ASSUME NEW n \in Node, Command(n) \/ ProcessStep(n) \/ FaultStep(n)
        PROVE  Known(k)'
    <3>1. CASE k = n
      BY <2>2, <3>1, KnownStep
    <3>2. CASE k # n
      <4>1. up'[k] = up[k] /\ domains'[k] = domains[k] /\ procs'[k] = procs[k]
        BY <2>2, <3>2, OneHostSteps
      <4> QED BY <4>1 DEF Known, Records
    <3> QED BY <3>1, <3>2
  <2> QED BY <2>1, <2>2 DEF HostNext
<1>3. Inv /\ KillTarget /\ HostTypeOK /\ [HostNext]_hostVars =>
        [\A n \in Node, d \in Domain, p \in Pid :
           Records(n, d, p) /\ procs'[n][p] = procs[n][p] =>
             Records(n, d, p)' \/ colod_define(n, d)]_hostVars
  <2> SUFFICES ASSUME Inv, KillTarget, HostTypeOK, [HostNext]_hostVars, ~UNCHANGED hostVars,
                      NEW k \in Node, NEW d \in Domain, NEW p \in Pid,
                      Records(k, d, p), procs'[k][p] = procs[k][p]
               PROVE  Records(k, d, p)' \/ colod_define(k, d)
    OBVIOUS
  <2>1. PICK n \in Node : Command(n) \/ ProcessStep(n) \/ FaultStep(n)
    BY DEF HostNext
  <2>2. CASE k = n
    <3>1. (domains'[k][d] = domains[k][d] /\ up'[k]) \/ colod_define(k, d)
      BY <2>1, <2>2, RecordsStep DEF Known
    <3> QED BY <3>1 DEF Records
  <2>3. CASE k # n
    <3>1. up'[k] = up[k] /\ domains'[k] = domains[k] /\ procs'[k] = procs[k]
      BY <2>1, <2>3, OneHostSteps
    <3> QED BY <3>1 DEF Records
  <2> QED BY <2>2, <2>3
<1> QED BY <1>1, <1>2, <1>3, KillTargetAlways, HostTypeCorrect, PTL DEF HostSpec, VmStaysRecorded
=============================================================================
