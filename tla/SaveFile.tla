------------------------------ MODULE SaveFile ------------------------------
(***************************************************************************)
(* The "domains" list of /usr/local/etc/colod/save.yaml and the functions  *)
(* that load, change and rewrite it (config_parser.cpp, the list handling  *)
(* of domain.cpp and of save_domain_info).                                 *)
(*                                                                         *)
(* A list of nodes with distinct names is a function from names to         *)
(* records; `saved' says whether the name is in the list.  Every function  *)
(* of the code loads the whole file and writes the whole file, so each is  *)
(* an operator from contents to contents.                                  *)
(***************************************************************************)
EXTENDS ColoTypes

SavedDomain ==
  [saved : BOOLEAN, pid : Pid \cup {NoPid}, status : {"shutoff", "running"},
   colo_enable : BOOLEAN, colo_status : COLO_DOMAIN_STATUS, path : BOOLEAN]

SaveContents == [Name -> SavedDomain]

NotSaved ==
  [saved |-> FALSE, pid |-> NoPid, status |-> "shutoff",
   colo_enable |-> FALSE, colo_status |-> "none", path |-> FALSE]

\* An empty file: what a new installation ships, and what a write that is cut
\* short leaves, because std::ofstream truncates before the new text is out.
EmptySave == [x \in Name |-> NotSaved]

\* Adds the domain, or replaces the record of the same name.
save_domain_info(f, ds) ==
  [f EXCEPT ![ds.name] =
     [saved |-> TRUE, pid |-> NoPid, status |-> "shutoff",
      colo_enable |-> FALSE, colo_status |-> "none", path |-> ds.path]]

save_domain_pid(f, d, pid) ==
  IF f[d].saved
  THEN [f EXCEPT ![d] = [@ EXCEPT !.pid = pid, !.status = "running"]]
  ELSE f

\* (The variant is not the code: it clears the pid with 0.)
remove_domain_pid_zero(f, d) ==
  IF f[d].saved
  THEN [f EXCEPT ![d] = [@ EXCEPT !.pid = ZeroPid, !.status = "shutoff"]]
  ELSE f

remove_domain_pid(f, d) ==
  IF f[d].saved
  THEN [f EXCEPT ![d] = [@ EXCEPT !.pid = NoPid, !.status = "shutoff"]]
  ELSE f

\* set_domain_colo_enable and set_domain_colo_disable return -1 ("shutoff
\* domain first") exactly when this does not hold; a missing name is no error.
MaySetColo(f, d) == f[d].saved => f[d].status = "shutoff"

set_domain_colo_enable(f, d, cds) ==
  IF f[d].saved
  THEN [f EXCEPT ![d] = [@ EXCEPT !.colo_enable = TRUE, !.colo_status = cds]]
  ELSE f

set_domain_colo_disable(f, d) ==
  IF f[d].saved THEN [f EXCEPT ![d] = [@ EXCEPT !.colo_enable = FALSE]] ELSE f

\* (The variant is not the code: it spares a domain that is colo-enabled, which
\* the code finds out and does not use.)
vm_undefine_spares(f, d) == IF f[d].colo_enable THEN f ELSE [f EXCEPT ![d] = NotSaved]

vm_undefine(f, d) == [f EXCEPT ![d] = NotSaved]

\* get_domain finds the record and loads the definition file it names ...
GetDomainOk(f, d) == f[d].saved /\ f[d].path

\* ... or YAML::LoadFile("") throws, and nothing in colod catches it.
GetDomainThrows(f, d) == f[d].saved /\ ~f[d].path

\* get_domain_pid returns the pid, or -1 for a missing or stopped domain.
get_domain_pid(f, d) == IF f[d].saved THEN f[d].pid ELSE NoPid

(***************************************************************************)
(* domains_init: rs.domains as colod finds it at start.  The status is     *)
(* looked up by the NAME of the domain, so it is always the map's default, *)
(* shutoff; config_file_path is not read.                                  *)
(***************************************************************************)

\* Variants that are not the code: the status is looked up by the status, or
\* only the domains that have a process are loaded.
domains_init_by_status(f) ==
  [x \in Name |->
     IF f[x].saved
     THEN [name |-> x, pid |-> f[x].pid, status |-> f[x].status,
           colo_enable |-> f[x].colo_enable, colo_status |-> f[x].colo_status,
           path |-> FALSE]
     ELSE ZeroEntry]

domains_init_running(f) ==
  [x \in Name |->
     IF f[x].saved /\ f[x].pid # NoPid
     THEN [name |-> x, pid |-> f[x].pid, status |-> "shutoff",
           colo_enable |-> f[x].colo_enable, colo_status |-> f[x].colo_status,
           path |-> FALSE]
     ELSE ZeroEntry]

domains_init(f) ==
  [x \in Name |->
     IF f[x].saved
     THEN [name |-> x, pid |-> f[x].pid, status |-> "shutoff",
           colo_enable |-> f[x].colo_enable, colo_status |-> f[x].colo_status,
           path |-> FALSE]
     ELSE ZeroEntry]
=============================================================================
