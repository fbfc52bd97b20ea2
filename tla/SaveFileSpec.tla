---------------------------- MODULE SaveFileSpec -----------------------------
(***************************************************************************)
(* What the save file promises to the rest of colod: one record per name,  *)
(* changed by one function of SaveFile at a time, or lost as a whole when  *)
(* colod ends inside a write.  SaveList shows that the YAML list on disk   *)
(* keeps this promise.                                                     *)
(***************************************************************************)
EXTENDS SaveFile

VARIABLE file

FileInit == file = EmptySave

Changes(f, g) ==
  \/ \E d \in Name, p \in BOOLEAN :
       g = save_domain_info(f, [ZeroEntry EXCEPT !.name = d, !.path = p])
  \/ \E d \in Name, pid \in Pid : g = save_domain_pid(f, d, pid)
  \/ \E d \in Name : g = remove_domain_pid(f, d)
  \/ \E d \in Name, r \in {"primary", "secondary"} :
       MaySetColo(f, d) /\ g = set_domain_colo_enable(f, d, r)
  \/ \E d \in Name : MaySetColo(f, d) /\ g = set_domain_colo_disable(f, d)
  \/ \E d \in Name : g = vm_undefine(f, d)
  \/ g = EmptySave

FileNext == Changes(file, file')

FileSpec == FileInit /\ [][FileNext]_file
=============================================================================
