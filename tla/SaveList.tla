------------------------------ MODULE SaveList -------------------------------
(***************************************************************************)
(* save.yaml as it is on disk: a document with a `save_status' map and a   *)
(* `domains' list, and the functions of config_parser.cpp, domain.cpp and  *)
(* colod_service.cpp that load it, walk the list and write it back.  A     *)
(* write is two steps, because std::ofstream truncates the file when it is *)
(* opened: the tool, another process, may read in between, and colod may   *)
(* end there.  The functions throw when a node is not what they expect.    *)
(***************************************************************************)
EXTENDS SaveFile, Yaml, FiniteSets

CONSTANT Address

VARIABLES
  disk,    \* the document a reader finds
  after,   \* the document being written, or NoDocument
  file,    \* the records of the last complete document, by name
  cut      \* whether a write was ever cut short: the sections it held are gone

listVars == <<disk, after, file, cut>>

\* No write is going on.
NoDocument == [type |-> "NoDocument"]

\* The save file of a new installation: only the two directories are set, no domains.
AddressKeys == {"host_ip", "host_user", "host_file_path", "peer_ip", "peer_user", "peer_file_path"}
Shipped ==
  LET Set == {"host_file_path", "peer_file_path"}
  IN MapNode([save_status |-> MapNode([k \in AddressKeys |->
                                         IF k \in Set THEN Text("/usr/local/etc/colod/") ELSE Null]),
              domains |-> Null])

-----------------------------------------------------------------------------
\* The list.  LoadFile of an empty file is a null document.

domains_of(doc) == At(doc, "domains")
NoList(doc)     == ~IsDefined(domains_of(doc)) \/ IsNull(domains_of(doc))
Named(doc, d)   ==
  {i \in 1 .. size(domains_of(doc)) : as_T(At(Item(domains_of(doc), i), "name")) = d}

\* The record with these of its fields set.
SetFields(n, fields) ==
  MapNode([k \in DOMAIN n.pairs \cup DOMAIN fields |->
             IF k \in DOMAIN fields THEN fields[k] ELSE n.pairs[k]])

\* The first record of that name gets the fields, as loops with a break do.
ChangeFirst(doc, d, fields) ==
  LET i == CHOOSE i \in Named(doc, d) : \A j \in Named(doc, d) : i <= j
  IN IF Named(doc, d) = {} THEN doc
     ELSE Put(doc, "domains", Sequence([domains_of(doc).items EXCEPT ![i] = SetFields(@, fields)]))

NewRecord(d, path) ==
  MapNode([name |-> Text(d), path |-> Text(path), pid |-> Number(NoPid),
           status |-> Text("shutoff"), colo_enable |-> Bool(FALSE),
           colo_status |-> Text("none")])

\* (The variant is not the code: a redefined domain is added once more.)
list_save_domain_info_appends(doc, d, path) ==
  Put(doc, "domains", push_back(domains_of(doc), NewRecord(d, path)))

\* Every record of that name is replaced; a new name goes to the end.
list_save_domain_info(doc, d, path) ==
  LET new == NewRecord(d, path)
      doms == domains_of(doc)
  IN IF NoList(doc) \/ Named(doc, d) = {}
     THEN Put(doc, "domains", push_back(doms, new))
     ELSE Put(doc, "domains",
              Sequence([i \in 1 .. size(doms) |-> IF i \in Named(doc, d) THEN new ELSE Item(doms, i)]))

\* save_domain_info gives up on a list that is something else.
WrongFormat(doc) == ~NoList(doc) /\ ~IsSequence(domains_of(doc))

list_save_domain_pid(doc, d, pid) ==
  ChangeFirst(doc, d, [pid |-> Number(pid), status |-> Text("running")])

\* (The variant is not the code: the status stays as it was.)
list_remove_domain_pid_only(doc, d) == ChangeFirst(doc, d, [pid |-> Number(NoPid)])

list_remove_domain_pid(doc, d) ==
  ChangeFirst(doc, d, [pid |-> Number(NoPid), status |-> Text("shutoff")])

ListMaySetColo(doc, d) ==
  \A i \in Named(doc, d) : as_T(At(Item(domains_of(doc), i), "status")) = "shutoff"

list_set_domain_colo_enable(doc, d, cds) ==
  ChangeFirst(doc, d, [colo_enable |-> Bool(TRUE), colo_status |-> Text(cds)])

list_set_domain_colo_disable(doc, d) ==
  ChangeFirst(doc, d, [colo_enable |-> Bool(FALSE)])

\* The others are pushed to a new node, which stays null when there are none.
list_vm_undefine(doc, d) ==
  LET domains[i \in 0 .. size(domains_of(doc))] ==
        IF i = 0 THEN Null
        ELSE IF i \in Named(doc, d) THEN domains[i - 1]
        ELSE push_back(domains[i - 1], Item(domains_of(doc), i))
  IN IF Named(doc, d) = {} THEN doc
     ELSE Put(doc, "domains", domains[size(domains_of(doc))])

save_colo_status(doc, addr) ==
  Put(doc, "save_status", MapNode([k \in AddressKeys |-> Text(addr)]))

-----------------------------------------------------------------------------
\* The readers, and when an exception leaves them.

RecordReads(n) ==
  /\ \A k \in {"name", "path", "status", "colo_status"} : Converts(At(n, k), "string")
  /\ Converts(At(n, "pid"), "number") /\ Converts(At(n, "colo_enable"), "bool")

\* get_connect_status: a null address reads as "null", a missing section throws.
ConnectStatusReads(doc) ==
  \A k \in AddressKeys : Converts(At(At(doc, "save_status"), k), "string")
get_connect_status(doc, k) == as_T(At(At(doc, "save_status"), k))

\* domains_init: the records go into rs.domains in the order of the list.
ListEntry(n) ==
  [name |-> as_T(At(n, "name")), pid |-> as_T(At(n, "pid")), status |-> "shutoff",
   colo_enable |-> as_T(At(n, "colo_enable")), colo_status |-> as_T(At(n, "colo_status")),
   path |-> FALSE]
list_domains_init(doc) ==
  [x \in Name |->
     IF NoList(doc) \/ Named(doc, x) = {} THEN ZeroEntry
     ELSE ListEntry(Item(domains_of(doc),
                         CHOOSE i \in Named(doc, x) : \A j \in Named(doc, x) : j <= i))]

\* get_domain_config_file_path and the loop of get_domain.
HasDomain(doc, d)  == Named(doc, d) # {}
PathNamed(doc, d) == \A i \in Named(doc, d) : as_T(At(Item(domains_of(doc), i), "path"))

-----------------------------------------------------------------------------
(***************************************************************************)
(* The records of the list, by name: what the rest of colod takes the save *)
(* file for.                                                               *)
(***************************************************************************)
Image(doc) ==
  [x \in Name |->
     IF Named(doc, x) = {} THEN NotSaved
     ELSE LET n == Item(domains_of(doc), CHOOSE i \in Named(doc, x) : TRUE)
          IN [saved |-> TRUE, pid |-> as_T(At(n, "pid")), status |-> as_T(At(n, "status")),
              colo_enable |-> as_T(At(n, "colo_enable")),
              colo_status |-> as_T(At(n, "colo_status")), path |-> as_T(At(n, "path"))]]

\* A write: the file is truncated, then holds the new text.
Truncate(doc) ==
  /\ after = NoDocument
  /\ after' = doc /\ disk' = Null /\ UNCHANGED <<file, cut>>

WriteOut ==
  /\ after # NoDocument
  /\ disk' = after /\ after' = NoDocument /\ file' = Image(after) /\ UNCHANGED cut

\* colod ends inside the write; the next one finds an empty file.
EndsInWrite ==
  /\ after # NoDocument
  /\ after' = NoDocument /\ file' = Image(disk) /\ cut' = TRUE
  /\ UNCHANGED disk

\* The documents the handler of a function may write for domain d.
Written(function, d) ==
  CASE function = "define" ->
         IF WrongFormat(disk) THEN {} ELSE {list_save_domain_info(disk, d, TRUE)}
    [] function = "peer-save-domain" ->
         IF WrongFormat(disk) THEN {} ELSE {list_save_domain_info(disk, d, p) : p \in BOOLEAN}
    [] function = "undefine" -> IF HasDomain(disk, d) THEN {list_vm_undefine(disk, d)} ELSE {}
    [] function = "start" -> {list_save_domain_pid(disk, d, pid) : pid \in Pid}
    [] function = "destroy" -> IF NoList(disk) THEN {} ELSE {list_remove_domain_pid(disk, d)}
    [] function = "colo-enable" ->
         IF ListMaySetColo(disk, d)
         THEN {list_set_domain_colo_enable(disk, d, r) : r \in {"primary", "secondary"}} ELSE {}
    [] function = "colo-disable" ->
         IF ListMaySetColo(disk, d) THEN {list_set_domain_colo_disable(disk, d)} ELSE {}
    [] function = "connect-peer" -> {save_colo_status(disk, addr) : addr \in Address}
    [] OTHER -> {}

ListWrite ==
  \E d \in Domain, function \in {"define", "peer-save-domain", "undefine", "start", "destroy",
                                 "colo-enable", "colo-disable", "connect-peer"} :
    \E doc \in Written(function, d) : Truncate(doc)

ListInit == disk = Shipped /\ after = NoDocument /\ file = Image(Shipped) /\ cut = FALSE
ListNext == ListWrite \/ WriteOut \/ EndsInWrite
ListSpec == ListInit /\ [][ListNext]_listVars

-----------------------------------------------------------------------------
Promise == INSTANCE SaveFileSpec

(***************************************************************************)
(* The walks over the YAML list do to the records what the functions of    *)
(* SaveFile do: a list with its records by position (config_parser.cpp     *)
(* 126-227, save_domain_info, vm_undefine) is one record per name.         *)
(***************************************************************************)
ListKeepsPromise == Promise!FileSpec

(***************************************************************************)
(* What one function writes every other can read: no record of a complete  *)
(* file makes domains_init, get_domain or vm_undefine throw, and the next  *)
(* colod loads for each name what was last written for it.                 *)
(***************************************************************************)
ReadersAgree ==
  after = NoDocument =>
    /\ \A i \in 1 .. size(domains_of(disk)) : RecordReads(Item(domains_of(disk), i))
    /\ list_domains_init(disk) = domains_init(file)
    /\ \A d \in Domain : Cardinality(Named(disk, d)) <= 1
=============================================================================
