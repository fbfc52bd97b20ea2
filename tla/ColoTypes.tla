----------------------------- MODULE ColoTypes -----------------------------
(***************************************************************************)
(* The enumerations and records every part of colod shares                 *)
(* (include/config.h, include/colod.h), and the two maps that turn the     *)
(* role of one host into the role of the other.                            *)
(*                                                                         *)
(* A domain name is a member of Domain, or NoName for the empty string:    *)
(* std::unordered_map::operator[] makes an entry whose name is "" when it  *)
(* is asked for a domain it does not hold.  No domain is named like a      *)
(* status word ("running", "error", ...).                                  *)
(***************************************************************************)
EXTENDS Integers

CONSTANTS
  Node,    \* the hosts, each running one colod
  Domain,  \* the names operators give to virtual machines
  NoName,  \* the empty name
  Pid      \* the process ids a host can hand out

NoPid == -1   \* "not running", in memory and in the save file
ZeroPid == 0  \* the pid of a value-initialised entry; kill(0, 0) always succeeds

ASSUME NameAssumption == NoName \notin Domain
ASSUME PidAssumption == NoPid \notin Pid /\ ZeroPid \notin Pid

Name == Domain \cup {NoName}

COLO_NODE_STATUS == {"none", "primary", "secondary", "error"}
DOMAIN_STATUS == {"shutoff", "start", "running", "colo-enabled", "error"}
COLO_DOMAIN_STATUS == {"none", "primary", "secondary", "failover", "degrade", "dead"}

(***************************************************************************)
(* An entry of rs.domains.  config_file_path is abstracted to whether it   *)
(* names a file at all: YAML::LoadFile throws on the empty path.           *)
(***************************************************************************)
colod_domain_status ==
  [name : Name, pid : Pid \cup {NoPid, ZeroPid}, status : DOMAIN_STATUS,
   colo_enable : BOOLEAN, colo_status : COLO_DOMAIN_STATUS, path : BOOLEAN]

\* What rs.domains[x] yields, and inserts, when x is not in the map.
ZeroEntry ==
  [name |-> NoName, pid |-> ZeroPid, status |-> "shutoff",
   colo_enable |-> FALSE, colo_status |-> "none", path |-> FALSE]

\* (The variants of the two maps are not the code: no role is turned round.)
OppositeNodeKept(r) == IF r = "error" THEN "none" ELSE r
OppositeDomainKept(s) == s

\* The role a host takes when its peer announces role r (peer_colod_save_status).
OppositeNode(r) ==
  CASE r = "primary"   -> "secondary"
    [] r = "secondary" -> "primary"
    [] OTHER           -> "none"

\* The role a domain takes on the peer of a host where it has role s
\* (peer_colod_save_domain): everything but primary is turned into primary.
OppositeDomain(s) == IF s = "primary" THEN "secondary" ELSE "primary"
=============================================================================
