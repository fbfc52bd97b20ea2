------------------------------ MODULE MCVmStart ------------------------------
(***************************************************************************)
(* Two hosts and one domain for VmStart, with the definition the project   *)
(* ships, with a definition that lacks any one field or has any one value  *)
(* of the wrong kind, with the example of README.md, with another operating*)
(* system or QMP port, and with hosts whose roles changed since the domain *)
(* was enabled.                                                            *)
(***************************************************************************)
EXTENDS VmStart

CONSTANTS a, b, MaxCommands, MaxDeaths

MCPeer == a :> b @@ b :> a

VARIABLE spent

mcVars == <<startVars, spent>>

Ports(f) == MapNode([k \in DOMAIN f |-> Number(f[k])])

\* config/default_domain.yaml
default_domain ==
  MapNode(
    [name |-> Text("test"), memory |-> Number(2048), qemu |-> Text("qemu"), vcpu |-> Number(4),
     os |-> MapNode([arch |-> Text("x86_64"), OS |-> Text("linux"), machine |-> Text("pc"),
                     type |-> Text("hvm")]),
     cpu |-> Text("host"),
     disk |-> MapNode([driver |-> Text("qcow2"), size |-> Number(307200), path |-> Text("image"),
                       hidden_path |-> Text("hidden"), active_path |-> Text("active")]),
     display |-> Ports([vnc_port |-> 10]),
     net |-> MapNode([id |-> Text("hn0"), br |-> Text("virbr0"), helper |-> Text("helper"),
                      mac |-> Text("mac")]),
     colo |-> MapNode(
       [pri |-> Ports([telnet_port |-> 4444, mirror_port |-> 9003, cmp0_port |-> 9001,
                       cmp1_port |-> 9004, cmp_out_port |-> 9005]),
        sec |-> Ports([telnet_port |-> 4444, nbd_port |-> 9999, migrate_port |-> 8888,
                       red0_port |-> 9003, red1_port |-> 9004])])])

\* The document with the node at a path put or taken away.
RECURSIVE With(_, _, _)
With(n, path, v) ==
  IF Len(path) = 1 THEN Put(n, path[1], v)
  ELSE Put(n, path[1], With(Get(n, path[1]), Tail(path), v))

Drop(n, key) == MapNode([k \in DOMAIN n.pairs \ {key} |-> n.pairs[k]])

Without(n, path) ==
  IF Len(path) = 1 THEN Drop(n, path[1])
  ELSE With(n, Front(path), Drop(NodeAt(n, Front(path)), Last(path)))

\* The example of README.md (lines 51-86): like the shipped file, but with no os.OS and
\* no display, and with a list of ports nothing reads.
example ==
  With(Without(Without(default_domain, <<"os", "OS">>), <<"display">>), <<"colo", "ports">>,
       Sequence(<<Number(9003), Number(9004), Number(9005), Number(9006), Number(9007)>>))

\* Every other definition differs from the shipped one in at most one place.  (A number
\* where a text is wanted is a text.)
Shipped == [path |-> << >>, put |-> "nothing"]
Example == [path |-> << >>, put |-> "example"]
Others  == {[path |-> <<"os", "OS">>, put |-> "word"],
            [path |-> <<"colo", "pri", "telnet_port">>, put |-> "other port"],
            [path |-> << >>, put |-> "word"], [path |-> << >>, put |-> "null"]}
Paths   == {f.path : f \in ToSet(Fields)} \cup {<<"name">>}
Ported  == {f.path : f \in {g \in ToSet(Fields) : g.type = "port"}}
Place ==
  {Shipped, Example} \cup Others
  \cup [path : Paths, put : {"missing", "null", "word", "map", "sequence"}]
  \cup [path : Ported, put : {"too large"}] \cup [path : {<<"name">>}, put : {"save"}]

NodePut(put) ==
  CASE put = "null"       -> Null
    [] put = "example"    -> example
    [] put = "word"       -> Text("word")
    [] put = "save"       -> Text("save")
    [] put = "map"        -> MapNode([x |-> Null])
    [] put = "sequence"   -> Sequence(<<Null>>)
    [] put = "too large"  -> Number(65536)
    [] put = "other port" -> Number(4445)

MCDocument ==
  (Shipped :> default_domain)
  @@ [p \in Place \ {Shipped} |->
        CASE p.put = "missing" -> Without(default_domain, p.path)
          [] p.path = << >>    -> NodePut(p.put)
          [] OTHER             -> With(default_domain, p.path, NodePut(p.put))]

Opposite(r) == IF r = "primary" THEN "secondary" ELSE "primary"
RoleOf(n) == IF n = a THEN "primary" ELSE "secondary"

\* Changed roles are tried with the shipped definition.
MCInit ==
  /\ definition \in DOMAIN Document
  /\ \/ local_status = [n \in Node |-> RoleOf(n)]
     \/ definition = Shipped /\ local_status = [n \in Node |-> Opposite(RoleOf(n))]
  /\ entry = [n \in Node |-> [status |-> "shutoff", colo_status |-> RoleOf(n)]]
  /\ StartInit
  /\ spent = [commands |-> 0, deaths |-> 0]

Spend(what, limit) == spent[what] < limit /\ spent' = [spent EXCEPT ![what] = @ + 1]

MCNext ==
  \E n \in Node :
    \/ n = a /\ define(n) /\ UNCHANGED spent
    \/ /\ definition \in {Shipped} \cup Others
       /\ started = {} /\ \E colo_enable \in BOOLEAN : colod_start(n, colo_enable)
       /\ UNCHANGED spent
    \/ /\ definition = Shipped /\ local_status[a] = RoleOf(a)
       /\ \/ started # {} /\ colod_start(n, TRUE)
          \/ \E property \in PropertyName : colod_set_params(n, property)
          \/ colod_do_failover(n)
       /\ Spend("commands", MaxCommands)
    \/ (ColodStep(n) \/ VmStep(n) \/ timed_out(n) \/ vm_event(n)) /\ UNCHANGED spent
    \/ vm_dies(n) /\ Spend("deaths", MaxDeaths)

MCSpec == /\ MCInit /\ [][MCNext]_mcVars
          /\ \A n \in Node : WF_mcVars(ColodStep(n) /\ UNCHANGED spent)
          /\ \A n \in Node : WF_mcVars(VmStep(n) /\ UNCHANGED spent)
=============================================================================
