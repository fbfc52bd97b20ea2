----------------------------- MODULE ColoWiring ------------------------------
(***************************************************************************)
(* What domain.cpp puts together for QEMU out of a definition d and the    *)
(* colo_status cs of the host: the command lines of a plain, a primary and *)
(* a secondary vm, and the lists of QMP commands.  Of a command line only  *)
(* the character devices, the objects that use them, the block devices and *)
(* the migration port are kept: the parts two vms have to agree on.        *)
(***************************************************************************)
EXTENDS VmDefinition

CONSTANT Localhost   \* the loopback address, which every host has

\* A character device; `wait': QEMU goes no further until a client has come.
Listen(id, host, port, wait) ==
  [id |-> id, at |-> <<host, port>>, listens |-> TRUE, wait |-> wait]
Connect(id, host, port) ==
  [id |-> id, at |-> <<host, port>>, listens |-> FALSE, wait |-> FALSE]

Object(id, uses) == [id |-> id, uses |-> uses]

pri(d, port) == d[<<"colo", "pri", port>>]
sec(d, port) == d[<<"colo", "sec", port>>]

\* A return in the middle leaves the arguments added so far, and nobody looks.
KnownOS(d) == d[<<"os", "OS">>] \in {"linux", "windows"}

QemuLine(d, qmp, chardevs, objects, blocks, incoming) ==
  IF KnownOS(d)
  THEN [chardevs |-> {qmp} \cup chardevs, objects |-> objects, blocks |-> blocks,
        incoming |-> incoming]
  ELSE [chardevs |-> {qmp}, objects |-> {}, blocks |-> {}, incoming |-> {}]

-----------------------------------------------------------------------------
generate_vm_cmd(d) ==
  QemuLine(d, Listen("qmp", Localhost, pri(d, "telnet_port"), FALSE),
              {}, {}, {"colo-disk0"}, {})

generate_pvm_cmd(d, cs) ==
  LET host_ip == IF cs.local_status = "primary" THEN cs.host_ip ELSE cs.peer_ip
      Server(id, port, wait) == Listen(id, host_ip, pri(d, port), wait)
      Client(id, port) == Connect(id, host_ip, pri(d, port))
  IN QemuLine(d, Listen("qmp", Localhost, pri(d, "telnet_port"), TRUE),
       {Server("mirror0", "mirror_port", FALSE), Server("compare1", "cmp1_port", TRUE),
        Server("compare0", "cmp0_port", FALSE), Client("compare0-0", "cmp0_port"),
        Server("compare_out", "cmp_out_port", FALSE), Client("compare_out0", "cmp_out_port")},
       {Object("m0", {"mirror0"}), Object("redire0", {"compare_out"}),
        Object("redire1", {"compare0"}), Object("iothread1", {}),
        Object("comp0", {"compare0-0", "compare1", "compare_out0"})},
       {"colo-disk0"}, {})

SvmLine(d, ip) ==
  QemuLine(d, Listen("qmp", Localhost, sec(d, "telnet_port"), TRUE),
       {Connect("red0", ip, sec(d, "red0_port")), Connect("red1", ip, sec(d, "red1_port"))},
       {Object("f1", {"red0"}), Object("f2", {"red1"}), Object("rew0", {})},
       {"colo-disk0", "parent0"}, {sec(d, "migrate_port")})

\* (The variant is not the code: it uses host_ip, which the code computes and leaves.)
generate_svm_cmd_host_ip(d, cs) ==
  SvmLine(d, IF cs.local_status = "secondary" THEN cs.host_ip ELSE cs.peer_ip)

generate_svm_cmd(d, cs) ==
  SvmLine(d, IF cs.local_status = "primary" THEN cs.host_ip ELSE cs.peer_ip)

-----------------------------------------------------------------------------
\* A QMP command: what it does, the device it names ("none" if it names none) and the address
\* it is given.
Qmp(execute, id)        == [execute |-> execute, id |-> id, at |-> << >>]
QmpAt(execute, id, h, p) == [execute |-> execute, id |-> id, at |-> <<h, p>>]
Each(execute, ids)       == [i \in DOMAIN ids |-> Qmp(execute, ids[i])]

capabilities == Qmp("qmp_capabilities", "oob")

\* role: the colo_status of the domain's entry on this host.
generate_pvm_qmpcmd(d, cs, role) ==
  LET snd_ip == IF role = "primary" THEN cs.peer_ip ELSE cs.host_ip
  IN <<capabilities,
       QmpAt("drive_add", "replication0", snd_ip, sec(d, "nbd_port")),
       Qmp("x-blockdev-change-add", "replication0"),
       Qmp("migrate-set-capabilities", "x-colo"),
       Qmp("migrate-set-parameters", "max-bandwidth"),
       QmpAt("migrate", "colo", snd_ip, sec(d, "migrate_port"))>>

\* (The variant is not the code: the disk is exported last.)
generate_svm_qmpcmd_late(d, cs, role) ==
  LET snd_ip == IF role = "primary" THEN cs.peer_ip ELSE cs.host_ip
  IN <<capabilities,
       QmpAt("nbd-server-start", "nbd", snd_ip, sec(d, "nbd_port")),
       Qmp("migrate-set-parameters", "max-bandwidth"),
       Qmp("nbd-server-add", "parent0")>>

generate_svm_qmpcmd(d, cs, role) ==
  LET snd_ip == IF role = "primary" THEN cs.peer_ip ELSE cs.host_ip
  IN <<capabilities,
       QmpAt("nbd-server-start", "nbd", snd_ip, sec(d, "nbd_port")),
       Qmp("nbd-server-add", "parent0"),
       Qmp("migrate-set-parameters", "max-bandwidth")>>

\* The lists of colod_do_failover.
failover_svm_cmds ==
  <<capabilities, Qmp("colo-enable-teardown", "none"), Qmp("nbd-server-stop", "nbd"),
    Qmp("x-colo-lost-heartbeat", "none"), Qmp("query-status", "none")>>
  \o Each("object-del", <<"f2", "f1">>)
  \o Each("chardev-remove", <<"red1", "red0">>)

\* (The variant is not the code: a device is removed before what uses it.)
failover_pvm_cmds_early ==
  <<capabilities, Qmp("colo-enable-teardown", "none"),
    Qmp("x-blockdev-change-del", "children.1"), Qmp("drive_del", "replication0"),
    Qmp("x-colo-lost-heartbeat", "none")>>
  \o Each("object-del", <<"m0", "redire0", "redire1">>)
  \o Each("chardev-remove", <<"mirror0", "compare1", "compare0">>)
  \o Each("object-del", <<"iothread1", "comp0">>)
  \o Each("chardev-remove", <<"compare0-0", "compare_out", "compare_out0">>)

failover_pvm_cmds ==
  <<capabilities, Qmp("colo-enable-teardown", "none"),
    Qmp("x-blockdev-change-del", "children.1"), Qmp("drive_del", "replication0"),
    Qmp("x-colo-lost-heartbeat", "none")>>
  \o Each("object-del", <<"m0", "redire0", "redire1", "iothread1", "comp0">>)
  \o Each("chardev-remove",
          <<"mirror0", "compare1", "compare0", "compare0-0", "compare_out", "compare_out0">>)

\* The list of colod_set_params; a property of another name is refused.
set_params_cmds(property) ==
  IF property = "checkpoint-time"
  THEN <<capabilities, Qmp("migrate-set-parameters", "x-checkpoint-delay")>>
  ELSE <<capabilities, Qmp("qom-set", "comp0")>>

-----------------------------------------------------------------------------
(***************************************************************************)
(* What the two hosts have to get right between them, each on its own.     *)
(* The README pairs red0 with mirror0 and red1 with compare1; two devices  *)
(* of the primary cannot listen on one port.                               *)
(***************************************************************************)
PortsPaired(d) ==
  /\ sec(d, "red0_port") = pri(d, "mirror_port")
  /\ sec(d, "red1_port") = pri(d, "cmp1_port")
  /\ \A x, y \in {"mirror_port", "cmp0_port", "cmp1_port", "cmp_out_port"} :
       pri(d, x) = pri(d, y) => x = y

\* The device that is meant to be at the other end.
Partner(id) ==
  CASE id = "red0"         -> "mirror0"
    [] id = "red1"         -> "compare1"
    [] id = "compare0-0"   -> "compare0"
    [] id = "compare_out0" -> "compare_out"

FindsOnlyPartner(c, devices) ==
  /\ \E o \in devices : o.listens /\ o.id = Partner(c.id)
  /\ \A o \in devices : o.listens => (o.at = c.at <=> o.id = Partner(c.id))

DevicesFit(d, csp, css) ==
  LET p == generate_pvm_cmd(d, csp).chardevs
      s == generate_svm_cmd(d, css).chardevs
  IN /\ \A c \in p \cup s : ~c.listens => FindsOnlyPartner(c, p \cup s)
     /\ \A c \in p : c.listens => c.at[1] \in {Localhost, csp.host_ip}
     /\ \A c \in s : c.listens => c.at[1] \in {Localhost, css.host_ip}

CommandsFit(d, csp, css) ==
  LET p == generate_pvm_qmpcmd(d, csp, "primary")
      s == generate_svm_qmpcmd(d, css, "secondary")
  IN \A i \in DOMAIN p :
       /\ p[i].execute = "drive_add" =>
            \A j \in DOMAIN s : s[j].execute = "nbd-server-start" => p[i].at = s[j].at
       /\ p[i].execute = "migrate" =>
            /\ p[i].at[1] = css.host_ip
            /\ p[i].at[2] \in generate_svm_cmd(d, css).incoming

Fits(d, csp, css) == DevicesFit(d, csp, css) /\ CommandsFit(d, csp, css)
=============================================================================
