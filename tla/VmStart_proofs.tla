--------------------------- MODULE VmStart_proofs ----------------------------
(***************************************************************************)
(* The command lines of a primary and a secondary vm fit together for all  *)
(* port numbers, addresses and documents, every document is refused that   *)
(* lacks a field, the two hosts' conversations come in the right order,    *)
(* and do-failover leaves nothing of a start behind: not only for the      *)
(* shipped definition and those that differ from it in one place, with     *)
(* which the model checker runs.                                           *)
(***************************************************************************)
EXTENDS VmStart, WellFoundedInduction, TLAPS

(***************************************************************************)
(* The two hosts have the roles of their vms and know each other, and the  *)
(* definition pairs the ports.                                             *)
(***************************************************************************)
Fitting(d, csp, css) ==
  /\ KnownOS(d) /\ PortsPaired(d)
  /\ csp.local_status = "primary" /\ css.local_status = "secondary"
  /\ csp.peer_ip = css.host_ip /\ css.peer_ip = csp.host_ip
  /\ csp.host_ip # Localhost /\ css.host_ip # Localhost

\* A port is no other port of the primary.
LEMMA PortsDiffer ==
  ASSUME NEW d, PortsPaired(d)
  PROVE  /\ pri(d, "mirror_port") # pri(d, "cmp0_port")
         /\ pri(d, "mirror_port") # pri(d, "cmp1_port")
         /\ pri(d, "mirror_port") # pri(d, "cmp_out_port")
         /\ pri(d, "cmp0_port") # pri(d, "cmp1_port")
         /\ pri(d, "cmp0_port") # pri(d, "cmp_out_port")
         /\ pri(d, "cmp1_port") # pri(d, "cmp_out_port")
         /\ sec(d, "red0_port") = pri(d, "mirror_port")
         /\ sec(d, "red1_port") = pri(d, "cmp1_port")
BY DEF PortsPaired

\* The character devices of a primary's command line (generate_pvm_cmd).
LEMMA PrimaryDevices ==
  ASSUME NEW d, NEW csp, NEW css, Fitting(d, csp, css)
  PROVE  generate_pvm_cmd(d, csp).chardevs =
           {Listen("qmp", Localhost, pri(d, "telnet_port"), TRUE),
            Listen("mirror0", csp.host_ip, pri(d, "mirror_port"), FALSE),
            Listen("compare1", csp.host_ip, pri(d, "cmp1_port"), TRUE),
            Listen("compare0", csp.host_ip, pri(d, "cmp0_port"), FALSE),
            Connect("compare0-0", csp.host_ip, pri(d, "cmp0_port")),
            Listen("compare_out", csp.host_ip, pri(d, "cmp_out_port"), FALSE),
            Connect("compare_out0", csp.host_ip, pri(d, "cmp_out_port"))}
BY DEF generate_pvm_cmd, QemuLine, Fitting

\* The character devices and the migration port of a secondary's (generate_svm_cmd).
LEMMA SecondaryDevices ==
  ASSUME NEW d, NEW csp, NEW css, Fitting(d, csp, css)
  PROVE  /\ generate_svm_cmd(d, css).chardevs =
              {Listen("qmp", Localhost, sec(d, "telnet_port"), TRUE),
               Connect("red0", csp.host_ip, pri(d, "mirror_port")),
               Connect("red1", csp.host_ip, pri(d, "cmp1_port"))}
         /\ generate_svm_cmd(d, css).incoming = {sec(d, "migrate_port")}
BY PortsDiffer DEF generate_svm_cmd, SvmLine, QemuLine, Fitting

(***************************************************************************)
(* Each of the four devices that connect finds the one meant for it and no *)
(* other, and each device that listens does so on its own host.            *)
(***************************************************************************)
LEMMA DevicesMeet ==
  ASSUME NEW d, NEW csp, NEW css, Fitting(d, csp, css)
  PROVE  DevicesFit(d, csp, css)
<1> DEFINE p == generate_pvm_cmd(d, csp).chardevs
           s == generate_svm_cmd(d, css).chardevs
           Server(id, port, wait) == Listen(id, csp.host_ip, pri(d, port), wait)
           Client(id, port) == Connect(id, csp.host_ip, pri(d, port))
           listening == {Listen("qmp", Localhost, pri(d, "telnet_port"), TRUE),
                         Listen("qmp", Localhost, sec(d, "telnet_port"), TRUE),
                         Server("mirror0", "mirror_port", FALSE),
                         Server("compare1", "cmp1_port", TRUE),
                         Server("compare0", "cmp0_port", FALSE),
                         Server("compare_out", "cmp_out_port", FALSE)}
           connecting == {Client("red0", "mirror_port"), Client("red1", "cmp1_port"),
                          Client("compare0-0", "cmp0_port"),
                          Client("compare_out0", "cmp_out_port")}
<1>1. p \cup s = listening \cup connecting
  <2>1. p = {Listen("qmp", Localhost, pri(d, "telnet_port"), TRUE),
             Server("mirror0", "mirror_port", FALSE), Server("compare1", "cmp1_port", TRUE),
             Server("compare0", "cmp0_port", FALSE), Client("compare0-0", "cmp0_port"),
             Server("compare_out", "cmp_out_port", FALSE),
             Client("compare_out0", "cmp_out_port")}
    BY PrimaryDevices
  <2>2. s = {Listen("qmp", Localhost, sec(d, "telnet_port"), TRUE),
             Client("red0", "mirror_port"), Client("red1", "cmp1_port")}
    BY SecondaryDevices
  <2> HIDE DEF p, s, Server, Client
  <2> QED
    BY <2>1, <2>2
<1>2. (\A o \in listening : o.listens) /\ (\A c \in connecting : ~c.listens)
  BY DEF Listen, Connect
<1>3. ASSUME NEW c \in connecting
      PROVE  FindsOnlyPartner(c, p \cup s)
  <2>1. \E o \in listening : o.id = Partner(c.id)
    BY DEF Listen, Connect, Partner
  <2>2. ASSUME NEW o \in listening
        PROVE  o.at = c.at <=> o.id = Partner(c.id)
    <3>1. Localhost # csp.host_ip /\ PortsPaired(d)
      BY DEF Fitting
    <3>2. CASE c = Client("red0", "mirror_port")
      BY <3>1, <3>2, PortsDiffer DEF Listen, Connect, Partner
    <3>3. CASE c = Client("red1", "cmp1_port")
      BY <3>1, <3>3, PortsDiffer DEF Listen, Connect, Partner
    <3>4. CASE c = Client("compare0-0", "cmp0_port")
      BY <3>1, <3>4, PortsDiffer DEF Listen, Connect, Partner
    <3>5. CASE c = Client("compare_out0", "cmp_out_port")
      BY <3>1, <3>5, PortsDiffer DEF Listen, Connect, Partner
    <3> QED
      BY <3>2, <3>3, <3>4, <3>5
  <2> QED
    BY <1>1, <1>2, <2>1, <2>2 DEF FindsOnlyPartner
<1>4. \A c \in p : c.listens => c.at[1] \in {Localhost, csp.host_ip}
  BY PrimaryDevices DEF Listen, Connect
<1>5. \A c \in s : c.listens => c.at[1] \in {Localhost, css.host_ip}
  BY SecondaryDevices DEF Listen, Connect
<1>6. \A c \in p \cup s : ~c.listens => FindsOnlyPartner(c, p \cup s)
  BY <1>1, <1>2, <1>3
<1> QED
  BY <1>4, <1>5, <1>6 DEF DevicesFit

\* The positions of a list of six commands.
LEMMA SixPositions ==
  ASSUME NEW c1, NEW c2, NEW c3, NEW c4, NEW c5, NEW c6
  PROVE  DOMAIN <<c1, c2, c3, c4, c5, c6>> = 1 .. 6
OBVIOUS

(***************************************************************************)
(* The disk is mirrored to the address at which it is served, and the      *)
(* migration goes to the port the secondary waits at.                      *)
(***************************************************************************)
LEMMA CommandsMeet ==
  ASSUME NEW d, NEW csp, NEW css, Fitting(d, csp, css)
  PROVE  CommandsFit(d, csp, css)
<1> DEFINE p == generate_pvm_qmpcmd(d, csp, "primary")
           s == generate_svm_qmpcmd(d, css, "secondary")
<1>1. csp.peer_ip = css.host_ip
  BY DEF Fitting
<1>2. p = <<capabilities,
            QmpAt("drive_add", "replication0", css.host_ip, sec(d, "nbd_port")),
            Qmp("x-blockdev-change-add", "replication0"),
            Qmp("migrate-set-capabilities", "x-colo"),
            Qmp("migrate-set-parameters", "max-bandwidth"),
            QmpAt("migrate", "colo", css.host_ip, sec(d, "migrate_port"))>>
  BY <1>1 DEF generate_pvm_qmpcmd
<1>3. s = <<capabilities,
            QmpAt("nbd-server-start", "nbd", css.host_ip, sec(d, "nbd_port")),
            Qmp("nbd-server-add", "parent0"),
            Qmp("migrate-set-parameters", "max-bandwidth")>>
  BY DEF generate_svm_qmpcmd
<1>4. generate_svm_cmd(d, css).incoming = {sec(d, "migrate_port")}
  BY SecondaryDevices
<1> HIDE DEF p, s
<1>5. ASSUME NEW i \in DOMAIN p
      PROVE  /\ p[i].execute = "drive_add" => p[i].at = <<css.host_ip, sec(d, "nbd_port")>>
             /\ p[i].execute = "migrate" => p[i].at = <<css.host_ip, sec(d, "migrate_port")>>
  <2>1. i \in 1 .. 6
    BY <1>2, SixPositions
  <2>2. CASE i = 1
    BY <1>2, <2>2 DEF capabilities, Qmp
  <2>3. CASE i = 2
    BY <1>2, <2>3 DEF QmpAt
  <2>4. p[3].execute \notin {"drive_add", "migrate"} /\ p[4].execute \notin {"drive_add", "migrate"}
        /\ p[5].execute \notin {"drive_add", "migrate"}
    BY <1>2 DEF Qmp
  <2>5. CASE i = 6
    BY <1>2, <2>5 DEF QmpAt
  <2> QED
    BY <2>1, <2>2, <2>3, <2>4, <2>5
<1>6. ASSUME NEW j \in DOMAIN s, s[j].execute = "nbd-server-start"
      PROVE  s[j].at = <<css.host_ip, sec(d, "nbd_port")>>
  <2>1. j \in 1 .. 4
    BY <1>3
  <2>2. j # 1
    BY <1>3, <1>6 DEF capabilities, Qmp
  <2>3. j \notin 3 .. 4
    BY <1>3, <1>6 DEF Qmp
  <2> QED
    BY <1>3, <2>1, <2>2, <2>3 DEF QmpAt
<1>7. ASSUME NEW i \in DOMAIN p, p[i].execute = "migrate"
      PROVE  p[i].at[1] = css.host_ip /\ p[i].at[2] \in generate_svm_cmd(d, css).incoming
  <2>1. p[i].at = <<css.host_ip, sec(d, "migrate_port")>>
    BY <1>5, <1>7
  <2> QED
    BY <2>1, <1>4
<1> QED
  BY <1>5, <1>6, <1>7 DEF CommandsFit, p, s

(***************************************************************************)
(* Whatever the definitions, wherever the start stands: the two command    *)
(* lines of a primary and a secondary vm fit together.                     *)
(***************************************************************************)
THEOREM ChannelsAlwaysMeet == StartSpec => []ChannelsMeet
<1>1. ChannelsMeet
  <2> SUFFICES ASSUME NEW p \in Node, NEW s \in Node,
                      vm[p].kind = "pvm", vm[s].kind = "svm", Paired
               PROVE  Fits(domain, cs(p), cs(s))
    BY DEF ChannelsMeet
  <2>1. p # s /\ Peer[p] = s /\ Peer[s] = p
    BY PeerAssumption
  <2>2. Fitting(domain, cs(p), cs(s))
    BY <2>1, LocalhostAssumption DEF Paired, Whole, Fitting, cs
  <2> QED
    BY <2>2, DevicesMeet, CommandsMeet DEF Fits
<1> QED
  BY <1>1, PTL

-----------------------------------------------------------------------------
(***************************************************************************)
(* The reading of a definition.  Fields is a list put together from ten,   *)
(* most of them made from their keys: the lemmas say what stands at which  *)
(* index, and from that where the sections of each field are; then what    *)
(* the readings of the fields say of the document.                         *)
(***************************************************************************)

\* The smallest index of a set of them.
LEMMA FirstOf ==
  ASSUME NEW S, S \subseteq Nat, S # {}
  PROVE  Min(S) \in S /\ \A y \in S : Min(S) <= y
<1> DEFINE R == OpToRel(<, Nat)
<1>1. IsWellFoundedOn(R, Nat)
  BY NatLessThanWellFounded
<1>2. \A x, y \in Nat : x < y => <<x, y>> \in R
  BY DEF OpToRel
<1> HIDE DEF R
<1>3. PICK x \in S : \A y \in S : ~(<<y, x>> \in R)
  BY <1>1, WFMin
<1>4. \E z \in S : \A y \in S : z <= y
  <2>1. x \in Nat /\ S \subseteq Nat
    OBVIOUS
  <2>2. \A y \in S : ~(y < x)
    BY <1>2, <1>3, <2>1, Zenon
  <2>3. \A y \in S : x <= y
    BY <2>1, <2>2
  <2> QED
    BY <2>3
<1> QED
  BY <1>4 DEF Min

\* A node on a path of one, two or three keys.
LEMMA NodeOnPath ==
  /\ \A config, k1 : NodeAt(config, <<k1>>) = Get(config, k1)
  /\ \A config, k1, k2 : NodeAt(config, <<k1, k2>>) = Get(Get(config, k1), k2)
  /\ \A config, k1, k2, k3 : NodeAt(config, <<k1, k2, k3>>) = Get(Get(Get(config, k1), k2), k3)
<1>1. ASSUME NEW config, NEW path, Len(path) \in 1 .. 3
      PROVE  NodeAt(config, path) =
               IF Len(path) = 1 THEN Get(config, path[1])
               ELSE IF Len(path) = 2 THEN Get(Get(config, path[1]), path[2])
               ELSE Get(Get(Get(config, path[1]), path[2]), path[3])
  <2> DEFINE n == Len(path)
             one == Get(config, path[1])
             two == Get(one, path[2])
             upTo[i \in 0 .. n] == IF i = 0 THEN config ELSE Get(upTo[i - 1], path[i])
             h == [i \in 0 .. n |-> IF i = 0 THEN config ELSE IF i = 1 THEN one
                                    ELSE IF i = 2 THEN two ELSE Get(two, path[3])]
  <2>0. n \in Nat /\ n \in {1, 2, 3} /\ n = Len(path)
    BY <1>1
  <2>1. NodeAt(config, path) = upTo[n]
    BY DEF NodeAt
  <2>2. h = [i \in 0 .. n |-> IF i = 0 THEN config ELSE Get(h[i - 1], path[i])]
    <3>1. ASSUME NEW i \in 0 .. n
          PROVE  h[i] = IF i = 0 THEN config ELSE Get(h[i - 1], path[i])
      <4>1. i \in {0, 1, 2, 3}
        <5> HIDE DEF n
        <5> QED
          BY <2>0
      <4>2. CASE i = 0
        BY <4>2
      <4>3. CASE i = 1
        <5>1. h[0] = config /\ h[1] = one
          BY <4>3
        <5> QED
          BY <5>1, <4>3
      <4>4. CASE i = 2
        <5>1. h[1] = one /\ h[2] = two
          BY <4>4
        <5> QED
          BY <5>1, <4>4
      <4>5. CASE i = 3
        <5>1. h[2] = two /\ h[3] = Get(two, path[3])
          BY <4>5
        <5> QED
          BY <5>1, <4>5
      <4> QED
        BY <4>1, <4>2, <4>3, <4>4, <4>5
    <3> QED
      BY <3>1
  <2>3. upTo = [i \in 0 .. n |-> IF i = 0 THEN config ELSE Get(upTo[i - 1], path[i])]
    <3> DEFINE IsLoop(g) == g = [i \in 0 .. n |-> IF i = 0 THEN config ELSE Get(g[i - 1], path[i])]
    <3>1. upTo = CHOOSE g : IsLoop(g)
      OBVIOUS
    <3>2. IsLoop(h)
      BY <2>2
    <3> HIDE DEF h, IsLoop
    <3>3. \E g : IsLoop(g)
      BY <3>2
    <3>4. IsLoop(CHOOSE g : IsLoop(g))
      BY <3>3
    <3>5. IsLoop(upTo)
      BY <3>1, <3>4
    <3> QED
      BY <3>5 DEF IsLoop
  <2> HIDE DEF upTo, h
  <2>4. \A i \in 0 .. n : upTo[i] = IF i = 0 THEN config ELSE Get(upTo[i - 1], path[i])
    BY <2>3, Zenon
  <2>5. upTo[1] = one
    <3>1. 0 \in 0 .. n /\ 1 \in 0 .. n /\ 1 # 0 /\ 1 - 1 = 0
      BY <2>0
    <3>2. upTo[0] = config
      BY <2>4, <3>1
    <3>3. upTo[1] = Get(upTo[1 - 1], path[1])
      BY <2>4, <3>1
    <3> QED
      BY <3>1, <3>2, <3>3
  <2>6. n # 1 => upTo[2] = two
    <3> SUFFICES ASSUME n # 1 PROVE upTo[2] = two
      OBVIOUS
    <3>1. 2 \in 0 .. n /\ 2 # 0 /\ 2 - 1 = 1
      BY <2>0
    <3>2. upTo[2] = Get(upTo[2 - 1], path[2])
      BY <2>4, <3>1
    <3> QED
      BY <3>1, <3>2, <2>5
  <2>7. n = 3 => upTo[3] = Get(two, path[3])
    <3> SUFFICES ASSUME n = 3 PROVE upTo[3] = Get(two, path[3])
      OBVIOUS
    <3>1. 3 \in 0 .. n /\ 3 # 0 /\ 3 - 1 = 2
      BY <2>0
    <3>2. upTo[3] = Get(upTo[3 - 1], path[3])
      BY <2>4, <3>1
    <3> QED
      BY <3>1, <3>2, <2>0, <2>6
  <2> HIDE DEF n, one, two
  <2>8. NodeAt(config, path) =
          IF n = 1 THEN one ELSE IF n = 2 THEN two ELSE Get(two, path[3])
    BY <2>0, <2>1, <2>5, <2>6, <2>7
  <2> QED
    BY <2>8 DEF n, one, two
<1>2. \A a, b, c : /\ Len(<<a>>) = 1 /\ <<a>>[1] = a
                   /\ Len(<<a, b>>) = 2 /\ <<a, b>>[1] = a /\ <<a, b>>[2] = b
                   /\ Len(<<a, b, c>>) = 3 /\ <<a, b, c>>[1] = a /\ <<a, b, c>>[2] = b
                   /\ <<a, b, c>>[3] = c
  OBVIOUS
<1>3. ASSUME NEW config, NEW k1
      PROVE  NodeAt(config, <<k1>>) = Get(config, k1)
  BY <1>1, <1>2
<1>4. ASSUME NEW config, NEW k1, NEW k2
      PROVE  NodeAt(config, <<k1, k2>>) = Get(Get(config, k1), k2)
  BY <1>1, <1>2
<1>5. ASSUME NEW config, NEW k1, NEW k2, NEW k3
      PROVE  NodeAt(config, <<k1, k2, k3>>) = Get(Get(Get(config, k1), k2), k3)
  BY <1>1, <1>2
<1> QED
  BY <1>3, <1>4, <1>5

\* A list of n elements; one of m elements and another of n behind it.
AList(s, n) == \E S : s \in Seq(S) /\ Len(s) = n

Behind(u, s, t, m, n) ==
  /\ AList(u, m + n)
  /\ \A i \in 1 .. m : u[i] = s[i]
  /\ \A i \in 1 .. n : u[m + i] = t[i]

\* Lists that are written out.
LEMMA TuplesAreLists ==
  \A a, b, c, d, e : /\ AList(<<a>>, 1) /\ AList(<<a, b>>, 2) /\ AList(<<a, b, c>>, 3)
                     /\ AList(<<a, b, c, d>>, 4) /\ AList(<<a, b, c, d, e>>, 5)
<1> TAKE a, b, c, d, e
<1> DEFINE S == {a, b, c, d, e}
<1>1. a \in S /\ b \in S /\ c \in S /\ d \in S /\ e \in S
  OBVIOUS
<1> HIDE DEF S
<1>2. /\ <<a>> \in Seq(S) /\ Len(<<a>>) = 1
      /\ <<a, b>> \in Seq(S) /\ Len(<<a, b>>) = 2
      /\ <<a, b, c>> \in Seq(S) /\ Len(<<a, b, c>>) = 3
      /\ <<a, b, c, d>> \in Seq(S) /\ Len(<<a, b, c, d>>) = 4
      /\ <<a, b, c, d, e>> \in Seq(S) /\ Len(<<a, b, c, d, e>>) = 5
  BY <1>1
<1> QED
  BY <1>2, Zenon DEF AList

\* A list and another behind it.
LEMMA Joined ==
  \A s, t : \A m, n \in Nat : AList(s, m) /\ AList(t, n) => Behind(s \o t, s, t, m, n)
<1> TAKE s, t
<1> TAKE m, n \in Nat
<1> HAVE AList(s, m) /\ AList(t, n)
<1>1. PICK S : s \in Seq(S) /\ Len(s) = m
  BY DEF AList
<1>2. PICK T : t \in Seq(T) /\ Len(t) = n
  BY DEF AList
<1> DEFINE U == S \cup T
<1>3. s \in Seq(U) /\ t \in Seq(U)
  BY <1>1, <1>2
<1> HIDE DEF U
<1>4. /\ s \o t \in Seq(U) /\ Len(s \o t) = m + n
      /\ \A i \in 1 .. m : (s \o t)[i] = s[i]
      /\ \A i \in 1 .. n : (s \o t)[m + i] = t[i]
  BY <1>1, <1>2, <1>3
<1>5. AList(s \o t, m + n)
  BY <1>4 DEF AList
<1> QED
  BY <1>4, <1>5, Zenon DEF Behind

\* The fields of one section.
OfSection(s, T, pre, keys, n) ==
  /\ AList(s, n)
  /\ \A i \in 1 .. n : s[i] = Value(T, Append(pre, keys[i]))

\* ... are as many as the keys, each at its key behind the section.
LEMMA ValuesAre ==
  \A T, pre, keys : \A n \in Nat :
     AList(keys, n) => OfSection(Values(T, pre, keys), T, pre, keys, n)
<1> TAKE T, pre, keys
<1> TAKE n \in Nat
<1> HAVE AList(keys, n)
<1>1. DOMAIN keys = 1 .. n
  BY DEF AList
<1> DEFINE G(i) == Value(T, Append(pre, keys[i]))
           V == {G(i) : i \in 1 .. n}
<1>2. Values(T, pre, keys) = [i \in 1 .. n |-> G(i)]
  BY <1>1, Zenon DEF Values
<1>3. \A i \in 1 .. n : G(i) \in V
  OBVIOUS
<1> HIDE DEF G, V
<1>4. [i \in 1 .. n |-> G(i)] \in Seq(V) /\ Len([i \in 1 .. n |-> G(i)]) = n
  BY <1>3
<1>5. AList(Values(T, pre, keys), n)
  BY <1>2, <1>4, Zenon DEF AList
<1>6. \A i \in 1 .. n : Values(T, pre, keys)[i] = G(i)
  BY <1>2
<1> QED
  BY <1>5, <1>6, Zenon DEF G, OfSection

\* A list made of ten.
IsTable(all, b1, b2, b3, b4, b5, b6, b7, b8, b9, b10) ==
  /\ AList(all, 35)
  /\ \A i \in 1 .. 4 : all[0 + i] = b1[i]
  /\ \A i \in 1 .. 4 : all[4 + i] = b2[i]
  /\ \A i \in 1 .. 4 : all[8 + i] = b3[i]
  /\ \A i \in 1 .. 3 : all[12 + i] = b4[i]
  /\ \A i \in 1 .. 3 : all[15 + i] = b5[i]
  /\ \A i \in 1 .. 4 : all[18 + i] = b6[i]
  /\ \A i \in 1 .. 2 : all[22 + i] = b7[i]
  /\ \A i \in 1 .. 5 : all[24 + i] = b8[i]
  /\ \A i \in 1 .. 1 : all[29 + i] = b9[i]
  /\ \A i \in 1 .. 5 : all[30 + i] = b10[i]

\* Ten lists one behind the other: each stands where it begins.
LEMMA TenBehind ==
  ASSUME NEW b1, NEW b2, NEW b3, NEW b4, NEW b5, NEW b6, NEW b7, NEW b8, NEW b9, NEW b10,
         NEW s2, NEW s3, NEW s4, NEW s5, NEW s6, NEW s7, NEW s8, NEW s9, NEW s10,
         Behind(s2, b1, b2, 4, 4),
         Behind(s3, s2, b3, 8, 4),
         Behind(s4, s3, b4, 12, 3),
         Behind(s5, s4, b5, 15, 3),
         Behind(s6, s5, b6, 18, 4),
         Behind(s7, s6, b7, 22, 2),
         Behind(s8, s7, b8, 24, 5),
         Behind(s9, s8, b9, 29, 1),
         Behind(s10, s9, b10, 30, 5)
  PROVE  IsTable(s10, b1, b2, b3, b4, b5, b6, b7, b8, b9, b10)
<1>2. /\ \A i \in 1 .. 4 : s2[i] = b1[i]
      /\ \A i \in 1 .. 4 : s2[4 + i] = b2[i]
  BY DEF Behind
<1>3. /\ \A i \in 1 .. 8 : s3[i] = s2[i]
      /\ \A i \in 1 .. 4 : s3[8 + i] = b3[i]
  BY DEF Behind
<1>4. /\ \A i \in 1 .. 12 : s4[i] = s3[i]
      /\ \A i \in 1 .. 3 : s4[12 + i] = b4[i]
  BY DEF Behind
<1>5. /\ \A i \in 1 .. 15 : s5[i] = s4[i]
      /\ \A i \in 1 .. 3 : s5[15 + i] = b5[i]
  BY DEF Behind
<1>6. /\ \A i \in 1 .. 18 : s6[i] = s5[i]
      /\ \A i \in 1 .. 4 : s6[18 + i] = b6[i]
  BY DEF Behind
<1>7. /\ \A i \in 1 .. 22 : s7[i] = s6[i]
      /\ \A i \in 1 .. 2 : s7[22 + i] = b7[i]
  BY DEF Behind
<1>8. /\ \A i \in 1 .. 24 : s8[i] = s7[i]
      /\ \A i \in 1 .. 5 : s8[24 + i] = b8[i]
  BY DEF Behind
<1>9. /\ \A i \in 1 .. 29 : s9[i] = s8[i]
      /\ \A i \in 1 .. 1 : s9[29 + i] = b9[i]
  BY DEF Behind
<1>10. /\ \A i \in 1 .. 30 : s10[i] = s9[i]
      /\ \A i \in 1 .. 5 : s10[30 + i] = b10[i]
  BY DEF Behind
<1>13. \A i \in 1 .. 30 : s10[i] = s9[i]
  BY <1>10
<1>14. \A i \in 1 .. 29 : s10[i] = s8[i]
  BY <1>9, <1>13
<1>15. \A i \in 1 .. 24 : s10[i] = s7[i]
  BY <1>8, <1>14
<1>16. \A i \in 1 .. 22 : s10[i] = s6[i]
  BY <1>7, <1>15
<1>17. \A i \in 1 .. 18 : s10[i] = s5[i]
  BY <1>6, <1>16
<1>18. \A i \in 1 .. 15 : s10[i] = s4[i]
  BY <1>5, <1>17
<1>19. \A i \in 1 .. 12 : s10[i] = s3[i]
  BY <1>4, <1>18
<1>20. \A i \in 1 .. 8 : s10[i] = s2[i]
  BY <1>3, <1>19
<1>21. \A i \in 1 .. 4 : s10[i] = b1[i]
  BY <1>2, <1>20
<1>22. \A i \in 1 .. 4 : s10[0 + i] = b1[i]
  BY <1>21
<1>23. \A i \in 1 .. 4 : s10[4 + i] = b2[i]
  BY <1>2, <1>20
<1>24. \A i \in 1 .. 4 : s10[8 + i] = b3[i]
  BY <1>3, <1>19
<1>25. \A i \in 1 .. 3 : s10[12 + i] = b4[i]
  BY <1>4, <1>18
<1>26. \A i \in 1 .. 3 : s10[15 + i] = b5[i]
  BY <1>5, <1>17
<1>27. \A i \in 1 .. 4 : s10[18 + i] = b6[i]
  BY <1>6, <1>16
<1>28. \A i \in 1 .. 2 : s10[22 + i] = b7[i]
  BY <1>7, <1>15
<1>29. \A i \in 1 .. 5 : s10[24 + i] = b8[i]
  BY <1>8, <1>14
<1>30. \A i \in 1 .. 1 : s10[29 + i] = b9[i]
  BY <1>9, <1>13
<1>31. \A i \in 1 .. 5 : s10[30 + i] = b10[i]
  BY <1>10
<1>32. AList(s10, 35)
  BY DEF Behind
<1> QED
  BY <1>22, <1>23, <1>24, <1>25, <1>26, <1>27, <1>28, <1>29, <1>30, <1>31, <1>32 DEF IsTable

\* ... as the table of their elements.
LEMMA TenJoined ==
  ASSUME NEW b1, NEW b2, NEW b3, NEW b4, NEW b5, NEW b6, NEW b7, NEW b8, NEW b9, NEW b10,
         AList(b1, 4), AList(b2, 4), AList(b3, 4), AList(b4, 3), AList(b5, 3),
         AList(b6, 4), AList(b7, 2), AList(b8, 5), AList(b9, 1), AList(b10, 5)
  PROVE  IsTable(b1 \o b2 \o b3 \o b4 \o b5 \o b6 \o b7 \o b8 \o b9 \o b10,
                 b1, b2, b3, b4, b5, b6, b7, b8, b9, b10)
<1>0. /\ 1 \in Nat /\ 2 \in Nat /\ 3 \in Nat /\ 4 \in Nat /\ 5 \in Nat
      /\ 8 \in Nat /\ 12 \in Nat /\ 15 \in Nat /\ 18 \in Nat /\ 22 \in Nat /\ 24 \in Nat
      /\ 29 \in Nat /\ 30 \in Nat
  OBVIOUS
<1> DEFINE s2 == b1 \o b2
<1>2. Behind(s2, b1, b2, 4, 4) /\ AList(s2, 8)
  <2>1. Behind(s2, b1, b2, 4, 4)
    BY Joined, <1>0, Zenon
  <2> HIDE DEF s2
  <2> QED
    BY <2>1 DEF Behind
<1> HIDE DEF s2
<1> DEFINE s3 == s2 \o b3
<1>3. Behind(s3, s2, b3, 8, 4) /\ AList(s3, 12)
  <2>1. Behind(s3, s2, b3, 8, 4)
    BY Joined, <1>0, <1>2, Zenon
  <2> HIDE DEF s3
  <2> QED
    BY <2>1 DEF Behind
<1> HIDE DEF s3
<1> DEFINE s4 == s3 \o b4
<1>4. Behind(s4, s3, b4, 12, 3) /\ AList(s4, 15)
  <2>1. Behind(s4, s3, b4, 12, 3)
    BY Joined, <1>0, <1>3, Zenon
  <2> HIDE DEF s4
  <2> QED
    BY <2>1 DEF Behind
<1> HIDE DEF s4
<1> DEFINE s5 == s4 \o b5
<1>5. Behind(s5, s4, b5, 15, 3) /\ AList(s5, 18)
  <2>1. Behind(s5, s4, b5, 15, 3)
    BY Joined, <1>0, <1>4, Zenon
  <2> HIDE DEF s5
  <2> QED
    BY <2>1 DEF Behind
<1> HIDE DEF s5
<1> DEFINE s6 == s5 \o b6
<1>6. Behind(s6, s5, b6, 18, 4) /\ AList(s6, 22)
  <2>1. Behind(s6, s5, b6, 18, 4)
    BY Joined, <1>0, <1>5, Zenon
  <2> HIDE DEF s6
  <2> QED
    BY <2>1 DEF Behind
<1> HIDE DEF s6
<1> DEFINE s7 == s6 \o b7
<1>7. Behind(s7, s6, b7, 22, 2) /\ AList(s7, 24)
  <2>1. Behind(s7, s6, b7, 22, 2)
    BY Joined, <1>0, <1>6, Zenon
  <2> HIDE DEF s7
  <2> QED
    BY <2>1 DEF Behind
<1> HIDE DEF s7
<1> DEFINE s8 == s7 \o b8
<1>8. Behind(s8, s7, b8, 24, 5) /\ AList(s8, 29)
  <2>1. Behind(s8, s7, b8, 24, 5)
    BY Joined, <1>0, <1>7, Zenon
  <2> HIDE DEF s8
  <2> QED
    BY <2>1 DEF Behind
<1> HIDE DEF s8
<1> DEFINE s9 == s8 \o b9
<1>9. Behind(s9, s8, b9, 29, 1) /\ AList(s9, 30)
  <2>1. Behind(s9, s8, b9, 29, 1)
    BY Joined, <1>0, <1>8, Zenon
  <2> HIDE DEF s9
  <2> QED
    BY <2>1 DEF Behind
<1> HIDE DEF s9
<1> DEFINE s10 == s9 \o b10
<1>10. Behind(s10, s9, b10, 30, 5) /\ AList(s10, 35)
  <2>1. Behind(s10, s9, b10, 30, 5)
    BY Joined, <1>0, <1>9, Zenon
  <2> HIDE DEF s10
  <2> QED
    BY <2>1 DEF Behind
<1> HIDE DEF s10
<1>11. IsTable(s10, b1, b2, b3, b4, b5, b6, b7, b8, b9, b10)
  BY TenBehind, <1>2, <1>3, <1>4, <1>5, <1>6, <1>7, <1>8, <1>9, <1>10, Zenon
<1> QED
  BY <1>11, Zenon DEF s2, s3, s4, s5, s6, s7, s8, s9, s10

\* The lists Fields is put together from.
Top      == <<Value("string", <<"qemu">>), ScalarNumber(<<"memory">>), ScalarNumber(<<"vcpu">>),
              Section(<<"os">>)>>
OsKeys   == <<"arch", "machine", "type", "OS">>
CpuDisk  == <<Value("string", <<"cpu">>), Section(<<"disk">>), Value("string", <<"disk", "driver">>),
              ScalarNumber(<<"disk", "size">>)>>
DiskKeys == <<"path", "hidden_path", "active_path">>
Display  == <<Section(<<"display">>), Value("port", <<"display", "vnc_port">>), Section(<<"net">>)>>
NetKeys  == <<"id", "br", "helper", "mac">>
Colo     == <<Section(<<"colo">>), Section(<<"colo", "pri">>)>>
PriKeys  == <<"telnet_port", "mirror_port", "cmp0_port", "cmp1_port", "cmp_out_port">>
Sec      == <<Section(<<"colo", "sec">>)>>
SecKeys  == <<"telnet_port", "nbd_port", "migrate_port", "red0_port", "red1_port">>

OsFields   == Values("string", <<"os">>, OsKeys)
DiskFields == Values("string", <<"disk">>, DiskKeys)
NetFields  == Values("string", <<"net">>, NetKeys)
PriFields  == Values("port", <<"colo", "pri">>, PriKeys)
SecFields  == Values("port", <<"colo", "sec">>, SecKeys)

\* Each list where it begins.
LEMMA FieldsTable ==
  /\ IsTable(Fields, Top, OsFields, CpuDisk, DiskFields, Display, NetFields, Colo, PriFields, Sec,
             SecFields)
  /\ OfSection(OsFields, "string", <<"os">>, OsKeys, 4)
  /\ OfSection(DiskFields, "string", <<"disk">>, DiskKeys, 3)
  /\ OfSection(NetFields, "string", <<"net">>, NetKeys, 4)
  /\ OfSection(PriFields, "port", <<"colo", "pri">>, PriKeys, 5)
  /\ OfSection(SecFields, "port", <<"colo", "sec">>, SecKeys, 5)
<1>1. 3 \in Nat /\ 4 \in Nat /\ 5 \in Nat
  OBVIOUS
<1>2. /\ AList(Top, 4) /\ AList(CpuDisk, 4) /\ AList(Display, 3) /\ AList(Colo, 2) /\ AList(Sec, 1)
      /\ AList(OsKeys, 4) /\ AList(DiskKeys, 3) /\ AList(NetKeys, 4) /\ AList(PriKeys, 5)
      /\ AList(SecKeys, 5)
  BY TuplesAreLists, Zenon
     DEF Top, CpuDisk, Display, Colo, Sec, OsKeys, DiskKeys, NetKeys, PriKeys, SecKeys
<1>3. /\ OfSection(OsFields, "string", <<"os">>, OsKeys, 4)
      /\ OfSection(DiskFields, "string", <<"disk">>, DiskKeys, 3)
      /\ OfSection(NetFields, "string", <<"net">>, NetKeys, 4)
      /\ OfSection(PriFields, "port", <<"colo", "pri">>, PriKeys, 5)
      /\ OfSection(SecFields, "port", <<"colo", "sec">>, SecKeys, 5)
  BY <1>1, <1>2, ValuesAre, Zenon DEF OsFields, DiskFields, NetFields, PriFields, SecFields
<1>4. /\ AList(OsFields, 4) /\ AList(DiskFields, 3) /\ AList(NetFields, 4) /\ AList(PriFields, 5)
      /\ AList(SecFields, 5)
  BY <1>3, Zenon DEF OfSection
<1>5. Fields = Top \o OsFields \o CpuDisk \o DiskFields \o Display \o NetFields \o Colo \o PriFields
               \o Sec \o SecFields
  BY Zenon DEF Fields, Top, CpuDisk, Display, Colo, Sec, OsFields, DiskFields, NetFields,
               PriFields, SecFields, OsKeys, DiskKeys, NetKeys, PriKeys, SecKeys
<1>6. IsTable(Top \o OsFields \o CpuDisk \o DiskFields \o Display \o NetFields \o Colo \o PriFields
               \o Sec \o SecFields,
               Top, OsFields, CpuDisk, DiskFields, Display, NetFields, Colo, PriFields, Sec,
               SecFields)
  BY <1>2, <1>4, TenJoined, Zenon
<1> QED
  BY <1>3, <1>5, <1>6, Zenon

\* The parts of a field.
LEMMA Parts ==
  /\ \A T, p : Value(T, p).path = p /\ Value(T, p).type = T /\ Value(T, p).scalar = FALSE
  /\ \A p : Section(p).path = p /\ Section(p).type = "section" /\ Section(p).scalar = FALSE
  /\ \A p : ScalarNumber(p).path = p /\ ScalarNumber(p).type = "number"
BY DEF Value, Section, ScalarNumber

\* A key behind a path of one key, or of two.
LEMMA Appended ==
  /\ \A a, b : Append(<<a>>, b) = <<a, b>>
  /\ \A a, b, c : Append(<<a, b>>, c) = <<a, b, c>>
<1>1. ASSUME NEW a, NEW b, NEW c
      PROVE  Append(<<a>>, b) = <<a, b>> /\ Append(<<a, b>>, c) = <<a, b, c>>
  <2> DEFINE S == {a, b, c}
  <2>1. a \in S /\ b \in S /\ c \in S
    OBVIOUS
  <2> HIDE DEF S
  <2>2. /\ <<a>> \in Seq(S) /\ Len(<<a>>) = 1 /\ <<a>>[1] = a
        /\ <<a, b>> \in Seq(S) /\ Len(<<a, b>>) = 2 /\ <<a, b>>[1] = a /\ <<a, b>>[2] = b
        /\ <<a, b, c>> \in Seq(S) /\ Len(<<a, b, c>>) = 3
        /\ <<a, b, c>>[1] = a /\ <<a, b, c>>[2] = b /\ <<a, b, c>>[3] = c
    BY <2>1
  <2>3. \A s \in Seq(S), x \in S :
          /\ Append(s, x) \in Seq(S) /\ Len(Append(s, x)) = Len(s) + 1
          /\ Append(s, x)[Len(s) + 1] = x /\ \A i \in 1 .. Len(s) : Append(s, x)[i] = s[i]
    OBVIOUS
  <2>4. \A s, t \in Seq(S) : Len(s) = 2 /\ Len(t) = 2 /\ s[1] = t[1] /\ s[2] = t[2] => s = t
    OBVIOUS
  <2>5. \A s, t \in Seq(S) :
          Len(s) = 3 /\ Len(t) = 3 /\ s[1] = t[1] /\ s[2] = t[2] /\ s[3] = t[3] => s = t
    OBVIOUS
  <2>6. /\ Append(<<a>>, b) \in Seq(S) /\ Len(Append(<<a>>, b)) = 1 + 1
        /\ Append(<<a>>, b)[1 + 1] = b /\ \A i \in 1 .. 1 : Append(<<a>>, b)[i] = <<a>>[i]
    BY <2>1, <2>2, <2>3
  <2>7. /\ Append(<<a, b>>, c) \in Seq(S) /\ Len(Append(<<a, b>>, c)) = 2 + 1
        /\ Append(<<a, b>>, c)[2 + 1] = c
        /\ \A i \in 1 .. 2 : Append(<<a, b>>, c)[i] = <<a, b>>[i]
    BY <2>1, <2>2, <2>3
  <2>8. \A u, v : Len(u) = 1 + 1 /\ u[1 + 1] = b /\ (\A i \in 1 .. 1 : u[i] = v[i]) /\ v[1] = a
           => Len(u) = 2 /\ u[1] = a /\ u[2] = b
    OBVIOUS
  <2>9. \A u, v : /\ Len(u) = 2 + 1 /\ u[2 + 1] = c /\ (\A i \in 1 .. 2 : u[i] = v[i])
                  /\ v[1] = a /\ v[2] = b
           => Len(u) = 3 /\ u[1] = a /\ u[2] = b /\ u[3] = c
    OBVIOUS
  <2>10. Append(<<a>>, b) = <<a, b>>
    BY <2>2, <2>4, <2>6, <2>8, Zenon
  <2>11. Append(<<a, b>>, c) = <<a, b, c>>
    <3>1. /\ Len(Append(<<a, b>>, c)) = 3 /\ Append(<<a, b>>, c)[1] = a
          /\ Append(<<a, b>>, c)[2] = b /\ Append(<<a, b>>, c)[3] = c
      BY <2>2, <2>7, <2>9, Zenon
    <3> QED
      BY <2>2, <2>5, <2>7, <3>1, Zenon
  <2> QED
    BY <2>10, <2>11
<1> QED
  BY <1>1, Zenon

\* The elements of a list that is written out.
LEMMA Chosen ==
  \A a, b, c, d : /\ <<a, b, c, d>>[1] = a /\ <<a, b, c, d>>[2] = b
                  /\ <<a, b, c, d>>[3] = c /\ <<a, b, c, d>>[4] = d
                  /\ <<a, b, c>>[1] = a /\ <<a, b, c>>[2] = b /\ <<a, b, c>>[3] = c
                  /\ <<a, b>>[1] = a /\ <<a, b>>[2] = b /\ <<a>>[1] = a
OBVIOUS

\* The fields by their index.
Listed ==
  /\ DOMAIN Fields = 1 .. 35
  /\ Fields[1] = Value("string", <<"qemu">>)
  /\ Fields[2] = ScalarNumber(<<"memory">>)
  /\ Fields[3] = ScalarNumber(<<"vcpu">>)
  /\ Fields[4] = Section(<<"os">>)
  /\ \A i \in 1 .. 4 : Fields[4 + i] = Value("string", <<"os", OsKeys[i]>>)
  /\ Fields[9] = Value("string", <<"cpu">>)
  /\ Fields[10] = Section(<<"disk">>)
  /\ Fields[11] = Value("string", <<"disk", "driver">>)
  /\ Fields[12] = ScalarNumber(<<"disk", "size">>)
  /\ \A i \in 1 .. 3 : Fields[12 + i] = Value("string", <<"disk", DiskKeys[i]>>)
  /\ Fields[16] = Section(<<"display">>)
  /\ Fields[17] = Value("port", <<"display", "vnc_port">>)
  /\ Fields[18] = Section(<<"net">>)
  /\ \A i \in 1 .. 4 : Fields[18 + i] = Value("string", <<"net", NetKeys[i]>>)
  /\ Fields[23] = Section(<<"colo">>)
  /\ Fields[24] = Section(<<"colo", "pri">>)
  /\ \A i \in 1 .. 5 : Fields[24 + i] = Value("port", <<"colo", "pri", PriKeys[i]>>)
  /\ Fields[30] = Section(<<"colo", "sec">>)
  /\ \A i \in 1 .. 5 : Fields[30 + i] = Value("port", <<"colo", "sec", SecKeys[i]>>)

\* They are these (the calls of vm_config_parse, in order).
LEMMA FieldsListed == Listed
<1> DEFINE F == Fields
<1>1. AList(F, 35)
  BY FieldsTable, Zenon DEF IsTable
<1>2. DOMAIN F = 1 .. 35
  <2> HIDE DEF F
  <2> QED
    BY <1>1 DEF AList
<1>3. F[1] = Top[1] /\ F[2] = Top[2] /\ F[3] = Top[3] /\ F[4] = Top[4]
  <2>1. \A i \in 1 .. 4 : F[0 + i] = Top[i]
    BY FieldsTable, Zenon DEF IsTable
  <2> HIDE DEF F
  <2> QED
    BY <2>1
<1>4. F[9] = CpuDisk[1] /\ F[10] = CpuDisk[2] /\ F[11] = CpuDisk[3] /\ F[12] = CpuDisk[4]
  <2>1. \A i \in 1 .. 4 : F[8 + i] = CpuDisk[i]
    BY FieldsTable, Zenon DEF IsTable
  <2> HIDE DEF F
  <2> QED
    BY <2>1
<1>5. F[16] = Display[1] /\ F[17] = Display[2] /\ F[18] = Display[3]
  <2>1. \A i \in 1 .. 3 : F[15 + i] = Display[i]
    BY FieldsTable, Zenon DEF IsTable
  <2> HIDE DEF F
  <2> QED
    BY <2>1
<1>6. F[23] = Colo[1] /\ F[24] = Colo[2] /\ F[30] = Sec[1]
  <2>1. /\ \A i \in 1 .. 2 : F[22 + i] = Colo[i]
        /\ \A i \in 1 .. 1 : F[29 + i] = Sec[i]
    BY FieldsTable, Zenon DEF IsTable
  <2> HIDE DEF F
  <2> QED
    BY <2>1
<1>7. /\ \A i \in 1 .. 4 : F[4 + i] = Value("string", <<"os", OsKeys[i]>>)
      /\ \A i \in 1 .. 3 : F[12 + i] = Value("string", <<"disk", DiskKeys[i]>>)
      /\ \A i \in 1 .. 4 : F[18 + i] = Value("string", <<"net", NetKeys[i]>>)
      /\ \A i \in 1 .. 5 : F[24 + i] = Value("port", <<"colo", "pri", PriKeys[i]>>)
      /\ \A i \in 1 .. 5 : F[30 + i] = Value("port", <<"colo", "sec", SecKeys[i]>>)
  <2>1. /\ \A i \in 1 .. 4 : F[4 + i] = Value("string", Append(<<"os">>, OsKeys[i]))
        /\ \A i \in 1 .. 3 : F[12 + i] = Value("string", Append(<<"disk">>, DiskKeys[i]))
        /\ \A i \in 1 .. 4 : F[18 + i] = Value("string", Append(<<"net">>, NetKeys[i]))
        /\ \A i \in 1 .. 5 : F[24 + i] = Value("port", Append(<<"colo", "pri">>, PriKeys[i]))
        /\ \A i \in 1 .. 5 : F[30 + i] = Value("port", Append(<<"colo", "sec">>, SecKeys[i]))
    BY FieldsTable, Zenon DEF IsTable, OfSection
  <2>2. ASSUME NEW i \in 1 .. 4 PROVE F[4 + i] = Value("string", <<"os", OsKeys[i]>>)
    <3>1. F[4 + i] = Value("string", Append(<<"os">>, OsKeys[i]))
      BY <2>1, Zenon
    <3>2. Append(<<"os">>, OsKeys[i]) = <<"os", OsKeys[i]>>
      BY Appended, Zenon
    <3> QED
      BY <3>1, <3>2, Zenon
  <2>3. ASSUME NEW i \in 1 .. 3 PROVE F[12 + i] = Value("string", <<"disk", DiskKeys[i]>>)
    <3>1. F[12 + i] = Value("string", Append(<<"disk">>, DiskKeys[i]))
      BY <2>1, Zenon
    <3>2. Append(<<"disk">>, DiskKeys[i]) = <<"disk", DiskKeys[i]>>
      BY Appended, Zenon
    <3> QED
      BY <3>1, <3>2, Zenon
  <2>4. ASSUME NEW i \in 1 .. 4 PROVE F[18 + i] = Value("string", <<"net", NetKeys[i]>>)
    <3>1. F[18 + i] = Value("string", Append(<<"net">>, NetKeys[i]))
      BY <2>1, Zenon
    <3>2. Append(<<"net">>, NetKeys[i]) = <<"net", NetKeys[i]>>
      BY Appended, Zenon
    <3> QED
      BY <3>1, <3>2, Zenon
  <2>5. ASSUME NEW i \in 1 .. 5 PROVE F[24 + i] = Value("port", <<"colo", "pri", PriKeys[i]>>)
    <3>1. F[24 + i] = Value("port", Append(<<"colo", "pri">>, PriKeys[i]))
      BY <2>1, Zenon
    <3>2. Append(<<"colo", "pri">>, PriKeys[i]) = <<"colo", "pri", PriKeys[i]>>
      BY Appended, Zenon
    <3> QED
      BY <3>1, <3>2, Zenon
  <2>6. ASSUME NEW i \in 1 .. 5 PROVE F[30 + i] = Value("port", <<"colo", "sec", SecKeys[i]>>)
    <3>1. F[30 + i] = Value("port", Append(<<"colo", "sec">>, SecKeys[i]))
      BY <2>1, Zenon
    <3>2. Append(<<"colo", "sec">>, SecKeys[i]) = <<"colo", "sec", SecKeys[i]>>
      BY Appended, Zenon
    <3> QED
      BY <3>1, <3>2, Zenon
  <2> QED
    BY <2>2, <2>3, <2>4, <2>5, <2>6, Zenon
<1>8. /\ Top[1] = Value("string", <<"qemu">>) /\ Top[2] = ScalarNumber(<<"memory">>)
      /\ Top[3] = ScalarNumber(<<"vcpu">>) /\ Top[4] = Section(<<"os">>)
  BY Chosen, Zenon DEF Top
<1>9. /\ CpuDisk[1] = Value("string", <<"cpu">>) /\ CpuDisk[2] = Section(<<"disk">>)
      /\ CpuDisk[3] = Value("string", <<"disk", "driver">>)
      /\ CpuDisk[4] = ScalarNumber(<<"disk", "size">>)
  BY Chosen, Zenon DEF CpuDisk
<1>10. /\ Display[1] = Section(<<"display">>)
       /\ Display[2] = Value("port", <<"display", "vnc_port">>)
       /\ Display[3] = Section(<<"net">>)
  BY Chosen, Zenon DEF Display
<1>11. /\ Colo[1] = Section(<<"colo">>) /\ Colo[2] = Section(<<"colo", "pri">>)
       /\ Sec[1] = Section(<<"colo", "sec">>)
  BY Chosen, Zenon DEF Colo, Sec
<1> QED
  BY <1>2, <1>3, <1>4, <1>5, <1>6, <1>7, <1>8, <1>9, <1>10, <1>11, Zenon DEF Listed

Before(i, p) == \E j \in 1 .. 35 : j < i /\ Fields[j] = Section(p)

\* Where a field stands: its sections are fields before it.
Placed(i) ==
  \/ \E a : Fields[i].path = <<a>>
  \/ \E a, b : Fields[i].path = <<a, b>> /\ Before(i, <<a>>)
  \/ \E a, b, c : Fields[i].path = <<a, b, c>> /\ Before(i, <<a>>) /\ Before(i, <<a, b>>)

\* A section has a value in it, or in a section in it.
Holds(i) ==
  \/ \E a, b : /\ Fields[i].path = <<a>>
               /\ \E j \in 1 .. 35 : Fields[j].path = <<a, b>> /\ Fields[j].type # "section"
  \/ \E a, b, c : /\ Fields[i].path = <<a>> \/ Fields[i].path = <<a, b>>
                  /\ \E j \in 1 .. 35 : Fields[j].path = <<a, b, c>> /\ Fields[j].type # "section"

\* Every field stands behind the sections it is read from.
LEMMA FieldsPlaced == \A i \in 1 .. 35 : Placed(i)
<1>1. \A i, a : \/ Fields[i] = Section(<<a>>) \/ Fields[i] = ScalarNumber(<<a>>)
                \/ Fields[i] = Value("string", <<a>>)
        => Placed(i)
  BY Parts DEF Placed
<1>2. /\ Placed(1) /\ Placed(2) /\ Placed(3) /\ Placed(4) /\ Placed(9) /\ Placed(10)
      /\ Placed(16) /\ Placed(18) /\ Placed(23)
  BY FieldsListed, <1>1 DEF Listed
<1>3. /\ \A i \in 5 .. 8 : Before(i, <<"os">>)
      /\ \A i \in 11 .. 15 : Before(i, <<"disk">>)
      /\ Before(17, <<"display">>)
      /\ \A i \in 19 .. 22 : Before(i, <<"net">>)
      /\ \A i \in 24 .. 35 : Before(i, <<"colo">>)
      /\ \A i \in 25 .. 29 : Before(i, <<"colo", "pri">>)
      /\ \A i \in 31 .. 35 : Before(i, <<"colo", "sec">>)
  BY FieldsListed DEF Listed, Before
<1>4. \A i, a, b, T : /\ \/ Fields[i] = Section(<<a, b>>) \/ Fields[i] = ScalarNumber(<<a, b>>)
                         \/ Fields[i] = Value(T, <<a, b>>)
                      /\ Before(i, <<a>>)
        => Placed(i)
  BY Parts DEF Placed
<1>5. \A i, a, b, c, T : /\ Fields[i] = Value(T, <<a, b, c>>)
                         /\ Before(i, <<a>>) /\ Before(i, <<a, b>>)
        => Placed(i)
  BY Parts DEF Placed
<1>6. /\ \A i \in 5 .. 8 : Fields[i] = Value("string", <<"os", OsKeys[i - 4]>>)
      /\ \A i \in 13 .. 15 : Fields[i] = Value("string", <<"disk", DiskKeys[i - 12]>>)
      /\ \A i \in 19 .. 22 : Fields[i] = Value("string", <<"net", NetKeys[i - 18]>>)
      /\ \A i \in 25 .. 29 : Fields[i] = Value("port", <<"colo", "pri", PriKeys[i - 24]>>)
      /\ \A i \in 31 .. 35 : Fields[i] = Value("port", <<"colo", "sec", SecKeys[i - 30]>>)
  BY FieldsListed DEF Listed
<1>7. Placed(11) /\ Placed(12) /\ Placed(17) /\ Placed(24) /\ Placed(30)
  <2>1. /\ Before(11, <<"disk">>) /\ Before(12, <<"disk">>) /\ Before(17, <<"display">>)
        /\ Before(24, <<"colo">>) /\ Before(30, <<"colo">>)
    BY <1>3
  <2>2. /\ Fields[11] = Value("string", <<"disk", "driver">>)
        /\ Fields[12] = ScalarNumber(<<"disk", "size">>)
        /\ Fields[17] = Value("port", <<"display", "vnc_port">>)
        /\ Fields[24] = Section(<<"colo", "pri">>)
        /\ Fields[30] = Section(<<"colo", "sec">>)
    BY FieldsListed, Zenon DEF Listed
  <2> QED
    BY <2>1, <2>2, <1>4
<1>8. \A i \in 5 .. 8 : Placed(i)
  BY <1>3, <1>4, <1>6
<1>9. \A i \in 13 .. 15 : Placed(i)
  <2>1. \A i \in 13 .. 15 : Before(i, <<"disk">>)
    BY <1>3
  <2> QED
    BY <2>1, <1>4, <1>6
<1>10. \A i \in 19 .. 22 : Placed(i)
  BY <1>3, <1>4, <1>6
<1>11. \A i \in 25 .. 29 : Placed(i)
  <2>1. \A i \in 25 .. 29 : Before(i, <<"colo">>)
    BY <1>3
  <2> QED
    BY <2>1, <1>3, <1>5, <1>6
<1>12. \A i \in 31 .. 35 : Placed(i)
  <2>1. \A i \in 31 .. 35 : Before(i, <<"colo">>)
    BY <1>3
  <2> QED
    BY <2>1, <1>3, <1>5, <1>6
<1> QED
  BY <1>2, <1>7, <1>8, <1>9, <1>10, <1>11, <1>12

\* The kinds of the fields, and a value in each section.
LEMMA FieldsOfKinds ==
  \A i \in 1 .. 35 : /\ Fields[i].scalar => Fields[i].type = "number"
                     /\ Fields[i].type = "section" => Holds(i)
<1> DEFINE K(i) == /\ Fields[i].scalar => Fields[i].type = "number"
                   /\ Fields[i].type = "section" => Holds(i)
<1>1. \A i, T, p : Fields[i] = Value(T, p) /\ T # "section" => K(i)
  BY Parts
<1>2. \A i, p : Fields[i] = ScalarNumber(p) => K(i)
  <2>1. "number" # "section"
    OBVIOUS
  <2> QED
    BY <2>1, Parts
<1>3. \A i, p : Fields[i] = Section(p) /\ Holds(i) => K(i)
  BY Parts
<1>4. ASSUME NEW i, NEW a, NEW b, NEW T, NEW j \in 1 .. 35,
             Fields[i] = Section(<<a>>), Fields[j] = Value(T, <<a, b>>), T # "section"
      PROVE  Holds(i)
  <2>1. Fields[i].path = <<a>> /\ Fields[j].path = <<a, b>> /\ Fields[j].type # "section"
    BY <1>4, Parts
  <2> QED
    BY <2>1, Zenon DEF Holds
<1>5. ASSUME NEW i, NEW a, NEW b, NEW c, NEW T, NEW j \in 1 .. 35,
             Fields[i] = Section(<<a>>) \/ Fields[i] = Section(<<a, b>>),
             Fields[j] = Value(T, <<a, b, c>>), T # "section"
      PROVE  Holds(i)
  <2>1. Fields[i].path = <<a>> \/ Fields[i].path = <<a, b>>
    BY <1>5, Parts
  <2>2. Fields[j].path = <<a, b, c>> /\ Fields[j].type # "section"
    BY <1>5, Parts
  <2> QED
    BY <2>1, <2>2, Zenon DEF Holds
<1>6. /\ Fields[5] = Value("string", <<"os", OsKeys[1]>>)
      /\ Fields[19] = Value("string", <<"net", NetKeys[1]>>)
      /\ Fields[25] = Value("port", <<"colo", "pri", PriKeys[1]>>)
      /\ Fields[31] = Value("port", <<"colo", "sec", SecKeys[1]>>)
  BY FieldsListed DEF Listed
<1>7. "string" # "section" /\ "port" # "section"
  OBVIOUS
<1>8. Holds(4) /\ Holds(10) /\ Holds(16) /\ Holds(18) /\ Holds(23) /\ Holds(24) /\ Holds(30)
  <2>1. /\ 5 \in 1 .. 35 /\ 11 \in 1 .. 35 /\ 17 \in 1 .. 35 /\ 19 \in 1 .. 35 /\ 25 \in 1 .. 35
        /\ 31 \in 1 .. 35
    OBVIOUS
  <2>2. Holds(4) /\ Holds(10)
    BY <2>1, <1>4, <1>6, <1>7, FieldsListed DEF Listed
  <2>3. Holds(16) /\ Holds(18)
    BY <2>1, <1>4, <1>6, <1>7, FieldsListed DEF Listed
  <2>4. Holds(23) /\ Holds(24)
    BY <2>1, <1>5, <1>6, <1>7, FieldsListed DEF Listed
  <2>5. Holds(30)
    BY <2>1, <1>5, <1>6, <1>7, FieldsListed DEF Listed
  <2> QED
    BY <2>2, <2>3, <2>4, <2>5
<1>9. K(1) /\ K(9) /\ K(11) /\ K(17)
  BY <1>1, <1>7, FieldsListed DEF Listed
<1>10. K(2) /\ K(3) /\ K(12)
  BY <1>2, FieldsListed DEF Listed
<1>11. K(4) /\ K(10) /\ K(16) /\ K(18) /\ K(23) /\ K(24) /\ K(30)
  BY <1>3, <1>8, FieldsListed DEF Listed
<1>12. \A i \in 5 .. 8 \cup 13 .. 15 \cup 19 .. 22 \cup 25 .. 29 \cup 31 .. 35 :
         \E T, p : Fields[i] = Value(T, p) /\ T # "section"
  <2>1. /\ \A i \in 5 .. 8 : Fields[i] = Value("string", <<"os", OsKeys[i - 4]>>)
        /\ \A i \in 13 .. 15 : Fields[i] = Value("string", <<"disk", DiskKeys[i - 12]>>)
        /\ \A i \in 19 .. 22 : Fields[i] = Value("string", <<"net", NetKeys[i - 18]>>)
        /\ \A i \in 25 .. 29 : Fields[i] = Value("port", <<"colo", "pri", PriKeys[i - 24]>>)
        /\ \A i \in 31 .. 35 : Fields[i] = Value("port", <<"colo", "sec", SecKeys[i - 30]>>)
    BY FieldsListed DEF Listed
  <2> QED
    BY <2>1, <1>7
<1>13. \A i \in 5 .. 8 \cup 13 .. 15 \cup 19 .. 22 \cup 25 .. 29 \cup 31 .. 35 : K(i)
  BY <1>1, <1>12
<1> HIDE DEF K
<1>14. \A i \in 1 .. 35 : K(i)
  BY <1>9, <1>10, <1>11, <1>13
<1> QED
  BY <1>14 DEF K

\* The beginnings of a path.
LEMMA Beginnings ==
  \A a, b, c : /\ DOMAIN <<a>> = {1} /\ DOMAIN <<a, b>> = {1, 2} /\ DOMAIN <<a, b, c>> = {1, 2, 3}
               /\ SubSeq(<<a>>, 1, 1) = <<a>>
               /\ SubSeq(<<a, b>>, 1, 1) = <<a>> /\ SubSeq(<<a, b>>, 1, 2) = <<a, b>>
               /\ SubSeq(<<a, b, c>>, 1, 1) = <<a>> /\ SubSeq(<<a, b, c>>, 1, 2) = <<a, b>>
               /\ SubSeq(<<a, b, c>>, 1, 3) = <<a, b, c>>
<1> TAKE a, b, c
<1> DEFINE S == {a, b, c}
<1>1. a \in S /\ b \in S /\ c \in S
  OBVIOUS
<1> HIDE DEF S
<1>2. /\ <<a>> \in Seq(S) /\ Len(<<a>>) = 1 /\ <<a>>[1] = a
      /\ <<a, b>> \in Seq(S) /\ Len(<<a, b>>) = 2 /\ <<a, b>>[1] = a /\ <<a, b>>[2] = b
      /\ <<a, b, c>> \in Seq(S) /\ Len(<<a, b, c>>) = 3
      /\ <<a, b, c>>[1] = a /\ <<a, b, c>>[2] = b /\ <<a, b, c>>[3] = c
  BY <1>1
<1>3. \A s \in Seq(S), n \in 1 .. 3 : n <= Len(s) =>
        /\ SubSeq(s, 1, n) \in Seq(S) /\ Len(SubSeq(s, 1, n)) = n
        /\ \A i \in 1 .. n : SubSeq(s, 1, n)[i] = s[i]
  OBVIOUS
<1>4. \A s, t \in Seq(S), n \in 1 .. 3 :
        Len(s) = n /\ Len(t) = n /\ (\A i \in 1 .. n : s[i] = t[i]) => s = t
  OBVIOUS
<1>5. \A s \in Seq(S) : DOMAIN s = 1 .. Len(s)
  OBVIOUS
<1>6. /\ DOMAIN <<a>> = {1} /\ DOMAIN <<a, b>> = {1, 2} /\ DOMAIN <<a, b, c>> = {1, 2, 3}
  <2>1. 1 .. 1 = {1} /\ 1 .. 2 = {1, 2} /\ 1 .. 3 = {1, 2, 3}
    OBVIOUS
  <2> QED
    BY <1>2, <1>5, <2>1, Zenon
<1>7. ASSUME NEW s \in Seq(S), NEW t \in Seq(S), NEW n \in 1 .. 3,
             Len(t) = n, n <= Len(s), \A i \in 1 .. n : s[i] = t[i]
      PROVE  SubSeq(s, 1, n) = t
  <2>1. /\ SubSeq(s, 1, n) \in Seq(S) /\ Len(SubSeq(s, 1, n)) = n
        /\ \A i \in 1 .. n : SubSeq(s, 1, n)[i] = t[i]
    BY <1>3, <1>7, Zenon
  <2> QED
    BY <1>4, <1>7, <2>1, Zenon
<1>8. \A s, t \in Seq(S) : Len(s) \in 1 .. 3 /\ Len(t) = 1 /\ s[1] = t[1] => SubSeq(s, 1, 1) = t
  BY <1>7
<1>9. \A s, t \in Seq(S) : Len(s) \in 2 .. 3 /\ Len(t) = 2 /\ s[1] = t[1] /\ s[2] = t[2]
                           => SubSeq(s, 1, 2) = t
  BY <1>7
<1>10. 1 \in 1 .. 3 /\ 2 \in 1 .. 3 /\ 3 \in 1 .. 3 /\ 2 \in 2 .. 3 /\ 3 \in 2 .. 3
  OBVIOUS
<1>11. SubSeq(<<a>>, 1, 1) = <<a>> /\ SubSeq(<<a, b>>, 1, 1) = <<a>>
  BY <1>2, <1>8, <1>10, Zenon
<1>12. SubSeq(<<a, b, c>>, 1, 1) = <<a>>
  BY <1>2, <1>8, <1>10, Zenon
<1>13. SubSeq(<<a, b>>, 1, 2) = <<a, b>>
  BY <1>2, <1>9, <1>10, Zenon
<1>14. SubSeq(<<a, b, c>>, 1, 2) = <<a, b>>
  BY <1>2, <1>9, <1>10, Zenon
<1>15. SubSeq(<<a, b, c>>, 1, 3) = <<a, b, c>>
  <2>1. \A s \in Seq(S) : Len(s) = 3 => SubSeq(s, 1, 3) = s
    OBVIOUS
  <2> QED
    BY <1>2, <2>1, Zenon
<1> QED
  BY <1>6, <1>11, <1>12, <1>13, <1>14, <1>15, Zenon

\* What the subscripts and the conversions of yaml-cpp say of each other.
LEMMA Subscripts ==
  ASSUME NEW n, NEW k, NEW T
  PROVE  /\ Get(n, k).type \in {"Null", "Scalar", "Map"} => n.type = "Map"
         /\ Get(Throws, k) = Throws
         /\ Converts(n, T) => n.type \in {"Null", "Scalar"}
         /\ Converts(n, "number") => IsScalar(n)
         /\ n.type \in {"Null", "Scalar", "Map"} => IsDefined(n) /\ n # Throws /\ n # Zombie
         /\ ~IsDefined(Zombie) /\ ~IsDefined(Undefined) /\ Throws # Zombie /\ ~Converts(Throws, T)
<1>1. Throws.type = "Throws" /\ Zombie.type = "Zombie" /\ Undefined.type = "Undefined"
  BY DEF Throws, Zombie, Undefined
<1>2. Get(n, k).type \in {"Null", "Scalar", "Map"} => n.type = "Map"
  <2>1. n.type # "Map" => Get(n, k) = Zombie \/ Get(n, k) = Throws
    BY DEF Get
  <2> QED
    BY <1>1, <2>1
<1>3. Get(Throws, k) = Throws
  BY <1>1 DEF Get
<1>4. Converts(n, T) => n.type \in {"Null", "Scalar"}
  BY DEF Converts, IsScalar
<1>5. Converts(n, "number") => IsScalar(n)
  BY DEF Converts
<1>6. n.type \in {"Null", "Scalar", "Map"} => IsDefined(n) /\ n # Throws /\ n # Zombie
  BY <1>1 DEF IsDefined
<1>7. ~IsDefined(Zombie) /\ ~IsDefined(Undefined) /\ Throws # Zombie
  BY <1>1 DEF IsDefined
<1>8. ~Converts(Throws, T)
  BY <1>1 DEF Converts, IsScalar
<1> QED
  BY <1>2, <1>3, <1>4, <1>5, <1>6, <1>7, <1>8, Zenon

\* A field by the nodes on its path.
LEMMA OnItsPath ==
  /\ \A config, f, a : f.path = <<a>> =>
        /\ NodeAt(config, f.path) = Get(config, a)
        /\ Missing(config, f) <=> Get(config, a) = Zombie
  /\ \A config, f, a, b : f.path = <<a, b>> =>
        /\ NodeAt(config, f.path) = Get(Get(config, a), b)
        /\ Missing(config, f) <=> Get(config, a) = Zombie \/ Get(Get(config, a), b) = Zombie
  /\ \A config, f, a, b, c : f.path = <<a, b, c>> =>
        /\ NodeAt(config, f.path) = Get(Get(Get(config, a), b), c)
        /\ Missing(config, f) <=> \/ Get(config, a) = Zombie \/ Get(Get(config, a), b) = Zombie
                                  \/ Get(Get(Get(config, a), b), c) = Zombie
<1>2. ASSUME NEW config, NEW f, NEW a, f.path = <<a>>
      PROVE  /\ NodeAt(config, f.path) = Get(config, a)
             /\ Missing(config, f) <=> Get(config, a) = Zombie
  <2>1. Missing(config, f) <=> \E k \in {1} : NodeAt(config, SubSeq(<<a>>, 1, k)) = Zombie
    BY <1>2, Beginnings DEF Missing
  <2>2. Missing(config, f) <=> NodeAt(config, SubSeq(<<a>>, 1, 1)) = Zombie
    BY <2>1, Zenon
  <2>3. SubSeq(<<a>>, 1, 1) = <<a>>
    BY Beginnings, Zenon
  <2>4. NodeAt(config, SubSeq(<<a>>, 1, 1)) = Get(config, a) /\ NodeAt(config, f.path) = Get(config, a)
    BY NodeOnPath, <1>2, <2>3, Zenon
  <2> QED
    BY <1>2, <2>2, <2>4, Zenon
<1>3. ASSUME NEW config, NEW f, NEW a, NEW b, f.path = <<a, b>>
      PROVE  /\ NodeAt(config, f.path) = Get(Get(config, a), b)
             /\ Missing(config, f) <=> Get(config, a) = Zombie \/ Get(Get(config, a), b) = Zombie
  <2>1. Missing(config, f) <=> \E k \in {1, 2} : NodeAt(config, SubSeq(<<a, b>>, 1, k)) = Zombie
    BY <1>3, Beginnings DEF Missing
  <2>2. Missing(config, f) <=> \/ NodeAt(config, SubSeq(<<a, b>>, 1, 1)) = Zombie
                               \/ NodeAt(config, SubSeq(<<a, b>>, 1, 2)) = Zombie
    BY <2>1, Zenon
  <2>3. SubSeq(<<a, b>>, 1, 1) = <<a>> /\ SubSeq(<<a, b>>, 1, 2) = <<a, b>>
    BY Beginnings, Zenon
  <2>4. /\ NodeAt(config, SubSeq(<<a, b>>, 1, 1)) = Get(config, a)
        /\ NodeAt(config, SubSeq(<<a, b>>, 1, 2)) = Get(Get(config, a), b)
        /\ NodeAt(config, f.path) = Get(Get(config, a), b)
    <3>1. /\ NodeAt(config, <<a>>) = Get(config, a)
          /\ NodeAt(config, <<a, b>>) = Get(Get(config, a), b)
      BY NodeOnPath
    <3> QED
      BY <1>3, <2>3, <3>1, Zenon
  <2> QED
    BY <1>3, <2>2, <2>4, Zenon
<1>4. ASSUME NEW config, NEW f, NEW a, NEW b, NEW c, f.path = <<a, b, c>>
      PROVE  /\ NodeAt(config, f.path) = Get(Get(Get(config, a), b), c)
             /\ Missing(config, f) <=> \/ Get(config, a) = Zombie \/ Get(Get(config, a), b) = Zombie
                                       \/ Get(Get(Get(config, a), b), c) = Zombie
  <2>1. Missing(config, f) <=>
          \E k \in {1, 2, 3} : NodeAt(config, SubSeq(<<a, b, c>>, 1, k)) = Zombie
    BY <1>4, Beginnings DEF Missing
  <2>2. Missing(config, f) <=> \/ NodeAt(config, SubSeq(<<a, b, c>>, 1, 1)) = Zombie
                               \/ NodeAt(config, SubSeq(<<a, b, c>>, 1, 2)) = Zombie
                               \/ NodeAt(config, SubSeq(<<a, b, c>>, 1, 3)) = Zombie
    BY <2>1, Zenon
  <2>3. /\ SubSeq(<<a, b, c>>, 1, 1) = <<a>> /\ SubSeq(<<a, b, c>>, 1, 2) = <<a, b>>
        /\ SubSeq(<<a, b, c>>, 1, 3) = <<a, b, c>>
    BY Beginnings
  <2>4. /\ NodeAt(config, SubSeq(<<a, b, c>>, 1, 1)) = Get(config, a)
        /\ NodeAt(config, SubSeq(<<a, b, c>>, 1, 2)) = Get(Get(config, a), b)
        /\ NodeAt(config, SubSeq(<<a, b, c>>, 1, 3)) = Get(Get(Get(config, a), b), c)
        /\ NodeAt(config, f.path) = Get(Get(Get(config, a), b), c)
    <3>1. /\ NodeAt(config, <<a>>) = Get(config, a)
          /\ NodeAt(config, <<a, b>>) = Get(Get(config, a), b)
          /\ NodeAt(config, <<a, b, c>>) = Get(Get(Get(config, a), b), c)
      BY NodeOnPath
    <3> QED
      BY <1>4, <2>3, <3>1, Zenon
  <2> QED
    BY <1>4, <2>2, <2>4, Zenon
<1> QED
  BY <1>2, <1>3, <1>4, Zenon

\* The reading of a field, by its outcome.
LEMMA ReadingIs ==
  ASSUME NEW config, NEW f, NEW n, n = NodeAt(config, f.path)
  PROVE  /\ Reading(config, f) = "ok" <=> /\ n # Throws /\ IsDefined(n)
                                          /\ f.scalar => IsScalar(n)
                                          /\ f.type # "section" => Converts(n, f.type)
         /\ Reading(config, f) = "throws" =>
              n = Throws \/ (IsDefined(n) /\ f.type # "section" /\ ~Converts(n, f.type))
         /\ Reading(config, f) \in {"ok", "err", "throws"}
BY DEF Reading

\* What is not missing: a field that is there, when the sections it stands in were read.
LEMMA SectionsRead ==
  ASSUME NEW config, NEW i \in 1 .. 35, IsDefined(NodeAt(config, Fields[i].path)),
         \A j \in 1 .. 35 : j < i => Reading(config, Fields[j]) = "ok"
  PROVE  ~Missing(config, Fields[i])
<1>1. ASSUME NEW p, Before(i, p)
      PROVE  NodeAt(config, p) # Zombie
  <2>1. PICK j \in 1 .. 35 : j < i /\ Fields[j] = Section(p)
    BY <1>1, Zenon DEF Before
  <2>2. Fields[j].path = p
    BY <2>1, Parts
  <2>3. IsDefined(NodeAt(config, p))
    <3>1. Reading(config, Fields[j]) = "ok"
      BY <2>1
    <3>2. NodeAt(config, p) = NodeAt(config, Fields[j].path)
      BY <2>2
    <3> QED
      BY <3>1, <3>2, ReadingIs, Zenon
  <2> QED
    BY <2>3, Subscripts
<1>2. NodeAt(config, Fields[i].path) # Zombie
  BY Subscripts
<1>3. Placed(i)
  BY FieldsPlaced
<1>4. CASE \E a : Fields[i].path = <<a>>
  BY <1>2, <1>4, OnItsPath
<1>5. CASE \E a, b : Fields[i].path = <<a, b>> /\ Before(i, <<a>>)
  <2>1. PICK a, b : Fields[i].path = <<a, b>> /\ Before(i, <<a>>)
    BY <1>5, Zenon
  <2>2. NodeAt(config, <<a>>) # Zombie
    BY <1>1, <2>1, Zenon
  <2>3. Get(config, a) # Zombie
    BY <2>2, NodeOnPath, Zenon
  <2> QED
    BY <1>2, <2>1, <2>3, OnItsPath
<1>6. CASE \E a, b, c : Fields[i].path = <<a, b, c>> /\ Before(i, <<a>>) /\ Before(i, <<a, b>>)
  <2>1. PICK a, b, c : Fields[i].path = <<a, b, c>> /\ Before(i, <<a>>) /\ Before(i, <<a, b>>)
    BY <1>6, Zenon
  <2>2. NodeAt(config, <<a>>) # Zombie /\ NodeAt(config, <<a, b>>) # Zombie
    BY <1>1, <2>1, Zenon
  <2>3. Get(config, a) # Zombie /\ Get(Get(config, a), b) # Zombie
    <3>1. NodeAt(config, <<a>>) = Get(config, a)
      BY NodeOnPath
    <3>2. NodeAt(config, <<a, b>>) = Get(Get(config, a), b)
      BY NodeOnPath
    <3> QED
      BY <2>2, <3>1, <3>2
  <2> QED
    BY <1>2, <2>1, <2>3, OnItsPath
<1> QED
  BY <1>3, <1>4, <1>5, <1>6, Zenon DEF Placed

\* A section that is no map: the value in it is not there or does not convert.
LEMMA SectionNoMap ==
  ASSUME NEW config, NEW i \in 1 .. 35, Fields[i].type = "section",
         NodeAt(config, Fields[i].path).type # "Map"
  PROVE  \E j \in 1 .. 35 :
           /\ Fields[j].type # "section" /\ ~Converts(NodeAt(config, Fields[j].path), Fields[j].type)
           /\ NodeAt(config, Fields[i].path) = Throws /\ ~Missing(config, Fields[i])
                => ~Missing(config, Fields[j])
<1> DEFINE Bad(j) == /\ Fields[j].type # "section"
                     /\ ~Converts(NodeAt(config, Fields[j].path), Fields[j].type)
                     /\ NodeAt(config, Fields[i].path) = Throws /\ ~Missing(config, Fields[i])
                          => ~Missing(config, Fields[j])
<1>0. /\ \A n, k : n.type # "Map" => Get(n, k).type \notin {"Null", "Scalar", "Map"}
      /\ \A k : Get(Throws, k) = Throws
      /\ \A n, T : n.type \notin {"Null", "Scalar"} => ~Converts(n, T)
      /\ Throws # Zombie
  BY Subscripts
<1>1. Holds(i)
  BY FieldsOfKinds
<1>2. ASSUME NEW a, NEW b, NEW j \in 1 .. 35, Fields[i].path = <<a>>,
             Fields[j].path = <<a, b>>, Fields[j].type # "section"
      PROVE  Bad(j)
  <2>1. /\ NodeAt(config, Fields[i].path) = Get(config, a)
        /\ NodeAt(config, Fields[j].path) = Get(Get(config, a), b)
        /\ Missing(config, Fields[i]) <=> Get(config, a) = Zombie
        /\ Missing(config, Fields[j]) <=> Get(config, a) = Zombie \/ Get(Get(config, a), b) = Zombie
    <3>1. /\ NodeAt(config, Fields[i].path) = Get(config, a)
          /\ Missing(config, Fields[i]) <=> Get(config, a) = Zombie
      BY <1>2, OnItsPath
    <3>2. /\ NodeAt(config, Fields[j].path) = Get(Get(config, a), b)
          /\ Missing(config, Fields[j]) <=> Get(config, a) = Zombie \/ Get(Get(config, a), b) = Zombie
      BY <1>2, OnItsPath
    <3> QED
      BY <3>1, <3>2, Zenon
  <2>2. NodeAt(config, Fields[j].path).type \notin {"Null", "Scalar", "Map"}
    BY <1>0, <2>1
  <2>3. ~Converts(NodeAt(config, Fields[j].path), Fields[j].type)
    BY <1>0, <2>2
  <2>4. Get(config, a) = Throws => Get(Get(config, a), b) = Throws
    BY <1>0
  <2> QED
    BY <1>0, <1>2, <2>1, <2>3, <2>4, Zenon
<1>3. ASSUME NEW a, NEW b, NEW c, NEW j \in 1 .. 35, Fields[i].path = <<a>>,
             Fields[j].path = <<a, b, c>>, Fields[j].type # "section"
      PROVE  Bad(j)
  <2>1. /\ NodeAt(config, Fields[i].path) = Get(config, a)
        /\ NodeAt(config, Fields[j].path) = Get(Get(Get(config, a), b), c)
        /\ Missing(config, Fields[i]) <=> Get(config, a) = Zombie
        /\ Missing(config, Fields[j]) <=> \/ Get(config, a) = Zombie \/ Get(Get(config, a), b) = Zombie
                                          \/ Get(Get(Get(config, a), b), c) = Zombie
    <3>1. /\ NodeAt(config, Fields[i].path) = Get(config, a)
          /\ Missing(config, Fields[i]) <=> Get(config, a) = Zombie
      BY <1>3, OnItsPath
    <3>2. /\ NodeAt(config, Fields[j].path) = Get(Get(Get(config, a), b), c)
          /\ Missing(config, Fields[j]) <=> \/ Get(config, a) = Zombie \/ Get(Get(config, a), b) = Zombie
                                            \/ Get(Get(Get(config, a), b), c) = Zombie
      BY <1>3, OnItsPath
    <3> QED
      BY <3>1, <3>2, Zenon
  <2>2. NodeAt(config, Fields[j].path).type \notin {"Null", "Scalar", "Map"}
    <3>1. Get(Get(config, a), b).type \notin {"Null", "Scalar", "Map"}
      BY <1>0, <2>1
    <3> QED
      BY <1>0, <2>1, <3>1
  <2>3. ~Converts(NodeAt(config, Fields[j].path), Fields[j].type)
    BY <1>0, <2>2
  <2>4. Get(config, a) = Throws => /\ Get(Get(config, a), b) = Throws
                                   /\ Get(Get(Get(config, a), b), c) = Throws
    BY <1>0
  <2> QED
    BY <1>0, <1>3, <2>1, <2>3, <2>4, Zenon
<1>4. ASSUME NEW a, NEW b, NEW c, NEW j \in 1 .. 35, Fields[i].path = <<a, b>>,
             Fields[j].path = <<a, b, c>>, Fields[j].type # "section"
      PROVE  Bad(j)
  <2>1. /\ NodeAt(config, Fields[i].path) = Get(Get(config, a), b)
        /\ NodeAt(config, Fields[j].path) = Get(Get(Get(config, a), b), c)
        /\ Missing(config, Fields[i]) <=> Get(config, a) = Zombie \/ Get(Get(config, a), b) = Zombie
        /\ Missing(config, Fields[j]) <=> \/ Get(config, a) = Zombie \/ Get(Get(config, a), b) = Zombie
                                          \/ Get(Get(Get(config, a), b), c) = Zombie
    <3>1. /\ NodeAt(config, Fields[i].path) = Get(Get(config, a), b)
          /\ Missing(config, Fields[i]) <=> Get(config, a) = Zombie \/ Get(Get(config, a), b) = Zombie
      BY <1>4, OnItsPath
    <3>2. /\ NodeAt(config, Fields[j].path) = Get(Get(Get(config, a), b), c)
          /\ Missing(config, Fields[j]) <=> \/ Get(config, a) = Zombie \/ Get(Get(config, a), b) = Zombie
                                            \/ Get(Get(Get(config, a), b), c) = Zombie
      BY <1>4, OnItsPath
    <3> QED
      BY <3>1, <3>2, Zenon
  <2>2. NodeAt(config, Fields[j].path).type \notin {"Null", "Scalar", "Map"}
    BY <1>0, <2>1
  <2>3. ~Converts(NodeAt(config, Fields[j].path), Fields[j].type)
    BY <1>0, <2>2
  <2>4. Get(Get(config, a), b) = Throws => Get(Get(Get(config, a), b), c) = Throws
    BY <1>0
  <2> QED
    BY <1>0, <1>4, <2>1, <2>3, <2>4, Zenon
<1> HIDE DEF Bad
<1>5. \E j \in 1 .. 35 : Bad(j)
  BY <1>1, <1>2, <1>3, <1>4, Zenon DEF Holds
<1> QED
  BY <1>5, Zenon DEF Bad

\* A complete definition is read to its end.
LEMMA CompleteIsRead ==
  ASSUME NEW config
  PROVE  Complete(config) <=> \A i \in 1 .. 35 : Reading(config, Fields[i]) = "ok"
<1>1. Complete(config) <=> \A i \in 1 .. 35 : ~Missing(config, Fields[i]) /\ ~IllTyped(config, Fields[i])
  <2>1. ToSet(Fields) = {Fields[i] : i \in 1 .. 35}
    BY FieldsListed, Zenon DEF ToSet, Range, Listed
  <2> QED
    BY <2>1, Zenon DEF Complete
<1>2. ASSUME Complete(config), NEW i \in 1 .. 35
      PROVE  Reading(config, Fields[i]) = "ok"
  <2> DEFINE n == NodeAt(config, Fields[i].path)
  <2>1. ASSUME Fields[i].type # "section"
        PROVE  Reading(config, Fields[i]) = "ok"
    <3>1. Converts(n, Fields[i].type)
      BY <1>1, <1>2, <2>1, Zenon DEF IllTyped
    <3>2. n # Throws /\ IsDefined(n)
      BY <3>1, Subscripts
    <3>3. Fields[i].scalar => IsScalar(n)
      BY <3>1, FieldsOfKinds, Subscripts
    <3> QED
      BY <3>1, <3>2, <3>3, ReadingIs, Zenon
  <2>2. ASSUME Fields[i].type = "section"
        PROVE  Reading(config, Fields[i]) = "ok"
    <3>1. n.type = "Map"
      BY <1>1, <1>2, <2>2, SectionNoMap, Zenon DEF IllTyped
    <3>2. n # Throws /\ IsDefined(n)
      BY <3>1, Subscripts
    <3>3. ~Fields[i].scalar
      <4>1. "section" # "number"
        OBVIOUS
      <4> QED
        BY <2>2, <4>1, FieldsOfKinds, Zenon
    <3> QED
      BY <2>2, <3>2, <3>3, ReadingIs, Zenon
  <2> QED
    BY <2>1, <2>2
<1>3. ASSUME \A i \in 1 .. 35 : Reading(config, Fields[i]) = "ok", NEW i \in 1 .. 35
      PROVE  ~Missing(config, Fields[i]) /\ ~IllTyped(config, Fields[i])
  <2> DEFINE n == NodeAt(config, Fields[i].path)
  <2>1. IsDefined(n) /\ (Fields[i].type # "section" => Converts(n, Fields[i].type))
    BY <1>3, ReadingIs, Zenon
  <2>2. ~Missing(config, Fields[i])
    BY <1>3, <2>1, SectionsRead, Zenon
  <2> QED
    BY <2>1, <2>2, Zenon DEF IllTyped
<1> QED
  BY <1>1, <1>2, <1>3, Zenon

\* The first field that is not read, when its reading throws: a value is of another kind.
LEMMA ThrowsIsIllTyped ==
  ASSUME NEW config, NEW i \in 1 .. 35, Reading(config, Fields[i]) = "throws",
         \A j \in 1 .. 35 : j < i => Reading(config, Fields[j]) = "ok"
  PROVE  \E f \in ToSet(Fields) : IllTyped(config, f)
<1> DEFINE n == NodeAt(config, Fields[i].path)
<1>1. ToSet(Fields) = {Fields[j] : j \in 1 .. 35}
  BY FieldsListed, Zenon DEF ToSet, Range, Listed
<1>2. n = Throws \/ (IsDefined(n) /\ Fields[i].type # "section" /\ ~Converts(n, Fields[i].type))
  BY ReadingIs, Zenon
<1>3. IsDefined(n)
  <2>1. IsDefined(Throws)
    BY DEF IsDefined, Throws
  <2> QED
    BY <1>2, <2>1
<1>4. ~Missing(config, Fields[i])
  BY <1>3, SectionsRead, Zenon
<1>5. CASE Fields[i].type # "section"
  <2>1. ~Converts(n, Fields[i].type)
    BY <1>2, Subscripts
  <2>2. IllTyped(config, Fields[i])
    BY <1>4, <1>5, <2>1, Zenon DEF IllTyped
  <2> QED
    BY <1>1, <2>2, Zenon
<1>6. CASE Fields[i].type = "section"
  <2>1. n = Throws
    BY <1>2, <1>6, Zenon
  <2>2. n.type # "Map"
    BY <2>1 DEF Throws
  <2>3. PICK j \in 1 .. 35 :
           /\ Fields[j].type # "section" /\ ~Converts(NodeAt(config, Fields[j].path), Fields[j].type)
           /\ n = Throws /\ ~Missing(config, Fields[i]) => ~Missing(config, Fields[j])
    BY <1>6, <2>2, SectionNoMap, Zenon
  <2>4. IllTyped(config, Fields[j])
    BY <1>4, <2>1, <2>3, Zenon DEF IllTyped
  <2> QED
    BY <1>1, <2>4, Zenon
<1> QED
  BY <1>5, <1>6, Zenon

\* What becomes of the reading of a definition whose name was read (vm_config_parse).
LEMMA ParseOutcome ==
  ASSUME NEW config, Named(config)
  PROVE  LET r == vm_config_parse(config).result
         IN /\ r \in {"ok", "err", "throws"}
            /\ r = "ok" <=> Complete(config)
            /\ r = "throws" => \E f \in ToSet(Fields) : IllTyped(config, f)
<1> DEFINE stops == {i \in DOMAIN Fields : Reading(config, Fields[i]) # "ok"}
           r == vm_config_parse(config).result
<1>1. Converts(Get(config, "name"), "string") /\ DOMAIN Fields = 1 .. 35
  BY FieldsListed, Zenon DEF Named, Listed
<1>2. Complete(config) <=> \A i \in 1 .. 35 : Reading(config, Fields[i]) = "ok"
  BY CompleteIsRead, Zenon
<1>3. Complete(config) <=> stops = {}
  BY <1>1, <1>2, Zenon
<1>4. stops \subseteq 1 .. 35
  BY <1>1, Zenon
<1>5. \A i \in stops : Reading(config, Fields[i]) # "ok"
  BY Zenon
<1>6. \A i \in 1 .. 35 : i \notin stops => Reading(config, Fields[i]) = "ok"
  BY <1>1, Zenon
<1>7. CASE stops = {}
  <2>1. vm_config_parse(config) = [result |-> "ok", domain |-> [p \in ValuePaths |-> as_T(NodeAt(config, p))]]
    BY <1>1, <1>7, Zenon DEF vm_config_parse
  <2>2. r = "ok"
    BY <2>1
  <2> QED
    BY <1>3, <1>7, <2>2
<1>8. CASE stops # {}
  <2>1. vm_config_parse(config) = [result |-> Reading(config, Fields[Min(stops)]), domain |-> << >>]
    BY <1>1, <1>8, Zenon DEF vm_config_parse
  <2>2. r = Reading(config, Fields[Min(stops)])
    BY <2>1
  <2> HIDE DEF stops, r
  <2>3. Min(stops) \in stops /\ \A j \in stops : Min(stops) <= j
    <3>1. stops \subseteq Nat
      BY <1>4
    <3> QED
      BY <1>8, <3>1, FirstOf, Zenon
  <2>4. PICK m \in 1 .. 35 : m = Min(stops)
    BY <1>4, <2>3
  <2>5. \A j \in 1 .. 35 : j < m => Reading(config, Fields[j]) = "ok"
    <3>1. \A j \in 1 .. 35 : j < m => j \notin stops
      BY <2>3, <2>4
    <3> QED
      BY <3>1, <1>6
  <2>6. r # "ok" /\ r \in {"ok", "err", "throws"}
    BY <1>5, <2>2, <2>3, ReadingIs, Zenon
  <2>7. r = "throws" => \E f \in ToSet(Fields) : IllTyped(config, f)
    BY <2>2, <2>4, <2>5, ThrowsIsIllTyped, Zenon
  <2> QED
    BY <1>3, <1>8, <2>6, <2>7, Zenon DEF r
<1> QED
  BY <1>7, <1>8, Zenon

\* The answer to define, by what the document has.
LEMMA DefineOutcome ==
  ASSUME NEW config
  PROVE  /\ vm_define(config) \in {"ok", "err", "throws"}
         /\ vm_define(config) = "ok" => Named(config) /\ Complete(config)
         /\ vm_define(config) = "err" /\ Named(config) /\ Complete(config)
              => as_T(Get(config, "name")) = "save"
         /\ vm_define(config) = "throws" => \/ Get(config, "name") # Zombie /\ ~Named(config)
                                            \/ \E f \in ToSet(Fields) : IllTyped(config, f)
<1> DEFINE g == Get(config, "name")
           name == At(config, "name")
           r == vm_config_parse(config).result
<1>1. /\ g = Zombie => name = Undefined
      /\ g # Zombie => name = g
  BY DEF At
<1>2. /\ Converts(g, "string") => IsDefined(g) /\ g # Throws /\ g # Zombie
      /\ ~IsDefined(Zombie) /\ ~IsDefined(Undefined) /\ Throws # Zombie /\ ~Converts(Throws, "string")
  BY Subscripts
<1>3. Undefined # Throws
  BY DEF Undefined, Throws
<1>4. Named(config) <=> Converts(g, "string")
  BY Zenon DEF Named
<1>5. vm_define(config) = IF name = Throws THEN "throws"
                          ELSE IF ~IsDefined(name) THEN "err"
                          ELSE IF ~Converts(name, "string") THEN "throws"
                          ELSE IF as_T(name) = "save" THEN "err" ELSE r
  BY Zenon DEF vm_define
<1>6. Named(config) => /\ r \in {"ok", "err", "throws"} /\ (r = "ok" <=> Complete(config))
                       /\ r = "throws" => \E f \in ToSet(Fields) : IllTyped(config, f)
  BY ParseOutcome, Zenon
<1> HIDE DEF g, name, r
<1>7. CASE name = Throws
  <2>1. g = Throws /\ vm_define(config) = "throws"
    BY <1>1, <1>3, <1>5, <1>7
  <2> QED
    BY <1>2, <1>4, <2>1 DEF g
<1>8. CASE name # Throws /\ ~IsDefined(name)
  <2>1. vm_define(config) = "err" /\ ~Converts(g, "string")
    BY <1>1, <1>2, <1>5, <1>8
  <2> QED
    BY <1>4, <2>1
<1>9. CASE name # Throws /\ IsDefined(name)
  <2>1. name = g /\ g # Zombie
    BY <1>1, <1>2, <1>9
  <2>2. CASE ~Converts(g, "string")
    <3>1. vm_define(config) = "throws"
      BY <1>5, <1>9, <2>1, <2>2
    <3> QED
      BY <1>4, <2>1, <2>2, <3>1 DEF g
  <2>3. CASE Converts(g, "string") /\ as_T(g) = "save"
    <3>1. vm_define(config) = "err"
      BY <1>5, <1>9, <2>1, <2>3
    <3> QED
      BY <2>3, <3>1 DEF g
  <2>4. CASE Converts(g, "string") /\ as_T(g) # "save"
    <3>1. vm_define(config) = r
      BY <1>5, <1>9, <2>1, <2>4
    <3> QED
      BY <1>4, <1>6, <2>4, <3>1
  <2> QED
    BY <2>2, <2>3, <2>4
<1> QED
  BY <1>7, <1>8, <1>9

\* Nothing of a start has begun.
NothingBegun ==
  /\ task = [n \in Node |-> "idle"]
  /\ asked = [n \in Node |-> "none"]
  /\ conv = [n \in Node |-> NoConv]
  /\ vm = [n \in Node |-> NoVm]
  /\ \A n \in Node : entry[n].status = "shutoff"

(***************************************************************************)
(* The inductive invariant: the answer to define is the outcome of its     *)
(* reading, and colod has ended before it only if that reading throws,     *)
(* because before it nothing else can begin.                               *)
(***************************************************************************)
DefinedAsRead ==
  /\ definition \in DOMAIN Document /\ defined \in {"no", "yes", "err"}
  /\ defined = "yes" => vm_define(Document[definition]) = "ok"
  /\ defined = "err" => vm_define(Document[definition]) = "err"
  /\ defined = "no" => /\ NothingBegun
                       /\ (\E n \in Node : ~up[n]) => vm_define(Document[definition]) = "throws"

\* It holds at first.
LEMMA DefinedAsReadInit == StartInit => DefinedAsRead
<1> SUFFICES ASSUME StartInit PROVE DefinedAsRead
  OBVIOUS
<1>1. /\ definition \in DOMAIN Document /\ defined = "no" /\ up = [n \in Node |-> TRUE]
      /\ task = [n \in Node |-> "idle"] /\ asked = [n \in Node |-> "none"]
      /\ conv = [n \in Node |-> NoConv] /\ vm = [n \in Node |-> NoVm]
  BY Zenon DEF StartInit
<1>2. \A n \in Node : entry[n].status = "shutoff"
  <2>1. PICK role \in Roles : entry = [n \in Node |-> [status |-> "shutoff", colo_status |-> role[n]]]
    BY Zenon DEF StartInit
  <2> QED
    BY <2>1
<1>3. \A n \in Node : up[n]
  BY <1>1
<1> QED
  BY <1>1, <1>2, <1>3, Zenon DEF DefinedAsRead, NothingBegun

\* Only define answers what it answers, and it is the only thing that can begin before it.
LEMMA OnlyDefine ==
  ASSUME NEW n \in Node,
         \/ \E colo_enable \in BOOLEAN : colod_start(n, colo_enable)
         \/ \E property \in PropertyName : colod_set_params(n, property)
         \/ colod_do_failover(n) \/ ColodStep(n) \/ VmStep(n) \/ Fault(n)
  PROVE  /\ definition' = definition /\ defined' = defined
         /\ ~(defined = "no" /\ NothingBegun)
<1>1. ASSUME NothingBegun
      PROVE  /\ task[n] = "idle" /\ asked[n] = "none" /\ conv[n].phase = "none"
             /\ vm[n].state = "none" /\ entry[n].status = "shutoff"
  BY <1>1 DEF NothingBegun, NoConv, NoVm
<1>2. /\ defined # "no" \/ task[n] # "idle" \/ asked[n] # "none" \/ conv[n].phase # "none"
         \/ vm[n].state # "none" \/ entry[n].status # "shutoff"
      => ~(defined = "no" /\ NothingBegun)
  BY <1>1
<1>3. CASE \E colo_enable \in BOOLEAN : colod_start(n, colo_enable)
  BY <1>2, <1>3 DEF colod_start
<1>4. CASE \E property \in PropertyName : colod_set_params(n, property)
  BY <1>2, <1>4 DEF colod_set_params, StartFrame
<1>5. CASE colod_do_failover(n)
  BY <1>2, <1>5 DEF colod_do_failover, StartFrame
<1>6. CASE ColodStep(n)
  <2>1. CASE peer_colod_start_domain(n)
    BY <1>2, <2>1 DEF peer_colod_start_domain, StartFrame
  <2>2. CASE after_peer_start(n)
    BY <1>2, <2>2 DEF after_peer_start, StartFrame
  <2>3. CASE peer_colod_send_qmpcmds(n)
    BY <1>2, <2>3 DEF peer_colod_send_qmpcmds, StartFrame
  <2>4. CASE after_peer_qmp(n)
    BY <1>2, <2>4 DEF after_peer_qmp, StartFrame
  <2>5. CASE qmp_connect(n)
    BY <1>2, <2>5 DEF qmp_connect, StartFrame
  <2>6. CASE qmp_recv(n)
    BY <1>2, <2>6 DEF qmp_recv, StartFrame
  <2>7. CASE qmp_send(n)
    BY <1>2, <2>7 DEF qmp_send, StartFrame
  <2>8. CASE colod_ends(n)
    BY <1>2, <2>8 DEF colod_ends
  <2> QED
    BY <1>6, <2>1, <2>2, <2>3, <2>4, <2>5, <2>6, <2>7, <2>8, Zenon DEF ColodStep
<1>7. CASE VmStep(n)
  <2>1. CASE vm_opens(n)
    BY <1>2, <2>1 DEF vm_opens, StartFrame
  <2>2. CASE vm_greets(n)
    BY <1>2, <2>2 DEF vm_greets, StartFrame
  <2>3. CASE vm_executes(n)
    BY <1>2, <2>3 DEF vm_executes, StartFrame
  <2> QED
    BY <1>7, <2>1, <2>2, <2>3, Zenon DEF VmStep
<1>8. CASE Fault(n)
  <2>1. CASE timed_out(n)
    BY <1>2, <2>1 DEF timed_out, StartFrame
  <2>2. CASE vm_event(n)
    BY <1>2, <2>2 DEF vm_event
  <2>3. CASE vm_dies(n)
    BY <1>2, <2>3 DEF vm_dies, StartFrame
  <2> QED
    BY <1>8, <2>1, <2>2, <2>3, Zenon DEF Fault
<1> QED
  BY <1>3, <1>4, <1>5, <1>6, <1>7, <1>8, Zenon

\* Every step keeps it.
LEMMA DefinedAsReadStep == DefinedAsRead /\ [StartNext]_startVars => DefinedAsRead'
<1> SUFFICES ASSUME DefinedAsRead, [StartNext]_startVars PROVE DefinedAsRead'
  OBVIOUS
<1> DEFINE outcome == vm_define(Document[definition])
<1>1. ASSUME definition' = definition, defined' = defined, ~(defined = "no" /\ NothingBegun)
      PROVE  DefinedAsRead'
  BY <1>1, Zenon DEF DefinedAsRead
<1>2. ASSUME NEW n \in Node, define(n)
      PROVE  DefinedAsRead'
  <2>1. defined = "no" /\ NothingBegun /\ definition' = definition /\ outcome \in {"ok", "err", "throws"}
    BY <1>2, DefineOutcome, Zenon DEF define, DefinedAsRead
  <2>2. CASE outcome = "throws"
    <3>1. defined' = defined /\ ColodEnds(n)
      BY <1>2, <2>2, Zenon DEF define
    <3>2. vm' = vm /\ entry' = entry
      BY <1>2, Zenon DEF define
    <3>3. task' = task /\ asked' = asked /\ conv' = conv
      BY <2>1, <3>1 DEF ColodEnds, Goto, NothingBegun
    <3>4. NothingBegun'
      BY <2>1, <3>2, <3>3, Zenon DEF NothingBegun
    <3> QED
      BY <2>1, <2>2, <3>1, <3>4, Zenon DEF DefinedAsRead
  <2>3. CASE outcome # "throws"
    <3>1. defined' = IF outcome = "ok" THEN "yes" ELSE "err"
      BY <1>2, <2>3, Zenon DEF define
    <3>2. defined' # "no" /\ defined' \in {"yes", "err"}
      BY <3>1
    <3>3. (defined' = "yes" => outcome = "ok") /\ (defined' = "err" => outcome = "err")
      BY <2>1, <2>3, <3>1
    <3> QED
      BY <2>1, <3>2, <3>3, Zenon DEF DefinedAsRead
  <2> QED
    BY <2>2, <2>3
<1>3. CASE UNCHANGED startVars
  BY <1>3, Zenon DEF startVars, DefinedAsRead, NothingBegun
<1>4. CASE StartNext
  <2>1. PICK n \in Node : Operator(n) \/ ColodStep(n) \/ VmStep(n) \/ Fault(n)
    BY <1>4, Zenon DEF StartNext
  <2>2. CASE define(n)
    BY <1>2, <2>2
  <2>3. CASE ~define(n)
    <3>1. \/ \E colo_enable \in BOOLEAN : colod_start(n, colo_enable)
          \/ \E property \in PropertyName : colod_set_params(n, property)
          \/ colod_do_failover(n) \/ ColodStep(n) \/ VmStep(n) \/ Fault(n)
      BY <2>1, <2>3, Zenon DEF Operator
    <3> QED
      BY <1>1, <3>1, OnlyDefine, Zenon
  <2> QED
    BY <2>2, <2>3
<1> QED
  BY <1>3, <1>4

(***************************************************************************)
(* For every definition file: a field that is not there is answered, an    *)
(* exception means a value of the wrong kind, and what is defined has      *)
(* every field the command lines are made of.                              *)
(***************************************************************************)
THEOREM MissingAlwaysRefused == StartSpec => []MissingIsRefused
<1>1. StartSpec => []DefinedAsRead
  BY DefinedAsReadInit, DefinedAsReadStep, PTL DEF StartSpec
<1>2. DefinedAsRead => MissingIsRefused
  <2> SUFFICES ASSUME DefinedAsRead PROVE MissingIsRefused
    OBVIOUS
  <2> DEFINE config == Document[definition]
  <2>1. definition \in Usable <=> Named(config) /\ Complete(config)
    BY Zenon DEF Usable, DefinedAsRead
  <2>2. definition \in WithWrongValue <=> \/ Get(config, "name") # Zombie /\ ~Named(config)
                                          \/ \E f \in ToSet(Fields) : IllTyped(config, f)
    BY Zenon DEF WithWrongValue, DefinedAsRead
  <2>3. definition \in Usable /\ defined = "err" => as_T(Get(config, "name")) = "save"
    BY <2>1, DefineOutcome, Zenon DEF DefinedAsRead
  <2>4. defined = "no" /\ (\E n \in Node : ~up[n]) => definition \in WithWrongValue
    BY <2>2, DefineOutcome, Zenon DEF DefinedAsRead
  <2>5. defined = "yes" => definition \in Usable
    BY <2>1, DefineOutcome, Zenon DEF DefinedAsRead
  <2> QED
    BY <2>3, <2>4, <2>5, Zenon DEF MissingIsRefused
<1> QED
  BY <1>1, <1>2, PTL
-----------------------------------------------------------------------------
(***************************************************************************)
(* The order of a start.  Where it stands (Turn): who has been asked what, *)
(* and who waits for whom; and which of the two vms is which (Sides).      *)
(* Nothing of it depends on faults: it holds when vms die, colods end and  *)
(* calls time out.                                                         *)
(***************************************************************************)
Conversing == {"own-qmp", "serve-qmp", "set-params", "failover"}

\* The tables have an entry for each host, and the records their fields.
Tables ==
  /\ task = [n \in Node |-> task[n]] /\ asked = [n \in Node |-> asked[n]]
  /\ reply = [n \in Node |-> reply[n]] /\ answer = [n \in Node |-> answer[n]]
  /\ entry = [n \in Node |-> entry[n]] /\ conv = [n \in Node |-> conv[n]]
  /\ vm = [n \in Node |-> vm[n]]
  /\ \A n \in Node :
       /\ DOMAIN entry[n] = {"status", "colo_status"}
       /\ DOMAIN conv[n] = {"phase", "cmds", "next", "done", "inbox", "greeted"}
       /\ DOMAIN vm[n] = {"kind", "state", "blocks", "gone", "nbd", "given", "refused"}

\* A conversation is the business of a handler; what has not been forked was told nothing.
Shape(n) ==
  /\ conv[n].phase = "none" <=> task[n] \notin Conversing
  /\ reply[n] \in {"none", "ok", "err"}
  /\ vm[n].state = "none" <=> vm[n].kind = "none"
  /\ vm[n].state = "none" => vm[n].given = {} /\ vm[n].refused = {}

Turn(n, p) ==
  /\ n \notin started /\ p \notin started =>
       vm[n].state = "none" /\ task[n] = "idle" /\ asked[n] = "none" /\ reply[n] = "none"
  /\ ~(n \in started /\ p \in started)
  /\ task[n] \in {"peer-start", "peer-qmp", "own-qmp"} => n \in started
  /\ asked[n] # "none" => p \in started
  /\ reply[n] # "none" => task[n] \in {"peer-start", "peer-qmp"} /\ asked[p] = "none"
  /\ answer[n] = "ok" => n \in started
  /\ task[n] = "serve-qmp" => asked[n] = "peer-send-qmpcmds-secondary"
  /\ vm[n].state = "none" =>
       entry[n].status = "shutoff" /\ task[n] \in {"idle", "peer-start"} /\ answer[n] # "ok"
  /\ task[n] = "peer-start" => vm[n].state = "none"
  /\ asked[n] = "peer-start-domain" =>
       vm[n].state = "none" /\ vm[p].state = "none" /\ task[p] \in {"peer-start", "idle"}
  /\ asked[n] \in {"peer-send-qmpcmds-primary", "peer-send-qmpcmds-secondary"} =>
       vm[p].state # "none" /\ task[p] # "own-qmp"

Sides(n, p) ==
  /\ vm[n].state = "none" => entry[n].colo_status \in {"primary", "secondary"}
  /\ vm[n].state = "none" /\ vm[p].state = "none" => entry[n].colo_status # entry[p].colo_status
  /\ vm[n].kind \in {"none", "vm", "pvm", "svm"}
  /\ vm[n].kind = "svm" => entry[n].colo_status # "primary" /\ vm[p].kind \in {"none", "pvm"}
  /\ vm[n].kind = "pvm" => entry[n].colo_status # "secondary" /\ vm[p].kind \in {"none", "svm"}
  /\ vm[n].kind = "vm" => n \in started
  /\ task[n] = "peer-start" /\ reply[n] = "ok" =>
       vm[p].kind = IF entry[n].colo_status = "primary" THEN "svm" ELSE "pvm"
  /\ asked[n] = "peer-send-qmpcmds-secondary" => vm[p].kind = "pvm" /\ vm[n].kind = "svm"
  /\ asked[n] = "peer-send-qmpcmds-primary" => vm[p].kind = "svm"
  /\ task[n] \in {"own-qmp", "peer-qmp"} =>
       \/ vm[n].kind = "pvm" /\ entry[n].colo_status = "primary"
       \/ vm[n].kind = "svm" /\ entry[n].colo_status = "secondary"

PvmList(n) == generate_pvm_qmpcmd(domain, cs(n), "primary")
SvmList(n) == generate_svm_qmpcmd(domain, cs(n), "secondary")

Peers(h, p) == h \in Node /\ p \in Node /\ p = Peer[h] /\ h = Peer[p] /\ p # h /\ Node = {h, p}

Control == Tables /\ \A n \in Node : Shape(n) /\ Turn(n, Peer[n]) /\ Sides(n, Peer[n])

(***************************************************************************)
(* What a step of StartNext changes, host by host: h makes the step, p is  *)
(* its peer.                                                               *)
(***************************************************************************)
Calm(h, p) ==
  /\ asked'[h] = asked[h] /\ asked'[p] = asked[p]
  /\ reply'[h] = reply[h] /\ reply'[p] = reply[p]
SameHost(h)  == task'[h] = task[h] /\ answer'[h] = answer[h] /\ entry'[h] = entry[h]
SameConv(h)  == conv'[h] = conv[h]
SameVm(h)    == vm'[h] = vm[h]
SameStart    == started' = started /\ events' = events
Closed(h)    == conv'[h] = NoConv

Opened(h, cmds) ==
  /\ conv'[h].phase = "connect" /\ conv'[h].cmds = cmds
  /\ conv'[h].next = 1 /\ conv'[h].done = 0 /\ conv'[h].inbox = 0

Begun(h, kind) ==
  /\ vm'[h].kind = kind /\ vm'[h].state = "forked" /\ vm'[h].blocks = Line(h, kind).blocks
  /\ vm'[h].given = {} /\ vm'[h].refused = {} /\ vm'[h].nbd = << >> /\ vm'[h].gone = {}

Turns(h, t)   == task'[h] = t /\ answer'[h] = answer[h]
SameRole(h)   == entry'[h].colo_status = entry[h].colo_status
SameEntry(h)  == entry'[h] = entry[h]

\* The peer takes an answer if it waits for one.
Hears(h, p, a) ==
  /\ asked'[h] = "none" /\ asked'[p] = asked[p] /\ reply'[h] = reply[h]
  /\ reply'[p] = IF task[p] = "peer-start" \/ task[p] = "peer-qmp" THEN a ELSE reply[p]

Collected(h, p) == reply'[h] = "none" /\ reply'[p] = reply[p]
Asks(h, p, call) == asked'[h] = asked[h] /\ asked'[p] = call
NoAsk(h, p) == asked'[h] = asked[h] /\ asked'[p] = asked[p]

\* send_qmp_cmds comes back with "ok" once it has received after the last command.
Ended(h, result) ==
  \/ result = "err" /\ conv[h].phase = "connect"
  \/ /\ result = "ok" /\ conv[h].phase \in {"greeting", "answer"} /\ LastSent(conv[h])
     /\ (conv[h].inbox > 0 \/ Dead(h))

MNothing(h, p) ==
  SameHost(h) /\ SameConv(h) /\ SameVm(h) /\ Calm(h, p) /\ SameStart

MRefused(h, p) ==
  /\ vm[h].state # "none" /\ answer'[h] = "err" /\ task'[h] = task[h] /\ SameEntry(h)
  /\ SameConv(h) /\ SameVm(h) /\ Calm(h, p) /\ SameStart

MPlain(h, p) ==
  /\ task[h] = "idle" /\ task'[h] = "idle" /\ answer'[h] = "ok" /\ vm[h].state = "none"
  /\ h \notin started /\ p \notin started /\ h \in started' /\ p \notin started'
  /\ Begun(h, "vm") /\ SameRole(h) /\ entry'[h].status = "running"
  /\ SameConv(h) /\ Calm(h, p) /\ events' = events

MColo(h, p) ==
  /\ task[h] = "idle" /\ Turns(h, "peer-start") /\ vm[h].state = "none"
  /\ h \notin started /\ p \notin started /\ h \in started' /\ p \notin started'
  /\ Asks(h, p, "peer-start-domain") /\ reply'[h] = reply[h] /\ reply'[p] = reply[p]
  /\ SameEntry(h) /\ SameConv(h) /\ SameVm(h) /\ events' = events

MPeerStart(h, p) ==
  /\ task[h] = "idle" /\ Turns(h, "idle") /\ asked[h] = "peer-start-domain"
  /\ Begun(h, IF entry[h].colo_status = "primary" THEN "pvm" ELSE "svm") /\ SameRole(h)
  /\ Hears(h, p, "ok") /\ SameConv(h) /\ SameStart

MAfterStartP(h, p) ==
  /\ task[h] = "peer-start" /\ reply[h] = "ok" /\ Turns(h, "peer-qmp") /\ Collected(h, p)
  /\ entry[h].colo_status = "primary" /\ Begun(h, "pvm") /\ SameRole(h)
  /\ Asks(h, p, "peer-send-qmpcmds-secondary") /\ SameConv(h) /\ SameStart

MAfterStartS(h, p) ==
  /\ task[h] = "peer-start" /\ reply[h] = "ok" /\ Turns(h, "own-qmp") /\ Collected(h, p)
  /\ entry[h].colo_status = "secondary" /\ Begun(h, "svm") /\ SameRole(h)
  /\ Opened(h, SvmList(h)) /\ NoAsk(h, p) /\ SameStart

MServe(h, p) ==
  /\ task[h] = "idle" /\ asked[h] = "peer-send-qmpcmds-secondary" /\ vm[h].state # "none"
  /\ Turns(h, "serve-qmp") /\ Opened(h, SvmList(h))
  /\ SameEntry(h) /\ SameVm(h) /\ Calm(h, p) /\ SameStart

MReply(h, p) ==
  /\ task[h] = "idle" /\ Turns(h, "idle")
  /\ \E result \in {"ok", "err"} :
       /\ \/ asked[h] = "peer-send-qmpcmds-primary"
          \/ result = "err" /\ asked[h] = "peer-send-qmpcmds-secondary"
       /\ Hears(h, p, result)
  /\ SameEntry(h) /\ SameConv(h) /\ SameVm(h) /\ SameStart

MOwnTalk(h, p) ==
  /\ task[h] = "peer-qmp" /\ reply[h] = "ok" /\ entry[h].colo_status = "primary"
  /\ Turns(h, "own-qmp") /\ Collected(h, p) /\ NoAsk(h, p) /\ Opened(h, PvmList(h))
  /\ SameEntry(h) /\ SameVm(h) /\ SameStart

MBack(h, p) ==
  /\ \E result \in {"ok", "err"} :
       /\ \/ task[h] = "peer-qmp" /\ result = reply[h] /\ (result = "ok" => entry[h].colo_status # "primary")
          \/ task[h] \in {"peer-start", "peer-qmp"} /\ reply[h] = "none" /\ result = "err"
       /\ answer'[h] = result
  /\ task'[h] = "idle" /\ Collected(h, p) /\ NoAsk(h, p)
  /\ SameEntry(h) /\ SameConv(h) /\ SameVm(h) /\ SameStart

MSetParams(h, p) ==
  /\ task[h] = "idle" /\ entry[h].status # "shutoff" /\ Turns(h, "set-params")
  /\ \E property \in PropertyName : Opened(h, set_params_cmds(property))
  /\ SameEntry(h) /\ SameVm(h) /\ Calm(h, p) /\ SameStart

MFailover(h, p) ==
  /\ task[h] = "idle" /\ entry[h].status # "shutoff" /\ Turns(h, "failover")
  /\ entry'[h].status = entry[h].status
  /\ \/ /\ entry[h].colo_status = "secondary" /\ entry'[h].colo_status = "failover"
        /\ Opened(h, failover_svm_cmds)
     \/ entry[h].colo_status = "primary" /\ SameRole(h) /\ Opened(h, failover_pvm_cmds)
  /\ SameVm(h) /\ Calm(h, p) /\ SameStart

MToPeer(h, p) ==
  /\ task[h] = "own-qmp" /\ Ended(h, "ok") /\ entry[h].colo_status = "secondary"
  /\ Turns(h, "peer-qmp") /\ Closed(h)
  /\ Asks(h, p, "peer-send-qmpcmds-primary") /\ reply'[h] = reply[h] /\ reply'[p] = reply[p]
  /\ SameEntry(h) /\ SameVm(h) /\ SameStart

MOwnEnds(h, p) ==
  /\ task[h] = "own-qmp" /\ task'[h] = "idle" /\ Closed(h)
  /\ \E result \in {"ok", "err"} :
       /\ Ended(h, result) /\ (result = "ok" => entry[h].colo_status # "secondary")
       /\ answer'[h] = result
  /\ SameEntry(h) /\ SameVm(h) /\ Calm(h, p) /\ SameStart

MServed(h, p) ==
  /\ task[h] = "serve-qmp" /\ Turns(h, "idle") /\ Closed(h)
  /\ \E result \in {"ok", "err"} : Ended(h, result) /\ Hears(h, p, result)
  /\ SameEntry(h) /\ SameVm(h) /\ SameStart

MOtherEnds(h, p) ==
  /\ task[h] \in {"set-params", "failover"} /\ Turns(h, "idle") /\ Closed(h)
  /\ \E result \in {"ok", "err"} :
       /\ Ended(h, result)
       /\ \/ SameEntry(h) /\ ~(task[h] = "failover" /\ result = "ok")
          \/ task[h] = "failover" /\ result = "ok" /\ entry'[h].colo_status = "degrade"
  /\ SameVm(h) /\ Calm(h, p) /\ SameStart

\* colod ends: in a conversation with a vm that has ended, or at a definition it cannot read.
MEnds(h, p) ==
  /\ (conv[h].phase # "none" /\ Dead(h)) \/ task[h] = "idle"
  /\ Turns(h, "idle") /\ Closed(h) /\ asked'[h] = "none" /\ asked'[p] = asked[p]
  /\ reply'[h] = reply[h] /\ reply'[p] = reply[p]
  /\ SameEntry(h) /\ SameVm(h) /\ SameStart

\* Messages, and what the vm does.
Goes(h) ==   \* the conversation goes on
  /\ \/ /\ conv[h].phase = "connect" /\ conv'[h].phase = "greeting"   \* qmp_connect
        /\ conv'[h].next = conv[h].next /\ conv'[h].inbox = conv[h].inbox
        /\ Listening(h)
     \/ /\ conv[h].phase \in {"greeting", "answer"} /\ conv'[h].phase = "send"   \* qmp_recv
        /\ ~LastSent(conv[h]) /\ conv'[h].next = conv[h].next
        /\ conv'[h].inbox \in {0, conv[h].inbox - 1} /\ (conv[h].inbox > 0 \/ Dead(h))
     \/ /\ conv[h].phase = "send" /\ conv'[h].phase = "answer"   \* qmp_send
        /\ conv'[h].next = conv[h].next + 1 /\ conv'[h].inbox = conv[h].inbox
     \/ /\ conv[h].phase = "greeting" /\ conv'[h].phase = "greeting"   \* vm_greets
        /\ conv'[h].next = conv[h].next /\ conv'[h].inbox = 1
  /\ conv'[h].done = conv[h].done /\ conv'[h].cmds = conv[h].cmds

MTalk(h, p) ==
  /\ Goes(h) /\ SameVm(h) /\ SameHost(h) /\ Calm(h, p) /\ SameStart

MExecutes(h, p) ==
  /\ vm[h].state = "runs" /\ conv[h].done < conv[h].next - 1
  /\ LET c == conv[h].cmds[conv[h].done + 1]
     IN vm'[h] = IF Accepts(h, c) THEN Executed(vm[h], c)
                 ELSE Refused(vm[h], c)
  /\ vm'[h].kind = vm[h].kind /\ vm'[h].state = vm[h].state
  /\ conv'[h].done = conv[h].done + 1 /\ conv'[h].inbox = conv[h].inbox + 1
  /\ conv'[h].phase = conv[h].phase /\ conv'[h].cmds = conv[h].cmds /\ conv'[h].next = conv[h].next
  /\ SameHost(h) /\ Calm(h, p) /\ SameStart

MEvent(h, p) ==
  /\ events' = events + 1 /\ started' = started
  /\ conv'[h].inbox = conv[h].inbox + 1
  /\ conv'[h].phase = conv[h].phase /\ conv'[h].cmds = conv[h].cmds
  /\ conv'[h].next = conv[h].next /\ conv'[h].done = conv[h].done
  /\ SameVm(h) /\ SameHost(h) /\ Calm(h, p)

MBecomes(h, p) ==
  /\ \/ vm[h].state = "forked" /\ vm'[h].state = "qmp"
     \/ vm[h].state = "qmp" /\ vm'[h].state \in {"dead", "channels"}
     \/ vm[h].state = "channels" /\ vm'[h].state = "runs"
     \/ vm[h].state \notin {"none", "dead"} /\ vm'[h].state = "dead"
  /\ vm'[h].kind = vm[h].kind /\ vm'[h].blocks = vm[h].blocks /\ vm'[h].nbd = vm[h].nbd
  /\ vm'[h].given = vm[h].given /\ vm'[h].refused = vm[h].refused /\ vm'[h].gone = vm[h].gone
  /\ SameConv(h) /\ SameHost(h) /\ Calm(h, p) /\ SameStart

Move(h, p) ==
  \/ MNothing(h, p)
  \/ MRefused(h, p)
  \/ MPlain(h, p)
  \/ MColo(h, p)
  \/ MPeerStart(h, p)
  \/ MAfterStartP(h, p)
  \/ MAfterStartS(h, p)
  \/ MServe(h, p)
  \/ MReply(h, p)
  \/ MOwnTalk(h, p)
  \/ MBack(h, p)
  \/ MSetParams(h, p)
  \/ MFailover(h, p)
  \/ MToPeer(h, p)
  \/ MOwnEnds(h, p)
  \/ MServed(h, p)
  \/ MOtherEnds(h, p)
  \/ MEnds(h, p)
  \/ MTalk(h, p)
  \/ MExecutes(h, p)
  \/ MEvent(h, p)
  \/ MBecomes(h, p)

\* What no step of h changes.
Aside(p) ==
  /\ task'[p] = task[p] /\ answer'[p] = answer[p] /\ entry'[p] = entry[p]
  /\ conv'[p] = conv[p] /\ vm'[p] = vm[p]
  /\ definition' = definition /\ local_status' = local_status

\* All of it, of a host and its peer.
Both(h, p) ==
  /\ Shape(h) /\ Turn(h, p) /\ Sides(h, p)
  /\ Shape(p) /\ Turn(p, h) /\ Sides(p, h)

\* define, of a document that is read: answered, or refused for a field that is not there.
LEMMA Define1Moves ==
  ASSUME NEW h \in Node, NEW p \in Node, Peers(h, p), Tables, Shape(h), Sides(h, p),
         Free(h), definition' = definition, defined' \in {"yes", "err"},
         UNCHANGED <<up, task, conv, asked, local_status, entry, reply, answer, vm,
                     started, events>>
  PROVE  Tables' /\ Aside(p) /\ MNothing(h, p)
<1>1. Tables'
  BY DEF Tables, Peers, Free
<1>2. Aside(p)
  BY DEF Tables, Peers, Aside, Free
<1>3. MNothing(h, p)
  BY DEF Tables, Peers, Free, MNothing, SameHost, SameConv, SameVm, Calm, SameStart,
     SameEntry
<1> QED
  BY <1>1, <1>2, <1>3

\* define, at a value of the wrong kind: the colod of the host ends.
LEMMA Define2Moves ==
  ASSUME NEW h \in Node, NEW p \in Node, Peers(h, p), Tables, Shape(h), Sides(h, p),
         Free(h), ColodEnds(h),
         UNCHANGED <<definition, local_status, entry, reply, answer, vm, started, events>>
  PROVE  Tables' /\ Aside(p) /\ MEnds(h, p)
<1>1. Tables'
  BY Zenon DEF Tables, Peers, Free, ColodEnds, Goto, NoConv
<1>2. Aside(p)
  BY Zenon DEF Tables, Peers, Aside, Free, ColodEnds, Goto, NoConv
<1>3. MEnds(h, p)
  BY DEF Tables, Peers, Free, ColodEnds, Goto, NoConv, MEnds, SameVm, Turns, Closed,
     SameStart, SameEntry
<1> QED
  BY <1>1, <1>2, <1>3

\* colod_start of a domain that is not shut off.
LEMMA RefuseMoves ==
  ASSUME NEW h \in Node, NEW p \in Node, Peers(h, p), Tables, Shape(h), Sides(h, p),
         vm[h].state # "none", Refuses(h),
         UNCHANGED <<definition, local_status, events, started>>
  PROVE  Tables' /\ Aside(p) /\ MRefused(h, p)
<1>1. Tables'
  BY Zenon DEF Tables, Peers, Refuses, Answers
<1>2. Aside(p)
  BY DEF Tables, Peers, Aside, Refuses, Answers
<1>3. MRefused(h, p)
  BY DEF Tables, Peers, Refuses, Answers, MRefused, SameEntry, SameConv, SameVm, Calm,
     SameStart
<1> QED
  BY <1>1, <1>2, <1>3

\* colod_start without --colo-enable.
LEMMA PlainMoves ==
  ASSUME NEW h \in Node, NEW p \in Node, Peers(h, p), Tables, Shape(h), Sides(h, p),
         Free(h), vm[h].state = "none", started = {}, started' = {h}, StartsPlain(h),
         UNCHANGED <<definition, local_status, events>>
  PROVE  Tables' /\ Aside(p) /\ MPlain(h, p)
<1>1. Tables'
  BY Zenon DEF Tables, Peers, Free, StartsPlain, Answers, Fork, SetEntry, NoVm
<1>2. Aside(p)
  BY Zenon DEF Tables, Peers, Aside, Free, StartsPlain, Answers, Fork, SetEntry, NoVm
<1>3. MPlain(h, p)
  BY DEF Tables, Peers, Free, StartsPlain, Answers, Fork, SetEntry, NoVm, MPlain, SameConv,
     Calm, Begun, SameRole
<1> QED
  BY <1>1, <1>2, <1>3

\* colod_start with --colo-enable: the peer is asked first.
LEMMA ColoMoves ==
  ASSUME NEW h \in Node, NEW p \in Node, Peers(h, p), Tables, Shape(h), Sides(h, p),
         Free(h), vm[h].state = "none", started = {}, started' = {h}, StartsColo(h),
         UNCHANGED <<definition, local_status, events>>
  PROVE  Tables' /\ Aside(p) /\ MColo(h, p)
<1>1. Tables'
  BY Zenon DEF Tables, Peers, Free, StartsColo, AskPeer, Goto
<1>2. Aside(p)
  BY DEF Tables, Peers, Aside, Free, StartsColo, AskPeer, Goto
<1>3. MColo(h, p)
  BY DEF Tables, Peers, Free, StartsColo, AskPeer, Goto, MColo, SameEntry, SameConv, SameVm,
     Turns, Asks
<1> QED
  BY <1>1, <1>2, <1>3

\* colod_do_failover on a host that is the secondary.
LEMMA FailoverSMoves ==
  ASSUME NEW h \in Node, NEW p \in Node, Peers(h, p), Tables, Shape(h), Sides(h, p),
         Free(h), entry[h].status # "shutoff", Secondary(h),
         SetEntry(h, "colo_status", "failover"), Talk(h, failover_svm_cmds),
         Goto(h, "failover"), UNCHANGED <<StartFrame, asked, reply, answer, vm>>
  PROVE  Tables' /\ Aside(p) /\ MFailover(h, p)
<1>1. Tables'
  BY Zenon DEF Tables, Peers, Free, StartFrame, Talk, Goto, Opening, NoConv, SetEntry, Secondary
<1>2. Aside(p)
  BY Zenon DEF Tables, Peers, Aside, Free, StartFrame, Talk, Goto, Opening, NoConv, SetEntry,
     Secondary
<1>3. MFailover(h, p)
  BY DEF Tables, Peers, Free, StartFrame, Talk, Goto, Opening, NoConv, SetEntry, Secondary,
     MFailover, Turns, SameRole, Opened, SameVm, Calm, SameStart
<1> QED
  BY <1>1, <1>2, <1>3

\* colod_do_failover on a host that is the primary.
LEMMA FailoverPMoves ==
  ASSUME NEW h \in Node, NEW p \in Node, Peers(h, p), Tables, Shape(h), Sides(h, p),
         Free(h), entry[h].status # "shutoff", Primary(h), Talk(h, failover_pvm_cmds),
         Goto(h, "failover"), UNCHANGED <<StartFrame, entry, asked, reply, answer, vm>>
  PROVE  Tables' /\ Aside(p) /\ MFailover(h, p)
<1>1. Tables'
  BY Zenon DEF Tables, Peers, Free, StartFrame, Talk, Goto, Opening, NoConv, Primary
<1>2. Aside(p)
  BY Zenon DEF Tables, Peers, Aside, Free, StartFrame, Talk, Goto, Opening, NoConv, Primary
<1>3. MFailover(h, p)
  BY DEF Tables, Peers, Free, StartFrame, Talk, Goto, Opening, NoConv, Primary, MFailover,
     Turns, SameRole, Opened, SameVm, Calm, SameStart
<1> QED
  BY <1>1, <1>2, <1>3

\* The peer has started its vm, and this host is the primary.
LEMMA AfterStart1Moves ==
  ASSUME NEW h \in Node, NEW p \in Node, Peers(h, p), Tables, Shape(h), Sides(h, p),
         task[h] = "peer-start", reply[h] = "ok", Taken(h), ForkColo(h),
         SetEntry(h, "status", "colo-enabled"), Primary(h),
         AskPeer(h, "peer-send-qmpcmds-secondary"), Goto(h, "peer-qmp"),
         UNCHANGED <<StartFrame, answer, conv>>
  PROVE  Tables' /\ Aside(p) /\ MAfterStartP(h, p)
<1>1. Tables'
  BY Zenon DEF Tables, Peers, StartFrame, Taken, ForkColo, Fork, SetEntry, AskPeer, Goto, NoVm,
     Primary
<1>2. Aside(p)
  BY Zenon DEF Tables, Peers, Aside, StartFrame, Taken, ForkColo, Fork, SetEntry, AskPeer, Goto,
     NoVm, Primary
<1>3. MAfterStartP(h, p)
  BY Zenon DEF Tables, Peers, StartFrame, Taken, ForkColo, Fork, SetEntry, AskPeer, Goto, NoVm,
     Primary, MAfterStartP, Turns, Collected, Begun, SameRole, Asks, SameConv, SameStart
<1> QED
  BY <1>1, <1>2, <1>3

\* The peer has started its vm, and this host is the secondary.
LEMMA AfterStart2Moves ==
  ASSUME NEW h \in Node, NEW p \in Node, Peers(h, p), Tables, Shape(h), Sides(h, p),
         task[h] = "peer-start", reply[h] = "ok", Taken(h), ForkColo(h),
         SetEntry(h, "status", "colo-enabled"), Secondary(h),
         Talk(h, generate_svm_qmpcmd(domain, cs(h), entry[h].colo_status)),
         Goto(h, "own-qmp"), UNCHANGED <<StartFrame, answer, asked>>
  PROVE  Tables' /\ Aside(p) /\ MAfterStartS(h, p)
<1>1. Tables'
  BY Zenon DEF Tables, Peers, StartFrame, Taken, ForkColo, Fork, SetEntry, Goto, Talk, Opening,
     NoConv, NoVm, Primary, Secondary
<1>2. Aside(p)
  BY Zenon DEF Tables, Peers, Aside, StartFrame, Taken, ForkColo, Fork, SetEntry, Goto, Talk,
     Opening, NoConv, NoVm, Primary, Secondary
<1>3. MAfterStartS(h, p)
  BY Zenon DEF Tables, Peers, StartFrame, Taken, ForkColo, Fork, SetEntry, Goto, Talk, Opening,
     NoConv, NoVm, Primary, Secondary, MAfterStartS, Turns, Collected, Begun, SameRole,
     NoAsk, SameStart, Opened, SvmList
<1> QED
  BY <1>1, <1>2, <1>3

\* The peer's call for the commands of the secondary.
LEMMA ServeMoves ==
  ASSUME NEW h \in Node, NEW p \in Node, Peers(h, p), Tables, Shape(h), Sides(h, p),
         Free(h), asked[h] = "peer-send-qmpcmds-secondary", vm[h].state # "none",
         Talk(h, generate_svm_qmpcmd(domain, cs(h), entry[h].colo_status)),
         Goto(h, "serve-qmp"), UNCHANGED <<StartFrame, asked, reply, entry, answer, vm>>
  PROVE  Tables' /\ Aside(p) /\ MServe(h, p)
<1>1. Tables'
  BY Zenon DEF Tables, Peers, Free, StartFrame, Talk, Goto, Opening, NoConv
<1>2. Aside(p)
  BY Zenon DEF Tables, Peers, Aside, Free, StartFrame, Talk, Goto, Opening, NoConv
<1>3. MServe(h, p)
  BY Zenon DEF Tables, Peers, Free, StartFrame, Talk, Goto, Opening, NoConv, MServe, Turns,
     Opened, SameEntry, SameVm, Calm, SameStart, Sides, SvmList, generate_svm_qmpcmd, Sides
<1> QED
  BY <1>1, <1>2, <1>3

\* The peer's call for commands, answered at once.
LEMMA ReplyNowMoves ==
  ASSUME NEW h \in Node, NEW p \in Node, Peers(h, p), Tables, Shape(h), Sides(h, p),
         Free(h), NEW result \in {"ok", "err"},
         asked[h] = "peer-send-qmpcmds-primary"
           \/ (result = "err" /\ asked[h] = "peer-send-qmpcmds-secondary"),
         Replies(h, result), UNCHANGED <<StartFrame, task, conv, entry, answer, vm>>
  PROVE  Tables' /\ Aside(p) /\ MReply(h, p)
<1>1. Tables'
  BY Zenon DEF Tables, Peers, Free, StartFrame, Replies
<1>2. Aside(p)
  BY Zenon DEF Tables, Peers, Aside, Free, StartFrame, Replies
<1>3. MReply(h, p)
  BY Zenon DEF Tables, Peers, Free, StartFrame, Replies, MReply, Turns, SameEntry, SameVm,
     SameConv, SameStart, Hears
<1> QED
  BY <1>1, <1>2, <1>3

\* The peer's commands are through, and the primary gives its own.
LEMMA OwnTalkMoves ==
  ASSUME NEW h \in Node, NEW p \in Node, Peers(h, p), Tables, Shape(h), Sides(h, p),
         task[h] = "peer-qmp", reply[h] = "ok", Taken(h), Primary(h),
         Talk(h, generate_pvm_qmpcmd(domain, cs(h), entry[h].colo_status)),
         Goto(h, "own-qmp"), UNCHANGED <<StartFrame, answer, entry, asked, vm>>
  PROVE  Tables' /\ Aside(p) /\ MOwnTalk(h, p)
<1>1. Tables'
  BY Zenon DEF Tables, Peers, StartFrame, Taken, Talk, Goto, Opening, NoConv, Primary
<1>2. Aside(p)
  BY Zenon DEF Tables, Peers, Aside, StartFrame, Taken, Talk, Goto, Opening, NoConv, Primary
<1>3. MOwnTalk(h, p)
  BY DEF Tables, Peers, StartFrame, Taken, Talk, Goto, Opening, NoConv, Primary, MOwnTalk,
     Turns, Collected, NoAsk, Opened, SameEntry, SameVm, SameStart, PvmList
<1> QED
  BY <1>1, <1>2, <1>3

\* The peer's answer about the commands is the operator's.
LEMMA BackMoves ==
  ASSUME NEW h \in Node, NEW p \in Node, Peers(h, p), Tables, Shape(h), Sides(h, p),
         task[h] = "peer-qmp", reply[h] # "none", ~(reply[h] = "ok" /\ Primary(h)),
         Taken(h), Answers(h, reply[h]), Goto(h, "idle"),
         UNCHANGED <<StartFrame, entry, asked, vm, conv>>
  PROVE  Tables' /\ Aside(p) /\ MBack(h, p)
<1>1. Tables'
  BY Zenon DEF Tables, Peers, StartFrame, Taken, Goto, Answers, Primary
<1>2. Aside(p)
  BY Zenon DEF Tables, Peers, Aside, StartFrame, Taken, Goto, Answers, Primary
<1>3. MBack(h, p)
  BY Zenon DEF Tables, Peers, StartFrame, Taken, Goto, Answers, Primary, MBack, Turns, Collected,
     NoAsk, SameEntry, SameVm, SameConv, SameStart, Shape, Conversing
<1> QED
  BY <1>1, <1>2, <1>3

\* The secondary is through with its own commands, and asks the primary for its.
LEMMA FinishAMoves ==
  ASSUME NEW h \in Node, NEW p \in Node, Peers(h, p), Tables, Shape(h), Sides(h, p),
         NEW result \in {"ok", "err"}, Ended(h, result), task[h] = "own-qmp", result = "ok",
         Secondary(h), AskPeer(h, "peer-send-qmpcmds-primary"), Goto(h, "peer-qmp"),
         conv' = [conv EXCEPT ![h] = NoConv],
         UNCHANGED <<StartFrame, vm, entry, reply, answer>>
  PROVE  Tables' /\ Aside(p) /\ MToPeer(h, p)
<1>1. Tables'
  BY Zenon DEF Tables, Peers, StartFrame, Goto, AskPeer, NoConv, Secondary
<1>2. Aside(p)
  BY Zenon DEF Tables, Peers, Aside, StartFrame, Goto, AskPeer, NoConv, Secondary
<1>3. MToPeer(h, p)
  BY Zenon DEF Tables, Peers, StartFrame, Goto, AskPeer, NoConv, Secondary, MToPeer, Turns,
     Closed, Asks, SameEntry, SameVm, SameStart, Shape, Conversing
<1> QED
  BY <1>1, <1>2, <1>3

\* The start's own conversation ends, and with it colod_start.
LEMMA FinishBMoves ==
  ASSUME NEW h \in Node, NEW p \in Node, Peers(h, p), Tables, Shape(h), Sides(h, p),
         NEW result \in {"ok", "err"}, Ended(h, result), task[h] = "own-qmp",
         ~(result = "ok" /\ Secondary(h)), Answers(h, result), Goto(h, "idle"),
         conv' = [conv EXCEPT ![h] = NoConv],
         UNCHANGED <<StartFrame, vm, entry, asked, reply>>
  PROVE  Tables' /\ Aside(p) /\ MOwnEnds(h, p)
<1>1. Tables'
  BY Zenon DEF Tables, Peers, StartFrame, Goto, Answers, NoConv, Secondary
<1>2. Aside(p)
  BY Zenon DEF Tables, Peers, Aside, StartFrame, Goto, Answers, NoConv, Secondary
<1>3. MOwnEnds(h, p)
  BY DEF Tables, Peers, StartFrame, Goto, Answers, NoConv, Secondary, MOwnEnds, Turns,
     Closed, Calm, SameEntry, SameVm, SameStart, Shape, Conversing
<1> QED
  BY <1>1, <1>2, <1>3

\* The conversation that was served for the peer ends.
LEMMA FinishCMoves ==
  ASSUME NEW h \in Node, NEW p \in Node, Peers(h, p), Tables, Shape(h), Sides(h, p),
         NEW result \in {"ok", "err"}, Ended(h, result), task[h] = "serve-qmp",
         Replies(h, result), Goto(h, "idle"), conv' = [conv EXCEPT ![h] = NoConv],
         UNCHANGED <<StartFrame, vm, entry, answer>>
  PROVE  Tables' /\ Aside(p) /\ MServed(h, p)
<1>1. Tables'
  BY Zenon DEF Tables, Peers, StartFrame, Goto, Replies, NoConv
<1>2. Aside(p)
  BY Zenon DEF Tables, Peers, Aside, StartFrame, Goto, Replies, NoConv
<1>3. MServed(h, p)
  BY Zenon DEF Tables, Peers, StartFrame, Goto, Replies, NoConv, MServed, Turns, Closed, Hears,
     SameEntry, SameVm, SameStart, Shape, Conversing
<1> QED
  BY <1>1, <1>2, <1>3

\* A conversation of set-params or do-failover ends.
LEMMA FinishDMoves ==
  ASSUME NEW h \in Node, NEW p \in Node, Peers(h, p), Tables, Shape(h), Sides(h, p),
         NEW result \in {"ok", "err"}, Ended(h, result),
         task[h] \in {"set-params", "failover"},
         entry' = IF task[h] = "failover" /\ result = "ok"
                  THEN [entry EXCEPT ![h] = [status |-> "running", colo_status |-> "degrade"]]
                  ELSE entry,
         Goto(h, "idle"), conv' = [conv EXCEPT ![h] = NoConv],
         UNCHANGED <<StartFrame, vm, asked, reply, answer>>
  PROVE  Tables' /\ Aside(p) /\ MOtherEnds(h, p)
<1>1. Tables'
  BY Zenon DEF Tables, Peers, StartFrame, Goto, NoConv
<1>2. Aside(p)
  BY Zenon DEF Tables, Peers, Aside, StartFrame, Goto, NoConv
<1>3. MOtherEnds(h, p)
  BY Zenon DEF Tables, Peers, StartFrame, Goto, NoConv, MOtherEnds, Turns, Closed, Calm,
     SameEntry, SameVm, SameStart, Shape, Conversing
<1> QED
  BY <1>1, <1>2, <1>3

\* colod ends in a conversation with a vm that has ended.
LEMMA EndsMoves ==
  ASSUME NEW h \in Node, NEW p \in Node, Peers(h, p), Tables, Shape(h), Sides(h, p),
         colod_ends(h)
  PROVE  Tables' /\ Aside(p) /\ MEnds(h, p)
<1>1. Tables'
  BY Zenon DEF Tables, Peers, colod_ends, ColodEnds, Goto, NoConv
<1>2. Aside(p)
  BY Zenon DEF Tables, Peers, Aside, colod_ends, ColodEnds, Goto, NoConv
<1>3. MEnds(h, p)
  BY Zenon DEF Tables, Peers, colod_ends, ColodEnds, Goto, NoConv, MEnds, Turns, Closed,
     SameEntry, SameVm, SameStart, Shape, Conversing
<1> QED
  BY <1>1, <1>2, <1>3

\* A vm comes up, step by step, or ends.
LEMMA BecomesMoves ==
  ASSUME NEW h \in Node, NEW p \in Node, Peers(h, p), Tables, Shape(h), Sides(h, p), NEW s,
         Become(h, s),
         (vm[h].state = "forked" /\ s = "qmp")
           \/ (vm[h].state = "qmp" /\ s \in {"dead", "channels"})
           \/ (vm[h].state = "channels" /\ s = "runs")
           \/ (vm[h].state \notin {"none", "dead"} /\ s = "dead"),
         UNCHANGED <<StartFrame, entry, task, asked, reply, answer, conv>>
  PROVE  Tables' /\ Aside(p) /\ MBecomes(h, p)
<1>1. Tables'
  BY Zenon DEF Tables, Peers, StartFrame, Become
<1>2. Aside(p)
  BY DEF Tables, Peers, Aside, StartFrame, Become
<1>3. MBecomes(h, p)
  BY DEF Tables, Peers, StartFrame, Become, MBecomes, SameConv, SameHost, Calm, SameStart
<1> QED
  BY <1>1, <1>2, <1>3

\* colod_set_params.
LEMMA SetParamsMoves ==
  ASSUME NEW h \in Node, NEW p \in Node, Peers(h, p), Tables, Shape(h), Sides(h, p),
         NEW property \in PropertyName, colod_set_params(h, property)
  PROVE  Tables' /\ Aside(p) /\ MSetParams(h, p)
<1>1. Tables'
  BY Zenon DEF Tables, Peers, colod_set_params, Free, StartFrame, Talk, Goto, Opening, NoConv
<1>2. Aside(p)
  BY Zenon DEF Tables, Peers, Aside, colod_set_params, Free, StartFrame, Talk, Goto, Opening,
     NoConv
<1>3. MSetParams(h, p)
  BY DEF Tables, Peers, colod_set_params, Free, StartFrame, Talk, Goto, Opening, NoConv,
     MSetParams, Turns, Opened, SameEntry, SameVm, Calm, SameStart
<1> QED
  BY <1>1, <1>2, <1>3

\* A call to the peer times out.
LEMMA TimedOutMoves ==
  ASSUME NEW h \in Node, NEW p \in Node, Peers(h, p), Tables, Shape(h), Sides(h, p),
         timed_out(h)
  PROVE  Tables' /\ Aside(p) /\ MBack(h, p)
<1>1. Tables'
  BY Zenon DEF Tables, Peers, timed_out, StartFrame, Goto, Answers
<1>2. Aside(p)
  BY Zenon DEF Tables, Peers, Aside, timed_out, StartFrame, Goto, Answers
<1>3. MBack(h, p)
  BY DEF Tables, Peers, timed_out, StartFrame, Goto, Answers, MBack, Collected, NoAsk,
     SameEntry, SameVm, SameConv, SameStart
<1> QED
  BY <1>1, <1>2, <1>3

\* The QMP connection is made.
LEMMA ConnectMoves ==
  ASSUME NEW h \in Node, NEW p \in Node, Peers(h, p), Tables, Shape(h), Sides(h, p),
         qmp_connect(h), Listening(h), conv' = [conv EXCEPT ![h].phase = "greeting"],
         UNCHANGED <<entry, task, asked, reply, answer>>
  PROVE  Tables' /\ Aside(p) /\ MTalk(h, p)
<1>1. Tables'
  BY Zenon DEF Tables, Peers, qmp_connect, StartFrame
<1>2. Aside(p)
  BY DEF Tables, Peers, Aside, qmp_connect, StartFrame
<1>3. MTalk(h, p)
  BY DEF Tables, Peers, qmp_connect, StartFrame, MTalk, Goes, SameVm, SameHost, Calm,
     SameStart
<1> QED
  BY <1>1, <1>2, <1>3

\* qmp_recv, with commands left to send.
LEMMA RecvMoves ==
  ASSUME NEW h \in Node, NEW p \in Node, Peers(h, p), Tables, Shape(h), Sides(h, p),
         NEW left \in {0, conv[h].inbox - 1}, conv[h].phase \in {"greeting", "answer"},
         conv[h].inbox > 0 \/ Dead(h), ~LastSent(conv[h]), UNCHANGED <<StartFrame, vm>>,
         conv' = [conv EXCEPT ![h].phase = "send", ![h].inbox = left],
         UNCHANGED <<entry, task, asked, reply, answer>>
  PROVE  Tables' /\ Aside(p) /\ MTalk(h, p)
<1>1. Tables'
  BY Zenon DEF Tables, Peers, StartFrame
<1>2. Aside(p)
  BY Zenon DEF Tables, Peers, Aside, StartFrame
<1>3. MTalk(h, p)
  BY Zenon DEF Tables, Peers, StartFrame, MTalk, Goes, SameVm, SameHost, Calm, SameStart
<1> QED
  BY <1>1, <1>2, <1>3

\* qmp_send.
LEMMA SendMoves ==
  ASSUME NEW h \in Node, NEW p \in Node, Peers(h, p), Tables, Shape(h), Sides(h, p),
         qmp_send(h)
  PROVE  Tables' /\ Aside(p) /\ MTalk(h, p)
<1>1. Tables'
  BY Zenon DEF Tables, Peers, qmp_send, StartFrame
<1>2. Aside(p)
  BY Zenon DEF Tables, Peers, Aside, qmp_send, StartFrame
<1>3. MTalk(h, p)
  BY Zenon DEF Tables, Peers, qmp_send, StartFrame, MTalk, Goes, SameVm, SameHost, Calm, SameStart
<1> QED
  BY <1>1, <1>2, <1>3

\* QEMU's greeting.
LEMMA GreetsMoves ==
  ASSUME NEW h \in Node, NEW p \in Node, Peers(h, p), Tables, Shape(h), Sides(h, p),
         vm_greets(h)
  PROVE  Tables' /\ Aside(p) /\ MTalk(h, p)
<1>1. Tables'
  BY Zenon DEF Tables, Peers, vm_greets, StartFrame
<1>2. Aside(p)
  BY Zenon DEF Tables, Peers, Aside, vm_greets, StartFrame
<1>3. MTalk(h, p)
  BY Zenon DEF Tables, Peers, vm_greets, StartFrame, MTalk, Goes, SameVm, SameHost, Calm,
     SameStart
<1> QED
  BY <1>1, <1>2, <1>3

\* An event, which the client cannot tell from an answer.
LEMMA EventMoves ==
  ASSUME NEW h \in Node, NEW p \in Node, Peers(h, p), Tables, Shape(h), Sides(h, p),
         vm_event(h)
  PROVE  Tables' /\ Aside(p) /\ MEvent(h, p)
<1>1. Tables'
  BY Zenon DEF Tables, Peers, vm_event
<1>2. Aside(p)
  BY Zenon DEF Tables, Peers, Aside, vm_event
<1>3. MEvent(h, p)
  BY Zenon DEF Tables, Peers, vm_event, MEvent, SameVm, SameHost, Calm, SameStart
<1> QED
  BY <1>1, <1>2, <1>3

\* The peer's call to start the vm.
LEMMA PeerStartMoves ==
  ASSUME NEW h \in Node, NEW p \in Node, Peers(h, p), Tables, Shape(h), Sides(h, p),
         peer_colod_start_domain(h)
  PROVE  Tables' /\ Aside(p) /\ MPeerStart(h, p)
<1>1. Tables'
  BY Zenon DEF Tables, Peers, peer_colod_start_domain, Free, StartFrame, ForkColo, Fork, SetEntry,
     Replies, NoVm, Primary
<1>2. Aside(p)
  BY Zenon DEF Tables, Peers, Aside, peer_colod_start_domain, Free, StartFrame, ForkColo, Fork,
     SetEntry, Replies, NoVm, Primary
<1>3. MPeerStart(h, p)
  BY Zenon DEF Tables, Peers, peer_colod_start_domain, Free, StartFrame, ForkColo, Fork, SetEntry,
     Replies, NoVm, Primary, MPeerStart, Turns, Begun, SameRole, Hears, SameConv, SameStart
<1> QED
  BY <1>1, <1>2, <1>3

\* QEMU executes the next command, or refuses it.
LEMMA ExecutesMoves ==
  ASSUME NEW h \in Node, NEW p \in Node, Peers(h, p), Tables, Shape(h), Sides(h, p),
         vm_executes(h)
  PROVE  Tables' /\ Aside(p) /\ MExecutes(h, p)
<1> DEFINE c == conv[h].cmds[conv[h].done + 1]
           v == IF Accepts(h, c) THEN Executed(vm[h], c)
                ELSE Refused(vm[h], c)
<1>2. Aside(p)
  BY Zenon DEF Tables, Peers, Aside, vm_executes, StartFrame
<1>3. /\ vm[h].state = "runs" /\ conv[h].done < conv[h].next - 1
      /\ vm' = [vm EXCEPT ![h] = v]
      /\ conv' = [conv EXCEPT ![h].done = @ + 1, ![h].inbox = @ + 1]
      /\ UNCHANGED <<StartFrame, entry, task, asked, reply, answer>>
  BY Zenon DEF vm_executes
<1> HIDE DEF v
<1>4. vm'[h] = v
  BY <1>3 DEF Tables
<1>9. DOMAIN v = DOMAIN vm[h] /\ v.kind = vm[h].kind /\ v.state = vm[h].state
  <2>1. LET w == Executed(vm[h], c)
        IN DOMAIN w = DOMAIN vm[h] /\ w.kind = vm[h].kind /\ w.state = vm[h].state
    BY DEF Executed, Tables
  <2>2. LET w == Refused(vm[h], c)
        IN DOMAIN w = DOMAIN vm[h] /\ w.kind = vm[h].kind /\ w.state = vm[h].state
    BY DEF Refused, Tables
  <2> QED
    BY <2>1, <2>2, Zenon DEF v
<1>1. Tables'
  BY <1>3, <1>9 DEF Tables, StartFrame
<1>5. /\ conv'[h].done = conv[h].done + 1 /\ conv'[h].inbox = conv[h].inbox + 1
      /\ conv'[h].phase = conv[h].phase /\ conv'[h].cmds = conv[h].cmds /\ conv'[h].next = conv[h].next
  BY <1>3 DEF Tables
<1>6. SameHost(h) /\ Calm(h, p) /\ SameStart
  BY <1>3 DEF SameHost, Calm, SameStart, StartFrame
<1>7. MExecutes(h, p)
  BY <1>3, <1>4, <1>5, <1>6, <1>9, Zenon DEF MExecutes, v
<1> QED
  BY <1>1, <1>2, <1>7

\* What each move keeps of the order of a start (Shape, Turn and Sides of the host
\* that moves and of its peer).  Define, refused or answered.
LEMMA NothingControl ==
  ASSUME NEW h \in Node, NEW p \in Node, p # h, Both(h, p), Aside(p), MNothing(h, p)
  PROVE  Both(h, p)'
<1> USE DEF Aside, MNothing, SameHost, SameConv, SameVm, Calm, SameStart
<1>1. Shape(h)' /\ Shape(p)'
  BY DEF Both, Shape, Turn, Conversing
<1>2. Turn(h, p)'
  BY DEF Both, Turn, Shape, Conversing
<1>3. Turn(p, h)'
  BY DEF Both, Turn, Shape, Conversing
<1>4. Sides(h, p)'
  BY DEF Both, Sides, Turn, Shape
<1>5. Sides(p, h)'
  BY DEF Both, Sides, Turn, Shape
<1> QED
  BY <1>1, <1>2, <1>3, <1>4, <1>5 DEF Both

\* A start that is refused.
LEMMA RefusedControl ==
  ASSUME NEW h \in Node, NEW p \in Node, p # h, Both(h, p), Aside(p), MRefused(h, p)
  PROVE  Both(h, p)'
<1> USE DEF Aside, MRefused, SameEntry, SameConv, SameVm, Calm, SameStart
<1>1. Shape(h)' /\ Shape(p)'
  BY DEF Both, Shape, Turn, Conversing
<1>2. Turn(h, p)'
  BY DEF Both, Turn, Shape, Conversing
<1>3. Turn(p, h)'
  BY DEF Both, Turn, Shape, Conversing
<1>4. Sides(h, p)'
  BY DEF Both, Sides, Turn, Shape
<1>5. Sides(p, h)'
  BY DEF Both, Sides, Turn, Shape
<1> QED
  BY <1>1, <1>2, <1>3, <1>4, <1>5 DEF Both

\* A plain start.
LEMMA PlainControl ==
  ASSUME NEW h \in Node, NEW p \in Node, p # h, Both(h, p), Aside(p), MPlain(h, p)
  PROVE  Both(h, p)'
<1> USE DEF Aside, MPlain, SameConv, Calm, Begun, SameRole
<1>1. Shape(h)' /\ Shape(p)'
  BY DEF Both, Shape, Turn, Conversing
<1>2. Turn(h, p)'
  BY DEF Both, Turn, Shape, Conversing
<1>3. Turn(p, h)'
  BY DEF Both, Turn, Shape, Conversing
<1>4. Sides(h, p)'
  BY DEF Both, Sides, Turn, Shape
<1>5. Sides(p, h)'
  BY DEF Both, Sides, Turn, Shape
<1> QED
  BY <1>1, <1>2, <1>3, <1>4, <1>5 DEF Both

\* A start that asks the peer.
LEMMA ColoControl ==
  ASSUME NEW h \in Node, NEW p \in Node, p # h, Both(h, p), Aside(p), MColo(h, p)
  PROVE  Both(h, p)'
<1> USE DEF Aside, MColo, SameEntry, SameConv, SameVm, Turns, Asks
<1>1. Shape(h)' /\ Shape(p)'
  BY DEF Both, Shape, Turn, Conversing
<1>2. Turn(h, p)'
  BY DEF Both, Turn, Shape, Conversing
<1>3. Turn(p, h)'
  BY DEF Both, Turn, Shape, Conversing
<1>4. Sides(h, p)'
  BY DEF Both, Sides, Turn, Shape
<1>5. Sides(p, h)'
  BY DEF Both, Sides, Turn, Shape
<1> QED
  BY <1>1, <1>2, <1>3, <1>4, <1>5 DEF Both

\* A vm started for the peer.
LEMMA PeerStartControl ==
  ASSUME NEW h \in Node, NEW p \in Node, p # h, Both(h, p), Aside(p), MPeerStart(h, p)
  PROVE  Both(h, p)'
<1> USE DEF Aside, MPeerStart, Turns, Begun, SameRole, Hears, SameConv, SameStart
<1>1. Shape(h)' /\ Shape(p)'
  BY DEF Both, Shape, Turn, Conversing
<1>2. Turn(h, p)'
  BY DEF Both, Turn, Shape, Conversing
<1>3. Turn(p, h)'
  BY DEF Both, Turn, Shape, Conversing
<1>4. Sides(h, p)'
  BY DEF Both, Sides, Turn, Shape
<1>5. Sides(p, h)'
  BY DEF Both, Sides, Turn, Shape
<1> QED
  BY <1>1, <1>2, <1>3, <1>4, <1>5 DEF Both

\* The primary starts its vm after the secondary's.
LEMMA AfterStartPControl ==
  ASSUME NEW h \in Node, NEW p \in Node, p # h, Both(h, p), Aside(p), MAfterStartP(h, p)
  PROVE  Both(h, p)'
<1> USE DEF Aside, MAfterStartP, Turns, Collected, Begun, SameRole, Asks, SameConv,
            SameStart
<1>1. Shape(h)' /\ Shape(p)'
  BY DEF Both, Shape, Turn, Conversing
<1>2. Turn(h, p)'
  BY DEF Both, Turn, Shape, Conversing
<1>3. Turn(p, h)'
  BY DEF Both, Turn, Shape, Conversing
<1>4. Sides(h, p)'
  BY DEF Both, Sides, Turn, Shape
<1>5. Sides(p, h)'
  BY DEF Both, Sides, Turn, Shape
<1> QED
  BY <1>1, <1>2, <1>3, <1>4, <1>5 DEF Both

\* The secondary starts its vm after the primary's.
LEMMA AfterStartSControl ==
  ASSUME NEW h \in Node, NEW p \in Node, p # h, Both(h, p), Aside(p), MAfterStartS(h, p)
  PROVE  Both(h, p)'
<1> USE DEF Aside, MAfterStartS, Turns, Collected, Begun, SameRole, NoAsk, SameStart, Opened
<1>1. Shape(h)' /\ Shape(p)'
  BY DEF Both, Shape, Turn, Conversing
<1>2. Turn(h, p)'
  BY DEF Both, Turn, Shape, Conversing
<1>3. Turn(p, h)'
  BY DEF Both, Turn, Shape, Conversing
<1>4. Sides(h, p)'
  BY DEF Both, Sides, Turn, Shape
<1>5. Sides(p, h)'
  BY DEF Both, Sides, Turn, Shape
<1> QED
  BY <1>1, <1>2, <1>3, <1>4, <1>5 DEF Both

\* A call for the secondary's commands is served.
LEMMA ServeControl ==
  ASSUME NEW h \in Node, NEW p \in Node, p # h, Both(h, p), Aside(p), MServe(h, p)
  PROVE  Both(h, p)'
<1> USE DEF Aside, MServe, Turns, Opened, SameEntry, SameVm, Calm, SameStart
<1>1. Shape(h)' /\ Shape(p)'
  BY DEF Both, Shape, Turn, Conversing
<1>2. Turn(h, p)'
  BY DEF Both, Turn, Shape, Conversing
<1>3. Turn(p, h)'
  BY DEF Both, Turn, Shape, Conversing
<1>4. Sides(h, p)'
  BY DEF Both, Sides, Turn, Shape
<1>5. Sides(p, h)'
  BY DEF Both, Sides, Turn, Shape
<1> QED
  BY <1>1, <1>2, <1>3, <1>4, <1>5 DEF Both

\* A call for commands is answered at once.
LEMMA ReplyControl ==
  ASSUME NEW h \in Node, NEW p \in Node, p # h, Both(h, p), Aside(p), MReply(h, p)
  PROVE  Both(h, p)'
<1> USE DEF Aside, MReply, Turns, SameEntry, SameVm, SameConv, SameStart, Hears
<1>1. Shape(h)' /\ Shape(p)'
  BY DEF Both, Shape, Turn, Conversing
<1>2. Turn(h, p)'
  BY DEF Both, Turn, Shape, Conversing
<1>3. Turn(p, h)'
  BY DEF Both, Turn, Shape, Conversing
<1>4. Sides(h, p)'
  BY DEF Both, Sides, Turn, Shape
<1>5. Sides(p, h)'
  BY DEF Both, Sides, Turn, Shape
<1> QED
  BY <1>1, <1>2, <1>3, <1>4, <1>5 DEF Both

\* The primary gives its own commands, after the secondary's.
LEMMA OwnTalkControl ==
  ASSUME NEW h \in Node, NEW p \in Node, p # h, Both(h, p), Aside(p), MOwnTalk(h, p)
  PROVE  Both(h, p)'
<1> USE DEF Aside, MOwnTalk, Turns, Collected, NoAsk, Opened, SameEntry, SameVm, SameStart
<1>1. Shape(h)' /\ Shape(p)'
  BY DEF Both, Shape, Turn, Conversing
<1>2. Turn(h, p)'
  BY DEF Both, Turn, Shape, Conversing
<1>3. Turn(p, h)'
  BY DEF Both, Turn, Shape, Conversing
<1>4. Sides(h, p)'
  BY DEF Both, Sides, Turn, Shape
<1>5. Sides(p, h)'
  BY DEF Both, Sides, Turn, Shape
<1> QED
  BY <1>1, <1>2, <1>3, <1>4, <1>5 DEF Both

\* The operator is answered with what the peer answered.
LEMMA BackControl ==
  ASSUME NEW h \in Node, NEW p \in Node, p # h, Both(h, p), Aside(p), MBack(h, p)
  PROVE  Both(h, p)'
<1> USE DEF Aside, MBack, Collected, NoAsk, SameEntry, SameVm, SameConv, SameStart
<1>1. Shape(h)' /\ Shape(p)'
  BY DEF Both, Shape, Turn, Conversing
<1>2. Turn(h, p)'
  BY DEF Both, Turn, Shape, Conversing
<1>3. Turn(p, h)'
  BY DEF Both, Turn, Shape, Conversing
<1>4. Sides(h, p)'
  BY DEF Both, Sides, Turn, Shape
<1>5. Sides(p, h)'
  BY DEF Both, Sides, Turn, Shape
<1> QED
  BY <1>1, <1>2, <1>3, <1>4, <1>5 DEF Both

\* set-params.
LEMMA SetParamsControl ==
  ASSUME NEW h \in Node, NEW p \in Node, p # h, Both(h, p), Aside(p), MSetParams(h, p)
  PROVE  Both(h, p)'
<1> USE DEF Aside, MSetParams, Turns, Opened, SameEntry, SameVm, Calm, SameStart
<1>1. Shape(h)' /\ Shape(p)'
  BY DEF Both, Shape, Turn, Conversing
<1>2. Turn(h, p)'
  BY DEF Both, Turn, Shape, Conversing
<1>3. Turn(p, h)'
  BY DEF Both, Turn, Shape, Conversing
<1>4. Sides(h, p)'
  BY DEF Both, Sides, Turn, Shape
<1>5. Sides(p, h)'
  BY DEF Both, Sides, Turn, Shape
<1> QED
  BY <1>1, <1>2, <1>3, <1>4, <1>5 DEF Both

\* do-failover.
LEMMA FailoverControl ==
  ASSUME NEW h \in Node, NEW p \in Node, p # h, Both(h, p), Aside(p), MFailover(h, p)
  PROVE  Both(h, p)'
<1> USE DEF Aside, MFailover, Turns, SameRole, Opened, SameVm, Calm, SameStart
<1>1. Shape(h)' /\ Shape(p)'
  BY DEF Both, Shape, Turn, Conversing
<1>2. Turn(h, p)'
  BY DEF Both, Turn, Shape, Conversing
<1>3. Turn(p, h)'
  BY DEF Both, Turn, Shape, Conversing
<1>4. Sides(h, p)'
  BY DEF Both, Sides, Turn, Shape
<1>5. Sides(p, h)'
  BY DEF Both, Sides, Turn, Shape
<1> QED
  BY <1>1, <1>2, <1>3, <1>4, <1>5 DEF Both

\* The secondary asks for the primary's commands, after its own.
LEMMA ToPeerControl ==
  ASSUME NEW h \in Node, NEW p \in Node, p # h, Both(h, p), Aside(p), MToPeer(h, p)
  PROVE  Both(h, p)'
<1> USE DEF Aside, MToPeer, Turns, Closed, Asks, SameEntry, SameVm, SameStart, NoConv
<1>1. Shape(h)' /\ Shape(p)'
  BY DEF Both, Shape, Turn, Conversing
<1>2. Turn(h, p)'
  BY DEF Both, Turn, Shape, Conversing
<1>3. Turn(p, h)'
  BY DEF Both, Turn, Shape, Conversing
<1>4. Sides(h, p)'
  BY DEF Both, Sides, Turn, Shape
<1>5. Sides(p, h)'
  BY DEF Both, Sides, Turn, Shape
<1> QED
  BY <1>1, <1>2, <1>3, <1>4, <1>5 DEF Both

\* The conversation of the start ends.
LEMMA OwnEndsControl ==
  ASSUME NEW h \in Node, NEW p \in Node, p # h, Both(h, p), Aside(p), MOwnEnds(h, p)
  PROVE  Both(h, p)'
<1> USE DEF Aside, MOwnEnds, Closed, Calm, SameEntry, SameVm, SameStart, NoConv
<1>1. Shape(h)' /\ Shape(p)'
  BY DEF Both, Shape, Turn, Conversing
<1>2. Turn(h, p)'
  BY DEF Both, Turn, Shape, Conversing
<1>3. Turn(p, h)'
  BY DEF Both, Turn, Shape, Conversing
<1>4. Sides(h, p)'
  BY DEF Both, Sides, Turn, Shape
<1>5. Sides(p, h)'
  BY DEF Both, Sides, Turn, Shape
<1> QED
  BY <1>1, <1>2, <1>3, <1>4, <1>5 DEF Both

\* The served conversation ends, and the peer hears of it.
LEMMA ServedControl ==
  ASSUME NEW h \in Node, NEW p \in Node, p # h, Both(h, p), Aside(p), MServed(h, p)
  PROVE  Both(h, p)'
<1> USE DEF Aside, MServed, Turns, Closed, Hears, SameEntry, SameVm, SameStart, NoConv
<1>1. Shape(h)' /\ Shape(p)'
  BY DEF Both, Shape, Turn, Conversing
<1>2. Turn(h, p)'
  BY DEF Both, Turn, Shape, Conversing
<1>3. Turn(p, h)'
  BY DEF Both, Turn, Shape, Conversing
<1>4. Sides(h, p)'
  BY DEF Both, Sides, Turn, Shape
<1>5. Sides(p, h)'
  BY DEF Both, Sides, Turn, Shape
<1> QED
  BY <1>1, <1>2, <1>3, <1>4, <1>5 DEF Both

\* set-params or do-failover ends.
LEMMA OtherEndsControl ==
  ASSUME NEW h \in Node, NEW p \in Node, p # h, Both(h, p), Aside(p), MOtherEnds(h, p)
  PROVE  Both(h, p)'
<1> USE DEF Aside, MOtherEnds, Turns, Closed, Calm, SameEntry, SameVm, SameStart, NoConv
<1>1. Shape(h)' /\ Shape(p)'
  BY DEF Both, Shape, Turn, Conversing
<1>2. Turn(h, p)'
  BY DEF Both, Turn, Shape, Conversing
<1>3. Turn(p, h)'
  BY DEF Both, Turn, Shape, Conversing
<1>4. Sides(h, p)'
  BY DEF Both, Sides, Turn, Shape
<1>5. Sides(p, h)'
  BY DEF Both, Sides, Turn, Shape
<1> QED
  BY <1>1, <1>2, <1>3, <1>4, <1>5 DEF Both

\* colod ends.
LEMMA EndsControl ==
  ASSUME NEW h \in Node, NEW p \in Node, p # h, Both(h, p), Aside(p), MEnds(h, p)
  PROVE  Both(h, p)'
<1> USE DEF Aside, MEnds, Turns, Closed, SameEntry, SameVm, SameStart, NoConv
<1>1. Shape(h)' /\ Shape(p)'
  BY DEF Both, Shape, Turn, Conversing
<1>2. Turn(h, p)'
  BY DEF Both, Turn, Shape, Conversing
<1>3. Turn(p, h)'
  BY DEF Both, Turn, Shape, Conversing
<1>4. Sides(h, p)'
  BY DEF Both, Sides, Turn, Shape
<1>5. Sides(p, h)'
  BY DEF Both, Sides, Turn, Shape
<1> QED
  BY <1>1, <1>2, <1>3, <1>4, <1>5 DEF Both

\* The conversation goes on.
LEMMA TalkControl ==
  ASSUME NEW h \in Node, NEW p \in Node, p # h, Both(h, p), Aside(p), MTalk(h, p)
  PROVE  Both(h, p)'
<1> USE DEF Aside, MTalk, SameVm, SameHost, Calm, SameStart, Goes
<1>1. Shape(h)' /\ Shape(p)'
  BY DEF Both, Shape, Turn, Conversing
<1>2. Turn(h, p)'
  BY DEF Both, Turn, Shape, Conversing
<1>3. Turn(p, h)'
  BY DEF Both, Turn, Shape, Conversing
<1>4. Sides(h, p)'
  BY DEF Both, Sides, Turn, Shape
<1>5. Sides(p, h)'
  BY DEF Both, Sides, Turn, Shape
<1> QED
  BY <1>1, <1>2, <1>3, <1>4, <1>5 DEF Both

\* An event.
LEMMA EventControl ==
  ASSUME NEW h \in Node, NEW p \in Node, p # h, Both(h, p), Aside(p), MEvent(h, p)
  PROVE  Both(h, p)'
<1> USE DEF Aside, MEvent, SameVm, SameHost, Calm, SameStart
<1>1. Shape(h)' /\ Shape(p)'
  BY DEF Both, Shape, Turn, Conversing
<1>2. Turn(h, p)'
  BY DEF Both, Turn, Shape, Conversing
<1>3. Turn(p, h)'
  BY DEF Both, Turn, Shape, Conversing
<1>4. Sides(h, p)'
  BY DEF Both, Sides, Turn, Shape
<1>5. Sides(p, h)'
  BY DEF Both, Sides, Turn, Shape
<1> QED
  BY <1>1, <1>2, <1>3, <1>4, <1>5 DEF Both

\* A vm comes up or ends.
LEMMA BecomesControl ==
  ASSUME NEW h \in Node, NEW p \in Node, p # h, Both(h, p), Aside(p), MBecomes(h, p)
  PROVE  Both(h, p)'
<1> USE DEF Aside, MBecomes, SameConv, SameHost, Calm, SameStart
<1>1. Shape(h)' /\ Shape(p)'
  BY DEF Both, Shape, Turn, Conversing
<1>2. Turn(h, p)'
  BY DEF Both, Turn, Shape, Conversing
<1>3. Turn(p, h)'
  BY DEF Both, Turn, Shape, Conversing
<1>4. Sides(h, p)'
  BY DEF Both, Sides, Turn, Shape
<1>5. Sides(p, h)'
  BY DEF Both, Sides, Turn, Shape
<1> QED
  BY <1>1, <1>2, <1>3, <1>4, <1>5 DEF Both

\* A command is executed.
LEMMA ExecutesControl ==
  ASSUME NEW h \in Node, NEW p \in Node, p # h, Both(h, p), Aside(p), MExecutes(h, p)
  PROVE  Both(h, p)'
<1>0. /\ vm[h].state = "runs" /\ vm'[h].kind = vm[h].kind /\ vm'[h].state = vm[h].state
      /\ conv'[h].phase = conv[h].phase
  BY DEF MExecutes
<1>6. SameHost(h) /\ Calm(h, p) /\ SameStart
  BY DEF MExecutes
<1> USE DEF Aside, SameHost, Calm, SameStart
<1>1. Shape(h)' /\ Shape(p)'
  BY <1>0, <1>6 DEF Both, Shape, Turn, Conversing
<1>2. Turn(h, p)'
  BY <1>0, <1>6 DEF Both, Turn, Shape, Conversing
<1>3. Turn(p, h)'
  BY <1>0, <1>6 DEF Both, Turn, Shape, Conversing
<1>4. Sides(h, p)'
  BY <1>0, <1>6 DEF Both, Sides, Turn, Shape
<1>5. Sides(p, h)'
  BY <1>0, <1>6 DEF Both, Sides, Turn, Shape
<1> QED
  BY <1>1, <1>2, <1>3, <1>4, <1>5 DEF Both

\* Every step of StartNext is one of the moves, of the host that makes it.
LEMMA StepMoves ==
  ASSUME Control, StartNext
  PROVE  Tables' /\ \E h, p \in Node : Peers(h, p) /\ Aside(p) /\ Move(h, p)
<1>1. PICK h \in Node : Operator(h) \/ ColodStep(h) \/ VmStep(h) \/ Fault(h)
  BY Zenon DEF StartNext
<1>2. PICK p \in Node : Peers(h, p)
  BY PeerAssumption DEF Peers
<1>3. Tables /\ Shape(h) /\ Sides(h, p)
  BY <1>2 DEF Control, Peers
<1> DEFINE Goal == Tables' /\ Aside(p) /\ Move(h, p)
<1> SUFFICES Goal
  BY <1>2
<1>4. CASE define(h)
  <2>1. Free(h) /\ UNCHANGED <<definition, local_status, entry, reply, answer, vm, started, events>>
    BY <1>4 DEF define
  <2>2. CASE ColodEnds(h)
    BY <1>2, <1>3, <2>1, <2>2, Define2Moves, Zenon DEF Move
  <2>3. CASE defined' \in {"yes", "err"} /\ UNCHANGED <<up, task, conv, asked>>
    BY <1>2, <1>3, <2>1, <2>3, Define1Moves, Zenon DEF Move
  <2> QED
    BY <1>4, <2>2, <2>3 DEF define
<1>5. ASSUME NEW colo_enable \in BOOLEAN, colod_start(h, colo_enable) PROVE Goal
  <2>1. Free(h) /\ UNCHANGED <<definition, local_status, events>>
    BY <1>5 DEF colod_start
  <2>2. CASE vm[h].state # "none" /\ Refuses(h) /\ UNCHANGED started
    BY <1>2, <1>3, <2>1, <2>2, RefuseMoves, Zenon DEF Move
  <2>3. CASE vm[h].state = "none" /\ started = {} /\ started' = {h} /\ StartsPlain(h)
    BY <1>2, <1>3, <2>1, <2>3, PlainMoves, Zenon DEF Move
  <2>4. CASE vm[h].state = "none" /\ started = {} /\ started' = {h} /\ StartsColo(h)
    BY <1>2, <1>3, <2>1, <2>4, ColoMoves, Zenon DEF Move
  <2> QED
    BY <1>5, <2>2, <2>3, <2>4, Zenon DEF colod_start
<1>6. ASSUME NEW property \in PropertyName, colod_set_params(h, property) PROVE Goal
  BY <1>2, <1>3, <1>6, SetParamsMoves, Zenon DEF Move
<1>7. CASE colod_do_failover(h)
  <2>1. /\ Free(h) /\ entry[h].status # "shutoff" /\ Goto(h, "failover")
        /\ UNCHANGED <<StartFrame, asked, reply, answer, vm>>
    BY <1>7 DEF colod_do_failover
  <2>2. CASE Secondary(h) /\ SetEntry(h, "colo_status", "failover") /\ Talk(h, failover_svm_cmds)
    BY <1>2, <1>3, <2>1, <2>2, FailoverSMoves, Zenon DEF Move
  <2>3. CASE Primary(h) /\ Talk(h, failover_pvm_cmds) /\ UNCHANGED entry
    <3>1. UNCHANGED <<StartFrame, entry, asked, reply, answer, vm>>
      BY <2>1, <2>3
    <3> QED
      BY <1>2, <1>3, <2>1, <2>3, <3>1, FailoverPMoves, Zenon DEF Move
  <2> QED
    BY <1>7, <2>2, <2>3, Zenon DEF colod_do_failover
<1>8. CASE peer_colod_start_domain(h)
  BY <1>2, <1>3, <1>8, PeerStartMoves, Zenon DEF Move
<1>9. CASE after_peer_start(h)
  <2>1. /\ task[h] = "peer-start" /\ reply[h] = "ok" /\ Taken(h) /\ ForkColo(h)
        /\ SetEntry(h, "status", "colo-enabled") /\ UNCHANGED <<StartFrame, answer>>
    BY <1>9 DEF after_peer_start
  <2>2. CASE /\ Primary(h) /\ AskPeer(h, "peer-send-qmpcmds-secondary") /\ Goto(h, "peer-qmp")
             /\ UNCHANGED conv
    <3>1. UNCHANGED <<StartFrame, answer, conv>>
      BY <2>1, <2>2
    <3> QED
      BY <1>2, <1>3, <2>1, <2>2, <3>1, AfterStart1Moves, Zenon DEF Move
  <2>3. CASE /\ Secondary(h) /\ Goto(h, "own-qmp") /\ UNCHANGED asked
             /\ Talk(h, generate_svm_qmpcmd(domain, cs(h), entry[h].colo_status))
    <3>1. UNCHANGED <<StartFrame, answer, asked>>
      BY <2>1, <2>3
    <3> QED
      BY <1>2, <1>3, <2>1, <2>3, <3>1, AfterStart2Moves, Zenon DEF Move
  <2> QED
    BY <1>9, <2>2, <2>3, Zenon DEF after_peer_start
<1>10. CASE peer_colod_send_qmpcmds(h)
  <2>1. Free(h) /\ UNCHANGED <<StartFrame, entry, answer, vm>>
    BY <1>10 DEF peer_colod_send_qmpcmds
  <2>2. CASE /\ asked[h] = "peer-send-qmpcmds-primary" /\ Replies(h, "ok") /\ UNCHANGED <<task, conv>>
    <3>1. UNCHANGED <<StartFrame, task, conv, entry, answer, vm>> /\ "ok" \in {"ok", "err"}
      BY <2>1, <2>2
    <3> QED
      BY <1>2, <1>3, <2>1, <2>2, <3>1, ReplyNowMoves, Zenon DEF Move
  <2>3. CASE /\ asked[h] \in {"peer-send-qmpcmds-primary", "peer-send-qmpcmds-secondary"}
             /\ Replies(h, "err") /\ UNCHANGED <<task, conv>>
    <3>1. UNCHANGED <<StartFrame, task, conv, entry, answer, vm>> /\ "err" \in {"ok", "err"}
      BY <2>1, <2>3
    <3>2. asked[h] = "peer-send-qmpcmds-primary" \/ asked[h] = "peer-send-qmpcmds-secondary"
      BY <2>3
    <3> QED
      BY <1>2, <1>3, <2>1, <2>3, <3>1, <3>2, ReplyNowMoves, Zenon DEF Move
  <2>4. CASE /\ asked[h] = "peer-send-qmpcmds-secondary" /\ vm[h].state # "none"
             /\ Talk(h, generate_svm_qmpcmd(domain, cs(h), entry[h].colo_status))
             /\ Goto(h, "serve-qmp") /\ UNCHANGED <<asked, reply>>
    <3>1. UNCHANGED <<StartFrame, asked, reply, entry, answer, vm>>
      BY <2>1, <2>4
    <3> QED
      BY <1>2, <1>3, <2>1, <2>4, <3>1, ServeMoves, Zenon DEF Move
  <2> QED
    BY <1>10, <2>2, <2>3, <2>4, Zenon DEF peer_colod_send_qmpcmds
<1>11. CASE after_peer_qmp(h)
  <2>1. /\ task[h] = "peer-qmp" /\ reply[h] # "none" /\ Taken(h)
        /\ UNCHANGED <<StartFrame, entry, asked, vm>>
    BY <1>11 DEF after_peer_qmp
  <2>2. CASE /\ reply[h] = "ok" /\ Primary(h) /\ Goto(h, "own-qmp") /\ UNCHANGED answer
             /\ Talk(h, generate_pvm_qmpcmd(domain, cs(h), entry[h].colo_status))
    <3>1. UNCHANGED <<StartFrame, answer, entry, asked, vm>>
      BY <2>1, <2>2
    <3> QED
      BY <1>2, <1>3, <2>1, <2>2, <3>1, OwnTalkMoves, Zenon DEF Move
  <2>3. CASE /\ ~(reply[h] = "ok" /\ Primary(h)) /\ Answers(h, reply[h]) /\ Goto(h, "idle")
             /\ UNCHANGED conv
    <3>1. UNCHANGED <<StartFrame, entry, asked, vm, conv>>
      BY <2>1, <2>3
    <3> QED
      BY <1>2, <1>3, <2>1, <2>3, <3>1, BackMoves, Zenon DEF Move
  <2> QED
    BY <1>11, <2>2, <2>3, Zenon DEF after_peer_qmp
<1>12. ASSUME NEW result \in {"ok", "err"}, Ended(h, result), Finish(h, result),
              UNCHANGED <<StartFrame, vm>>
       PROVE  Goal
  <2>1. conv' = [conv EXCEPT ![h] = NoConv]
    BY <1>12 DEF Finish
  <2>2. CASE /\ task[h] = "own-qmp" /\ result = "ok" /\ Secondary(h)
             /\ AskPeer(h, "peer-send-qmpcmds-primary") /\ Goto(h, "peer-qmp")
             /\ UNCHANGED <<entry, reply, answer>>
    <3>1. UNCHANGED <<StartFrame, vm, entry, reply, answer>>
      BY <1>12, <2>2
    <3> QED
      BY <1>2, <1>3, <1>12, <2>1, <2>2, <3>1, FinishAMoves, Zenon DEF Move
  <2>3. CASE /\ task[h] = "own-qmp" /\ ~(result = "ok" /\ Secondary(h)) /\ Answers(h, result)
             /\ Goto(h, "idle") /\ UNCHANGED <<entry, asked, reply>>
    <3>1. UNCHANGED <<StartFrame, vm, entry, asked, reply>>
      BY <1>12, <2>3
    <3> QED
      BY <1>2, <1>3, <1>12, <2>1, <2>3, <3>1, FinishBMoves, Zenon DEF Move
  <2>4. CASE task[h] = "serve-qmp" /\ Replies(h, result) /\ Goto(h, "idle") /\ UNCHANGED <<entry, answer>>
    <3>1. UNCHANGED <<StartFrame, vm, entry, answer>>
      BY <1>12, <2>4
    <3> QED
      BY <1>2, <1>3, <1>12, <2>1, <2>4, <3>1, FinishCMoves, Zenon DEF Move
  <2>5. CASE /\ task[h] \in {"set-params", "failover"}
             /\ entry' = IF task[h] = "failover" /\ result = "ok"
                         THEN [entry EXCEPT ![h] = [status |-> "running", colo_status |-> "degrade"]]
                         ELSE entry
             /\ Goto(h, "idle") /\ UNCHANGED <<asked, reply, answer>>
    <3>1. UNCHANGED <<StartFrame, vm, asked, reply, answer>>
      BY <1>12, <2>5
    <3> QED
      BY <1>2, <1>3, <1>12, <2>1, <2>5, <3>1, FinishDMoves, Zenon DEF Move
  <2> QED
    BY <1>12, <2>2, <2>3, <2>4, <2>5, Zenon DEF Finish
<1>13. CASE qmp_connect(h)
  <2>1. conv[h].phase = "connect" /\ UNCHANGED <<StartFrame, vm>>
    BY <1>13 DEF qmp_connect
  <2>2. CASE /\ Listening(h) /\ conv' = [conv EXCEPT ![h].phase = "greeting"]
             /\ UNCHANGED <<entry, task, asked, reply, answer>>
    BY <1>2, <1>3, <1>13, <2>2, ConnectMoves, Zenon DEF Move
  <2>3. CASE Finish(h, "err")
    <3>1. Ended(h, "err") /\ "err" \in {"ok", "err"}
      BY <2>1 DEF Ended
    <3> QED
      BY <1>12, <2>1, <2>3, <3>1
  <2> QED
    BY <1>13, <2>2, <2>3, Zenon DEF qmp_connect
<1>14. CASE qmp_recv(h)
  <2>1. PICK left \in {0, conv[h].inbox - 1} :
          /\ conv[h].inbox > 0 \/ Dead(h)
          /\ \/ LastSent(conv[h]) /\ Finish(h, "ok")
             \/ /\ ~LastSent(conv[h])
                /\ conv' = [conv EXCEPT ![h].phase = "send", ![h].inbox = left]
                /\ UNCHANGED <<entry, task, asked, reply, answer>>
    BY <1>14, Zenon DEF qmp_recv
  <2>2. conv[h].phase \in {"greeting", "answer"} /\ UNCHANGED <<StartFrame, vm>>
    BY <1>14 DEF qmp_recv
  <2>3. CASE LastSent(conv[h]) /\ Finish(h, "ok")
    <3>1. Ended(h, "ok") /\ "ok" \in {"ok", "err"}
      BY <2>1, <2>2, <2>3 DEF Ended
    <3> QED
      BY <1>12, <2>2, <2>3, <3>1
  <2>4. CASE /\ ~LastSent(conv[h])
             /\ conv' = [conv EXCEPT ![h].phase = "send", ![h].inbox = left]
             /\ UNCHANGED <<entry, task, asked, reply, answer>>
    BY <1>2, <1>3, <2>1, <2>2, <2>4, RecvMoves, Zenon DEF Move
  <2> QED
    BY <2>1, <2>3, <2>4
<1>15. CASE qmp_send(h)
  BY <1>2, <1>3, <1>15, SendMoves, Zenon DEF Move
<1>16. CASE colod_ends(h)
  BY <1>2, <1>3, <1>16, EndsMoves, Zenon DEF Move
<1>17. ASSUME NEW s, Become(h, s), UNCHANGED <<StartFrame, entry, task, asked, reply, answer, conv>>,
              \/ vm[h].state = "forked" /\ s = "qmp"
              \/ vm[h].state = "qmp" /\ s \in {"dead", "channels"}
              \/ vm[h].state = "channels" /\ s = "runs"
              \/ vm[h].state \notin {"none", "dead"} /\ s = "dead"
       PROVE  Goal
  BY <1>2, <1>3, <1>17, BecomesMoves, Zenon DEF Move
<1>18. CASE vm_opens(h)
  <2>1. UNCHANGED <<StartFrame, entry, task, asked, reply, answer, conv>>
    BY <1>18 DEF vm_opens
  <2>2. CASE vm[h].state = "forked" /\ Become(h, "qmp")
    BY <1>17, <2>1, <2>2
  <2>3. CASE vm[h].state = "qmp" /\ Become(h, IF CannotBind(h) THEN "dead" ELSE "channels")
    <3> DEFINE s == IF CannotBind(h) THEN "dead" ELSE "channels"
    <3>1. s \in {"dead", "channels"}
      BY Zenon
    <3> HIDE DEF s
    <3>2. Become(h, s)
      BY <2>3 DEF s
    <3> QED
      BY <1>17, <2>1, <2>3, <3>1, <3>2
  <2>4. CASE vm[h].state = "channels" /\ Become(h, "runs")
    BY <1>17, <2>1, <2>4
  <2> QED
    BY <1>18, <2>2, <2>3, <2>4, Zenon DEF vm_opens
<1>19. CASE vm_greets(h)
  BY <1>2, <1>3, <1>19, GreetsMoves, Zenon DEF Move
<1>20. CASE vm_executes(h)
  BY <1>2, <1>3, <1>20, ExecutesMoves, Zenon DEF Move
<1>21. CASE timed_out(h)
  BY <1>2, <1>3, <1>21, TimedOutMoves, Zenon DEF Move
<1>22. CASE vm_event(h)
  BY <1>2, <1>3, <1>22, EventMoves, Zenon DEF Move
<1>23. CASE vm_dies(h)
  <2>1. /\ UNCHANGED <<StartFrame, entry, task, asked, reply, answer, conv>>
        /\ vm[h].state \notin {"none", "dead"} /\ Become(h, "dead")
    BY <1>23 DEF vm_dies
  <2> QED
    BY <1>17, <2>1
<1> QED
  BY <1>1, <1>4, <1>5, <1>6, <1>7, <1>8, <1>9, <1>10, <1>11, <1>13, <1>14, <1>15, <1>16,
     <1>18, <1>19, <1>20, <1>21, <1>22, <1>23, Zenon DEF Operator, ColodStep, VmStep, Fault

\* The control is kept by every step.
LEMMA ControlStep == Control /\ [StartNext]_startVars => Control'
<1>1. ASSUME Control, StartNext PROVE Control'
  <2>1. Tables' /\ \E h, p \in Node : Peers(h, p) /\ Aside(p) /\ Move(h, p)
    BY <1>1, StepMoves
  <2>2. PICK h \in Node, p \in Node : Peers(h, p) /\ Aside(p) /\ Move(h, p)
    BY <2>1
  <2>3. Both(h, p) /\ p # h
    BY <1>1, <2>2 DEF Control, Both, Peers
  <2>4. Both(h, p)'
    BY <2>2, <2>3, Zenon, NothingControl, RefusedControl, PlainControl, ColoControl,
       PeerStartControl, AfterStartPControl, AfterStartSControl, ServeControl, ReplyControl,
       OwnTalkControl, BackControl, SetParamsControl, FailoverControl, ToPeerControl,
       OwnEndsControl, ServedControl, OtherEndsControl, EndsControl, TalkControl,
       ExecutesControl, EventControl, BecomesControl DEF Move
  <2>5. h = Peer[p] /\ p = Peer[h] /\ Node = {h, p}
    BY <2>2 DEF Peers
  <2>6. ASSUME NEW n \in Node PROVE Shape(n)' /\ Turn(n, Peer[n])' /\ Sides(n, Peer[n])'
    <3>1. CASE n = h
      BY <2>4, <2>5, <3>1, Zenon DEF Both
    <3>2. CASE n = p
      BY <2>4, <2>5, <3>2, Zenon DEF Both
    <3> QED
      BY <2>5, <3>1, <3>2
  <2> QED
    BY <2>1, <2>6, Zenon DEF Control
<1>2. ASSUME Control, UNCHANGED startVars PROVE Control'
  <2>1. UNCHANGED <<entry, task, asked, reply, answer, conv, vm, started>>
    BY <1>2 DEF startVars
  <2>2. Tables'
    BY <1>2, <2>1, Zenon DEF Control, Tables
  <2>3. ASSUME NEW n \in Node PROVE Shape(n)' /\ Turn(n, Peer[n])' /\ Sides(n, Peer[n])'
    <3>1. Shape(n)'
      BY <1>2, <2>1, Zenon DEF Control, Shape, Conversing
    <3>2. Turn(n, Peer[n])'
      BY <1>2, <2>1, Zenon DEF Control, Turn
    <3>3. Sides(n, Peer[n])'
      BY <1>2, <2>1, Zenon DEF Control, Sides
    <3> QED
      BY <3>1, <3>2, <3>3
  <2> QED
    BY <2>2, <2>3 DEF Control
<1> QED
  BY <1>1, <1>2

\* Nothing has been asked, and the two hosts have different roles.
LEMMA ControlInit == StartInit => Control
<1> SUFFICES ASSUME StartInit PROVE Control
  OBVIOUS
<1>1. PICK role \in Roles : entry = [n \in Node |-> [status |-> "shutoff", colo_status |-> role[n]]]
  BY DEF StartInit
<1>2. \A n \in Node : role[n] \in {"primary", "secondary"} /\ role[n] # role[Peer[n]]
  BY <1>1 DEF Roles
<1>3. Tables
  BY <1>1 DEF StartInit, Tables, NoConv, NoVm
<1>4. ASSUME NEW n \in Node PROVE Shape(n) /\ Turn(n, Peer[n]) /\ Sides(n, Peer[n])
  <2>1. PICK p \in Node : p = Peer[n]
    BY PeerAssumption
  <2>2. /\ task[n] = "idle" /\ asked[n] = "none" /\ reply[n] = "none" /\ answer[n] = "none"
        /\ conv[n].phase = "none" /\ vm[n].state = "none" /\ vm[n].kind = "none"
        /\ vm[n].given = {} /\ vm[n].refused = {}
        /\ entry[n].status = "shutoff" /\ entry[n].colo_status = role[n]
        /\ task[p] = "idle" /\ vm[p].kind = "none"  /\ entry[p].colo_status = role[p]
        /\ started = {}
    BY <1>1 DEF StartInit, NoConv, NoVm
  <2>3. Shape(n)
    BY <2>2 DEF Shape, Conversing
  <2>4. Turn(n, p)
    BY <2>2 DEF Turn
  <2>5. Sides(n, p)
    BY <1>2, <2>1, <2>2 DEF Sides
  <2> QED
    BY <2>1, <2>3, <2>4, <2>5
<1> QED
  BY <1>3, <1>4 DEF Control
-----------------------------------------------------------------------------
(***************************************************************************)
(* What a start has achieved, as long as no vm has ended, no do-failover   *)
(* has told a vm anything and at most one event was taken for an answer.   *)
(***************************************************************************)
Untouched(n) ==
  /\ vm[n].state # "dead" /\ entry[n].colo_status \in {"primary", "secondary"}
  /\ task[n] = "failover" => conv[n].phase = "connect"

Good == KnownOS(domain) /\ events <= 1 /\ \A n \in Node : Untouched(n)

OwnList(n) == IF vm[n].kind = "pvm" THEN PvmList(n) ELSE SvmList(n)
OwnLen(n)  == IF vm[n].kind = "pvm" THEN 6 ELSE 4

\* A conversation: its commands, and that nothing is taken that was not sent.
Speaks(n) ==
  /\ task[n] \in {"own-qmp", "serve-qmp"} =>
       /\ vm[n].kind \in {"pvm", "svm"}
       /\ conv[n].cmds = OwnList(n) /\ Len(conv[n].cmds) = OwnLen(n)
  /\ task[n] = "set-params" =>
       /\ Len(conv[n].cmds) = 2
       /\ \E property \in PropertyName : conv[n].cmds = set_params_cmds(property)

Counted(n) ==
  IF task[n] \notin {"own-qmp", "serve-qmp", "set-params"}
  THEN conv[n].next = 1 /\ conv[n].done = 0
  ELSE
    /\ conv[n].next \in Nat /\ conv[n].done \in Nat /\ conv[n].inbox \in Nat
    /\ conv[n].done < conv[n].next /\ conv[n].next <= Len(conv[n].cmds) + 1
    /\ conv[n].phase = "send" => conv[n].next <= Len(conv[n].cmds)
    /\ conv[n].phase \in {"connect", "greeting"} => conv[n].next = 1
    /\ conv[n].phase = "send" => conv[n].next + conv[n].inbox <= 1 + conv[n].done + events
    /\ conv[n].phase # "send" => conv[n].next + conv[n].inbox <= 2 + conv[n].done + events

\* What the vm has made of the commands it was given.
Made(n) ==
  /\ \A c \in vm[n].refused : c.execute = "qom-set"
  /\ vm[n].kind \in {"pvm", "svm"} =>
    /\ "colo-disk0" \in vm[n].blocks /\ (vm[n].kind = "svm" => "parent0" \in vm[n].blocks)
    /\ \A c \in vm[n].given : Adds(c) \subseteq vm[n].blocks
    /\ vm[n].kind = "svm" /\ SvmList(n)[2] \in vm[n].given => vm[n].nbd = SvmList(n)[2].at
    /\ vm[n].given # {} => vm[n].state = "runs"

\* How far its own list of commands is.
Reached(n, p) ==
  /\ task[n] \in {"own-qmp", "serve-qmp"} =>
       \A j \in 1 .. conv[n].done : OwnList(n)[j] \in vm[n].given
  /\ vm[n].kind = "svm" =>
       \/ vm[n].nbd = << >>
       \/ /\ ~(asked[n] = "peer-send-qmpcmds-secondary" /\ task[n] # "serve-qmp")
          /\ task[p] # "peer-start"
          /\ ~(task[n] \in {"own-qmp", "serve-qmp"} /\ conv[n].done <= 1)

Told(n) == \A j \in 1 .. OwnLen(n) : j + events <= OwnLen(n) => OwnList(n)[j] \in vm[n].given

Ordered(n, p) ==
  /\ task[n] = "own-qmp" /\ vm[n].kind = "pvm" => Told(p)
  /\ task[n] = "peer-qmp" /\ vm[n].kind = "pvm" /\ reply[n] = "ok" => Told(p)
  /\ task[n] = "peer-qmp" /\ vm[n].kind = "svm" => Told(n)
  /\ answer[n] = "ok" /\ vm[n].kind \in {"pvm", "svm"} =>
       Told(n) /\ (vm[p].kind = "svm" => Told(p))

Sound(n, p) == Speaks(n) /\ Counted(n) /\ Made(n) /\ Reached(n, p) /\ Ordered(n, p)

GoodIsSound == Good => \A n \in Node : Sound(n, Peer[n])
-----------------------------------------------------------------------------

\* The lists do not change: the definition and the roles are read, never written.
LEMMA ListsStay ==
  ASSUME definition' = definition, local_status' = local_status, NEW n \in Node
  PROVE  /\ domain' = domain
         /\ PvmList(n)' = PvmList(n) /\ SvmList(n)' = SvmList(n)
<1>1. domain' = domain
  BY DEF domain
<1>2. cs(n)' = cs(n)
  BY DEF cs
<1> QED
  BY <1>1, <1>2, Zenon DEF PvmList, SvmList, generate_pvm_qmpcmd, generate_svm_qmpcmd

\* The commands of the two lists.
LEMMA ListsAre ==
  ASSUME NEW h \in Node, NEW p \in Node, p = Peer[h]
  PROVE  /\ Len(PvmList(h)) = 6 /\ Len(SvmList(h)) = 4
         /\ PvmList(h)[1] = capabilities /\ SvmList(h)[1] = capabilities
         /\ PvmList(h)[2] = QmpAt("drive_add", "replication0", p, sec(domain, "nbd_port"))
         /\ PvmList(h)[3] = Qmp("x-blockdev-change-add", "replication0")
         /\ PvmList(h)[4] = Qmp("migrate-set-capabilities", "x-colo")
         /\ PvmList(h)[5] = Qmp("migrate-set-parameters", "max-bandwidth")
         /\ PvmList(h)[6] = QmpAt("migrate", "colo", p, sec(domain, "migrate_port"))
         /\ SvmList(h)[2] = QmpAt("nbd-server-start", "nbd", h, sec(domain, "nbd_port"))
         /\ SvmList(h)[3] = Qmp("nbd-server-add", "parent0")
         /\ SvmList(h)[4] = Qmp("migrate-set-parameters", "max-bandwidth")
BY DEF PvmList, SvmList, generate_pvm_qmpcmd, generate_svm_qmpcmd, cs

\* A command by its name, and by the address it is about.
LEMMA CommandFields ==
  ASSUME NEW execute, NEW id, NEW h, NEW port
  PROVE  /\ Qmp(execute, id).execute = execute
         /\ QmpAt(execute, id, h, port).execute = execute
         /\ QmpAt(execute, id, h, port).at = <<h, port>>
         /\ capabilities.execute = "qmp_capabilities"
BY DEF Qmp, QmpAt, capabilities

\* What the commands of the two lists do, and at which address.
LEMMA ListsDo ==
  ASSUME NEW h \in Node, NEW p \in Node, p = Peer[h]
  PROVE  /\ PvmList(h)[1].execute = "qmp_capabilities"
         /\ PvmList(h)[2].execute = "drive_add"
         /\ PvmList(h)[2].at = <<p, sec(domain, "nbd_port")>>
         /\ PvmList(h)[3].execute = "x-blockdev-change-add"
         /\ PvmList(h)[4].execute = "migrate-set-capabilities"
         /\ PvmList(h)[5].execute = "migrate-set-parameters"
         /\ PvmList(h)[6].execute = "migrate"
         /\ PvmList(h)[6].at = <<p, sec(domain, "migrate_port")>>
         /\ SvmList(h)[1].execute = "qmp_capabilities"
         /\ SvmList(h)[2].execute = "nbd-server-start"
         /\ SvmList(h)[2].at = <<h, sec(domain, "nbd_port")>>
         /\ SvmList(h)[3].execute = "nbd-server-add"
         /\ SvmList(h)[4].execute = "migrate-set-parameters"
<1>1. /\ PvmList(h)[1] = capabilities /\ SvmList(h)[1] = capabilities
      /\ PvmList(h)[2] = QmpAt("drive_add", "replication0", p, sec(domain, "nbd_port"))
      /\ PvmList(h)[3] = Qmp("x-blockdev-change-add", "replication0")
      /\ PvmList(h)[4] = Qmp("migrate-set-capabilities", "x-colo")
      /\ PvmList(h)[5] = Qmp("migrate-set-parameters", "max-bandwidth")
      /\ PvmList(h)[6] = QmpAt("migrate", "colo", p, sec(domain, "migrate_port"))
      /\ SvmList(h)[2] = QmpAt("nbd-server-start", "nbd", h, sec(domain, "nbd_port"))
      /\ SvmList(h)[3] = Qmp("nbd-server-add", "parent0")
      /\ SvmList(h)[4] = Qmp("migrate-set-parameters", "max-bandwidth")
  BY ListsAre
<1>2. /\ capabilities.execute = "qmp_capabilities"
      /\ \A execute, id : Qmp(execute, id).execute = execute
      /\ \A execute, id, i, port : /\ QmpAt(execute, id, i, port).execute = execute
                                  /\ QmpAt(execute, id, i, port).at = <<i, port>>
  BY DEF Qmp, QmpAt, capabilities
<1> QED
  BY <1>1, <1>2

\* Once a vm has ended or a do-failover has told it something, that stays so.
LEMMA GoodBefore ==
  ASSUME NEW h \in Node, NEW p \in Node, Peers(h, p), Both(h, p), Aside(p), Move(h, p),
         events \in Nat, Good'
  PROVE  Good
<1>1. KnownOS(domain)
  BY ListsStay DEF Good, Aside, KnownOS
<1>2. events' = events \/ events' = events + 1
  BY DEF Move, MNothing, MRefused, MPlain, MColo, MPeerStart, MAfterStartP, MAfterStartS,
     MServe,
         MReply, MOwnTalk, MBack, MSetParams, MFailover, MToPeer, MOwnEnds, MServed, MOtherEnds,
         MEnds, MTalk, MExecutes, MEvent, MBecomes, SameStart
<1>3. events <= 1
  BY <1>2 DEF Good
<1>4. Untouched(p)
  BY DEF Good, Aside, Untouched
<1>5. Untouched(h)'
  BY DEF Good
<1>6. Untouched(h)
  <2> USE <1>5 DEF Untouched
  <2>1. CASE MNothing(h, p)
    BY <2>1 DEF MNothing, SameHost, SameConv, SameVm
  <2>2. CASE MRefused(h, p)
    BY <2>2 DEF MRefused, SameEntry, SameConv, SameVm
  <2>3. CASE MPlain(h, p)
    BY <2>3 DEF MPlain, SameRole
  <2>4. CASE MColo(h, p)
    BY <2>4 DEF MColo, SameEntry, SameVm
  <2>5. CASE MPeerStart(h, p)
    BY <2>5 DEF MPeerStart, SameRole, Both, Turn
  <2>6. CASE MAfterStartP(h, p)
    BY <2>6 DEF MAfterStartP, SameRole, Both, Turn
  <2>7. CASE MAfterStartS(h, p)
    BY <2>7 DEF MAfterStartS, SameRole, Both, Turn
  <2>8. CASE MServe(h, p)
    BY <2>8 DEF MServe, SameEntry, SameVm
  <2>9. CASE MReply(h, p)
    BY <2>9 DEF MReply, SameEntry, SameVm
  <2>10. CASE MOwnTalk(h, p)
    BY <2>10 DEF MOwnTalk, SameEntry, SameVm
  <2>11. CASE MBack(h, p)
    BY <2>11 DEF MBack, SameEntry, SameVm
  <2>12. CASE MSetParams(h, p)
    BY <2>12 DEF MSetParams, SameEntry, SameVm
  <2>13. CASE MFailover(h, p)
    BY <2>13 DEF MFailover, Opened, SameVm
  <2>14. CASE MToPeer(h, p)
    BY <2>14 DEF MToPeer, SameEntry, SameVm
  <2>15. CASE MOwnEnds(h, p)
    BY <2>15 DEF MOwnEnds, SameEntry, SameVm
  <2>16. CASE MServed(h, p)
    BY <2>16 DEF MServed, SameEntry, SameVm
  <2>17. CASE MOtherEnds(h, p)
    BY <2>17 DEF MOtherEnds, Ended, SameEntry, SameVm
  <2>18. CASE MEnds(h, p)
    BY <2>18 DEF MEnds, Dead, SameEntry, SameVm
  <2>19. CASE MTalk(h, p)
    BY <2>19 DEF MTalk, Goes, SameHost, SameVm
  <2>20. CASE MExecutes(h, p)
    BY <2>20 DEF MExecutes, SameHost
  <2>21. CASE MEvent(h, p)
    BY <2>21 DEF MEvent, SameHost, SameVm
  <2>22. CASE MBecomes(h, p)
    BY <2>22 DEF MBecomes, SameHost, SameConv
  <2> QED
    BY <2>1, <2>2, <2>3, <2>4, <2>5, <2>6, <2>7, <2>8, <2>9, <2>10, <2>11, <2>12, <2>13,
       <2>14, <2>15,
       <2>16, <2>17, <2>18, <2>19, <2>20, <2>21, <2>22, Zenon DEF Move
<1> QED
  BY <1>1, <1>3, <1>4, <1>6 DEF Good, Peers

\* What was within a bound is within a larger one.
LEMMA MoreRoom ==
  ASSUME NEW x \in Nat, NEW y \in Nat, NEW d \in Nat, NEW e \in Nat, d <= e, x <= y + d
  PROVE  x <= y + e
OBVIOUS

\* What the peer says and has made of its commands is not touched.
LEMMA AsidePart ==
  ASSUME NEW p \in Node, Aside(p), events \in Nat, events' \in Nat, events <= events',
         Speaks(p), Counted(p), Made(p)
  PROVE  Speaks(p)' /\ Counted(p)' /\ Made(p)'
<1>1. /\ PvmList(p)' = PvmList(p) /\ SvmList(p)' = SvmList(p) /\ OwnList(p)' = OwnList(p)
      /\ OwnLen(p)' = OwnLen(p)
  BY ListsStay DEF Aside, OwnList, OwnLen
<1>2. Speaks(p)'
  BY <1>1 DEF Speaks, Aside
<1>3. Counted(p)'
  <2>1. CASE task[p] \notin {"own-qmp", "serve-qmp", "set-params"}
    BY <2>1 DEF Counted, Aside
  <2>2. CASE task[p] \in {"own-qmp", "serve-qmp", "set-params"}
    <3>1. conv'[p] = conv[p] /\ task'[p] = task[p]
      BY DEF Aside
    <3>2. conv[p].next \in Nat /\ conv[p].done \in Nat /\ conv[p].inbox \in Nat
      BY <2>2 DEF Counted
    <3>3. /\ conv[p].done < conv[p].next /\ conv[p].next <= Len(conv[p].cmds) + 1
          /\ conv[p].phase = "send" => conv[p].next <= Len(conv[p].cmds)
          /\ conv[p].phase \in {"connect", "greeting"} => conv[p].next = 1
          /\ conv[p].phase = "send" => conv[p].next + conv[p].inbox <= 1 + conv[p].done + events
          /\ conv[p].phase # "send" => conv[p].next + conv[p].inbox <= 2 + conv[p].done + events
      BY <2>2 DEF Counted
    <3>4. /\ conv[p].phase = "send" => conv[p].next + conv[p].inbox <= 1 + conv[p].done + events'
          /\ conv[p].phase # "send" => conv[p].next + conv[p].inbox <= 2 + conv[p].done + events'
      <4>1. /\ conv[p].next + conv[p].inbox \in Nat
            /\ 1 + conv[p].done \in Nat /\ 2 + conv[p].done \in Nat
        BY <3>2
      <4> QED
        BY <3>3, <4>1, MoreRoom, Zenon
    <3> QED
      BY <2>2, <3>1, <3>2, <3>3, <3>4, Zenon DEF Counted
  <2> QED
    BY <2>1, <2>2
<1>4. Made(p)'
  BY <1>1, Zenon DEF Made, Aside
<1> QED
  BY <1>2, <1>3, <1>4

\* What a vm was told it has been told for good.
LEMMA ToldStays ==
  ASSUME NEW n \in Node, definition' = definition, local_status' = local_status,
         events \in Nat, events' \in Nat, events <= events', Told(n),
         vm'[n].kind = vm[n].kind, vm[n].given \subseteq vm'[n].given
  PROVE  Told(n)'
<1>1. OwnList(n)' = OwnList(n) /\ OwnLen(n)' = OwnLen(n)
  BY ListsStay DEF OwnList, OwnLen
<1>2. OwnLen(n) \in Nat
  BY DEF OwnLen
<1> QED
  BY <1>1, <1>2 DEF Told

\* send_qmp_cmds returns after the last answer: by then the vm has executed the list.
LEMMA ToldAtEnd ==
  ASSUME NEW n \in Node, task[n] \in {"own-qmp", "serve-qmp"}, Ended(n, "ok"), ~Dead(n),
         events \in Nat, Speaks(n), Counted(n), NEW p, Reached(n, p)
  PROVE  Told(n)
<1>1. /\ conv[n].next > Len(conv[n].cmds) /\ conv[n].inbox > 0 /\ conv[n].phase # "send"
      /\ Len(conv[n].cmds) = OwnLen(n)
  BY DEF Ended, LastSent, Speaks
<1>2. /\ conv[n].next \in Nat /\ conv[n].done \in Nat /\ conv[n].inbox \in Nat
      /\ conv[n].next + conv[n].inbox <= 2 + conv[n].done + events
  BY <1>1 DEF Counted
<1>3. OwnLen(n) \in Nat
  BY DEF OwnLen
<1>4. OwnLen(n) <= conv[n].done + events
  BY <1>1, <1>2, <1>3
<1>5. \A j \in 1 .. conv[n].done : OwnList(n)[j] \in vm[n].given
  BY DEF Reached
<1>6. ASSUME NEW j \in 1 .. OwnLen(n), j + events <= OwnLen(n) PROVE OwnList(n)[j] \in vm[n].given
  <2>1. j \in 1 .. conv[n].done
    BY <1>2, <1>3, <1>4, <1>6
  <2> QED
    BY <1>5, <2>1
<1> QED
  BY <1>6 DEF Told
-----------------------------------------------------------------------------

\* A step of h is a move, and what the start has achieved so far is known.
Proceeding(h, p) ==
  /\ Peers(h, p) /\ Both(h, p) /\ Aside(p)
  /\ Good /\ events \in Nat /\ Sound(h, p) /\ Sound(p, h)

\* What no step but the vm's own touches.
Unaltered(h, p) ==
  /\ vm'[h] = vm[h] /\ vm'[p] = vm[p]
  /\ Made(h)' /\ Made(p)' /\ Speaks(p)' /\ Counted(p)'
  /\ Told(h) => Told(h)'
  /\ Told(p) => Told(p)'
  /\ OwnList(h)' = OwnList(h) /\ OwnLen(h)' = OwnLen(h) /\ OwnList(p)' = OwnList(p)

\* A move that no vm notices.
LEMMA SameVmSound ==
  ASSUME NEW h \in Node, NEW p \in Node, Proceeding(h, p), SameVm(h), events' = events
  PROVE  Unaltered(h, p)
<1>1. /\ Aside(p) /\ Made(h) /\ Made(p) /\ Speaks(p) /\ Counted(p) /\ events \in Nat
      /\ definition' = definition /\ local_status' = local_status
      /\ vm'[h] = vm[h] /\ vm'[p] = vm[p]
  BY DEF Proceeding, Sound, Aside, SameVm
<1>2. Made(p)' /\ Speaks(p)' /\ Counted(p)'
  BY <1>1, AsidePart
<1>3. SvmList(h)' = SvmList(h)
  BY <1>1, ListsStay
<1>4. Made(h)'
  BY <1>1, <1>3, Zenon DEF Made
<1>5. /\ Told(h) => Told(h)'
      /\ Told(p) => Told(p)'
  BY <1>1, ToldStays
<1>6. OwnList(h)' = OwnList(h) /\ OwnLen(h)' = OwnLen(h) /\ OwnList(p)' = OwnList(p)
  BY <1>1, ListsStay DEF OwnList, OwnLen
<1> QED
  BY <1>1, <1>2, <1>4, <1>5, <1>6 DEF Unaltered

\* What each move keeps of what the start has achieved.  Define.
LEMMA NothingSound ==
  ASSUME NEW h \in Node, NEW p \in Node, Proceeding(h, p), MNothing(h, p)
  PROVE  Sound(h, p)' /\ Sound(p, h)'
<1> USE DEF MNothing, SameHost, SameConv, SameVm, Calm, SameStart
<1>0. Aside(p) /\ SameVm(h) /\ events' = events
  BY DEF Proceeding
<1>1. Unaltered(h, p)
  BY <1>0, SameVmSound
<1>a. /\ Shape(h) /\ Turn(h, p) /\ Sides(h, p) /\ Shape(p) /\ Turn(p, h) /\ Sides(p, h)
      /\ Sound(h, p) /\ Sound(p, h) /\ events \in Nat
  BY DEF Proceeding, Both
<1>2. Speaks(h)'
  BY <1>a, <1>1 DEF Speaks, Unaltered, Sound, OwnList, OwnLen
<1>3. Counted(h)'
  BY <1>a, <1>1, <1>2 DEF Counted, Speaks, Sound, Unaltered, OwnLen
<1>4. Reached(h, p)'
  BY <1>a, <1>0, <1>1 DEF Reached, Sound, Unaltered, Aside, Turn, Sides
<1>5. Reached(p, h)'
  BY <1>a, <1>0, <1>1 DEF Reached, Sound, Unaltered, Aside, Turn, Sides
<1>6. Ordered(h, p)'
  BY <1>a, <1>0, <1>1 DEF Ordered, Sound, Unaltered, Aside, Turn, Sides, Shape
<1>7. Ordered(p, h)'
  BY <1>a, <1>0, <1>1 DEF Ordered, Sound, Unaltered, Aside, Turn, Sides, Shape
<1> QED
  BY <1>1, <1>2, <1>3, <1>4, <1>5, <1>6, <1>7 DEF Sound, Unaltered

\* A start that is refused.
LEMMA RefusedSound ==
  ASSUME NEW h \in Node, NEW p \in Node, Proceeding(h, p), MRefused(h, p)
  PROVE  Sound(h, p)' /\ Sound(p, h)'
<1> USE DEF MRefused, SameEntry, SameConv, SameVm, Calm, SameStart
<1>0. Aside(p) /\ SameVm(h) /\ events' = events
  BY DEF Proceeding
<1>1. Unaltered(h, p)
  BY <1>0, SameVmSound
<1>a. /\ Shape(h) /\ Turn(h, p) /\ Sides(h, p) /\ Shape(p) /\ Turn(p, h) /\ Sides(p, h)
      /\ Sound(h, p) /\ Sound(p, h) /\ events \in Nat
  BY DEF Proceeding, Both
<1>2. Speaks(h)'
  BY <1>a, <1>1 DEF Speaks, Unaltered, Sound, OwnList, OwnLen
<1>3. Counted(h)'
  BY <1>a, <1>1, <1>2 DEF Counted, Speaks, Sound, Unaltered, OwnLen
<1>4. Reached(h, p)'
  BY <1>a, <1>0, <1>1 DEF Reached, Sound, Unaltered, Aside, Turn, Sides
<1>5. Reached(p, h)'
  BY <1>a, <1>0, <1>1 DEF Reached, Sound, Unaltered, Aside, Turn, Sides
<1>6. Ordered(h, p)'
  BY <1>a, <1>0, <1>1 DEF Ordered, Sound, Unaltered, Aside, Turn, Sides, Shape
<1>7. Ordered(p, h)'
  BY <1>a, <1>0, <1>1 DEF Ordered, Sound, Unaltered, Aside, Turn, Sides, Shape
<1> QED
  BY <1>1, <1>2, <1>3, <1>4, <1>5, <1>6, <1>7 DEF Sound, Unaltered

\* A start that asks the peer.
LEMMA ColoSound ==
  ASSUME NEW h \in Node, NEW p \in Node, Proceeding(h, p), MColo(h, p)
  PROVE  Sound(h, p)' /\ Sound(p, h)'
<1> USE DEF MColo, SameEntry, SameConv, SameVm, Turns, Asks
<1>0. Aside(p) /\ SameVm(h) /\ events' = events
  BY DEF Proceeding
<1>1. Unaltered(h, p)
  BY <1>0, SameVmSound
<1>a. /\ Shape(h) /\ Turn(h, p) /\ Sides(h, p) /\ Shape(p) /\ Turn(p, h) /\ Sides(p, h)
      /\ Sound(h, p) /\ Sound(p, h) /\ events \in Nat
  BY DEF Proceeding, Both
<1>2. Speaks(h)'
  BY <1>a, <1>1 DEF Speaks, Unaltered, Sound, OwnList, OwnLen
<1>3. Counted(h)'
  BY <1>a, <1>1, <1>2 DEF Counted, Speaks, Sound, Unaltered, OwnLen
<1>4. Reached(h, p)'
  <2>1. vm'[h].kind # "svm"
    BY <1>a DEF Shape
  <2>2. task'[h] \notin {"own-qmp", "serve-qmp"}
    OBVIOUS
  <2> HIDE DEF MColo, SameEntry, SameConv, SameVm, Turns, Asks
  <2> QED
    BY <2>1, <2>2, Zenon DEF Reached
<1>5. Reached(p, h)'
  <2>1. vm'[p].kind # "svm"
    BY <1>a, <1>0 DEF Shape, Turn, Aside
  <2>2. task'[p] \notin {"own-qmp", "serve-qmp"}
    BY <1>a, <1>0 DEF Turn, Aside
  <2> HIDE DEF MColo, SameEntry, SameConv, SameVm, Turns, Asks
  <2> QED
    BY <2>1, <2>2, Zenon DEF Reached
<1>6. Ordered(h, p)'
  BY <1>a, <1>0, <1>1 DEF Ordered, Sound, Unaltered, Aside, Turn, Sides, Shape
<1>7. Ordered(p, h)'
  BY <1>a, <1>0, <1>1 DEF Ordered, Sound, Unaltered, Aside, Turn, Sides, Shape
<1> QED
  BY <1>1, <1>2, <1>3, <1>4, <1>5, <1>6, <1>7 DEF Sound, Unaltered

\* A call for the secondary's commands is served.
LEMMA ServeSound ==
  ASSUME NEW h \in Node, NEW p \in Node, Proceeding(h, p), MServe(h, p)
  PROVE  Sound(h, p)' /\ Sound(p, h)'
<1> USE DEF MServe, Turns, Opened, SameEntry, SameVm, Calm, SameStart
<1>0. Aside(p) /\ SameVm(h) /\ events' = events
  BY DEF Proceeding
<1>1. Unaltered(h, p)
  BY <1>0, SameVmSound
<1>a. /\ Shape(h) /\ Turn(h, p) /\ Sides(h, p) /\ Shape(p) /\ Turn(p, h) /\ Sides(p, h)
      /\ Sound(h, p) /\ Sound(p, h) /\ events \in Nat
  BY DEF Proceeding, Both
<1>8. Len(PvmList(h)) = 6 /\ Len(SvmList(h)) = 4
  BY Zenon, ListsAre DEF Proceeding, Peers
<1>9. vm[h].kind = "svm"
  BY DEF Proceeding, Both, Sides
<1>2. Speaks(h)'
  BY <1>a, <1>1, <1>8, <1>9 DEF Speaks, Unaltered, Sound, OwnList, OwnLen
<1>3. Counted(h)'
  BY <1>a, <1>1, <1>2, <1>8, <1>9 DEF Counted, Speaks, Sound, Unaltered, OwnLen
<1>4. Reached(h, p)'
  BY <1>a, <1>0, <1>1 DEF Reached, Sound, Unaltered, Aside, Turn, Sides
<1>5. Reached(p, h)'
  BY <1>a, <1>0, <1>1 DEF Reached, Sound, Unaltered, Aside, Turn, Sides
<1>6. Ordered(h, p)'
  BY <1>a, <1>0, <1>1 DEF Ordered, Sound, Unaltered, Aside, Turn, Sides, Shape
<1>7. Ordered(p, h)'
  BY <1>a, <1>0, <1>1 DEF Ordered, Sound, Unaltered, Aside, Turn, Sides, Shape
<1> QED
  BY <1>1, <1>2, <1>3, <1>4, <1>5, <1>6, <1>7 DEF Sound, Unaltered

\* A call for commands is answered at once.
LEMMA ReplySound ==
  ASSUME NEW h \in Node, NEW p \in Node, Proceeding(h, p), MReply(h, p)
  PROVE  Sound(h, p)' /\ Sound(p, h)'
<1> USE DEF MReply, Turns, SameEntry, SameVm, SameConv, SameStart, Hears
<1>0. Aside(p) /\ SameVm(h) /\ events' = events
  BY DEF Proceeding
<1>1. Unaltered(h, p)
  BY <1>0, SameVmSound
<1>a. /\ Shape(h) /\ Turn(h, p) /\ Sides(h, p) /\ Shape(p) /\ Turn(p, h) /\ Sides(p, h)
      /\ Sound(h, p) /\ Sound(p, h) /\ events \in Nat
  BY DEF Proceeding, Both
<1>2. Speaks(h)'
  BY <1>a, <1>1 DEF Speaks, Unaltered, Sound, OwnList, OwnLen
<1>3. Counted(h)'
  BY <1>a, <1>1, <1>2 DEF Counted, Speaks, Sound, Unaltered, OwnLen
<1>4. Reached(h, p)'
  BY <1>a, <1>0, <1>1 DEF Reached, Sound, Unaltered, Aside, Turn, Sides
<1>5. Reached(p, h)'
  BY <1>a, <1>0, <1>1 DEF Reached, Sound, Unaltered, Aside, Turn, Sides
<1>6. Ordered(h, p)'
  BY <1>a, <1>0, <1>1 DEF Ordered, Sound, Unaltered, Aside, Turn, Sides, Shape
<1>7. Ordered(p, h)'
  BY <1>a, <1>0, <1>1 DEF Ordered, Sound, Unaltered, Aside, Turn, Sides, Shape
<1> QED
  BY <1>1, <1>2, <1>3, <1>4, <1>5, <1>6, <1>7 DEF Sound, Unaltered

\* The primary gives its own commands, after the secondary's.
LEMMA OwnTalkSound ==
  ASSUME NEW h \in Node, NEW p \in Node, Proceeding(h, p), MOwnTalk(h, p)
  PROVE  Sound(h, p)' /\ Sound(p, h)'
<1> USE DEF MOwnTalk, Turns, Collected, NoAsk, Opened, SameEntry, SameVm, SameStart
<1>0. Aside(p) /\ SameVm(h) /\ events' = events
  BY DEF Proceeding
<1>1. Unaltered(h, p)
  BY <1>0, SameVmSound
<1>a. /\ Shape(h) /\ Turn(h, p) /\ Sides(h, p) /\ Shape(p) /\ Turn(p, h) /\ Sides(p, h)
      /\ Sound(h, p) /\ Sound(p, h) /\ events \in Nat
  BY DEF Proceeding, Both
<1>8. Len(PvmList(h)) = 6 /\ Len(SvmList(h)) = 4
  BY ListsAre DEF Proceeding, Peers
<1>9. vm[h].kind = "pvm"
  BY DEF Proceeding, Both, Sides
<1>2. Speaks(h)'
  BY <1>a, <1>1, <1>8, <1>9 DEF Speaks, Unaltered, Sound, OwnList, OwnLen
<1>3. Counted(h)'
  BY <1>a, <1>1, <1>2, <1>8, <1>9 DEF Counted, Speaks, Sound, Unaltered, OwnLen
<1>4. Reached(h, p)'
  BY <1>a, <1>0, <1>1 DEF Reached, Sound, Unaltered, Aside, Turn, Sides
<1>5. Reached(p, h)'
  BY <1>a, <1>0, <1>1 DEF Reached, Sound, Unaltered, Aside, Turn, Sides
<1>6. Ordered(h, p)'
  BY <1>a, <1>0, <1>1 DEF Ordered, Sound, Unaltered, Aside, Turn, Sides, Shape
<1>7. Ordered(p, h)'
  BY <1>a, <1>0, <1>1 DEF Ordered, Sound, Unaltered, Aside, Turn, Sides, Shape
<1> QED
  BY <1>1, <1>2, <1>3, <1>4, <1>5, <1>6, <1>7 DEF Sound, Unaltered

\* The operator is answered with what the peer answered.
LEMMA BackSound ==
  ASSUME NEW h \in Node, NEW p \in Node, Proceeding(h, p), MBack(h, p)
  PROVE  Sound(h, p)' /\ Sound(p, h)'
<1> USE DEF MBack, Collected, NoAsk, SameEntry, SameVm, SameConv, SameStart
<1>0. Aside(p) /\ SameVm(h) /\ events' = events
  BY DEF Proceeding
<1>1. Unaltered(h, p)
  BY <1>0, SameVmSound
<1>a. /\ Shape(h) /\ Turn(h, p) /\ Sides(h, p) /\ Shape(p) /\ Turn(p, h) /\ Sides(p, h)
      /\ Sound(h, p) /\ Sound(p, h) /\ events \in Nat
  BY DEF Proceeding, Both
<1>2. Speaks(h)'
  BY <1>a, <1>1 DEF Speaks, Unaltered, Sound, OwnList, OwnLen
<1>3. Counted(h)'
  BY <1>a, <1>1, <1>2 DEF Counted, Speaks, Sound, Unaltered, OwnLen
<1>4. Reached(h, p)'
  BY <1>a, <1>0, <1>1 DEF Reached, Sound, Unaltered, Aside, Turn, Sides
<1>5. Reached(p, h)'
  BY <1>a, <1>0, <1>1 DEF Reached, Sound, Unaltered, Aside, Turn, Sides
<1>6. Ordered(h, p)'
  BY <1>a, <1>0, <1>1 DEF Ordered, Sound, Unaltered, Aside, Turn, Sides, Shape
<1>7. Ordered(p, h)'
  BY <1>a, <1>0, <1>1 DEF Ordered, Sound, Unaltered, Aside, Turn, Sides, Shape
<1> QED
  BY <1>1, <1>2, <1>3, <1>4, <1>5, <1>6, <1>7 DEF Sound, Unaltered

\* set-params.
LEMMA SetParamsSound ==
  ASSUME NEW h \in Node, NEW p \in Node, Proceeding(h, p), MSetParams(h, p)
  PROVE  Sound(h, p)' /\ Sound(p, h)'
<1> USE DEF MSetParams, Turns, Opened, SameEntry, SameVm, Calm, SameStart
<1>0. Aside(p) /\ SameVm(h) /\ events' = events
  BY DEF Proceeding
<1>1. Unaltered(h, p)
  BY <1>0, SameVmSound
<1>a. /\ Shape(h) /\ Turn(h, p) /\ Sides(h, p) /\ Shape(p) /\ Turn(p, h) /\ Sides(p, h)
      /\ Sound(h, p) /\ Sound(p, h) /\ events \in Nat
  BY DEF Proceeding, Both
<1>8. \A property \in PropertyName : Len(set_params_cmds(property)) = 2
  BY DEF set_params_cmds
<1>2. Speaks(h)'
  BY <1>a, <1>1, <1>8 DEF Speaks, Unaltered, Sound, OwnList, OwnLen
<1>3. Counted(h)'
  BY <1>a, <1>1, <1>2, <1>8 DEF Counted, Speaks, Sound, Unaltered, OwnLen
<1>4. Reached(h, p)'
  BY <1>a, <1>0, <1>1 DEF Reached, Sound, Unaltered, Aside, Turn, Sides
<1>5. Reached(p, h)'
  BY <1>a, <1>0, <1>1 DEF Reached, Sound, Unaltered, Aside, Turn, Sides
<1>6. Ordered(h, p)'
  BY <1>a, <1>0, <1>1 DEF Ordered, Sound, Unaltered, Aside, Turn, Sides, Shape
<1>7. Ordered(p, h)'
  BY <1>a, <1>0, <1>1 DEF Ordered, Sound, Unaltered, Aside, Turn, Sides, Shape
<1> QED
  BY <1>1, <1>2, <1>3, <1>4, <1>5, <1>6, <1>7 DEF Sound, Unaltered

\* do-failover.
LEMMA FailoverSound ==
  ASSUME NEW h \in Node, NEW p \in Node, Proceeding(h, p), MFailover(h, p)
  PROVE  Sound(h, p)' /\ Sound(p, h)'
<1> USE DEF MFailover, Turns, SameRole, Opened, SameVm, Calm, SameStart
<1>0. Aside(p) /\ SameVm(h) /\ events' = events
  BY DEF Proceeding
<1>1. Unaltered(h, p)
  BY <1>0, SameVmSound
<1>a. /\ Shape(h) /\ Turn(h, p) /\ Sides(h, p) /\ Shape(p) /\ Turn(p, h) /\ Sides(p, h)
      /\ Sound(h, p) /\ Sound(p, h) /\ events \in Nat
  BY DEF Proceeding, Both
<1>2. Speaks(h)'
  BY <1>a, <1>1 DEF Speaks, Unaltered, Sound, OwnList, OwnLen
<1>3. Counted(h)'
  BY <1>a, <1>1, <1>2 DEF Counted, Speaks, Sound, Unaltered, OwnLen
<1>4. Reached(h, p)'
  BY <1>a, <1>0, <1>1 DEF Reached, Sound, Unaltered, Aside, Turn, Sides
<1>5. Reached(p, h)'
  BY <1>a, <1>0, <1>1 DEF Reached, Sound, Unaltered, Aside, Turn, Sides
<1>6. Ordered(h, p)'
  BY <1>a, <1>0, <1>1 DEF Ordered, Sound, Unaltered, Aside, Turn, Sides, Shape
<1>7. Ordered(p, h)'
  BY <1>a, <1>0, <1>1 DEF Ordered, Sound, Unaltered, Aside, Turn, Sides, Shape
<1> QED
  BY <1>1, <1>2, <1>3, <1>4, <1>5, <1>6, <1>7 DEF Sound, Unaltered

\* The secondary asks for the primary's commands, after its own.
LEMMA ToPeerSound ==
  ASSUME NEW h \in Node, NEW p \in Node, Proceeding(h, p), MToPeer(h, p)
  PROVE  Sound(h, p)' /\ Sound(p, h)'
<1> USE DEF MToPeer, Turns, Closed, Asks, SameEntry, SameVm, SameStart, NoConv
<1>0. Aside(p) /\ SameVm(h) /\ events' = events
  BY DEF Proceeding
<1>1. Unaltered(h, p)
  BY <1>0, SameVmSound
<1>a. /\ Shape(h) /\ Turn(h, p) /\ Sides(h, p) /\ Shape(p) /\ Turn(p, h) /\ Sides(p, h)
      /\ Sound(h, p) /\ Sound(p, h) /\ events \in Nat
  BY DEF Proceeding, Both
<1>8. task[h] \in {"own-qmp", "serve-qmp"} /\ Ended(h, "ok") => Told(h)
  BY ToldAtEnd DEF Proceeding, Sound, Good, Untouched, Dead
<1>2. Speaks(h)'
  BY <1>a, <1>1 DEF Speaks, Unaltered, Sound, OwnList, OwnLen
<1>3. Counted(h)'
  BY <1>a, <1>1, <1>2 DEF Counted, Speaks, Sound, Unaltered, OwnLen
<1>4. Reached(h, p)'
  BY <1>a, <1>0, <1>1 DEF Reached, Sound, Unaltered, Aside, Turn, Sides
<1>5. Reached(p, h)'
  BY <1>a, <1>0, <1>1 DEF Reached, Sound, Unaltered, Aside, Turn, Sides
<1>6. Ordered(h, p)'
  BY <1>a, <1>0, <1>1, <1>8 DEF Ordered, Sound, Unaltered, Aside, Turn, Sides, Shape
<1>7. Ordered(p, h)'
  BY <1>a, <1>0, <1>1, <1>8 DEF Ordered, Sound, Unaltered, Aside, Turn, Sides, Shape
<1> QED
  BY <1>1, <1>2, <1>3, <1>4, <1>5, <1>6, <1>7 DEF Sound, Unaltered

\* The conversation of the start ends.
LEMMA OwnEndsSound ==
  ASSUME NEW h \in Node, NEW p \in Node, Proceeding(h, p), MOwnEnds(h, p)
  PROVE  Sound(h, p)' /\ Sound(p, h)'
<1> USE DEF MOwnEnds, Closed, Calm, SameEntry, SameVm, SameStart, NoConv
<1>0. Aside(p) /\ SameVm(h) /\ events' = events
  BY DEF Proceeding
<1>1. Unaltered(h, p)
  BY <1>0, SameVmSound
<1>a. /\ Shape(h) /\ Turn(h, p) /\ Sides(h, p) /\ Shape(p) /\ Turn(p, h) /\ Sides(p, h)
      /\ Sound(h, p) /\ Sound(p, h) /\ events \in Nat
  BY DEF Proceeding, Both
<1>8. task[h] \in {"own-qmp", "serve-qmp"} /\ Ended(h, "ok") => Told(h)
  BY ToldAtEnd DEF Proceeding, Sound, Good, Untouched, Dead
<1>2. Speaks(h)'
  BY <1>a, <1>1 DEF Speaks, Unaltered, Sound, OwnList, OwnLen
<1>3. Counted(h)'
  BY <1>a, <1>1, <1>2 DEF Counted, Speaks, Sound, Unaltered, OwnLen
<1>4. Reached(h, p)'
  BY <1>a, <1>0, <1>1 DEF Reached, Sound, Unaltered, Aside, Turn, Sides
<1>5. Reached(p, h)'
  BY <1>a, <1>0, <1>1 DEF Reached, Sound, Unaltered, Aside, Turn, Sides
<1>6. Ordered(h, p)'
  BY <1>a, <1>0, <1>1, <1>8 DEF Ordered, Sound, Unaltered, Aside, Turn, Sides, Shape
<1>7. Ordered(p, h)'
  BY <1>a, <1>0, <1>1, <1>8 DEF Ordered, Sound, Unaltered, Aside, Turn, Sides, Shape
<1> QED
  BY <1>1, <1>2, <1>3, <1>4, <1>5, <1>6, <1>7 DEF Sound, Unaltered

\* The served conversation ends, and the peer hears of it.
LEMMA ServedSound ==
  ASSUME NEW h \in Node, NEW p \in Node, Proceeding(h, p), MServed(h, p)
  PROVE  Sound(h, p)' /\ Sound(p, h)'
<1> USE DEF MServed, Turns, Closed, Hears, SameEntry, SameVm, SameStart, NoConv
<1>0. Aside(p) /\ SameVm(h) /\ events' = events
  BY DEF Proceeding
<1>1. Unaltered(h, p)
  BY <1>0, SameVmSound
<1>a. /\ Shape(h) /\ Turn(h, p) /\ Sides(h, p) /\ Shape(p) /\ Turn(p, h) /\ Sides(p, h)
      /\ Sound(h, p) /\ Sound(p, h) /\ events \in Nat
  BY DEF Proceeding, Both
<1>8. task[h] \in {"own-qmp", "serve-qmp"} /\ Ended(h, "ok") => Told(h)
  BY ToldAtEnd DEF Proceeding, Sound, Good, Untouched, Dead
<1>2. Speaks(h)'
  BY <1>a, <1>1 DEF Speaks, Unaltered, Sound, OwnList, OwnLen
<1>3. Counted(h)'
  BY <1>a, <1>1, <1>2 DEF Counted, Speaks, Sound, Unaltered, OwnLen
<1>4. Reached(h, p)'
  BY <1>a, <1>0, <1>1 DEF Reached, Sound, Unaltered, Aside, Turn, Sides
<1>5. Reached(p, h)'
  BY <1>a, <1>0, <1>1 DEF Reached, Sound, Unaltered, Aside, Turn, Sides
<1>6. Ordered(h, p)'
  BY <1>a, <1>0, <1>1, <1>8 DEF Ordered, Sound, Unaltered, Aside, Turn, Sides, Shape
<1>7. Ordered(p, h)'
  BY <1>a, <1>0, <1>1, <1>8 DEF Ordered, Sound, Unaltered, Aside, Turn, Sides, Shape
<1> QED
  BY <1>1, <1>2, <1>3, <1>4, <1>5, <1>6, <1>7 DEF Sound, Unaltered

\* set-params or do-failover ends.
LEMMA OtherEndsSound ==
  ASSUME NEW h \in Node, NEW p \in Node, Proceeding(h, p), MOtherEnds(h, p)
  PROVE  Sound(h, p)' /\ Sound(p, h)'
<1> USE DEF MOtherEnds, Turns, Closed, Calm, SameEntry, SameVm, SameStart, NoConv
<1>0. Aside(p) /\ SameVm(h) /\ events' = events
  BY DEF Proceeding
<1>1. Unaltered(h, p)
  BY <1>0, SameVmSound
<1>a. /\ Shape(h) /\ Turn(h, p) /\ Sides(h, p) /\ Shape(p) /\ Turn(p, h) /\ Sides(p, h)
      /\ Sound(h, p) /\ Sound(p, h) /\ events \in Nat
  BY DEF Proceeding, Both
<1>2. Speaks(h)'
  BY <1>a, <1>1 DEF Speaks, Unaltered, Sound, OwnList, OwnLen
<1>3. Counted(h)'
  BY <1>a, <1>1, <1>2 DEF Counted, Speaks, Sound, Unaltered, OwnLen
<1>4. Reached(h, p)'
  BY <1>a, <1>0, <1>1 DEF Reached, Sound, Unaltered, Aside, Turn, Sides
<1>5. Reached(p, h)'
  BY <1>a, <1>0, <1>1 DEF Reached, Sound, Unaltered, Aside, Turn, Sides
<1>6. Ordered(h, p)'
  BY <1>a, <1>0, <1>1 DEF Ordered, Sound, Unaltered, Aside, Turn, Sides, Shape
<1>7. Ordered(p, h)'
  BY <1>a, <1>0, <1>1 DEF Ordered, Sound, Unaltered, Aside, Turn, Sides, Shape
<1> QED
  BY <1>1, <1>2, <1>3, <1>4, <1>5, <1>6, <1>7 DEF Sound, Unaltered

\* colod ends.
LEMMA EndsSound ==
  ASSUME NEW h \in Node, NEW p \in Node, Proceeding(h, p), MEnds(h, p)
  PROVE  Sound(h, p)' /\ Sound(p, h)'
<1> USE DEF MEnds, Turns, Closed, SameEntry, SameVm, SameStart, NoConv
<1>0. Aside(p) /\ SameVm(h) /\ events' = events
  BY DEF Proceeding
<1>1. Unaltered(h, p)
  BY <1>0, SameVmSound
<1>a. /\ Shape(h) /\ Turn(h, p) /\ Sides(h, p) /\ Shape(p) /\ Turn(p, h) /\ Sides(p, h)
      /\ Sound(h, p) /\ Sound(p, h) /\ events \in Nat
  BY DEF Proceeding, Both
<1>2. Speaks(h)'
  BY <1>a, <1>1 DEF Speaks, Unaltered, Sound, OwnList, OwnLen
<1>3. Counted(h)'
  BY <1>a, <1>1, <1>2 DEF Counted, Speaks, Sound, Unaltered, OwnLen
<1>4. Reached(h, p)'
  BY <1>a, <1>0, <1>1 DEF Reached, Sound, Unaltered, Aside, Turn, Sides
<1>5. Reached(p, h)'
  BY <1>a, <1>0, <1>1 DEF Reached, Sound, Unaltered, Aside, Turn, Sides
<1>6. Ordered(h, p)'
  BY <1>a, <1>0, <1>1 DEF Ordered, Sound, Unaltered, Aside, Turn, Sides, Shape
<1>7. Ordered(p, h)'
  BY <1>a, <1>0, <1>1 DEF Ordered, Sound, Unaltered, Aside, Turn, Sides, Shape
<1> QED
  BY <1>1, <1>2, <1>3, <1>4, <1>5, <1>6, <1>7 DEF Sound, Unaltered
-----------------------------------------------------------------------------

\* The disks of a vm that is started.
LEMMA LineBlocks ==
  ASSUME NEW h \in Node, KnownOS(domain)
  PROVE  /\ "colo-disk0" \in Line(h, "pvm").blocks
         /\ {"colo-disk0", "parent0"} \subseteq Line(h, "svm").blocks
         /\ Line(h, "svm").incoming = {sec(domain, "migrate_port")}
BY DEF Line, generate_pvm_cmd, generate_svm_cmd, SvmLine, QemuLine

\* A vm just started was told nothing.
LEMMA BegunSound ==
  ASSUME NEW h \in Node, NEW p \in Node, Proceeding(h, p),
         NEW kind \in {"vm", "pvm", "svm"},
         Begun(h, kind), events' = events
  PROVE  /\ Made(h)' /\ Made(p)' /\ Speaks(p)' /\ Counted(p)'
         /\ Told(p) => Told(p)'
         /\ OwnList(p)' = OwnList(p) /\ SvmList(h)' = SvmList(h) /\ vm'[p] = vm[p]
<1>1. /\ Aside(p) /\ Made(p) /\ Speaks(p) /\ Counted(p) /\ events \in Nat
      /\ definition' = definition /\ local_status' = local_status /\ vm'[p] = vm[p]
  BY DEF Proceeding, Sound, Aside
<1>2. Made(p)' /\ Speaks(p)' /\ Counted(p)'
  BY <1>1, AsidePart
<1>3. SvmList(h)' = SvmList(h) /\ OwnList(p)' = OwnList(p)
  BY <1>1, ListsStay DEF OwnList
<1>4. Made(h)'
  BY LineBlocks DEF Made, Begun, Proceeding, Good
<1>5. Told(p) => Told(p)'
  BY <1>1, ToldStays
<1> QED
  BY <1>1, <1>2, <1>3, <1>4, <1>5

\* A plain start.
LEMMA PlainSound ==
  ASSUME NEW h \in Node, NEW p \in Node, Proceeding(h, p), MPlain(h, p)
  PROVE  Sound(h, p)' /\ Sound(p, h)'
<1> USE DEF MPlain, SameConv, Calm, Begun, SameRole
<1>0. /\ Aside(p) /\ events' = events /\ events \in Nat /\ p = Peer[h]
      /\ Shape(h) /\ Turn(h, p) /\ Sides(h, p) /\ Shape(p) /\ Turn(p, h) /\ Sides(p, h)
      /\ Sound(h, p) /\ Sound(p, h)
  BY DEF Proceeding, Both, Peers
<1> DEFINE kind == "vm"
<1>1. /\ Made(h)' /\ Made(p)' /\ Speaks(p)' /\ Counted(p)'
      /\ Told(p) => Told(p)'
      /\ OwnList(p)' = OwnList(p) /\ SvmList(h)' = SvmList(h) /\ vm'[p] = vm[p]
  <2>1. kind \in {"vm", "pvm", "svm"} /\ Begun(h, kind)
    BY DEF MPlain
  <2> HIDE DEF kind
  <2> QED
    BY <1>0, <2>1, BegunSound
<1>8. Len(SvmList(h)) = 4
  BY <1>0, ListsAre
<1>2. Speaks(h)'
  BY <1>0, <1>1, <1>8 DEF Speaks, Sound, OwnList, OwnLen, Turn
<1>3. Counted(h)'
  BY <1>0, <1>1, <1>2, <1>8 DEF Counted, Speaks, Sound, OwnLen
<1>4. Reached(h, p)'
  BY <1>0, <1>1 DEF Reached, Sound, Aside, Turn, Sides, Shape
<1>5. Reached(p, h)'
  BY <1>0, <1>1 DEF Reached, Sound, Aside, Turn, Sides, Shape
<1>6. Ordered(h, p)'
  BY <1>0, <1>1 DEF Ordered, Sound, Aside, Turn, Sides, Shape
<1>7. Ordered(p, h)'
  BY <1>0, <1>1 DEF Ordered, Sound, Aside, Turn, Sides, Shape
<1> QED
  BY <1>1, <1>2, <1>3, <1>4, <1>5, <1>6, <1>7 DEF Sound

\* A vm started for the peer.
LEMMA PeerStartSound ==
  ASSUME NEW h \in Node, NEW p \in Node, Proceeding(h, p), MPeerStart(h, p)
  PROVE  Sound(h, p)' /\ Sound(p, h)'
<1> USE DEF MPeerStart, Turns, Begun, SameRole, Hears, SameConv, SameStart
<1>0. /\ Aside(p) /\ events' = events /\ events \in Nat /\ p = Peer[h]
      /\ Shape(h) /\ Turn(h, p) /\ Sides(h, p) /\ Shape(p) /\ Turn(p, h) /\ Sides(p, h)
      /\ Sound(h, p) /\ Sound(p, h)
  BY DEF Proceeding, Both, Peers
<1> DEFINE kind == IF entry[h].colo_status = "primary" THEN "pvm" ELSE "svm"
<1>1. /\ Made(h)' /\ Made(p)' /\ Speaks(p)' /\ Counted(p)'
      /\ Told(p) => Told(p)'
      /\ OwnList(p)' = OwnList(p) /\ SvmList(h)' = SvmList(h) /\ vm'[p] = vm[p]
  <2>1. kind \in {"vm", "pvm", "svm"} /\ Begun(h, kind)
    BY DEF MPeerStart
  <2> HIDE DEF kind
  <2> QED
    BY <1>0, <2>1, BegunSound
<1>8. Len(SvmList(h)) = 4
  BY <1>0, ListsAre
<1>2. Speaks(h)'
  BY <1>0, <1>1, <1>8 DEF Speaks, Sound, OwnList, OwnLen, Turn
<1>3. Counted(h)'
  BY <1>0, <1>1, <1>2, <1>8 DEF Counted, Speaks, Sound, OwnLen
<1>4. Reached(h, p)'
  BY <1>0, <1>1 DEF Reached, Sound, Aside, Turn, Sides, Shape
<1>5. Reached(p, h)'
  BY <1>0, <1>1 DEF Reached, Sound, Aside, Turn, Sides, Shape
<1>6. Ordered(h, p)'
  BY <1>0, <1>1 DEF Ordered, Sound, Aside, Turn, Sides, Shape
<1>7. Ordered(p, h)'
  BY <1>0, <1>1 DEF Ordered, Sound, Aside, Turn, Sides, Shape
<1> QED
  BY <1>1, <1>2, <1>3, <1>4, <1>5, <1>6, <1>7 DEF Sound

\* The primary starts its vm after the secondary's.
LEMMA AfterStartPSound ==
  ASSUME NEW h \in Node, NEW p \in Node, Proceeding(h, p), MAfterStartP(h, p)
  PROVE  Sound(h, p)' /\ Sound(p, h)'
<1> USE DEF MAfterStartP, Turns, Collected, Begun, SameRole, Asks, SameConv, SameStart
<1>0. /\ Aside(p) /\ events' = events /\ events \in Nat /\ p = Peer[h]
      /\ Shape(h) /\ Turn(h, p) /\ Sides(h, p) /\ Shape(p) /\ Turn(p, h) /\ Sides(p, h)
      /\ Sound(h, p) /\ Sound(p, h)
  BY DEF Proceeding, Both, Peers
<1> DEFINE kind == "pvm"
<1>1. /\ Made(h)' /\ Made(p)' /\ Speaks(p)' /\ Counted(p)'
      /\ Told(p) => Told(p)'
      /\ OwnList(p)' = OwnList(p) /\ SvmList(h)' = SvmList(h) /\ vm'[p] = vm[p]
  <2>1. kind \in {"vm", "pvm", "svm"} /\ Begun(h, kind)
    BY DEF MAfterStartP
  <2> HIDE DEF kind
  <2> QED
    BY <1>0, <2>1, BegunSound
<1>8. Len(SvmList(h)) = 4
  BY <1>0, ListsAre
<1>2. Speaks(h)'
  BY <1>0, <1>1, <1>8 DEF Speaks, Sound, OwnList, OwnLen, Turn
<1>3. Counted(h)'
  BY <1>0, <1>1, <1>2, <1>8 DEF Counted, Speaks, Sound, OwnLen
<1>4. Reached(h, p)'
  BY <1>0, <1>1 DEF Reached, Sound, Aside, Turn, Sides, Shape
<1>5. Reached(p, h)'
  BY <1>0, <1>1 DEF Reached, Sound, Aside, Turn, Sides, Shape
<1>6. Ordered(h, p)'
  BY <1>0, <1>1 DEF Ordered, Sound, Aside, Turn, Sides, Shape
<1>7. Ordered(p, h)'
  BY <1>0, <1>1 DEF Ordered, Sound, Aside, Turn, Sides, Shape
<1> QED
  BY <1>1, <1>2, <1>3, <1>4, <1>5, <1>6, <1>7 DEF Sound

\* The secondary starts its vm after the primary's.
LEMMA AfterStartSSound ==
  ASSUME NEW h \in Node, NEW p \in Node, Proceeding(h, p), MAfterStartS(h, p)
  PROVE  Sound(h, p)' /\ Sound(p, h)'
<1> USE DEF MAfterStartS, Turns, Collected, Begun, SameRole, NoAsk, SameStart, Opened
<1>0. /\ Aside(p) /\ events' = events /\ events \in Nat /\ p = Peer[h]
      /\ Shape(h) /\ Turn(h, p) /\ Sides(h, p) /\ Shape(p) /\ Turn(p, h) /\ Sides(p, h)
      /\ Sound(h, p) /\ Sound(p, h)
  BY DEF Proceeding, Both, Peers
<1> DEFINE kind == "svm"
<1>1. /\ Made(h)' /\ Made(p)' /\ Speaks(p)' /\ Counted(p)'
      /\ Told(p) => Told(p)'
      /\ OwnList(p)' = OwnList(p) /\ SvmList(h)' = SvmList(h) /\ vm'[p] = vm[p]
  <2>1. kind \in {"vm", "pvm", "svm"} /\ Begun(h, kind)
    BY DEF MAfterStartS
  <2> HIDE DEF kind
  <2> QED
    BY <1>0, <2>1, BegunSound
<1>8. Len(SvmList(h)) = 4
  BY <1>0, ListsAre
<1>2. Speaks(h)'
  BY <1>0, <1>1, <1>8 DEF Speaks, Sound, OwnList, OwnLen, Turn
<1>3. Counted(h)'
  BY <1>0, <1>1, <1>2, <1>8 DEF Counted, Speaks, Sound, OwnLen
<1>4. Reached(h, p)'
  BY <1>0, <1>1 DEF Reached, Sound, Aside, Turn, Sides, Shape
<1>5. Reached(p, h)'
  BY <1>0, <1>1 DEF Reached, Sound, Aside, Turn, Sides, Shape
<1>6. Ordered(h, p)'
  BY <1>0, <1>1 DEF Ordered, Sound, Aside, Turn, Sides, Shape
<1>7. Ordered(p, h)'
  BY <1>0, <1>1 DEF Ordered, Sound, Aside, Turn, Sides, Shape
<1> QED
  BY <1>1, <1>2, <1>3, <1>4, <1>5, <1>6, <1>7 DEF Sound

\* The conversation goes on.
LEMMA TalkSound ==
  ASSUME NEW h \in Node, NEW p \in Node, Proceeding(h, p), MTalk(h, p)
  PROVE  Sound(h, p)' /\ Sound(p, h)'
<1> USE DEF MTalk, SameVm, SameHost, Calm, SameStart
<1>0. Aside(p) /\ SameVm(h) /\ events' = events /\ events \in Nat
  BY DEF Proceeding
<1>1. Unaltered(h, p)
  BY <1>0, SameVmSound
<1>a. /\ Shape(h) /\ Turn(h, p) /\ Sides(h, p) /\ Shape(p) /\ Turn(p, h) /\ Sides(p, h)
      /\ Sound(h, p) /\ Sound(p, h) /\ Untouched(h) /\ Untouched(p)
  BY DEF Proceeding, Both, Good
<1>b. conv'[h].done = conv[h].done /\ conv'[h].cmds = conv[h].cmds
  BY DEF Goes
<1>2. Speaks(h)'
  BY <1>a, <1>b, <1>1 DEF Speaks, Unaltered, Sound
<1>3. Counted(h)'
  <2>1. CASE task[h] \notin {"own-qmp", "serve-qmp", "set-params"}
    <3>1. conv'[h].next = conv[h].next
      BY <1>a, <2>1 DEF Goes, Shape, Conversing, Untouched, Dead
    <3> QED
      BY <1>a, <1>b, <2>1, <3>1 DEF Counted, Sound
  <2>2. CASE task[h] \in {"own-qmp", "serve-qmp", "set-params"}
    <3> DEFINE L == Len(conv[h].cmds)
    <3>1. L' = L /\ L \in Nat
      BY <1>a, <1>b, <2>2 DEF Sound, Speaks, OwnLen
    <3>2. /\ conv[h].next \in Nat /\ conv[h].done \in Nat /\ conv[h].inbox \in Nat
          /\ conv[h].done < conv[h].next /\ conv[h].next <= L + 1
          /\ conv[h].phase = "send" => conv[h].next <= L
          /\ conv[h].phase \in {"connect", "greeting"} => conv[h].next = 1
          /\ conv[h].phase = "send" => conv[h].next + conv[h].inbox <= 1 + conv[h].done + events
          /\ conv[h].phase # "send" => conv[h].next + conv[h].inbox <= 2 + conv[h].done + events
      BY <1>a, <2>2 DEF Sound, Counted
    <3>3. LastSent(conv[h]) <=> conv[h].next > L
      BY DEF LastSent
    <3>4. vm[h].state # "dead"
      BY <1>a DEF Untouched
    <3> HIDE DEF L
    <3>5. /\ conv'[h].next \in Nat /\ conv'[h].done \in Nat /\ conv'[h].inbox \in Nat
          /\ conv'[h].done < conv'[h].next /\ conv'[h].next <= L + 1
          /\ conv'[h].phase = "send" => conv'[h].next <= L
          /\ conv'[h].phase \in {"connect", "greeting"} => conv'[h].next = 1
          /\ conv'[h].phase = "send" => conv'[h].next + conv'[h].inbox <= 1 + conv'[h].done + events
          /\ conv'[h].phase # "send" => conv'[h].next + conv'[h].inbox <= 2 + conv'[h].done + events
      BY <1>0, <1>b, <3>1, <3>2, <3>3, <3>4 DEF Goes, Dead
    <3> QED
      BY <2>2, <3>1, <3>5 DEF Counted, L
  <2> QED
    BY <2>1, <2>2
<1>4. Reached(h, p)'
  <2>1. /\ task'[h] = task[h] /\ task'[p] = task[p] /\ asked'[h] = asked[h] /\ vm'[h] = vm[h]
        /\ OwnList(h)' = OwnList(h)
    BY <1>0, <1>1 DEF Aside, Unaltered
  <2> HIDE DEF MTalk, SameVm, SameHost, Calm, SameStart
  <2> QED
    BY <1>a, <1>b, <2>1, Zenon DEF Reached, Sound
<1>5. Reached(p, h)'
  BY <1>a, <1>0, <1>1 DEF Reached, Sound, Unaltered, Aside
<1>6. Ordered(h, p)'
  BY <1>a, <1>0, <1>1 DEF Ordered, Sound, Unaltered, Aside
<1>7. Ordered(p, h)'
  BY <1>a, <1>0, <1>1 DEF Ordered, Sound, Unaltered, Aside
<1> QED
  BY <1>1, <1>2, <1>3, <1>4, <1>5, <1>6, <1>7 DEF Sound, Unaltered

\* An event.
LEMMA EventSound ==
  ASSUME NEW h \in Node, NEW p \in Node, Proceeding(h, p), MEvent(h, p)
  PROVE  Sound(h, p)' /\ Sound(p, h)'
<1> USE DEF MEvent, SameVm, SameHost, Calm
<1>0. Aside(p) /\ events' = events + 1 /\ events \in Nat /\ events' \in Nat
  BY DEF Proceeding
<1>a. /\ Shape(h) /\ Turn(h, p) /\ Sides(h, p) /\ Shape(p) /\ Turn(p, h) /\ Sides(p, h)
      /\ Sound(h, p) /\ Sound(p, h)
  BY DEF Proceeding, Both
<1>b. vm'[h] = vm[h] /\ vm'[p] = vm[p] /\ definition' = definition /\ local_status' = local_status
  BY <1>0 DEF Aside
<1>1. Made(p)' /\ Speaks(p)' /\ Counted(p)'
  BY <1>0, <1>a, AsidePart DEF Sound
<1>8. /\ SvmList(h)' = SvmList(h) /\ OwnList(h)' = OwnList(h) /\ OwnLen(h)' = OwnLen(h)
      /\ OwnList(p)' = OwnList(p)
  BY <1>b, ListsStay DEF OwnList, OwnLen
<1>9. /\ Told(h) => Told(h)'
      /\ Told(p) => Told(p)'
  BY <1>0, <1>b, ToldStays
<1>10. Made(h)'
  BY <1>a, <1>b, <1>8, Zenon DEF Made, Sound
<1>2. Speaks(h)'
  BY <1>a, <1>b, <1>8 DEF Speaks, Sound
<1>3. Counted(h)'
  <2>1. CASE task[h] \notin {"own-qmp", "serve-qmp", "set-params"}
    BY <1>a, <2>1 DEF Counted, Sound
  <2>2. CASE task[h] \in {"own-qmp", "serve-qmp", "set-params"}
    <3> DEFINE L == Len(conv[h].cmds)
    <3>1. L' = L
      OBVIOUS
    <3>2. /\ conv[h].next \in Nat /\ conv[h].done \in Nat /\ conv[h].inbox \in Nat
          /\ conv[h].done < conv[h].next /\ conv[h].next <= L + 1
          /\ conv[h].phase = "send" => conv[h].next <= L
          /\ conv[h].phase \in {"connect", "greeting"} => conv[h].next = 1
          /\ conv[h].phase = "send" => conv[h].next + conv[h].inbox <= 1 + conv[h].done + events
          /\ conv[h].phase # "send" => conv[h].next + conv[h].inbox <= 2 + conv[h].done + events
      BY <1>a, <2>2 DEF Counted, Sound
    <3>3. /\ task'[h] = task[h] /\ conv'[h].inbox = conv[h].inbox + 1
          /\ conv'[h].next = conv[h].next /\ conv'[h].done = conv[h].done
          /\ conv'[h].phase = conv[h].phase
      OBVIOUS
    <3> HIDE DEF L, MEvent, SameVm, SameHost, Calm
    <3>4. conv[h].inbox + 1 \in Nat
      BY <3>2
    <3>5. /\ conv[h].phase = "send" =>
               conv[h].next + (conv[h].inbox + 1) <= 1 + conv[h].done + events'
          /\ conv[h].phase # "send" =>
               conv[h].next + (conv[h].inbox + 1) <= 2 + conv[h].done + events'
      BY <1>0, <3>2
    <3> QED
      BY <2>2, <3>1, <3>2, <3>3, <3>4, <3>5, Zenon DEF Counted, L
  <2> QED
    BY <2>1, <2>2
<1>4. Reached(h, p)'
  BY <1>a, <1>b, <1>0, <1>8 DEF Reached, Sound, Aside
<1>5. Reached(p, h)'
  BY <1>a, <1>b, <1>0, <1>8 DEF Reached, Sound, Aside
<1>6. Ordered(h, p)'
  BY <1>a, <1>0, <1>b, <1>9 DEF Ordered, Sound, Aside
<1>7. Ordered(p, h)'
  BY <1>a, <1>0, <1>b, <1>9 DEF Ordered, Sound, Aside
<1> QED
  BY <1>1, <1>2, <1>3, <1>4, <1>5, <1>6, <1>7, <1>10 DEF Sound

\* A vm comes up or ends.
LEMMA BecomesSound ==
  ASSUME NEW h \in Node, NEW p \in Node, Proceeding(h, p), MBecomes(h, p), Untouched(h)'
  PROVE  Sound(h, p)' /\ Sound(p, h)'
<1> USE DEF MBecomes, SameConv, SameHost, Calm, SameStart
<1>0. Aside(p) /\ events' = events /\ events \in Nat
  BY DEF Proceeding
<1>a. /\ Shape(h) /\ Turn(h, p) /\ Sides(h, p) /\ Shape(p) /\ Turn(p, h) /\ Sides(p, h)
      /\ Sound(h, p) /\ Sound(p, h)
  BY DEF Proceeding, Both
<1>b. /\ vm'[h].kind = vm[h].kind /\ vm'[h].blocks = vm[h].blocks /\ vm'[h].nbd = vm[h].nbd
      /\ vm'[h].given = vm[h].given /\ vm'[h].refused = vm[h].refused /\ vm'[p] = vm[p]
      /\ definition' = definition /\ local_status' = local_status
  BY <1>0 DEF Aside
<1>c. vm[h].state = "runs" => vm'[h].state = "runs"
  BY DEF Untouched
<1>1. Made(p)' /\ Speaks(p)' /\ Counted(p)'
  BY <1>0, <1>a, AsidePart DEF Sound
<1>8. /\ SvmList(h)' = SvmList(h) /\ OwnList(h)' = OwnList(h) /\ OwnLen(h)' = OwnLen(h)
      /\ OwnList(p)' = OwnList(p)
  BY <1>b, ListsStay DEF OwnList, OwnLen
<1>9. /\ Told(h) => Told(h)'
      /\ Told(p) => Told(p)'
  BY <1>0, <1>b, ToldStays
<1>10. Made(h)'
  BY <1>a, <1>b, <1>c, <1>8, Zenon DEF Made, Sound
<1>2. Speaks(h)'
  BY <1>a, <1>b, <1>8 DEF Speaks, Sound
<1>3. Counted(h)'
  BY <1>a, <1>0 DEF Counted, Sound
<1>4. Reached(h, p)'
  BY <1>a, <1>b, <1>0, <1>8 DEF Reached, Sound, Aside
<1>5. Reached(p, h)'
  BY <1>a, <1>b, <1>0, <1>8 DEF Reached, Sound, Aside
<1>6. Ordered(h, p)'
  BY <1>a, <1>0, <1>b, <1>9 DEF Ordered, Sound, Aside
<1>7. Ordered(p, h)'
  BY <1>a, <1>0, <1>b, <1>9 DEF Ordered, Sound, Aside
<1> QED
  BY <1>1, <1>2, <1>3, <1>4, <1>5, <1>6, <1>7, <1>10 DEF Sound
-----------------------------------------------------------------------------

\* A vm that was told its list serves its disk, and waits for the migration.
LEMMA ToldServes ==
  ASSUME NEW h \in Node, NEW p \in Node, Proceeding(h, p), vm[h].kind = "pvm", Told(p)
  PROVE  /\ vm[p].kind = "svm" /\ vm[p].state = "runs"
         /\ vm[p].nbd = <<p, sec(domain, "nbd_port")>> /\ "export" \in vm[p].blocks
         /\ incoming(p) = {sec(domain, "migrate_port")}
<1>1. /\ Shape(p) /\ Sides(h, p) /\ Made(p) /\ KnownOS(domain) /\ events <= 1 /\ events \in Nat
      /\ h = Peer[p]
  BY DEF Proceeding, Both, Sound, Good, Peers
<1>2. vm[p].kind \in {"none", "svm"}
  BY <1>1 DEF Sides
<1>3. SvmList(p)[2] \in vm[p].given /\ SvmList(p)[3] \in vm[p].given
  BY <1>1, <1>2 DEF Told, OwnList, OwnLen
<1>4. vm[p].kind = "svm"
  BY <1>1, <1>2, <1>3 DEF Shape
<1>5. /\ SvmList(p)[2].at = <<p, sec(domain, "nbd_port")>>
      /\ SvmList(p)[3].execute = "nbd-server-add"
  BY <1>1, ListsDo, Zenon
<1>6. Adds(SvmList(p)[3]) = {"export"}
  BY <1>5 DEF Adds
<1>7. vm[p].state = "runs" /\ vm[p].nbd = SvmList(p)[2].at /\ Adds(SvmList(p)[3]) \subseteq vm[p].blocks
  BY <1>1, <1>3, <1>4 DEF Made
<1>8. incoming(p) = {sec(domain, "migrate_port")}
  BY <1>1, <1>4, LineBlocks DEF incoming
<1> QED
  BY <1>4, <1>5, <1>6, <1>7, <1>8

\* QEMU accepts every command of the list of a primary vm.
LEMMA PvmAccepts ==
  ASSUME NEW h \in Node, NEW p \in Node, Proceeding(h, p), vm[h].kind = "pvm",
         task[h] \in {"own-qmp", "serve-qmp"}, NEW k \in 1 .. 6, conv[h].done = k - 1
  PROVE  Accepts(h, PvmList(h)[k])
<1>1. /\ Sides(h, p) /\ Turn(h, p) /\ Made(h) /\ Reached(h, p) /\ Ordered(h, p) /\ p = Peer[h]
  BY DEF Proceeding, Both, Sound, Peers
<1>2. task[h] = "own-qmp"
  BY <1>1 DEF Turn, Sides
<1>3. Told(p)
  BY <1>1, <1>2 DEF Ordered
<1>4. /\ vm[p].kind = "svm" /\ vm[p].state = "runs"
      /\ vm[p].nbd = <<p, sec(domain, "nbd_port")>> /\ "export" \in vm[p].blocks
      /\ incoming(p) = {sec(domain, "migrate_port")}
  BY <1>3, ToldServes
<1>5. \A j \in 1 .. k - 1 : PvmList(h)[j] \in vm[h].given
  BY <1>1, <1>2 DEF Reached, OwnList
<1>6. "colo-disk0" \in vm[h].blocks /\ \A c \in vm[h].given : Adds(c) \subseteq vm[h].blocks
  BY <1>1 DEF Made
<1>7. CASE k = 1
  BY <1>1, <1>7, ListsAre DEF Accepts, capabilities, Qmp
<1>8. CASE k = 2
  <2>1. /\ PvmList(h)[2].execute = "drive_add"
        /\ PvmList(h)[2].at = <<p, sec(domain, "nbd_port")>>
    BY <1>1, ListsDo, Zenon
  <2> QED
    BY <1>4, <1>8, <2>1 DEF Accepts, Has
<1>9. CASE k = 3
  <2>1. /\ PvmList(h)[3].execute = "x-blockdev-change-add"
        /\ PvmList(h)[2].execute = "drive_add"
    BY <1>1, ListsDo, Zenon
  <2>2. Adds(PvmList(h)[2]) = {"replication0"}
    BY <2>1 DEF Adds
  <2>3. "replication0" \in vm[h].blocks
    BY <1>5, <1>6, <1>9, <2>2
  <2> QED
    BY <1>6, <1>9, <2>1, <2>3 DEF Accepts, Has
<1>10. CASE k = 4
  BY <1>1, <1>10, ListsAre DEF Accepts, Qmp
<1>11. CASE k = 5
  BY <1>1, <1>11, ListsAre DEF Accepts, Qmp
<1>12. CASE k = 6
  <2>1. /\ PvmList(h)[6].execute = "migrate"
        /\ PvmList(h)[6].at = <<p, sec(domain, "migrate_port")>>
        /\ PvmList(h)[4].execute = "migrate-set-capabilities"
    BY <1>1, ListsDo, Zenon
  <2>2. Adds(PvmList(h)[4]) = {"x-colo"}
    BY <2>1 DEF Adds
  <2>3. "x-colo" \in vm[h].blocks
    BY <1>5, <1>6, <1>12, <2>2
  <2>4. /\ PvmList(h)[6].at[1] = p
        /\ PvmList(h)[6].at[2] \in incoming(p)
    BY <1>4, <2>1
  <2> QED
    BY <1>4, <1>12, <2>1, <2>3, <2>4 DEF Accepts, Has
<1> QED
  BY <1>7, <1>8, <1>9, <1>10, <1>11, <1>12

\* And every command of the list of a secondary vm.
LEMMA SvmAccepts ==
  ASSUME NEW h \in Node, NEW p \in Node, Proceeding(h, p), vm[h].kind = "svm",
         task[h] \in {"own-qmp", "serve-qmp"}, NEW k \in 1 .. 4, conv[h].done = k - 1
  PROVE  Accepts(h, SvmList(h)[k])
<1>1. Made(h) /\ Reached(h, p) /\ p = Peer[h]
  BY DEF Proceeding, Sound, Peers
<1>2. \A j \in 1 .. k - 1 : SvmList(h)[j] \in vm[h].given
  BY <1>1 DEF Reached, OwnList
<1>3. CASE k = 1
  BY <1>1, <1>3, ListsAre DEF Accepts, capabilities, Qmp
<1>4. CASE k = 2
  <2>3. /\ SvmList(h)[2].execute = "nbd-server-start"
        /\ SvmList(h)[2].at = <<h, sec(domain, "nbd_port")>>
    BY <1>1, ListsDo, Zenon
  <2>1. SvmList(h)[2].execute = "nbd-server-start" /\ SvmList(h)[2].at[1] = h
    BY <2>3
  <2>2. vm[h].nbd = << >>
    BY <1>1, <1>4 DEF Reached
  <2> QED
    BY <1>4, <2>1, <2>2 DEF Accepts
<1>5. CASE k = 3
  <2>1. SvmList(h)[3].execute = "nbd-server-add" /\ SvmList(h)[2].at = <<h, sec(domain, "nbd_port")>>
    BY <1>1, ListsDo, Zenon
  <2>2. "parent0" \in vm[h].blocks /\ vm[h].nbd = SvmList(h)[2].at
    BY <1>1, <1>2, <1>5 DEF Made
  <2>3. vm[h].nbd # << >>
    BY <2>1, <2>2
  <2> QED
    BY <1>5, <2>1, <2>2, <2>3 DEF Accepts, Has
<1>6. CASE k = 4
  BY <1>1, <1>6, ListsAre DEF Accepts, Qmp
<1> QED
  BY <1>3, <1>4, <1>5, <1>6

\* set-params changes nothing of what a start makes; QEMU may refuse it.
LEMMA ParamsExecuted ==
  ASSUME NEW h \in Node, NEW property \in PropertyName, NEW k \in 1 .. 2
  PROVE  LET c == set_params_cmds(property)[k]
         IN /\ c.execute \in {"qmp_capabilities", "migrate-set-parameters", "qom-set"}
            /\ Accepts(h, c) \/ c.execute = "qom-set"
<1> DEFINE c == set_params_cmds(property)[k]
<1>1. c.execute \in {"qmp_capabilities", "migrate-set-parameters", "qom-set"}
  BY DEF set_params_cmds, capabilities, Qmp
<1>2. CASE c.execute = "qmp_capabilities"
  BY <1>2 DEF Accepts
<1>3. CASE c.execute = "migrate-set-parameters"
  BY <1>3 DEF Accepts
<1> QED
  BY <1>1, <1>2, <1>3

\* What the commands of a start and of set-params are, all but do-failover's.
Mild == {"qmp_capabilities", "drive_add", "x-blockdev-change-add", "migrate-set-capabilities",
         "migrate-set-parameters", "migrate", "nbd-server-start", "nbd-server-add", "qom-set"}

\* None of these commands takes a block away.
LEMMA ExecutedIs ==
  ASSUME Tables, NEW h \in Node, NEW c, c.execute \in Mild
  PROVE  LET w == Executed(vm[h], c)
         IN /\ w.given = vm[h].given \cup {c} /\ w.refused = vm[h].refused
            /\ w.blocks = vm[h].blocks \cup Adds(c)
            /\ w.nbd = IF c.execute = "nbd-server-start" THEN c.at ELSE vm[h].nbd
<1>1. DOMAIN vm[h] = {"kind", "state", "blocks", "gone", "nbd", "given", "refused"}
  BY DEF Tables
<1>2. Takes(c) = {}
  BY DEF Takes, Mild
<1>3. c.execute # "nbd-server-stop" /\ c.execute \notin {"object-del", "chardev-remove"}
  BY DEF Mild
<1> QED
  BY <1>1, <1>2, <1>3 DEF Executed

\* A command that QEMU refuses changes nothing.
LEMMA RefusedIs ==
  ASSUME Tables, NEW h \in Node, NEW c
  PROVE  LET w == Refused(vm[h], c)
         IN /\ w.given = vm[h].given /\ w.refused = vm[h].refused \cup {c}
            /\ w.blocks = vm[h].blocks /\ w.nbd = vm[h].nbd
BY DEF Refused, Tables

\* The commands of a start, by what they do.
LEMMA OwnCommands ==
  ASSUME NEW h \in Node, NEW p \in Node, p = Peer[h], vm[h].kind \in {"pvm", "svm"},
         NEW k \in 1 .. OwnLen(h)
  PROVE  /\ OwnList(h)[k].execute \in Mild \ {"qom-set"}
         /\ vm[h].kind = "svm" => (OwnList(h)[k].execute = "nbd-server-start" <=> k = 2)
         /\ SvmList(h)[2].execute = "nbd-server-start"
<1>1. CASE vm[h].kind = "pvm"
  <2>1. k \in {1, 2, 3, 4, 5, 6}
    BY <1>1 DEF OwnLen
  <2> QED
    BY <1>1, <2>1, ListsDo DEF OwnList, Mild
<1>2. CASE vm[h].kind = "svm"
  <2>1. k \in {1, 2, 3, 4}
    BY <1>2 DEF OwnLen
  <2> QED
    BY <1>2, <2>1, ListsDo DEF OwnList, Mild
<1> QED
  BY <1>1, <1>2

\* A command is executed: by the order of the lists, with the other vm ready for it.
LEMMA ExecutesSound ==
  ASSUME NEW h \in Node, NEW p \in Node, Proceeding(h, p), MExecutes(h, p), Tables
  PROVE  Sound(h, p)' /\ Sound(p, h)'
<1> DEFINE c == conv[h].cmds[conv[h].done + 1]
           L == Len(conv[h].cmds)
<1>0. /\ Aside(p) /\ events' = events /\ events \in Nat /\ p = Peer[h]
      /\ Shape(h) /\ Turn(h, p) /\ Sides(h, p) /\ Shape(p) /\ Turn(p, h) /\ Sides(p, h)
      /\ Sound(h, p) /\ Sound(p, h)
  BY Zenon DEF Proceeding, Both, MExecutes, SameStart, Peers
<1>1. /\ vm[h].state = "runs" /\ conv[h].done < conv[h].next - 1
      /\ conv'[h].done = conv[h].done + 1 /\ conv'[h].inbox = conv[h].inbox + 1
      /\ conv'[h].phase = conv[h].phase /\ conv'[h].cmds = conv[h].cmds /\ conv'[h].next = conv[h].next
      /\ vm'[h].kind = vm[h].kind /\ vm'[h].state = vm[h].state /\ vm'[p] = vm[p]
      /\ definition' = definition /\ local_status' = local_status
  BY <1>0 DEF MExecutes, Aside
<1>2. /\ task'[h] = task[h] /\ answer'[h] = answer[h] /\ asked'[h] = asked[h] /\ asked'[p] = asked[p]
      /\ reply'[h] = reply[h] /\ reply'[p] = reply[p]
  BY DEF MExecutes, SameHost, Calm
<1>3. vm'[h] = IF Accepts(h, c) THEN Executed(vm[h], c) ELSE Refused(vm[h], c)
  BY Zenon DEF MExecutes
<1>4. task[h] \in {"own-qmp", "serve-qmp", "set-params"}
  BY <1>0, <1>1 DEF Sound, Counted
<1>5. /\ conv[h].next \in Nat /\ conv[h].done \in Nat /\ conv[h].inbox \in Nat
      /\ conv[h].next <= L + 1 /\ L \in Nat /\ conv[h].done + 1 \in 1 .. L
  <2>1. /\ conv[h].next \in Nat /\ conv[h].done \in Nat /\ conv[h].inbox \in Nat
        /\ conv[h].next <= L + 1
    BY <1>0, <1>4 DEF Sound, Counted
  <2>2. L \in Nat
    BY <1>0, <1>4 DEF Sound, Speaks, OwnLen
  <2> QED
    BY <1>1, <2>1, <2>2
<1>6. Made(p)' /\ Speaks(p)' /\ Counted(p)'
  BY <1>0, AsidePart DEF Sound
<1>7. /\ SvmList(h)' = SvmList(h) /\ OwnList(h)' = OwnList(h) /\ OwnLen(h)' = OwnLen(h)
      /\ OwnList(p)' = OwnList(p)
  BY <1>1, ListsStay DEF OwnList, OwnLen
<1>8. Speaks(h)'
  BY <1>0, <1>1, <1>2, <1>7 DEF Speaks, Sound
<1>9. Counted(h)'
  <2>1. L' = L
    BY <1>1
  <2>2. /\ conv[h].done < conv[h].next
        /\ conv[h].phase = "send" => conv[h].next <= L
        /\ conv[h].phase \in {"connect", "greeting"} => conv[h].next = 1
        /\ conv[h].phase = "send" => conv[h].next + conv[h].inbox <= 1 + conv[h].done + events
        /\ conv[h].phase # "send" => conv[h].next + conv[h].inbox <= 2 + conv[h].done + events
    BY <1>0, <1>4 DEF Counted, Sound
  <2> HIDE DEF L
  <2>3. /\ conv[h].done + 1 \in Nat /\ conv[h].inbox + 1 \in Nat
        /\ conv[h].done + 1 < conv[h].next
    BY <1>1, <1>5
  <2>4. /\ conv[h].phase = "send" =>
             conv[h].next + (conv[h].inbox + 1) <= 1 + (conv[h].done + 1) + events
        /\ conv[h].phase # "send" =>
             conv[h].next + (conv[h].inbox + 1) <= 2 + (conv[h].done + 1) + events
    BY <1>0, <1>5, <2>2
  <2>5. events' = events
    BY <1>0
  <2> QED
    BY <1>1, <1>2, <1>4, <1>5, <2>1, <2>2, <2>3, <2>4, <2>5, Zenon DEF Counted, L
<1>10. /\ Made(h)' /\ Reached(h, p)'
       /\ vm[h].given \subseteq vm'[h].given
  <2>1. CASE task[h] \in {"own-qmp", "serve-qmp"}
    <3> DEFINE k == conv[h].done + 1
    <3>1. /\ vm[h].kind \in {"pvm", "svm"} /\ c = OwnList(h)[k] /\ k \in 1 .. OwnLen(h)
          /\ conv[h].done = k - 1
      BY <1>0, <1>5, <2>1 DEF Sound, Speaks
    <3>2. Accepts(h, c)
      <4>1. CASE vm[h].kind = "pvm"
        <5>1. k \in 1 .. 6 /\ c = PvmList(h)[k]
          BY <3>1, <4>1 DEF OwnLen, OwnList
        <5> HIDE DEF k, c
        <5> QED
          BY <2>1, <3>1, <4>1, <5>1, PvmAccepts
      <4>2. CASE vm[h].kind = "svm"
        <5>1. k \in 1 .. 4 /\ c = SvmList(h)[k]
          BY <3>1, <4>2 DEF OwnLen, OwnList
        <5> HIDE DEF k, c
        <5> QED
          BY <2>1, <3>1, <4>2, <5>1, SvmAccepts
      <4> QED
        BY <3>1, <4>1, <4>2
    <3>3. /\ c.execute \in Mild \ {"qom-set"}
          /\ vm[h].kind = "svm" => (c.execute = "nbd-server-start" <=> k = 2)
          /\ SvmList(h)[2].execute = "nbd-server-start"
      <4> HIDE DEF k
      <4> QED
        BY <1>0, <3>1, OwnCommands
    <3>4. /\ vm'[h].given = vm[h].given \cup {c} /\ vm'[h].refused = vm[h].refused
          /\ vm'[h].blocks = vm[h].blocks \cup Adds(c)
          /\ vm'[h].nbd = IF c.execute = "nbd-server-start" THEN c.at ELSE vm[h].nbd
      <4> HIDE DEF c
      <4>1. c.execute \in Mild
        BY <3>3
      <4>2. vm'[h] = Executed(vm[h], c)
        BY <1>3, <3>2, Zenon
      <4> QED
        BY <4>1, <4>2, ExecutedIs
    <3>5. vm[h].kind = "svm" => (k = 2 <=> c = SvmList(h)[2])
      BY <3>1, <3>3 DEF OwnList
    <3> HIDE DEF c
    <3>6. Made(h)'
      <4>1. "colo-disk0" \in vm'[h].blocks /\ (vm[h].kind = "svm" => "parent0" \in vm'[h].blocks)
        BY <1>0, <3>1, <3>4 DEF Made, Sound
      <4>2. ASSUME NEW d \in vm'[h].given PROVE Adds(d) \subseteq vm'[h].blocks
        <5>1. CASE d = c
          BY <3>4, <5>1
        <5>2. CASE d \in vm[h].given
          BY <1>0, <3>1, <3>4, <5>2 DEF Made, Sound
        <5> QED
          BY <3>4, <4>2, <5>1, <5>2
      <4>3. \A d \in vm'[h].refused : d.execute = "qom-set"
        BY <1>0, <3>1, <3>4 DEF Made, Sound
      <4>4. vm[h].kind = "svm" /\ SvmList(h)[2] \in vm'[h].given => vm'[h].nbd = SvmList(h)[2].at
        BY <1>0, <3>3, <3>4, <3>5 DEF Made, Sound
      <4> QED
        BY <1>1, <1>7, <4>1, <4>2, <4>3, <4>4 DEF Made
    <3>7. \A j \in 1 .. conv'[h].done : OwnList(h)[j] \in vm'[h].given
      <4>1. \A j \in 1 .. conv[h].done : OwnList(h)[j] \in vm[h].given
        BY <1>0, <2>1 DEF Reached, Sound
      <4> QED
        BY <1>1, <1>5, <3>1, <3>4, <4>1
    <3>8. vm[h].kind = "svm" => vm'[h].nbd = << >> \/ k >= 2
      <4>1. vm[h].kind = "svm" /\ k = 1 => vm[h].nbd = << >>
        <5>1. k = 1 => conv[h].done <= 1
          BY <1>5
        <5> QED
          BY <1>0, <2>1, <5>1, Zenon DEF Reached, Sound
      <4>2. k = 1 \/ k >= 2
        BY <1>5
      <4> QED
        BY <3>3, <3>4, <4>1, <4>2
    <3>9. /\ ~(asked[h] = "peer-send-qmpcmds-secondary" /\ task[h] # "serve-qmp")
          /\ task[p] # "peer-start"
      BY <1>0, <2>1 DEF Turn, Sides, Shape
    <3>10. k >= 2 => ~(conv'[h].done <= 1)
      BY <1>1, <1>5
    <3>11. task'[p] = task[p]
      BY <1>0 DEF Aside
    <3>12. Reached(h, p)'
      BY <1>1, <1>2, <1>7, <3>7, <3>8, <3>9, <3>10, <3>11 DEF Reached
    <3> QED
      BY <3>4, <3>6, <3>12
  <2>2. CASE task[h] = "set-params"
    <3>1. PICK property \in PropertyName : conv[h].cmds = set_params_cmds(property)
      BY <1>0, <2>2 DEF Sound, Speaks
    <3>2. conv[h].done + 1 \in 1 .. 2
      BY <1>0, <1>5, <2>2 DEF Sound, Speaks
    <3>3. /\ c.execute \in {"qmp_capabilities", "migrate-set-parameters", "qom-set"}
          /\ Accepts(h, c) \/ c.execute = "qom-set"
      BY <3>1, <3>2, ParamsExecuted
    <3> HIDE DEF c
    <3>4. /\ vm'[h].nbd = vm[h].nbd /\ vm[h].blocks \subseteq vm'[h].blocks
          /\ vm[h].given \subseteq vm'[h].given /\ vm'[h].given \subseteq vm[h].given \cup {c}
          /\ vm'[h].refused = vm[h].refused \/ (vm'[h].refused = vm[h].refused \cup {c} /\ c.execute = "qom-set")
      <4>1. CASE Accepts(h, c)
        <5>1. c.execute \in Mild /\ c.execute # "nbd-server-start"
          BY <3>3 DEF Mild
        <5>2. vm'[h] = Executed(vm[h], c)
          BY <1>3, <4>1, Zenon
        <5> QED
          BY <5>1, <5>2, ExecutedIs
      <4>2. CASE ~Accepts(h, c)
        <5>1. vm'[h] = Refused(vm[h], c)
          BY <1>3, <4>2, Zenon
        <5>2. /\ vm'[h].given = vm[h].given /\ vm'[h].refused = vm[h].refused \cup {c}
              /\ vm'[h].blocks = vm[h].blocks /\ vm'[h].nbd = vm[h].nbd
          BY <5>1, RefusedIs
        <5> QED
          BY <3>3, <4>2, <5>2, Zenon
      <4> QED
        BY <4>1, <4>2
    <3>5. Adds(c) = {}
      BY <3>3 DEF Adds
    <3>6. vm[h].kind \in {"pvm", "svm"} => c # SvmList(h)[2]
      <4>1. SvmList(h)[2].execute = "nbd-server-start"
        BY <1>0, ListsDo, Zenon
      <4> QED
        BY <3>3, <4>1
    <3>7. Made(h)'
      <4>3. \A d \in vm'[h].refused : d.execute = "qom-set"
        BY <1>0, <3>4 DEF Made, Sound
      <4> SUFFICES ASSUME vm[h].kind \in {"pvm", "svm"} PROVE Made(h)'
        BY <1>1, <4>3 DEF Made
      <4>1. "colo-disk0" \in vm'[h].blocks /\ (vm[h].kind = "svm" => "parent0" \in vm'[h].blocks)
        BY <1>0, <3>4 DEF Made, Sound
      <4>2. \A d \in vm'[h].given : Adds(d) \subseteq vm'[h].blocks
        BY <1>0, <3>4, <3>5 DEF Made, Sound
      <4>4. vm[h].kind = "svm" /\ SvmList(h)[2] \in vm'[h].given => vm'[h].nbd = SvmList(h)[2].at
        BY <1>0, <3>4, <3>6 DEF Made, Sound
      <4> QED
        BY <1>1, <1>7, <4>1, <4>2, <4>3, <4>4 DEF Made
    <3>8. task'[p] = task[p]
      BY <1>0 DEF Aside
    <3>9. Reached(h, p)'
      BY <1>0, <1>1, <1>2, <2>2, <3>4, <3>8 DEF Reached, Sound
    <3> QED
      BY <3>4, <3>7, <3>9
  <2> QED
    BY <1>4, <2>1, <2>2
<1>11. /\ Told(h) => Told(h)'
       /\ Told(p) => Told(p)'
  BY <1>0, <1>1, <1>10, ToldStays
<1>12. Reached(p, h)'
  BY <1>0, <1>1, <1>2, <1>7 DEF Reached, Sound, Aside
<1>13. Ordered(h, p)'
  BY <1>0, <1>1, <1>2, <1>11 DEF Ordered, Sound, Aside
<1>14. Ordered(p, h)'
  BY <1>0, <1>1, <1>2, <1>11 DEF Ordered, Sound, Aside
<1> QED
  BY <1>6, <1>8, <1>9, <1>10, <1>12, <1>13, <1>14 DEF Sound
-----------------------------------------------------------------------------
Underway == Control /\ events \in Nat /\ GoodIsSound

\* Nothing has been started.
LEMMA UnderwayInit == StartInit => Underway
<1> SUFFICES ASSUME StartInit PROVE Underway
  OBVIOUS
<1>1. Control
  BY ControlInit
<1>2. events \in Nat
  BY DEF StartInit
<1>3. ASSUME NEW n \in Node PROVE Sound(n, Peer[n])
  <2>1. PICK p \in Node : p = Peer[n]
    BY PeerAssumption
  <2>2. /\ task[n] = "idle" /\ reply[n] = "none" /\ answer[n] = "none"
        /\ conv[n].phase = "none" /\ conv[n].next = 1 /\ conv[n].done = 0
        /\ vm[n].kind = "none" /\ vm[n].refused = {}
    BY DEF StartInit, NoConv, NoVm
  <2> QED
    BY <2>1, <2>2 DEF Sound, Speaks, Counted, Made, Reached, Ordered
<1> QED
  BY <1>1, <1>2, <1>3 DEF Underway, GoodIsSound

\* A step is a move of one host, and if the start is still undisturbed after it, it was before.
LEMMA UnderwayStep == Underway /\ [StartNext]_startVars => Underway'
<1>1. ASSUME Underway, StartNext PROVE Underway'
  <2>1. Control'
    BY <1>1, ControlStep DEF Underway
  <2>2. PICK h \in Node, p \in Node : Peers(h, p) /\ Aside(p) /\ Move(h, p)
    BY <1>1, StepMoves DEF Underway
  <2>3. Both(h, p) /\ Both(h, p)' /\ h = Peer[p] /\ p = Peer[h] /\ Node = {h, p} /\ Tables
    BY <1>1, <2>1, <2>2 DEF Underway, Control, Both, Peers
  <2>4. events \in Nat
    BY <1>1 DEF Underway
  <2>5. events' \in Nat
    <3>1. events' = events \/ events' = events + 1
      BY <2>2, Zenon DEF Move, MNothing, MRefused, MPlain, MColo, MPeerStart, MAfterStartP,
         MAfterStartS,
         MServe, MReply, MOwnTalk, MBack, MSetParams, MFailover, MToPeer, MOwnEnds, MServed, MOtherEnds,
         MEnds, MTalk, MExecutes, MEvent, MBecomes, SameStart
    <3> QED
      BY <2>4, <3>1
  <2>6. ASSUME Good' PROVE \A n \in Node : Sound(n, Peer[n])'
    <3>1. Good
      BY <2>2, <2>3, <2>4, <2>6, GoodBefore
    <3>2. Proceeding(h, p)
      BY <1>1, <2>2, <2>3, <2>4, <3>1 DEF Proceeding, Underway, GoodIsSound
    <3>3. Untouched(h)'
      BY <2>6 DEF Good
    <3>4. Sound(h, p)' /\ Sound(p, h)'
      BY <2>2, <2>3, <3>2, <3>3, Zenon,
         NothingSound, RefusedSound, PlainSound, ColoSound, PeerStartSound,
         AfterStartPSound, AfterStartSSound, ServeSound, ReplySound, OwnTalkSound,
         BackSound, SetParamsSound, FailoverSound, ToPeerSound, OwnEndsSound,
         ServedSound, OtherEndsSound, EndsSound, TalkSound, ExecutesSound, EventSound,
         BecomesSound DEF Move
    <3>5. ASSUME NEW n \in Node PROVE Sound(n, Peer[n])'
      <4>1. CASE n = h
        BY <2>3, <3>4, <4>1, Zenon
      <4>2. CASE n = p
        BY <2>3, <3>4, <4>2, Zenon
      <4> QED
        BY <2>3, <4>1, <4>2
    <3> QED
      BY <3>5
  <2> QED
    BY <2>1, <2>5, <2>6 DEF Underway, GoodIsSound
<1>2. ASSUME Underway, UNCHANGED startVars PROVE Underway'
  <2>1. Control'
    BY <1>2, ControlStep DEF Underway
  <2>2. /\ UNCHANGED <<definition, local_status, entry, task, asked, reply, answer, conv, vm, events>>
    BY <1>2 DEF startVars
  <2>3. domain' = domain /\ \A n \in Node : PvmList(n)' = PvmList(n) /\ SvmList(n)' = SvmList(n)
    <3>1. definition' = definition /\ local_status' = local_status
      BY <2>2
    <3> QED
      BY <3>1, ListsStay, Zenon DEF domain
  <2>4. Good' => Good
    BY <2>2, <2>3 DEF Good, Untouched
  <2>5. ASSUME NEW n \in Node, Sound(n, Peer[n]) PROVE Sound(n, Peer[n])'
    <3>1. OwnList(n)' = OwnList(n) /\ OwnLen(n)' = OwnLen(n)
      BY <2>2, <2>3 DEF OwnList, OwnLen
    <3>2. PICK p \in Node : p = Peer[n]
      BY PeerAssumption
    <3>3. (Told(n) => Told(n)') /\ (Told(p) => Told(p)')
      BY <1>2, <2>2, ToldStays DEF Underway
    <3>4. Speaks(n)' /\ Counted(n)'
      BY <2>2, <2>5, <3>1 DEF Sound, Speaks, Counted
    <3>5. Made(n)'
      BY <2>2, <2>3, <2>5, Zenon DEF Sound, Made
    <3>6. Reached(n, p)'
      BY <2>2, <2>5, <3>1, <3>2 DEF Sound, Reached
    <3>7. Ordered(n, p)'
      BY <2>2, <2>5, <3>2, <3>3 DEF Sound, Ordered
    <3> QED
      BY <3>2, <3>4, <3>5, <3>6, <3>7 DEF Sound
  <2> QED
    BY <1>2, <2>1, <2>2, <2>4, <2>5 DEF Underway, GoodIsSound
<1> QED
  BY <1>1, <1>2

(***************************************************************************)
(* In every behaviour the two hosts agree where the start stands (Control: *)
(* faults or not), and as long as no vm has ended, no do-failover has told *)
(* a vm anything and at most one event was taken for an answer, each vm    *)
(* has executed what the position in the conversations says (Sound).       *)
(***************************************************************************)
THEOREM AlwaysUnderway == StartSpec => []Underway
BY UnderwayInit, UnderwayStep, PTL DEF StartSpec

\* The conditions of the properties are those under which a start is sound.
LEMMA CoupledIsGood ==
  ASSUME Whole, NoVmDied, events <= 1, \A m \in Node : Coupled(m)
  PROVE  Good
BY DEF Good, Untouched, Coupled, NoVmDied, Dead, Whole

\* The commands the properties are about are those of the vm's own list.
LEMMA OwnCmdsAre ==
  ASSUME NEW n \in Node
  PROVE  /\ OwnCmds(n) = {OwnList(n)[j] : j \in 1 .. OwnLen(n)}
         /\ \A c \in OwnCmds(n) : c.execute # "qom-set"
<1>1. PICK p \in Node : p = Peer[n]
  BY PeerAssumption
<1>2. /\ DOMAIN PvmList(n) = 1 .. 6 /\ DOMAIN SvmList(n) = 1 .. 4
  BY DEF PvmList, SvmList, generate_pvm_qmpcmd, generate_svm_qmpcmd
<1>3. OwnCmds(n) = {OwnList(n)[j] : j \in 1 .. OwnLen(n)}
  BY <1>2 DEF OwnCmds, ToSet, OwnList, OwnLen, PvmList, SvmList
<1>4. ASSUME NEW j \in 1 .. 6 PROVE PvmList(n)[j].execute # "qom-set"
  <2>1. j \in {1, 2, 3, 4, 5, 6}
    OBVIOUS
  <2> QED
    BY <1>1, <2>1, ListsDo
<1>5. ASSUME NEW j \in 1 .. 4 PROVE SvmList(n)[j].execute # "qom-set"
  <2>1. j \in {1, 2, 3, 4}
    OBVIOUS
  <2> QED
    BY <1>1, <2>1, ListsDo
<1> QED
  BY <1>3, <1>4, <1>5 DEF OwnList, OwnLen

(***************************************************************************)
(* For every definition and every number of events, commands and deaths    *)
(* the bounds allow: QEMU refuses none of the commands of a start, since   *)
(* the secondary has exported its disk before the primary is told to       *)
(* mirror and migrate (colod_start's order of calls).                      *)
(***************************************************************************)
THEOREM MirrorsAfterExport == StartSpec => []MirrorAfterExport
<1>1. Underway => MirrorAfterExport
  <2> SUFFICES ASSUME Underway, NEW n \in Node, NEW c \in vm[n].refused, Whole, NoVmDied, events <= 1,
                      \A m \in Node : Coupled(m)
               PROVE  c \notin OwnCmds(n)
    BY DEF MirrorAfterExport
  <2>1. Made(n)
    BY CoupledIsGood DEF Underway, GoodIsSound, Sound
  <2>2. c.execute = "qom-set"
    BY <2>1 DEF Made
  <2> QED
    BY <2>2, OwnCmdsAre
<1> QED
  BY <1>1, AlwaysUnderway, PTL

(***************************************************************************)
(* And colod_start answers success only when every command of its own list *)
(* has been executed, and of the secondary's list if the peer has it.      *)
(***************************************************************************)
THEOREM AnsweredOnceGiven == StartSpec => []AnsweredWhenGiven
<1>1. Underway => AnsweredWhenGiven
  <2> SUFFICES ASSUME Underway, NEW n \in Node, answer[n] = "ok", vm[n].kind \in {"pvm", "svm"},
                      Whole, NoVmDied, events = 0, \A m \in Node : Coupled(m)
               PROVE  /\ OwnCmds(n) \subseteq vm[n].given
                      /\ vm[Peer[n]].kind = "svm" => OwnCmds(Peer[n]) \subseteq vm[Peer[n]].given
    BY DEF AnsweredWhenGiven
  <2>1. PICK p \in Node : p = Peer[n]
    BY PeerAssumption
  <2>2. Ordered(n, p)
    BY <2>1, CoupledIsGood DEF Underway, GoodIsSound, Sound
  <2>3. ASSUME NEW m \in Node, Told(m) PROVE OwnCmds(m) \subseteq vm[m].given
    <3>1. \A j \in 1 .. OwnLen(m) : j + events <= OwnLen(m)
      BY DEF OwnLen
    <3> QED
      BY <2>3, <3>1, OwnCmdsAre DEF Told
  <2> QED
    BY <2>1, <2>2, <2>3 DEF Ordered
<1> QED
  BY <1>1, AlwaysUnderway, PTL
-----------------------------------------------------------------------------
(***************************************************************************)
(* do-failover.  Its two lists remove, one after the other, what the       *)
(* command line and the start have made of a vm.  The invariant (Orderly)  *)
(* follows one host: how far a conversation is, that no command of a start *)
(* is told a second time, and what the vm has when it has executed k       *)
(* commands of do-failover (Left).  It holds whatever becomes of the other *)
(* host: its vm may have ended, its colod, or a call may have timed out.   *)
(***************************************************************************)

\* Three lists, one after the other.
LEMMA ThreeJoined ==
  ASSUME NEW S, NEW a \in Seq(S), NEW b \in Seq(S), NEW c \in Seq(S)
  PROVE  /\ Len(a \o b \o c) = Len(a) + Len(b) + Len(c)
         /\ \A i \in 1 .. Len(a) : (a \o b \o c)[i] = a[i]
         /\ \A i \in 1 .. Len(b) : (a \o b \o c)[Len(a) + i] = b[i]
         /\ \A i \in 1 .. Len(c) : (a \o b \o c)[Len(a) + Len(b) + i] = c[i]
OBVIOUS

\* The commands of do-failover on a secondary.
LEMMA FailSvm ==
  /\ Len(failover_svm_cmds) = 9
  /\ failover_svm_cmds[1] = capabilities
  /\ failover_svm_cmds[2] = Qmp("colo-enable-teardown", "none")
  /\ failover_svm_cmds[3] = Qmp("nbd-server-stop", "nbd")
  /\ failover_svm_cmds[4] = Qmp("x-colo-lost-heartbeat", "none")
  /\ failover_svm_cmds[5] = Qmp("query-status", "none")
  /\ failover_svm_cmds[6] = Qmp("object-del", "f2")
  /\ failover_svm_cmds[7] = Qmp("object-del", "f1")
  /\ failover_svm_cmds[8] = Qmp("chardev-remove", "red1")
  /\ failover_svm_cmds[9] = Qmp("chardev-remove", "red0")
<1> DEFINE first == <<capabilities, Qmp("colo-enable-teardown", "none"),
                      Qmp("nbd-server-stop", "nbd"), Qmp("x-colo-lost-heartbeat", "none"),
                      Qmp("query-status", "none")>>
           objs == Each("object-del", <<"f2", "f1">>)
           devs == Each("chardev-remove", <<"red1", "red0">>)
           All == {first[i] : i \in 1 .. 5} \cup {objs[i] : i \in 1 .. 2} \cup {devs[i] : i \in 1 .. 2}
<1>0. failover_svm_cmds = first \o objs \o devs
  BY DEF failover_svm_cmds
<1>1. /\ first \in Seq(All) /\ Len(first) = 5
      /\ first[1] = capabilities /\ first[2] = Qmp("colo-enable-teardown", "none")
      /\ first[3] = Qmp("nbd-server-stop", "nbd")
      /\ first[4] = Qmp("x-colo-lost-heartbeat", "none")
      /\ first[5] = Qmp("query-status", "none")
  OBVIOUS
<1>2. /\ objs \in Seq(All) /\ Len(objs) = 2
      /\ objs[1] = Qmp("object-del", "f2") /\ objs[2] = Qmp("object-del", "f1")
  BY DEF Each
<1>3. /\ devs \in Seq(All) /\ Len(devs) = 2
      /\ devs[1] = Qmp("chardev-remove", "red1") /\ devs[2] = Qmp("chardev-remove", "red0")
  BY DEF Each
<1> HIDE DEF first, objs, devs, All
<1>4. /\ Len(failover_svm_cmds) = 5 + 2 + 2
      /\ \A i \in 1 .. 5 : failover_svm_cmds[i] = first[i]
      /\ \A i \in 1 .. 2 : failover_svm_cmds[5 + i] = objs[i]
      /\ \A i \in 1 .. 2 : failover_svm_cmds[5 + 2 + i] = devs[i]
  <2> DEFINE s == first \o objs \o devs
  <2>1. /\ Len(s) = Len(first) + Len(objs) + Len(devs)
        /\ \A i \in 1 .. Len(first) : s[i] = first[i]
        /\ \A i \in 1 .. Len(objs) : s[Len(first) + i] = objs[i]
        /\ \A i \in 1 .. Len(devs) : s[Len(first) + Len(objs) + i] = devs[i]
    <3>1. first \in Seq(All) /\ objs \in Seq(All) /\ devs \in Seq(All)
      BY <1>1, <1>2, <1>3
    <3> QED
      BY <3>1, ThreeJoined
  <2> HIDE DEF s
  <2>2. Len(first) = 5 /\ Len(objs) = 2 /\ Len(devs) = 2 /\ failover_svm_cmds = s
    BY <1>0, <1>1, <1>2, <1>3 DEF s
  <2> QED
    BY <2>1, <2>2
<1>5. /\ failover_svm_cmds[5 + 1] = objs[1] /\ failover_svm_cmds[5 + 2] = objs[2]
      /\ failover_svm_cmds[5 + 2 + 1] = devs[1] /\ failover_svm_cmds[5 + 2 + 2] = devs[2]
  BY <1>4
<1> QED
  BY <1>1, <1>2, <1>3, <1>4, <1>5

\* And on a primary.
LEMMA FailPvm ==
  /\ Len(failover_pvm_cmds) = 16
  /\ failover_pvm_cmds[1] = capabilities
  /\ failover_pvm_cmds[2] = Qmp("colo-enable-teardown", "none")
  /\ failover_pvm_cmds[3] = Qmp("x-blockdev-change-del", "children.1")
  /\ failover_pvm_cmds[4] = Qmp("drive_del", "replication0")
  /\ failover_pvm_cmds[5] = Qmp("x-colo-lost-heartbeat", "none")
  /\ failover_pvm_cmds[6] = Qmp("object-del", "m0")
  /\ failover_pvm_cmds[7] = Qmp("object-del", "redire0")
  /\ failover_pvm_cmds[8] = Qmp("object-del", "redire1")
  /\ failover_pvm_cmds[9] = Qmp("object-del", "iothread1")
  /\ failover_pvm_cmds[10] = Qmp("object-del", "comp0")
  /\ failover_pvm_cmds[11] = Qmp("chardev-remove", "mirror0")
  /\ failover_pvm_cmds[12] = Qmp("chardev-remove", "compare1")
  /\ failover_pvm_cmds[13] = Qmp("chardev-remove", "compare0")
  /\ failover_pvm_cmds[14] = Qmp("chardev-remove", "compare0-0")
  /\ failover_pvm_cmds[15] = Qmp("chardev-remove", "compare_out")
  /\ failover_pvm_cmds[16] = Qmp("chardev-remove", "compare_out0")
<1> DEFINE first == <<capabilities, Qmp("colo-enable-teardown", "none"),
                      Qmp("x-blockdev-change-del", "children.1"), Qmp("drive_del", "replication0"),
                      Qmp("x-colo-lost-heartbeat", "none")>>
           objs == Each("object-del", <<"m0", "redire0", "redire1", "iothread1", "comp0">>)
           devs == Each("chardev-remove", <<"mirror0", "compare1", "compare0", "compare0-0",
                                            "compare_out", "compare_out0">>)
           All == {first[i] : i \in 1 .. 5} \cup {objs[i] : i \in 1 .. 5} \cup {devs[i] : i \in 1 .. 6}
<1>0. failover_pvm_cmds = first \o objs \o devs
  BY DEF failover_pvm_cmds
<1>1. /\ first \in Seq(All) /\ Len(first) = 5
      /\ first[1] = capabilities /\ first[2] = Qmp("colo-enable-teardown", "none")
      /\ first[3] = Qmp("x-blockdev-change-del", "children.1")
      /\ first[4] = Qmp("drive_del", "replication0")
      /\ first[5] = Qmp("x-colo-lost-heartbeat", "none")
  OBVIOUS
<1>2. /\ objs \in Seq(All) /\ Len(objs) = 5
      /\ objs[1] = Qmp("object-del", "m0") /\ objs[2] = Qmp("object-del", "redire0")
      /\ objs[3] = Qmp("object-del", "redire1") /\ objs[4] = Qmp("object-del", "iothread1")
      /\ objs[5] = Qmp("object-del", "comp0")
  BY DEF Each
<1>3. /\ devs \in Seq(All) /\ Len(devs) = 6
      /\ devs[1] = Qmp("chardev-remove", "mirror0") /\ devs[2] = Qmp("chardev-remove", "compare1")
      /\ devs[3] = Qmp("chardev-remove", "compare0") /\ devs[4] = Qmp("chardev-remove", "compare0-0")
      /\ devs[5] = Qmp("chardev-remove", "compare_out")
      /\ devs[6] = Qmp("chardev-remove", "compare_out0")
  BY DEF Each
<1> HIDE DEF first, objs, devs, All
<1>4. /\ Len(failover_pvm_cmds) = 5 + 5 + 6
      /\ \A i \in 1 .. 5 : failover_pvm_cmds[i] = first[i]
      /\ \A i \in 1 .. 5 : failover_pvm_cmds[5 + i] = objs[i]
      /\ \A i \in 1 .. 6 : failover_pvm_cmds[5 + 5 + i] = devs[i]
  <2> DEFINE s == first \o objs \o devs
  <2>1. /\ Len(s) = Len(first) + Len(objs) + Len(devs)
        /\ \A i \in 1 .. Len(first) : s[i] = first[i]
        /\ \A i \in 1 .. Len(objs) : s[Len(first) + i] = objs[i]
        /\ \A i \in 1 .. Len(devs) : s[Len(first) + Len(objs) + i] = devs[i]
    <3>1. first \in Seq(All) /\ objs \in Seq(All) /\ devs \in Seq(All)
      BY <1>1, <1>2, <1>3
    <3> QED
      BY <3>1, ThreeJoined
  <2> HIDE DEF s
  <2>2. Len(first) = 5 /\ Len(objs) = 5 /\ Len(devs) = 6 /\ failover_pvm_cmds = s
    BY <1>0, <1>1, <1>2, <1>3 DEF s
  <2> QED
    BY <2>1, <2>2
<1>5. /\ failover_pvm_cmds[5 + 1] = objs[1] /\ failover_pvm_cmds[5 + 2] = objs[2]
      /\ failover_pvm_cmds[5 + 3] = objs[3] /\ failover_pvm_cmds[5 + 4] = objs[4]
      /\ failover_pvm_cmds[5 + 5] = objs[5]
  BY <1>4
<1>6. /\ failover_pvm_cmds[5 + 5 + 1] = devs[1] /\ failover_pvm_cmds[5 + 5 + 2] = devs[2]
      /\ failover_pvm_cmds[5 + 5 + 3] = devs[3] /\ failover_pvm_cmds[5 + 5 + 4] = devs[4]
      /\ failover_pvm_cmds[5 + 5 + 5] = devs[5] /\ failover_pvm_cmds[5 + 5 + 6] = devs[6]
  BY <1>4
<1> QED
  BY <1>1, <1>2, <1>3, <1>4, <1>5, <1>6

\* The list of the vm of n.
FailList(n) == IF vm[n].kind = "pvm" THEN failover_pvm_cmds ELSE failover_svm_cmds
FailLen(n)  == IF vm[n].kind = "pvm" THEN 16 ELSE 9

\* What each command does, and which device or object it removes.
LEMMA FailuresDo ==
  ASSUME NEW n \in Node
  PROVE  /\ Len(FailList(n)) = FailLen(n)
         /\ \A j \in 1 .. FailLen(n) :
              FailList(n)[j].execute \in
                {"qmp_capabilities", "colo-enable-teardown", "x-blockdev-change-del", "drive_del",
                 "nbd-server-stop", "x-colo-lost-heartbeat", "query-status",
                 "object-del", "chardev-remove"}
<1>1. Len(FailList(n)) = FailLen(n)
  BY FailPvm, FailSvm DEF FailList, FailLen
<1>2. CASE vm[n].kind = "pvm"
  <2>1. \A j \in 1 .. FailLen(n) : j \in {1,2,3,4,5,6,7,8,9,10,11,12,13,14,15,16}
    BY <1>2 DEF FailLen
  <2> QED
    BY <1>1, <1>2, <2>1, FailPvm DEF FailList, Qmp, capabilities
<1>3. CASE vm[n].kind # "pvm"
  <2>1. \A j \in 1 .. FailLen(n) : j \in {1,2,3,4,5,6,7,8,9}
    BY <1>3 DEF FailLen
  <2> QED
    BY <1>1, <1>3, <2>1, FailSvm DEF FailList, Qmp, capabilities
<1> QED
  BY <1>2, <1>3

\* What the commands of a start do.
StartDoes ==
  {"drive_add", "x-blockdev-change-add", "migrate-set-capabilities", "migrate-set-parameters",
   "migrate", "nbd-server-start", "nbd-server-add"}

\* No two commands of a start are the same, and set-params and do-failover have others.
LEMMA OwnDiffer ==
  ASSUME NEW n \in Node, NEW p \in Node, p = Peer[n]
  PROVE  /\ \A j, k \in 1 .. OwnLen(n) : OwnList(n)[j] = OwnList(n)[k] => j = k
         /\ \A j \in 2 .. OwnLen(n) :
              /\ OwnList(n)[j].execute \in StartDoes
              /\ OwnList(n)[j] # Qmp("migrate-set-parameters", "x-checkpoint-delay")
<1>1. CASE vm[n].kind = "pvm"
  <2>1. \A j \in 1 .. OwnLen(n) : j \in {1, 2, 3, 4, 5, 6}
    BY <1>1 DEF OwnLen
  <2>2. \A j \in 2 .. OwnLen(n) : j \in {2, 3, 4, 5, 6}
    BY <1>1 DEF OwnLen
  <2>3. OwnList(n) = PvmList(n)
    BY <1>1 DEF OwnList
  <2>4. OwnList(n)[5] # Qmp("migrate-set-parameters", "x-checkpoint-delay")
    BY <2>3, ListsAre DEF Qmp
  <2>5. Qmp("migrate-set-parameters", "x-checkpoint-delay").execute = "migrate-set-parameters"
    BY DEF Qmp
  <2> QED
    BY <2>1, <2>2, <2>3, <2>4, <2>5, ListsDo DEF StartDoes
<1>2. CASE vm[n].kind # "pvm"
  <2>1. \A j \in 1 .. OwnLen(n) : j \in {1, 2, 3, 4}
    BY <1>2 DEF OwnLen
  <2>2. \A j \in 2 .. OwnLen(n) : j \in {2, 3, 4}
    BY <1>2 DEF OwnLen
  <2>3. OwnList(n) = SvmList(n)
    BY <1>2 DEF OwnList
  <2>4. OwnList(n)[4] # Qmp("migrate-set-parameters", "x-checkpoint-delay")
    BY <2>3, ListsAre DEF Qmp
  <2>5. Qmp("migrate-set-parameters", "x-checkpoint-delay").execute = "migrate-set-parameters"
    BY DEF Qmp
  <2> QED
    BY <2>1, <2>2, <2>3, <2>4, <2>5, ListsDo DEF StartDoes
<1> QED
  BY <1>1, <1>2

(***************************************************************************)
(* The invariant.  Handled: the vm lives, no event came and no do-failover *)
(* has ended.                                                              *)
(***************************************************************************)
Handled(n) ==
  /\ vm[n].kind \in {"pvm", "svm"} /\ vm[n].state # "dead" /\ KnownOS(domain) /\ events = 0
  /\ entry[n].colo_status # "degrade"

\* A conversation is over when its handler is, and a do-failover is under way at most once.
Settled(n) ==
  /\ task[n] = "failover" => entry[n].colo_status # "degrade"
  /\ task[n] \notin Conversing => conv[n].next = 1 /\ conv[n].done = 0

\* What is being said to the vm, and how far it is.
Talks(n) ==
  /\ task[n] \in {"own-qmp", "serve-qmp"} =>
       conv[n].cmds = OwnList(n) /\ Len(conv[n].cmds) = OwnLen(n)
  /\ task[n] = "set-params" =>
       /\ Len(conv[n].cmds) = 2
       /\ \E property \in PropertyName : conv[n].cmds = set_params_cmds(property)
  /\ task[n] = "failover" => conv[n].cmds = FailList(n) /\ Len(conv[n].cmds) = FailLen(n)

\* No more answers than commands: while no event has come, each is the answer to its command.
Counts(n) ==
  task[n] \in Conversing =>
    /\ conv[n].next \in Nat /\ conv[n].done \in Nat /\ conv[n].inbox \in Nat
    /\ conv[n].done < conv[n].next /\ conv[n].next <= Len(conv[n].cmds) + 1
    /\ conv[n].phase = "send" => conv[n].next <= Len(conv[n].cmds)
    /\ conv[n].phase \in {"connect", "greeting"} => conv[n].next = 1
    /\ conv[n].phase = "send" => conv[n].next + conv[n].inbox <= 1 + conv[n].done
    /\ conv[n].phase # "send" => conv[n].next + conv[n].inbox <= 2 + conv[n].done

\* The vm has been told the command.
Heard(n, c) == c \in vm[n].given \/ c \in vm[n].refused

\* The conversation of a start is still to come.
Pending(n, p) ==
  \/ task[n] = "peer-qmp" /\ vm[n].kind = "pvm"
  \/ task[p] = "peer-start"
  \/ asked[n] = "peer-send-qmpcmds-secondary" /\ task[n] # "serve-qmp"

\* Later commands of the list were not told yet, and what was executed was not refused before.
Fresh(n, p) ==
  \A j \in 2 .. OwnLen(n) :
    /\ Pending(n, p) => ~Heard(n, OwnList(n)[j])
    /\ task[n] \in {"own-qmp", "serve-qmp"} /\ conv[n].done < j => ~Heard(n, OwnList(n)[j])
    /\ ~(OwnList(n)[j] \in vm[n].given /\ OwnList(n)[j] \in vm[n].refused)

\* The vm before do-failover has told it anything.
Intact(n) ==
  /\ vm[n].gone = {}
  /\ \A c \in vm[n].refused : c.execute = "qom-set" \/ \E j \in 2 .. OwnLen(n) : c = OwnList(n)[j]
  /\ \A c \in vm[n].given : Adds(c) \subseteq vm[n].blocks
  /\ vm[n].kind = "pvm" => "export" \notin vm[n].blocks
  /\ vm[n].kind = "svm" =>
       /\ vm[n].blocks \cap {"replication0", "children.1", "colo"} = {}
       /\ SvmList(n)[2] \in vm[n].given => vm[n].nbd # << >>

\* The vm when it has executed k commands of do-failover.
Left(n, k) ==
  /\ vm[n].gone = {FailList(n)[j].id : j \in 6 .. k}
  /\ \A c \in vm[n].refused : c.execute = "qom-set"
  /\ vm[n].kind = "pvm" =>
       /\ "export" \notin vm[n].blocks
       /\ "children.1" \in vm[n].blocks <=> k < 3
       /\ "replication0" \in vm[n].blocks <=> k < 4
       /\ "colo" \in vm[n].blocks => k < 5
  /\ vm[n].kind = "svm" =>
       /\ vm[n].blocks \cap {"replication0", "children.1", "colo"} = {}
       /\ k < 3 => vm[n].nbd # << >>
       /\ "export" \in vm[n].blocks => k < 3

\* The start was executed whole.  And how many commands do-failover has got done.
OwnGiven(n) == \A j \in 2 .. OwnLen(n) : OwnList(n)[j] \in vm[n].given
Removed(n)  == IF task[n] = "failover" THEN conv[n].done ELSE 0

\* What do-failover finds, and what it has left of a vm that was started whole.
Stage(n) ==
  /\ Removed(n) = 0 => Intact(n)
  /\ Removed(n) # 0 /\ OwnGiven(n) => Left(n, Removed(n))

\* All of it, for the vms do-failover is meant for.
Orderly(n, p) == Handled(n) => Talks(n) /\ Counts(n) /\ Fresh(n, p) /\ Stage(n)
-----------------------------------------------------------------------------

\* A step the vm does not notice.
Kept(n) ==
  /\ vm'[n] = vm[n] /\ definition' = definition /\ local_status' = local_status
  /\ events' = events \/ events' = events + 1
  /\ entry'[n].colo_status # "degrade" => entry[n].colo_status # "degrade"

\* The lists of commands are made of the definition, the roles and the kind of the vm.
LEMMA KeptLists ==
  ASSUME NEW n \in Node, definition' = definition, local_status' = local_status,
         vm'[n].kind = vm[n].kind
  PROVE  /\ domain' = domain /\ OwnList(n)' = OwnList(n) /\ OwnLen(n)' = OwnLen(n)
         /\ SvmList(n)' = SvmList(n) /\ FailList(n)' = FailList(n) /\ FailLen(n)' = FailLen(n)
BY ListsStay DEF OwnList, OwnLen, FailList, FailLen, failover_pvm_cmds, failover_svm_cmds

\* What is handled after such a step was before it.
LEMMA HandledBefore ==
  ASSUME NEW n \in Node, Kept(n), events \in Nat, Handled(n)'
  PROVE  Handled(n) /\ events' = events
<1>1. domain' = domain
  BY KeptLists DEF Kept
<1> QED
  BY <1>1 DEF Handled, Kept, KnownOS

\* What has been made of the commands does not change if the vm does not.
LEMMA IntactStays ==
  ASSUME NEW n \in Node, Kept(n), Intact(n)
  PROVE  Intact(n)'
<1>1. /\ vm'[n] = vm[n] /\ OwnList(n)' = OwnList(n) /\ OwnLen(n)' = OwnLen(n)
      /\ SvmList(n)' = SvmList(n)
  BY KeptLists DEF Kept
<1> QED
  BY <1>1, Zenon DEF Intact

\* Nor what do-failover has left of it.
LEMMA LeftStays ==
  ASSUME NEW n \in Node, Kept(n), NEW k, Left(n, k)
  PROVE  Left(n, k)'
<1>1. vm'[n] = vm[n] /\ FailList(n)' = FailList(n)
  BY KeptLists DEF Kept
<1> QED
  BY <1>1, Zenon DEF Left

\* The vm notices nothing, and no conversation begins.
LEMMA OrderlyQuiet ==
  ASSUME NEW n \in Node, NEW p \in Node, Kept(n), events \in Nat, Orderly(n, p),
         \/ conv'[n] = conv[n] /\ task'[n] = task[n]
         \/ /\ task'[n] \notin Conversing
            /\ Handled(n) => task[n] # "failover" \/ conv[n].done = 0,
         Handled(n) /\ Pending(n, p)' => Pending(n, p)
  PROVE  Orderly(n, p)'
<1> SUFFICES ASSUME Handled(n)' PROVE Talks(n)' /\ Counts(n)' /\ Fresh(n, p)' /\ Stage(n)'
  BY DEF Orderly
<1>0. Handled(n)
  BY HandledBefore
<1>1. Talks(n) /\ Counts(n) /\ Fresh(n, p) /\ Stage(n)
  BY <1>0 DEF Orderly
<1>2. /\ vm'[n] = vm[n] /\ OwnList(n)' = OwnList(n) /\ OwnLen(n)' = OwnLen(n)
      /\ FailList(n)' = FailList(n) /\ FailLen(n)' = FailLen(n)
  BY KeptLists DEF Kept
<1>3. Pending(n, p)' => Pending(n, p)
  BY <1>0
<1>4. CASE conv'[n] = conv[n] /\ task'[n] = task[n]
  <2>1. Talks(n)'
    BY <1>1, <1>2, <1>4, Zenon DEF Talks
  <2>2. Counts(n)'
    BY <1>1, <1>4 DEF Counts
  <2>3. Fresh(n, p)'
    BY <1>1, <1>2, <1>3, <1>4, Zenon DEF Fresh, Heard
  <2>4. Removed(n)' = Removed(n) /\ (OwnGiven(n)' => OwnGiven(n))
    BY <1>2, <1>4 DEF Removed, OwnGiven
  <2>5. Stage(n)'
    <3>1. CASE Removed(n) = 0
      BY <1>1, <2>4, <3>1, IntactStays, Zenon DEF Stage
    <3>2. CASE Removed(n) # 0
      <4> DEFINE k == Removed(n)
      <4>1. OwnGiven(n)' => Left(n, k)
        BY <1>1, <2>4, <3>2 DEF Stage
      <4>2. k' = k
        BY <2>4
      <4> HIDE DEF k
      <4>3. ASSUME OwnGiven(n)' PROVE Left(n, k)'
        BY <4>1, <4>2, <4>3, LeftStays
      <4> QED
        BY <3>2, <4>2, <4>3 DEF Stage, k
    <3> QED
      BY <3>1, <3>2
  <2> QED
    BY <2>1, <2>2, <2>3, <2>5
<1>5. CASE /\ task'[n] \notin Conversing
           /\ Handled(n) => task[n] # "failover" \/ conv[n].done = 0
  <2>1. Talks(n)' /\ Counts(n)'
    BY <1>5 DEF Talks, Counts, Conversing
  <2>2. Fresh(n, p)'
    BY <1>1, <1>2, <1>3, <1>5 DEF Fresh, Heard, Conversing
  <2>3. Removed(n) = 0 /\ Removed(n)' = 0
    BY <1>0, <1>5 DEF Removed, Conversing
  <2>4. Intact(n)'
    BY <1>1, <2>3, IntactStays DEF Stage
  <2>5. Stage(n)'
    BY <2>3, <2>4 DEF Stage
  <2> QED
    BY <2>1, <2>2, <2>5
<1> QED
  BY <1>4, <1>5

\* A conversation begins.
LEMMA OrderlyOpened ==
  ASSUME NEW n \in Node, NEW p \in Node, Kept(n), events \in Nat, Orderly(n, p),
         task[n] \notin Conversing, NEW cmds, Opened(n, cmds),
         \/ /\ task'[n] \in {"own-qmp", "serve-qmp"}
            /\ Handled(n) => Pending(n, p) /\ cmds = OwnList(n) /\ Len(cmds) = OwnLen(n)
         \/ task'[n] = "set-params" /\ \E property \in PropertyName : cmds = set_params_cmds(property)
         \/ task'[n] = "failover" /\ (Handled(n) => cmds = FailList(n)),
         Handled(n) /\ Pending(n, p)' => Pending(n, p)
  PROVE  Orderly(n, p)'
<1> SUFFICES ASSUME Handled(n)' PROVE Talks(n)' /\ Counts(n)' /\ Fresh(n, p)' /\ Stage(n)'
  BY DEF Orderly
<1>0. Handled(n)
  BY HandledBefore
<1>1. Fresh(n, p) /\ Stage(n)
  BY <1>0 DEF Orderly
<1>2. /\ vm'[n] = vm[n] /\ OwnList(n)' = OwnList(n) /\ OwnLen(n)' = OwnLen(n)
      /\ FailList(n)' = FailList(n) /\ FailLen(n)' = FailLen(n)
  BY KeptLists DEF Kept
<1>3. Pending(n, p)' => Pending(n, p)
  BY <1>0
<1>4. /\ conv'[n].phase = "connect" /\ conv'[n].cmds = cmds /\ conv'[n].next = 1
      /\ conv'[n].done = 0 /\ conv'[n].inbox = 0
  BY DEF Opened
<1>5. Talks(n)' /\ Len(cmds) \in Nat
  <2>1. CASE task'[n] \in {"own-qmp", "serve-qmp"}
    BY <1>0, <1>2, <1>4, <2>1 DEF Talks, OwnLen
  <2>2. CASE task'[n] = "set-params"
    <3>1. PICK property \in PropertyName : cmds = set_params_cmds(property)
      BY <2>2
    <3>2. Len(cmds) = 2
      BY <3>1 DEF set_params_cmds
    <3> QED
      BY <1>4, <2>2, <3>1, <3>2 DEF Talks
  <2>3. CASE task'[n] = "failover"
    <3>1. Len(FailList(n)) = FailLen(n) /\ FailLen(n) \in Nat
      BY FailuresDo DEF FailLen
    <3> QED
      BY <1>0, <1>2, <1>4, <2>3, <3>1 DEF Talks
  <2> QED
    BY <2>1, <2>2, <2>3
<1>6. Counts(n)'
  BY <1>4, <1>5 DEF Counts
<1>7. Fresh(n, p)'
  BY <1>0, <1>1, <1>2, <1>3 DEF Fresh, Heard
<1>8. Removed(n) = 0 /\ Removed(n)' = 0
  BY <1>4 DEF Removed, Conversing
<1>9. Stage(n)'
  BY <1>1, <1>8, IntactStays DEF Stage
<1> QED
  BY <1>5, <1>6, <1>7, <1>9

\* A vm is forked; the secondary talks to its own at once.
LEMMA OrderlyBegun ==
  ASSUME NEW n \in Node, NEW p \in Node, p = Peer[n],
         definition' = definition, local_status' = local_status,
         NEW kind \in {"vm", "pvm", "svm"}, Begun(n, kind),
         \/ task'[n] \notin Conversing
         \/ task'[n] = "own-qmp" /\ kind = "svm" /\ Opened(n, SvmList(n))
  PROVE  Orderly(n, p)'
<1> SUFFICES ASSUME Handled(n)' PROVE Talks(n)' /\ Counts(n)' /\ Fresh(n, p)' /\ Stage(n)'
  BY DEF Orderly
<1>1. domain' = domain /\ SvmList(n)' = SvmList(n)
  BY ListsStay
<1>2. /\ vm'[n].kind = kind /\ kind \in {"pvm", "svm"} /\ vm'[n].blocks = Line(n, kind).blocks
      /\ vm'[n].given = {} /\ vm'[n].refused = {} /\ vm'[n].gone = {}
  BY DEF Begun, Handled
<1>3. KnownOS(domain)
  BY <1>1 DEF Handled, KnownOS
<1>4. Removed(n)' = 0
  BY DEF Removed, Conversing, Opened
<1>5. Intact(n)'
  <2>1. /\ kind = "pvm" => Line(n, kind).blocks = {"colo-disk0"}
        /\ kind = "svm" => Line(n, kind).blocks = {"colo-disk0", "parent0"}
    BY <1>3 DEF Line, generate_pvm_cmd, generate_svm_cmd, SvmLine, QemuLine
  <2> QED
    BY <1>2, <2>1 DEF Intact
<1>6. Stage(n)'
  BY <1>4, <1>5 DEF Stage
<1>7. Fresh(n, p)'
  BY <1>2 DEF Fresh, Heard
<1>8. CASE task'[n] \notin Conversing
  BY <1>6, <1>7, <1>8 DEF Talks, Counts, Conversing
<1>9. CASE task'[n] = "own-qmp" /\ kind = "svm" /\ Opened(n, SvmList(n))
  <2>1. Len(SvmList(n)) = 4
    BY ListsAre
  <2>2. OwnList(n)' = SvmList(n) /\ OwnLen(n)' = 4
    BY <1>1, <1>2, <1>9 DEF OwnList, OwnLen
  <2>3. Talks(n)'
    BY <1>9, <2>1, <2>2 DEF Talks, Opened
  <2>4. Counts(n)'
    BY <1>9, <2>1 DEF Counts, Opened
  <2> QED
    BY <1>6, <1>7, <2>3, <2>4
<1> QED
  BY <1>8, <1>9

\* What each command of do-failover does.
LEMMA FailEffect ==
  ASSUME NEW n \in Node, NEW k \in 1 .. FailLen(n)
  PROVE  LET c == FailList(n)[k]
         IN /\ c.execute \in {"object-del", "chardev-remove"} <=> k >= 6
            /\ Adds(c) = {}
            /\ c.execute # "nbd-server-start"
            /\ vm[n].kind = "pvm" =>
                 /\ Takes(c) = IF k = 3 THEN {"children.1"} ELSE IF k = 4 THEN {"replication0"}
                               ELSE IF k = 5 THEN {"colo"} ELSE {}
            /\ vm[n].kind = "svm" =>
                 /\ Takes(c) = IF k = 3 THEN {"export"} ELSE IF k = 4 THEN {"colo"} ELSE {}
                 /\ c.execute = "nbd-server-stop" <=> k = 3
<1> DEFINE c == FailList(n)[k]
<1>1. CASE vm[n].kind = "pvm"
  <2>1. k \in 1 .. 16
    BY <1>1 DEF FailLen
  <2>2. c = failover_pvm_cmds[k]
    BY <1>1 DEF FailList
  <2>3. c.execute = CASE k = 1 -> "qmp_capabilities" [] k = 2 -> "colo-enable-teardown"
                      [] k = 3 -> "x-blockdev-change-del" [] k = 4 -> "drive_del"
                      [] k = 5 -> "x-colo-lost-heartbeat" [] k \in 6 .. 10 -> "object-del"
                      [] OTHER -> "chardev-remove"
    <3>1. k \in {1,2,3,4,5,6,7,8,9,10,11,12,13,14,15,16}
      BY <2>1
    <3> QED
      BY <2>2, <3>1, FailPvm DEF Qmp, capabilities
  <2> HIDE DEF c
  <2> QED
    BY <1>1, <2>1, <2>3 DEF Adds, Takes, c
<1>2. CASE vm[n].kind # "pvm"
  <2>1. k \in 1 .. 9
    BY <1>2 DEF FailLen
  <2>2. c = failover_svm_cmds[k]
    BY <1>2 DEF FailList
  <2>3. c.execute = CASE k = 1 -> "qmp_capabilities" [] k = 2 -> "colo-enable-teardown"
                      [] k = 3 -> "nbd-server-stop" [] k = 4 -> "x-colo-lost-heartbeat"
                      [] k = 5 -> "query-status" [] k \in 6 .. 7 -> "object-del"
                      [] OTHER -> "chardev-remove"
    <3>1. k \in {1,2,3,4,5,6,7,8,9}
      BY <2>1
    <3> QED
      BY <2>2, <3>1, FailSvm DEF Qmp, capabilities
  <2> HIDE DEF c
  <2> QED
    BY <1>2, <2>1, <2>3 DEF Adds, Takes, c
<1> QED
  BY <1>1, <1>2

\* What executing a command makes of a vm.
LEMMA ExecutedMakes ==
  ASSUME Tables, NEW n \in Node, NEW c
  PROVE  LET w == Executed(vm[n], c)
         IN /\ w.given = vm[n].given \cup {c} /\ w.refused = vm[n].refused
            /\ w.blocks = (vm[n].blocks \cup Adds(c)) \ Takes(c)
            /\ w.gone = IF c.execute \in {"object-del", "chardev-remove"}
                        THEN vm[n].gone \cup {c.id} ELSE vm[n].gone
            /\ c.execute \notin {"nbd-server-start", "nbd-server-stop"} => w.nbd = vm[n].nbd
            /\ c.execute = "nbd-server-start" => w.nbd = c.at
<1>1. DOMAIN vm[n] = {"kind", "state", "blocks", "gone", "nbd", "given", "refused"}
  BY DEF Tables
<1> QED
  BY <1>1 DEF Executed

\* The objects and character devices of the two command lines are the ones do-failover removes.
LEMMA PvmParts ==
  ASSUME NEW n \in Node, KnownOS(domain)
  PROVE  /\ {o.id : o \in Line(n, "pvm").objects} = {failover_pvm_cmds[j].id : j \in 6 .. 10}
         /\ {c.id : c \in Line(n, "pvm").chardevs} =
              {failover_pvm_cmds[j].id : j \in 11 .. 16} \cup {"qmp"}
<1> DEFINE ip == IF cs(n).local_status = "primary" THEN cs(n).host_ip ELSE cs(n).peer_ip
<1>a. /\ \A id, uses : Object(id, uses).id = id
      /\ \A id, i, port, wait : Listen(id, i, port, wait).id = id
      /\ \A id, i, port : Connect(id, i, port).id = id
  BY DEF Object, Listen, Connect
<1>b. Line(n, "pvm").objects =
        {Object("m0", {"mirror0"}), Object("redire0", {"compare_out"}),
         Object("redire1", {"compare0"}), Object("iothread1", {}),
         Object("comp0", {"compare0-0", "compare1", "compare_out0"})}
  BY DEF Line, generate_pvm_cmd, QemuLine
<1>c. Line(n, "pvm").chardevs =
        {Listen("qmp", Localhost, pri(domain, "telnet_port"), TRUE),
         Listen("mirror0", ip, pri(domain, "mirror_port"), FALSE),
         Listen("compare1", ip, pri(domain, "cmp1_port"), TRUE),
         Listen("compare0", ip, pri(domain, "cmp0_port"), FALSE),
         Connect("compare0-0", ip, pri(domain, "cmp0_port")),
         Listen("compare_out", ip, pri(domain, "cmp_out_port"), FALSE),
         Connect("compare_out0", ip, pri(domain, "cmp_out_port"))}
  BY DEF Line, generate_pvm_cmd, QemuLine
<1> HIDE DEF ip
<1>1. {o.id : o \in Line(n, "pvm").objects} = {"m0", "redire0", "redire1", "iothread1", "comp0"}
  BY <1>a, <1>b
<1>2. {c.id : c \in Line(n, "pvm").chardevs} =
        {"qmp", "mirror0", "compare1", "compare0", "compare0-0", "compare_out", "compare_out0"}
  <2> DEFINE d1 == Listen("qmp", Localhost, pri(domain, "telnet_port"), TRUE)
             d2 == Listen("mirror0", ip, pri(domain, "mirror_port"), FALSE)
             d3 == Listen("compare1", ip, pri(domain, "cmp1_port"), TRUE)
             d4 == Listen("compare0", ip, pri(domain, "cmp0_port"), FALSE)
             d5 == Connect("compare0-0", ip, pri(domain, "cmp0_port"))
             d6 == Listen("compare_out", ip, pri(domain, "cmp_out_port"), FALSE)
             d7 == Connect("compare_out0", ip, pri(domain, "cmp_out_port"))
  <2>1. /\ d1.id = "qmp" /\ d2.id = "mirror0" /\ d3.id = "compare1" /\ d4.id = "compare0"
        /\ d5.id = "compare0-0" /\ d6.id = "compare_out" /\ d7.id = "compare_out0"
    BY DEF Listen, Connect
  <2>2. Line(n, "pvm").chardevs = {d1, d2, d3, d4, d5, d6, d7}
    BY <1>c
  <2> HIDE DEF d1, d2, d3, d4, d5, d6, d7
  <2> DEFINE D == Line(n, "pvm").chardevs
             Ids == {"qmp", "mirror0", "compare1", "compare0", "compare0-0", "compare_out",
                     "compare_out0"}
  <2>3. \A c \in D : c.id \in Ids
    BY <2>1, <2>2
  <2>4. \A id \in Ids : \E c \in D : c.id = id
    BY <2>1, <2>2
  <2> HIDE DEF D, Ids
  <2>5. {c.id : c \in D} = Ids
    BY <2>3, <2>4
  <2> QED
    BY <2>5 DEF D, Ids
<1>3. {failover_pvm_cmds[j].id : j \in 6 .. 10} = {"m0", "redire0", "redire1", "iothread1", "comp0"}
  <2>1. 6 .. 10 = {6, 7, 8, 9, 10}
    OBVIOUS
  <2> QED
    BY <2>1, FailPvm DEF Qmp
<1>4. {failover_pvm_cmds[j].id : j \in 11 .. 16} =
        {"mirror0", "compare1", "compare0", "compare0-0", "compare_out", "compare_out0"}
  <2>1. 11 .. 16 = {11, 12, 13, 14, 15, 16}
    OBVIOUS
  <2> QED
    BY <2>1, FailPvm DEF Qmp
<1> QED
  BY <1>1, <1>2, <1>3, <1>4

\* And those of a secondary, all but the object that rewrites.
LEMMA SvmParts ==
  ASSUME NEW n \in Node, KnownOS(domain)
  PROVE  /\ {o.id : o \in Line(n, "svm").objects} = {failover_svm_cmds[j].id : j \in 6 .. 7} \cup {"rew0"}
         /\ \A o \in Line(n, "svm").objects : o.id = "rew0" => o.uses = {}
         /\ {c.id : c \in Line(n, "svm").chardevs} =
              {failover_svm_cmds[j].id : j \in 8 .. 9} \cup {"qmp"}
<1>a. /\ \A id, uses : Object(id, uses).id = id /\ Object(id, uses).uses = uses
      /\ \A id, i, port, wait : Listen(id, i, port, wait).id = id
      /\ \A id, i, port : Connect(id, i, port).id = id
  BY DEF Object, Listen, Connect
<1>b. Line(n, "svm").objects =
        {Object("f1", {"red0"}), Object("f2", {"red1"}), Object("rew0", {})}
  BY DEF Line, generate_svm_cmd, SvmLine, QemuLine
<1>c. \E x : Line(n, "svm").chardevs =
        {Listen("qmp", Localhost, sec(domain, "telnet_port"), TRUE),
         Connect("red0", x, sec(domain, "red0_port")), Connect("red1", x, sec(domain, "red1_port"))}
  BY DEF Line, generate_svm_cmd, SvmLine, QemuLine
<1>1. /\ {o.id : o \in Line(n, "svm").objects} = {"f1", "f2", "rew0"}
      /\ \A o \in Line(n, "svm").objects : o.id = "rew0" => o.uses = {}
  BY <1>a, <1>b
<1>2. {c.id : c \in Line(n, "svm").chardevs} = {"qmp", "red0", "red1"}
  BY <1>a, <1>c
<1>3. {failover_svm_cmds[j].id : j \in 6 .. 7} = {"f2", "f1"}
  <2>1. 6 .. 7 = {6, 7}
    OBVIOUS
  <2> QED
    BY <2>1, FailSvm DEF Qmp
<1>4. {failover_svm_cmds[j].id : j \in 8 .. 9} = {"red1", "red0"}
  <2>1. 8 .. 9 = {8, 9}
    OBVIOUS
  <2> QED
    BY <2>1, FailSvm DEF Qmp
<1> QED
  BY <1>1, <1>2, <1>3, <1>4

\* Each is removed once, and the QMP channel never.
LEMMA RemovedOnce ==
  ASSUME NEW n \in Node, NEW j \in 6 .. FailLen(n)
  PROVE  /\ FailList(n)[j].id # "qmp"
         /\ \A i \in 6 .. j - 1 : FailList(n)[i].id # FailList(n)[j].id
<1>1. CASE vm[n].kind = "pvm"
  <2>1. FailList(n) = failover_pvm_cmds /\ j \in {6,7,8,9,10,11,12,13,14,15,16}
    BY <1>1 DEF FailList, FailLen
  <2>2. \A i \in 6 .. j - 1 : i \in {6,7,8,9,10,11,12,13,14,15} /\ i # j
    BY <2>1
  <2> QED
    BY <2>1, <2>2, FailPvm DEF Qmp
<1>2. CASE vm[n].kind # "pvm"
  <2>1. FailList(n) = failover_svm_cmds /\ j \in {6,7,8,9}
    BY <1>2 DEF FailList, FailLen
  <2>2. \A i \in 6 .. j - 1 : i \in {6,7,8} /\ i # j
    BY <2>1
  <2> QED
    BY <2>1, <2>2, FailSvm DEF Qmp
<1> QED
  BY <1>1, <1>2

\* Before the first command of do-failover: the vm of a start that was executed whole.
LEMMA IntactIsLeft ==
  ASSUME NEW n \in Node, NEW p \in Node, p = Peer[n], vm[n].kind \in {"pvm", "svm"},
         Intact(n), OwnGiven(n), Fresh(n, p)
  PROVE  Left(n, 0)
<1>1. \A c \in vm[n].refused : c.execute = "qom-set"
  BY DEF Intact, OwnGiven, Fresh
<1>2. {FailList(n)[j].id : j \in 6 .. 0} = {}
  OBVIOUS
<1>3. CASE vm[n].kind = "pvm"
  <2>1. PvmList(n)[2] \in vm[n].given /\ PvmList(n)[3] \in vm[n].given
    <3>1. 2 \in 2 .. OwnLen(n) /\ 3 \in 2 .. OwnLen(n)
      BY <1>3 DEF OwnLen
    <3> QED
      BY <1>3, <3>1 DEF OwnGiven, OwnList
  <2>2. Adds(PvmList(n)[2]) = {"replication0"} /\ Adds(PvmList(n)[3]) = {"children.1"}
    BY ListsDo DEF Adds
  <2>3. "replication0" \in vm[n].blocks /\ "children.1" \in vm[n].blocks
    BY <2>1, <2>2 DEF Intact
  <2> QED
    BY <1>1, <1>2, <1>3, <2>3 DEF Left, Intact
<1>4. CASE vm[n].kind = "svm"
  <2>1. SvmList(n)[2] \in vm[n].given
    <3>1. 2 \in 2 .. OwnLen(n)
      BY <1>4 DEF OwnLen
    <3> QED
      BY <1>4, <3>1 DEF OwnGiven, OwnList
  <2> QED
    BY <1>1, <1>2, <1>4, <2>1 DEF Left, Intact
<1> QED
  BY <1>3, <1>4

\* Nothing that do-failover removes is missing or in use when its turn comes.
LEMMA FailoverAccepted ==
  ASSUME NEW n \in Node, KnownOS(domain), vm[n].kind \in {"pvm", "svm"},
         NEW k \in 1 .. FailLen(n), Left(n, k - 1)
  PROVE  Accepts(n, FailList(n)[k])
<1> DEFINE c == FailList(n)[k]
<1>1. vm[n].gone = {FailList(n)[j].id : j \in 6 .. k - 1}
  BY DEF Left
<1>2. k >= 6 => c.id \notin vm[n].gone
  <2> SUFFICES ASSUME k >= 6 PROVE c.id \notin vm[n].gone
    OBVIOUS
  <2>1. k \in 6 .. FailLen(n)
    BY DEF FailLen
  <2> QED
    BY <1>1, <2>1, RemovedOnce
<1>3. CASE vm[n].kind = "pvm"
  <2>1. FailList(n) = failover_pvm_cmds /\ FailLen(n) = 16
    BY <1>3 DEF FailList, FailLen
  <2>2. CASE k \in {1, 2, 5}
    <3>1. c.execute \in {"qmp_capabilities", "colo-enable-teardown", "x-colo-lost-heartbeat"}
      BY <2>1, <2>2, FailPvm DEF Qmp, capabilities
    <3> QED
      BY <3>1 DEF Accepts
  <2>3. CASE k \in {3, 4}
    <3>1. /\ k = 3 => c.execute = "x-blockdev-change-del" /\ "children.1" \in vm[n].blocks
          /\ k = 4 => c.execute = "drive_del" /\ "replication0" \in vm[n].blocks
      BY <1>3, <2>1, <2>3, FailPvm DEF Qmp, Left
    <3> QED
      BY <2>3, <3>1 DEF Accepts, Has
  <2>4. CASE k \in 6 .. 10
    <3>1. c.execute = "object-del"
      <4>1. k \in {6, 7, 8, 9, 10}
        BY <2>4
      <4> QED
        BY <2>1, <4>1, FailPvm DEF Qmp
    <3>2. PICK o \in Line(n, "pvm").objects : o.id = c.id
      <4> DEFINE ids == {x.id : x \in Line(n, "pvm").objects}
      <4>1. c.id \in {failover_pvm_cmds[j].id : j \in 6 .. 10}
        BY <2>1, <2>4
      <4>2. c.id \in ids
        BY <4>1, PvmParts
      <4> HIDE DEF c
      <4> QED
        BY <4>2
    <3>3. o \in objects(n)
      BY <1>2, <1>3, <2>4, <3>2 DEF objects
    <3> QED
      BY <3>1, <3>2, <3>3 DEF Accepts
  <2>5. CASE k \in 11 .. 16
    <3>1. c.execute = "chardev-remove"
      <4>1. k \in {11, 12, 13, 14, 15, 16}
        BY <2>5
      <4> QED
        BY <2>1, <4>1, FailPvm DEF Qmp
    <3>2. PICK d \in Line(n, "pvm").chardevs : d.id = c.id
      <4> DEFINE ids == {x.id : x \in Line(n, "pvm").chardevs}
      <4>1. c.id \in {failover_pvm_cmds[j].id : j \in 11 .. 16}
        BY <2>1, <2>5
      <4>2. c.id \in ids
        BY <4>1, PvmParts
      <4> HIDE DEF c
      <4> QED
        BY <4>2
    <3>3. d \in chardevs(n)
      BY <1>2, <1>3, <2>5, <3>2 DEF chardevs
    <3>4. \A o \in objects(n) : FALSE
      <4>1. \A j \in 6 .. 10 : j \in 6 .. k - 1
        BY <2>5
      <4>2. \A o \in Line(n, "pvm").objects : o.id \in vm[n].gone
        BY <1>1, <2>1, <4>1, PvmParts
      <4> QED
        BY <1>3, <4>2 DEF objects
    <3> QED
      BY <3>1, <3>2, <3>3, <3>4 DEF Accepts
  <2> QED
    BY <2>1, <2>2, <2>3, <2>4, <2>5
<1>4. CASE vm[n].kind = "svm"
  <2>1. FailList(n) = failover_svm_cmds /\ FailLen(n) = 9
    BY <1>4 DEF FailList, FailLen
  <2>2. CASE k \in {1, 2, 4, 5}
    <3>1. c.execute \in {"qmp_capabilities", "colo-enable-teardown", "x-colo-lost-heartbeat",
                         "query-status"}
      BY <2>1, <2>2, FailSvm DEF Qmp, capabilities
    <3> QED
      BY <3>1 DEF Accepts
  <2>3. CASE k = 3
    <3>1. c.execute = "nbd-server-stop" /\ vm[n].nbd # << >>
      BY <1>4, <2>1, <2>3, FailSvm DEF Qmp, Left
    <3> QED
      BY <3>1 DEF Accepts
  <2>4. CASE k \in 6 .. 7
    <3>1. c.execute = "object-del"
      <4>1. k \in {6, 7}
        BY <2>4
      <4> QED
        BY <2>1, <4>1, FailSvm DEF Qmp
    <3>2. PICK o \in Line(n, "svm").objects : o.id = c.id
      <4> DEFINE ids == {x.id : x \in Line(n, "svm").objects}
      <4>1. c.id \in {failover_svm_cmds[j].id : j \in 6 .. 7}
        BY <2>1, <2>4
      <4>2. c.id \in ids
        BY <4>1, SvmParts
      <4> HIDE DEF c
      <4> QED
        BY <4>2
    <3>3. o \in objects(n)
      BY <1>2, <1>4, <2>4, <3>2 DEF objects
    <3> QED
      BY <3>1, <3>2, <3>3 DEF Accepts
  <2>5. CASE k \in 8 .. 9
    <3>1. c.execute = "chardev-remove"
      <4>1. k \in {8, 9}
        BY <2>5
      <4> QED
        BY <2>1, <4>1, FailSvm DEF Qmp
    <3>2. PICK d \in Line(n, "svm").chardevs : d.id = c.id
      <4> DEFINE ids == {x.id : x \in Line(n, "svm").chardevs}
      <4>1. c.id \in {failover_svm_cmds[j].id : j \in 8 .. 9}
        BY <2>1, <2>5
      <4>2. c.id \in ids
        BY <4>1, SvmParts
      <4> HIDE DEF c
      <4> QED
        BY <4>2
    <3>3. d \in chardevs(n)
      BY <1>2, <1>4, <2>5, <3>2 DEF chardevs
    <3>4. \A o \in objects(n) : o.uses = {}
      <4>1. \A j \in 6 .. 7 : j \in 6 .. k - 1
        BY <2>5
      <4>2. \A o \in Line(n, "svm").objects : o.id \in vm[n].gone \/ o.uses = {}
        BY <1>1, <2>1, <4>1, SvmParts
      <4> QED
        BY <1>4, <4>2 DEF objects
    <3> QED
      BY <3>1, <3>2, <3>3, <3>4 DEF Accepts
  <2> QED
    BY <2>1, <2>2, <2>3, <2>4, <2>5
<1> QED
  BY <1>3, <1>4

\* One more command of do-failover.
LEMMA LeftStep ==
  ASSUME Tables, NEW n \in Node, vm[n].kind \in {"pvm", "svm"}, vm'[n].kind = vm[n].kind,
         NEW k \in 1 .. FailLen(n), Left(n, k - 1), FailList(n)' = FailList(n),
         vm'[n] = Executed(vm[n], FailList(n)[k])
  PROVE  Left(n, k)'
<1> DEFINE c == FailList(n)[k]
<1>1. /\ c.execute \in {"object-del", "chardev-remove"} <=> k >= 6
      /\ Adds(c) = {}
      /\ c.execute # "nbd-server-start"
      /\ vm[n].kind = "pvm" =>
           Takes(c) = IF k = 3 THEN {"children.1"} ELSE IF k = 4 THEN {"replication0"}
                      ELSE IF k = 5 THEN {"colo"} ELSE {}
      /\ vm[n].kind = "svm" =>
           /\ Takes(c) = IF k = 3 THEN {"export"} ELSE IF k = 4 THEN {"colo"} ELSE {}
           /\ c.execute = "nbd-server-stop" <=> k = 3
  BY FailEffect
<1>2. vm'[n] = Executed(vm[n], c)
  OBVIOUS
<1>3. k \in Nat /\ k >= 1
  BY DEF FailLen
<1>4. {FailList(n)[j].id : j \in 6 .. k} =
        IF k >= 6 THEN {FailList(n)[j].id : j \in 6 .. k - 1} \cup {c.id} ELSE {}
  <2>1. CASE k >= 6
    <3>1. 6 .. k = (6 .. k - 1) \cup {k}
      BY <1>3, <2>1
    <3> QED
      BY <2>1, <3>1
  <2>2. CASE ~(k >= 6)
    <3>1. 6 .. k = {}
      BY <1>3, <2>2
    <3> QED
      BY <2>2, <3>1
  <2> QED
    BY <2>1, <2>2
<1>5. k < 6 => {FailList(n)[j].id : j \in 6 .. k - 1} = {}
  BY <1>3
<1> HIDE DEF c
<1>6. /\ vm'[n].refused = vm[n].refused
      /\ vm'[n].blocks = vm[n].blocks \ Takes(c)
      /\ vm'[n].gone = IF k >= 6 THEN vm[n].gone \cup {c.id} ELSE vm[n].gone
      /\ c.execute # "nbd-server-stop" => vm'[n].nbd = vm[n].nbd
  BY <1>1, <1>2, ExecutedMakes
<1>7. vm'[n].gone = {FailList(n)[j].id : j \in 6 .. k}
  BY <1>4, <1>5, <1>6 DEF Left
<1>8. CASE vm[n].kind = "pvm"
  BY <1>1, <1>3, <1>6, <1>7, <1>8 DEF Left
<1>9. CASE vm[n].kind = "svm"
  <2>1. vm'[n].blocks \cap {"replication0", "children.1", "colo"} = {}
    BY <1>6, <1>9 DEF Left
  <2>2. k < 3 => vm'[n].nbd # << >>
    BY <1>1, <1>3, <1>6, <1>9 DEF Left
  <2>3. "export" \in vm'[n].blocks => k < 3
    BY <1>1, <1>3, <1>6, <1>9 DEF Left
  <2>4. \A e \in vm'[n].refused : e.execute = "qom-set"
    BY <1>6 DEF Left
  <2>5. vm'[n].kind = "svm"
    BY <1>9
  <2>6. FailList(n)' = FailList(n)
    OBVIOUS
  <2> QED
    BY <1>7, <2>1, <2>2, <2>3, <2>4, <2>5, <2>6 DEF Left
<1> QED
  BY <1>8, <1>9

\* A message goes over: the counts move on, nothing else does.
LEMMA OrderlyTalk ==
  ASSUME NEW n \in Node, NEW p \in Node, Kept(n), events \in Nat, Orderly(n, p), Shape(n),
         Goes(n), task'[n] = task[n],
         Handled(n) /\ Pending(n, p)' => Pending(n, p)
  PROVE  Orderly(n, p)'
<1> SUFFICES ASSUME Handled(n)' PROVE Talks(n)' /\ Counts(n)' /\ Fresh(n, p)' /\ Stage(n)'
  BY DEF Orderly
<1>0. Handled(n)
  BY HandledBefore
<1>1. Talks(n) /\ Counts(n) /\ Fresh(n, p) /\ Stage(n)
  BY <1>0 DEF Orderly
<1>2. /\ vm'[n] = vm[n] /\ OwnList(n)' = OwnList(n) /\ OwnLen(n)' = OwnLen(n)
      /\ FailList(n)' = FailList(n) /\ FailLen(n)' = FailLen(n)
  BY KeptLists DEF Kept
<1>3. Pending(n, p)' => Pending(n, p)
  BY <1>0
<1>4. conv'[n].done = conv[n].done /\ conv'[n].cmds = conv[n].cmds /\ task'[n] = task[n]
  BY DEF Goes
<1>5. task[n] \in Conversing
  BY DEF Goes, Shape
<1>6. Talks(n)'
  BY <1>1, <1>2, <1>4 DEF Talks
<1>7. Counts(n)'
  <2> DEFINE L == Len(conv[n].cmds)
  <2>1. L' = L
    BY <1>4
  <2>2. /\ conv[n].next \in Nat /\ conv[n].done \in Nat /\ conv[n].inbox \in Nat
        /\ conv[n].done < conv[n].next /\ conv[n].next <= L + 1
        /\ conv[n].phase = "send" => conv[n].next <= L
        /\ conv[n].phase \in {"connect", "greeting"} => conv[n].next = 1
        /\ conv[n].phase = "send" => conv[n].next + conv[n].inbox <= 1 + conv[n].done
        /\ conv[n].phase # "send" => conv[n].next + conv[n].inbox <= 2 + conv[n].done
    BY <1>1, <1>5 DEF Counts
  <2>3. LastSent(conv[n]) <=> conv[n].next > L
    BY DEF LastSent
  <2>4. L \in Nat
    <3>1. CASE task[n] \in {"own-qmp", "serve-qmp"}
      BY <1>1, <3>1 DEF Talks, OwnLen
    <3>2. CASE task[n] = "set-params"
      BY <1>1, <3>2 DEF Talks
    <3>3. CASE task[n] = "failover"
      BY <1>1, <3>3 DEF Talks, FailLen
    <3> QED
      BY <1>5, <3>1, <3>2, <3>3 DEF Conversing
  <2> HIDE DEF L
  <2>5. vm[n].state # "dead"
    BY <1>0 DEF Handled
  <2>6. /\ conv'[n].next \in Nat /\ conv'[n].done \in Nat /\ conv'[n].inbox \in Nat
        /\ conv'[n].done < conv'[n].next /\ conv'[n].next <= L + 1
        /\ conv'[n].phase = "send" => conv'[n].next <= L
        /\ conv'[n].phase \in {"connect", "greeting"} => conv'[n].next = 1
        /\ conv'[n].phase = "send" => conv'[n].next + conv'[n].inbox <= 1 + conv'[n].done
        /\ conv'[n].phase # "send" => conv'[n].next + conv'[n].inbox <= 2 + conv'[n].done
    BY <1>4, <2>2, <2>3, <2>4, <2>5 DEF Goes, Dead
  <2> QED
    BY <2>1, <2>6 DEF Counts, L
<1>8. Fresh(n, p)'
  BY <1>1, <1>2, <1>3, <1>4, Zenon DEF Fresh, Heard
<1>9. Removed(n)' = Removed(n) /\ (OwnGiven(n)' => OwnGiven(n))
  BY <1>2, <1>4 DEF Removed, OwnGiven
<1>10. Stage(n)'
  <2>1. CASE Removed(n) = 0
    BY <1>1, <1>9, <2>1, IntactStays, Zenon DEF Stage
  <2>2. CASE Removed(n) # 0
    <3> DEFINE k == Removed(n)
    <3>1. OwnGiven(n)' => Left(n, k)
      BY <1>1, <1>9, <2>2 DEF Stage
    <3>2. k' = k
      BY <1>9
    <3> HIDE DEF k
    <3>3. ASSUME OwnGiven(n)' PROVE Left(n, k)'
      BY <3>1, <3>2, <3>3, LeftStays
    <3> QED
      BY <2>2, <3>2, <3>3 DEF Stage, k
  <2> QED
    BY <2>1, <2>2
<1> QED
  BY <1>6, <1>7, <1>8, <1>10

\* The vm comes up; what it was told stays.
LEMMA OrderlyBecomes ==
  ASSUME NEW n \in Node, NEW p \in Node, Orderly(n, p),
         definition' = definition, local_status' = local_status, events' = events,
         MBecomes(n, p),
         Handled(n) /\ Pending(n, p)' => Pending(n, p)
  PROVE  Orderly(n, p)'
<1> SUFFICES ASSUME Handled(n)' PROVE Talks(n)' /\ Counts(n)' /\ Fresh(n, p)' /\ Stage(n)'
  BY DEF Orderly
<1>1. /\ vm'[n].kind = vm[n].kind /\ vm'[n].blocks = vm[n].blocks /\ vm'[n].nbd = vm[n].nbd
      /\ vm'[n].given = vm[n].given /\ vm'[n].refused = vm[n].refused /\ vm'[n].gone = vm[n].gone
      /\ conv'[n] = conv[n] /\ task'[n] = task[n] /\ entry'[n] = entry[n]
  BY DEF MBecomes, SameConv, SameHost
<1>2. /\ OwnList(n)' = OwnList(n) /\ OwnLen(n)' = OwnLen(n) /\ SvmList(n)' = SvmList(n)
      /\ FailList(n)' = FailList(n) /\ FailLen(n)' = FailLen(n) /\ domain' = domain
  BY <1>1, KeptLists
<1>3. Handled(n)
  <2>1. vm[n].state # "dead"
    BY DEF MBecomes
  <2> QED
    BY <1>1, <1>2, <2>1 DEF Handled, KnownOS
<1>4. Talks(n) /\ Counts(n) /\ Fresh(n, p) /\ Stage(n) /\ (Pending(n, p)' => Pending(n, p))
  BY <1>3 DEF Orderly
<1>5. Talks(n)'
  BY <1>1, <1>2, <1>4, Zenon DEF Talks
<1>6. Counts(n)'
  BY <1>1, <1>4 DEF Counts
<1>7. Fresh(n, p)'
  BY <1>1, <1>2, <1>4, Zenon DEF Fresh, Heard
<1>8. Intact(n) => Intact(n)'
  BY <1>1, <1>2, Zenon DEF Intact
<1>9. ASSUME NEW k, Left(n, k) PROVE Left(n, k)'
  BY <1>1, <1>2, <1>9, Zenon DEF Left
<1>10. Removed(n)' = Removed(n) /\ (OwnGiven(n)' => OwnGiven(n))
  BY <1>1, <1>2 DEF Removed, OwnGiven
<1>11. Stage(n)'
  <2> DEFINE k == Removed(n)
  <2>1. k' = k
    BY <1>10
  <2>2. /\ k = 0 => Intact(n)
        /\ k # 0 /\ OwnGiven(n) => Left(n, k)
    BY <1>4 DEF Stage
  <2> HIDE DEF k
  <2>3. ASSUME k # 0, OwnGiven(n)' PROVE Left(n, k)'
    BY <1>9, <1>10, <2>1, <2>2, <2>3
  <2>4. k = 0 => Intact(n)'
    BY <1>8, <2>2
  <2> QED
    BY <2>1, <2>3, <2>4 DEF Stage, k
<1> QED
  BY <1>5, <1>6, <1>7, <1>11

\* The command that is executed is one of those sent.
LEMMA ExecutesCounts ==
  ASSUME NEW n \in Node, NEW p \in Node, MExecutes(n, p), Settled(n), Talks(n), Counts(n)
  PROVE  /\ task[n] \in Conversing /\ conv[n].done + 1 \in 1 .. Len(conv[n].cmds)
         /\ conv[n].done \in Nat
         /\ Counts(n)'
<1>1. /\ conv[n].done < conv[n].next - 1 /\ task'[n] = task[n]
      /\ conv'[n].done = conv[n].done + 1 /\ conv'[n].inbox = conv[n].inbox + 1
      /\ conv'[n].phase = conv[n].phase /\ conv'[n].cmds = conv[n].cmds /\ conv'[n].next = conv[n].next
  BY DEF MExecutes, SameHost
<1>2. task[n] \in Conversing
  BY <1>1 DEF Settled
<1> DEFINE L == Len(conv[n].cmds)
<1>3. L' = L
  BY <1>1
<1>4. /\ conv[n].next \in Nat /\ conv[n].done \in Nat /\ conv[n].inbox \in Nat
      /\ conv[n].done < conv[n].next /\ conv[n].next <= L + 1
      /\ conv[n].phase = "send" => conv[n].next <= L
      /\ conv[n].phase \in {"connect", "greeting"} => conv[n].next = 1
      /\ conv[n].phase = "send" => conv[n].next + conv[n].inbox <= 1 + conv[n].done
      /\ conv[n].phase # "send" => conv[n].next + conv[n].inbox <= 2 + conv[n].done
  BY <1>2 DEF Counts
<1>5. L \in Nat
  <2>1. CASE task[n] \in {"own-qmp", "serve-qmp"}
    BY <2>1 DEF Talks, OwnLen
  <2>2. CASE task[n] = "set-params"
    BY <2>2 DEF Talks
  <2>3. CASE task[n] = "failover"
    BY <2>3 DEF Talks, FailLen
  <2> QED
    BY <1>2, <2>1, <2>2, <2>3 DEF Conversing
<1> HIDE DEF L
<1>6. conv[n].done + 1 \in 1 .. L
  BY <1>1, <1>4, <1>5
<1>7. /\ conv'[n].next \in Nat /\ conv'[n].done \in Nat /\ conv'[n].inbox \in Nat
      /\ conv'[n].done < conv'[n].next /\ conv'[n].next <= L + 1
      /\ conv'[n].phase = "send" => conv'[n].next <= L
      /\ conv'[n].phase \in {"connect", "greeting"} => conv'[n].next = 1
      /\ conv'[n].phase = "send" => conv'[n].next + conv'[n].inbox <= 1 + conv'[n].done
      /\ conv'[n].phase # "send" => conv'[n].next + conv'[n].inbox <= 2 + conv'[n].done
  BY <1>1, <1>4, <1>5
<1> QED
  BY <1>2, <1>3, <1>4, <1>6, <1>7 DEF Counts, L

\* What a vm has executed or refused when it has dealt with one more command.
LEMMA DealtWith ==
  ASSUME Tables, NEW n \in Node, NEW c,
         vm'[n] = IF Accepts(n, c) THEN Executed(vm[n], c) ELSE Refused(vm[n], c)
  PROVE  /\ Accepts(n, c) =>
              /\ vm'[n].given = vm[n].given \cup {c} /\ vm'[n].refused = vm[n].refused
              /\ vm'[n].blocks = (vm[n].blocks \cup Adds(c)) \ Takes(c)
              /\ c.execute \notin {"object-del", "chardev-remove"} => vm'[n].gone = vm[n].gone
              /\ c.execute \notin {"nbd-server-start", "nbd-server-stop"} => vm'[n].nbd = vm[n].nbd
              /\ c.execute = "nbd-server-start" => vm'[n].nbd = c.at
         /\ ~Accepts(n, c) =>
              /\ vm'[n].given = vm[n].given /\ vm'[n].refused = vm[n].refused \cup {c}
              /\ vm'[n].blocks = vm[n].blocks /\ vm'[n].gone = vm[n].gone /\ vm'[n].nbd = vm[n].nbd
<1>1. ASSUME Accepts(n, c)
      PROVE  /\ vm'[n].given = vm[n].given \cup {c} /\ vm'[n].refused = vm[n].refused
             /\ vm'[n].blocks = (vm[n].blocks \cup Adds(c)) \ Takes(c)
             /\ c.execute \notin {"object-del", "chardev-remove"} => vm'[n].gone = vm[n].gone
             /\ c.execute \notin {"nbd-server-start", "nbd-server-stop"} => vm'[n].nbd = vm[n].nbd
             /\ c.execute = "nbd-server-start" => vm'[n].nbd = c.at
  <2>1. vm'[n] = Executed(vm[n], c)
    BY <1>1, Zenon
  <2> DEFINE w == Executed(vm[n], c)
  <2>2. /\ w.given = vm[n].given \cup {c} /\ w.refused = vm[n].refused
        /\ w.blocks = (vm[n].blocks \cup Adds(c)) \ Takes(c)
        /\ w.gone = IF c.execute \in {"object-del", "chardev-remove"}
                    THEN vm[n].gone \cup {c.id} ELSE vm[n].gone
        /\ c.execute \notin {"nbd-server-start", "nbd-server-stop"} => w.nbd = vm[n].nbd
        /\ c.execute = "nbd-server-start" => w.nbd = c.at
    BY ExecutedMakes
  <2>3. vm'[n] = w
    BY <2>1
  <2> HIDE DEF w
  <2> QED
    BY <2>2, <2>3
<1>2. ASSUME ~Accepts(n, c)
      PROVE  /\ vm'[n].given = vm[n].given /\ vm'[n].refused = vm[n].refused \cup {c}
             /\ vm'[n].blocks = vm[n].blocks /\ vm'[n].gone = vm[n].gone /\ vm'[n].nbd = vm[n].nbd
  <2>1. vm'[n] = Refused(vm[n], c)
    BY <1>2, Zenon
  <2> DEFINE w == Refused(vm[n], c)
  <2>2. /\ w.given = vm[n].given /\ w.refused = vm[n].refused \cup {c}
        /\ w.blocks = vm[n].blocks /\ w.nbd = vm[n].nbd
    BY RefusedIs
  <2>3. w.gone = vm[n].gone
    BY DEF Refused, Tables
  <2>4. vm'[n] = w
    BY <2>1
  <2> HIDE DEF w
  <2> QED
    BY <2>2, <2>3, <2>4
<1> QED
  BY <1>1, <1>2, Zenon

\* A command that is none of the start's leaves the start where it is.
LEMMA FreshElse ==
  ASSUME NEW n \in Node, NEW p \in Node, NEW c, Fresh(n, p),
         \A j \in 2 .. OwnLen(n) : OwnList(n)[j] # c,
         OwnList(n)' = OwnList(n), OwnLen(n)' = OwnLen(n),
         vm'[n].given \subseteq vm[n].given \cup {c}, vm'[n].refused \subseteq vm[n].refused \cup {c},
         task'[n] = task[n], task[n] \notin {"own-qmp", "serve-qmp"},
         Pending(n, p)' => Pending(n, p)
  PROVE  Fresh(n, p)'
BY DEF Fresh, Heard

\* What the start's commands add, and to which vm.
LEMMA OwnAdds ==
  ASSUME NEW n \in Node, NEW p \in Node, p = Peer[n], vm[n].kind \in {"pvm", "svm"},
         NEW k \in 1 .. OwnLen(n)
  PROVE  LET c == OwnList(n)[k]
         IN /\ vm[n].kind = "pvm" => "export" \notin Adds(c)
            /\ vm[n].kind = "svm" => Adds(c) \cap {"replication0", "children.1", "colo"} = {}
            /\ vm[n].kind = "svm" => SvmList(n)[2].at # << >>
            /\ Takes(c) = {} /\ c.execute \notin {"object-del", "chardev-remove", "nbd-server-stop"}
            /\ k = 1 => c.execute = "qmp_capabilities"
<1> DEFINE c == OwnList(n)[k]
<1>1. CASE vm[n].kind = "pvm"
  <2>1. k \in {1, 2, 3, 4, 5, 6}
    BY <1>1 DEF OwnLen
  <2>2. /\ c.execute \in {"qmp_capabilities", "drive_add", "x-blockdev-change-add",
                          "migrate-set-capabilities", "migrate-set-parameters", "migrate"}
        /\ k = 1 => c.execute = "qmp_capabilities"
    BY <1>1, <2>1, ListsDo DEF OwnList
  <2> HIDE DEF c
  <2> QED
    BY <1>1, <2>2 DEF Adds, Takes, c
<1>2. CASE vm[n].kind = "svm"
  <2>1. k \in {1, 2, 3, 4}
    BY <1>2 DEF OwnLen
  <2>2. /\ c.execute \in {"qmp_capabilities", "nbd-server-start", "nbd-server-add",
                          "migrate-set-parameters"}
        /\ k = 1 => c.execute = "qmp_capabilities"
    BY <1>2, <2>1, ListsDo DEF OwnList
  <2>3. SvmList(n)[2].at = <<n, sec(domain, "nbd_port")>>
    BY ListsDo
  <2> HIDE DEF c
  <2> QED
    BY <1>2, <2>2, <2>3 DEF Adds, Takes, c
<1> QED
  BY <1>1, <1>2

\* One more command of the start is dealt with.
LEMMA OwnDealtWith ==
  ASSUME Tables, NEW n \in Node, NEW p \in Node, p = Peer[n], vm[n].kind \in {"pvm", "svm"},
         vm'[n].kind = vm[n].kind, task'[n] = task[n], task[n] \in {"own-qmp", "serve-qmp"},
         ~Pending(n, p), ~Pending(n, p)', Fresh(n, p), Intact(n),
         NEW k \in 1 .. OwnLen(n), conv[n].done = k - 1, conv'[n].done = k,
         OwnList(n)' = OwnList(n), OwnLen(n)' = OwnLen(n), SvmList(n)' = SvmList(n),
         NEW c, c = OwnList(n)[k],
         vm'[n] = IF Accepts(n, c) THEN Executed(vm[n], c) ELSE Refused(vm[n], c)
  PROVE  Fresh(n, p)' /\ Intact(n)'
<1>1. /\ vm[n].kind = "pvm" => "export" \notin Adds(c)
      /\ vm[n].kind = "svm" => Adds(c) \cap {"replication0", "children.1", "colo"} = {}
      /\ vm[n].kind = "svm" => SvmList(n)[2].at # << >>
      /\ Takes(c) = {} /\ c.execute \notin {"object-del", "chardev-remove", "nbd-server-stop"}
      /\ k = 1 => c.execute = "qmp_capabilities"
  BY OwnAdds
<1>2. ~Accepts(n, c) => k # 1
  BY <1>1 DEF Accepts
<1>3. /\ vm[n].kind = "svm" => (c.execute = "nbd-server-start" <=> k = 2)
      /\ vm[n].kind = "svm" => (k = 2 <=> c = SvmList(n)[2])
      /\ SvmList(n)[2].execute = "nbd-server-start"
  <2>1. /\ vm[n].kind = "svm" => (c.execute = "nbd-server-start" <=> k = 2)
        /\ SvmList(n)[2].execute = "nbd-server-start"
    BY OwnCommands
  <2> QED
    BY <2>1 DEF OwnList
<1>4. \A j \in 1 .. OwnLen(n) : OwnList(n)[j] = c => j = k
  BY OwnDiffer
<1>5. /\ Accepts(n, c) =>
           /\ vm'[n].given = vm[n].given \cup {c} /\ vm'[n].refused = vm[n].refused
           /\ vm'[n].blocks = (vm[n].blocks \cup Adds(c)) \ Takes(c)
           /\ c.execute \notin {"object-del", "chardev-remove"} => vm'[n].gone = vm[n].gone
           /\ c.execute \notin {"nbd-server-start", "nbd-server-stop"} => vm'[n].nbd = vm[n].nbd
           /\ c.execute = "nbd-server-start" => vm'[n].nbd = c.at
      /\ ~Accepts(n, c) =>
           /\ vm'[n].given = vm[n].given /\ vm'[n].refused = vm[n].refused \cup {c}
           /\ vm'[n].blocks = vm[n].blocks /\ vm'[n].gone = vm[n].gone /\ vm'[n].nbd = vm[n].nbd
  BY DealtWith
<1> DEFINE ok == Accepts(n, c)
<1>6. /\ vm'[n].gone = vm[n].gone
      /\ vm[n].blocks \subseteq vm'[n].blocks /\ vm'[n].blocks \subseteq vm[n].blocks \cup Adds(c)
      /\ ok => vm'[n].given = vm[n].given \cup {c} /\ vm'[n].refused = vm[n].refused
      /\ ok => Adds(c) \subseteq vm'[n].blocks
      /\ ~ok => vm'[n].given = vm[n].given /\ vm'[n].refused = vm[n].refused \cup {c}
      /\ vm'[n].nbd = vm[n].nbd \/ (vm'[n].nbd = c.at /\ c.execute = "nbd-server-start")
      /\ ok /\ c.execute = "nbd-server-start" => vm'[n].nbd = c.at
  <2>1. CASE ok
    <3>1. /\ vm'[n].given = vm[n].given \cup {c} /\ vm'[n].refused = vm[n].refused
          /\ vm'[n].blocks = (vm[n].blocks \cup Adds(c)) \ Takes(c)
          /\ vm'[n].gone = vm[n].gone
          /\ c.execute # "nbd-server-start" => vm'[n].nbd = vm[n].nbd
          /\ c.execute = "nbd-server-start" => vm'[n].nbd = c.at
      BY <1>1, <1>5, <2>1
    <3>2. vm'[n].blocks = vm[n].blocks \cup Adds(c)
      BY <1>1, <3>1
    <3> HIDE DEF ok
    <3> QED
      BY <2>1, <3>1, <3>2
  <2>2. CASE ~ok
    <3>1. /\ vm'[n].given = vm[n].given /\ vm'[n].refused = vm[n].refused \cup {c}
          /\ vm'[n].blocks = vm[n].blocks /\ vm'[n].gone = vm[n].gone /\ vm'[n].nbd = vm[n].nbd
      BY <1>5, <2>2
    <3> HIDE DEF ok
    <3> QED
      BY <2>2, <3>1
  <2> QED
    BY <2>1, <2>2
<1>7. ~ok => k # 1
  BY <1>2
<1> HIDE DEF ok
<1>8. Fresh(n, p)'
  <2>1. \A j \in 2 .. OwnLen(n) : j \in 1 .. OwnLen(n)
    BY DEF OwnLen
  <2>2. ASSUME NEW j \in 2 .. OwnLen(n), k < j PROVE ~Heard(n, OwnList(n)[j])'
    <3>1. OwnList(n)[j] # c
      BY <1>4, <2>1, <2>2 DEF OwnLen
    <3>2. conv[n].done < j
      BY <2>2 DEF OwnLen
    <3>3. ~Heard(n, OwnList(n)[j])
      BY <3>2 DEF Fresh
    <3> QED
      BY <1>6, <3>1, <3>3 DEF Heard
  <2>3. ASSUME NEW j \in 2 .. OwnLen(n)
        PROVE  ~(OwnList(n)[j] \in vm'[n].given /\ OwnList(n)[j] \in vm'[n].refused)
    <3>1. ~(OwnList(n)[j] \in vm[n].given /\ OwnList(n)[j] \in vm[n].refused)
      BY DEF Fresh
    <3>2. CASE OwnList(n)[j] = c
      <4>1. j = k
        BY <1>4, <2>1, <3>2
      <4>2. conv[n].done < j
        BY <4>1 DEF OwnLen
      <4>3. ~Heard(n, OwnList(n)[j])
        BY <4>2 DEF Fresh
      <4> QED
        BY <1>6, <4>3 DEF Heard
    <3>3. CASE OwnList(n)[j] # c
      BY <1>6, <3>1, <3>3
    <3> QED
      BY <3>2, <3>3
  <2> QED
    BY <2>2, <2>3 DEF Fresh
<1>9. Intact(n)'
  <2>1. vm'[n].gone = {}
    BY <1>6 DEF Intact
  <2>2. ASSUME NEW e \in vm'[n].refused
        PROVE  e.execute = "qom-set" \/ \E j \in 2 .. OwnLen(n) : e = OwnList(n)[j]
    <3>1. CASE e \in vm[n].refused
      BY <3>1 DEF Intact
    <3>2. CASE e = c /\ ~ok
      <4>1. k \in 2 .. OwnLen(n)
        BY <1>7, <3>2 DEF OwnLen
      <4> QED
        BY <3>2, <4>1
    <3> QED
      BY <1>6, <2>2, <3>1, <3>2
  <2>3. ASSUME NEW e \in vm'[n].given PROVE Adds(e) \subseteq vm'[n].blocks
    <3>1. CASE e \in vm[n].given
      BY <1>6, <3>1 DEF Intact
    <3>2. CASE e = c /\ ok
      BY <1>6, <3>2
    <3> QED
      BY <1>6, <2>3, <3>1, <3>2
  <2>4. vm[n].kind = "pvm" => "export" \notin vm'[n].blocks
    BY <1>1, <1>6 DEF Intact
  <2>5. vm[n].kind = "svm" => vm'[n].blocks \cap {"replication0", "children.1", "colo"} = {}
    BY <1>1, <1>6 DEF Intact
  <2>6. ASSUME vm[n].kind = "svm", SvmList(n)[2] \in vm'[n].given PROVE vm'[n].nbd # << >>
    <3>1. CASE c = SvmList(n)[2]
      <4>1. c.execute = "nbd-server-start" /\ c.at # << >>
        BY <1>1, <1>3, <2>6, <3>1
      <4>2. ok \/ SvmList(n)[2] \in vm[n].given
        BY <1>6, <2>6
      <4>3. SvmList(n)[2] \in vm[n].given => vm[n].nbd # << >>
        BY <2>6 DEF Intact
      <4> QED
        BY <1>6, <4>1, <4>2, <4>3
    <3>2. CASE c # SvmList(n)[2]
      <4>1. SvmList(n)[2] \in vm[n].given
        BY <1>6, <2>6, <3>2
      <4>2. vm[n].nbd # << >>
        BY <2>6, <4>1 DEF Intact
      <4>3. c.execute # "nbd-server-start"
        BY <1>3, <2>6, <3>2
      <4> QED
        BY <1>6, <4>2, <4>3
    <3> QED
      BY <3>1, <3>2
  <2> QED
    BY <2>1, <2>2, <2>3, <2>4, <2>5, <2>6 DEF Intact
<1> QED
  BY <1>8, <1>9

\* One more command of set-params.
LEMMA ParamsDealtWith ==
  ASSUME Tables, NEW n \in Node, NEW p \in Node, p = Peer[n], vm[n].kind \in {"pvm", "svm"},
         vm'[n].kind = vm[n].kind, task'[n] = task[n], task[n] = "set-params",
         Pending(n, p)' => Pending(n, p), Fresh(n, p), Intact(n),
         OwnList(n)' = OwnList(n), OwnLen(n)' = OwnLen(n), SvmList(n)' = SvmList(n),
         NEW property \in PropertyName, NEW k \in 1 .. 2, NEW c, c = set_params_cmds(property)[k],
         vm'[n] = IF Accepts(n, c) THEN Executed(vm[n], c) ELSE Refused(vm[n], c)
  PROVE  Fresh(n, p)' /\ Intact(n)'
<1>1. /\ c.execute \in {"qmp_capabilities", "migrate-set-parameters", "qom-set"}
      /\ Accepts(n, c) \/ c.execute = "qom-set"
  BY ParamsExecuted
<1>2. \A j \in 2 .. OwnLen(n) : OwnList(n)[j] # c
  <2>1. \/ c.execute \in {"qmp_capabilities", "qom-set"}
        \/ c = Qmp("migrate-set-parameters", "x-checkpoint-delay")
    <3>1. k \in {1, 2}
      OBVIOUS
    <3> QED
      BY <3>1 DEF set_params_cmds, Qmp, capabilities
  <2> QED
    BY <2>1, OwnDiffer DEF StartDoes
<1>3. Adds(c) = {} /\ Takes(c) = {}
  BY <1>1 DEF Adds, Takes
<1>4. /\ Accepts(n, c) =>
           /\ vm'[n].given = vm[n].given \cup {c} /\ vm'[n].refused = vm[n].refused
           /\ vm'[n].blocks = (vm[n].blocks \cup Adds(c)) \ Takes(c)
           /\ c.execute \notin {"object-del", "chardev-remove"} => vm'[n].gone = vm[n].gone
           /\ c.execute \notin {"nbd-server-start", "nbd-server-stop"} => vm'[n].nbd = vm[n].nbd
           /\ c.execute = "nbd-server-start" => vm'[n].nbd = c.at
      /\ ~Accepts(n, c) =>
           /\ vm'[n].given = vm[n].given /\ vm'[n].refused = vm[n].refused \cup {c}
           /\ vm'[n].blocks = vm[n].blocks /\ vm'[n].gone = vm[n].gone /\ vm'[n].nbd = vm[n].nbd
  BY DealtWith
<1> DEFINE ok == Accepts(n, c)
<1>5. /\ vm'[n].gone = vm[n].gone /\ vm'[n].nbd = vm[n].nbd /\ vm'[n].blocks = vm[n].blocks
      /\ vm'[n].given \subseteq vm[n].given \cup {c}
      /\ vm'[n].refused \subseteq vm[n].refused \cup {c}
      /\ vm'[n].refused = vm[n].refused \/ c.execute = "qom-set"
  BY <1>1, <1>3, <1>4
<1>6. Fresh(n, p)'
  BY <1>2, <1>5, FreshElse
<1>7. SvmList(n)[2] \in vm'[n].given /\ vm[n].kind = "svm" => SvmList(n)[2] \in vm[n].given
  <2>1. SvmList(n)[2].execute = "nbd-server-start"
    BY ListsDo
  <2> QED
    BY <1>1, <1>5, <2>1
<1>8. Intact(n)'
  <2>1. \A e \in vm'[n].refused : e.execute = "qom-set" \/ \E j \in 2 .. OwnLen(n) : e = OwnList(n)[j]
    BY <1>5 DEF Intact
  <2>2. \A e \in vm'[n].given : Adds(e) \subseteq vm'[n].blocks
    BY <1>3, <1>5 DEF Intact
  <2> QED
    BY <1>5, <1>7, <2>1, <2>2 DEF Intact
<1> QED
  BY <1>6, <1>8

\* One more command of do-failover.
LEMMA FailoverDealtWith ==
  ASSUME Tables, NEW n \in Node, NEW p \in Node, p = Peer[n], vm[n].kind \in {"pvm", "svm"},
         KnownOS(domain),
         vm'[n].kind = vm[n].kind, task'[n] = task[n], task[n] = "failover",
         Pending(n, p)' => Pending(n, p), Fresh(n, p), Stage(n),
         NEW k \in 1 .. FailLen(n), conv[n].done = k - 1, conv'[n].done = k,
         OwnList(n)' = OwnList(n), OwnLen(n)' = OwnLen(n), FailList(n)' = FailList(n),
         NEW c, c = FailList(n)[k],
         vm'[n] = IF Accepts(n, c) THEN Executed(vm[n], c) ELSE Refused(vm[n], c)
  PROVE  Fresh(n, p)' /\ Stage(n)'
<1>1. \A j \in 2 .. OwnLen(n) : OwnList(n)[j] # c
  <2>1. c.execute \in
          {"qmp_capabilities", "colo-enable-teardown", "x-blockdev-change-del", "drive_del",
           "nbd-server-stop", "x-colo-lost-heartbeat", "query-status",
           "object-del", "chardev-remove"}
    BY FailuresDo
  <2> QED
    BY <2>1, OwnDiffer DEF StartDoes
<1>2. /\ Accepts(n, c) =>
           /\ vm'[n].given = vm[n].given \cup {c} /\ vm'[n].refused = vm[n].refused
           /\ vm'[n].blocks = (vm[n].blocks \cup Adds(c)) \ Takes(c)
           /\ c.execute \notin {"object-del", "chardev-remove"} => vm'[n].gone = vm[n].gone
           /\ c.execute \notin {"nbd-server-start", "nbd-server-stop"} => vm'[n].nbd = vm[n].nbd
           /\ c.execute = "nbd-server-start" => vm'[n].nbd = c.at
      /\ ~Accepts(n, c) =>
           /\ vm'[n].given = vm[n].given /\ vm'[n].refused = vm[n].refused \cup {c}
           /\ vm'[n].blocks = vm[n].blocks /\ vm'[n].gone = vm[n].gone /\ vm'[n].nbd = vm[n].nbd
  BY DealtWith
<1>3. /\ vm'[n].given \subseteq vm[n].given \cup {c}
      /\ vm'[n].refused \subseteq vm[n].refused \cup {c}
  BY <1>2
<1>4. Fresh(n, p)'
  BY <1>1, <1>3, FreshElse
<1>5. k \in Nat /\ k # 0
  BY DEF FailLen
<1>6. Removed(n) = k - 1 /\ Removed(n)' = k
  BY DEF Removed
<1>7. ASSUME OwnGiven(n)' PROVE Left(n, k)'
  <2>1. OwnGiven(n)
    BY <1>1, <1>3, <1>7 DEF OwnGiven
  <2>2. Left(n, k - 1)
    <3>1. CASE k - 1 = 0
      <4>1. Intact(n)
        BY <1>6, <3>1 DEF Stage
      <4>2. Left(n, 0)
        BY <2>1, <4>1, IntactIsLeft
      <4> QED
        BY <3>1, <4>2
    <3>2. CASE k - 1 # 0
      BY <1>6, <2>1, <3>2 DEF Stage
    <3> QED
      BY <3>1, <3>2
  <2>3. Accepts(n, FailList(n)[k])
    BY <2>2, FailoverAccepted
  <2>4. vm'[n] = Executed(vm[n], FailList(n)[k])
    BY <2>3, Zenon
  <2> QED
    BY <2>2, <2>4, LeftStep
<1>8. Stage(n)'
  BY <1>5, <1>6, <1>7 DEF Stage
<1> QED
  BY <1>4, <1>8

\* A command is executed or refused.
LEMMA OrderlyExecutes ==
  ASSUME Tables, NEW n \in Node, NEW p \in Node, p = Peer[n], Both(n, p), Aside(p),
         Settled(n), Orderly(n, p), MExecutes(n, p)
  PROVE  Orderly(n, p)'
<1> SUFFICES ASSUME Handled(n)' PROVE Talks(n)' /\ Counts(n)' /\ Fresh(n, p)' /\ Stage(n)'
  BY DEF Orderly
<1> DEFINE k == conv[n].done + 1
           c == conv[n].cmds[k]
<1>1. /\ vm'[n].kind = vm[n].kind /\ vm'[n].state = vm[n].state /\ events' = events
      /\ task'[n] = task[n] /\ asked'[n] = asked[n] /\ entry'[n] = entry[n] /\ task'[p] = task[p]
      /\ conv'[n].done = k /\ conv'[n].cmds = conv[n].cmds
      /\ definition' = definition /\ local_status' = local_status
  BY DEF MExecutes, SameHost, Calm, SameStart, Aside
<1>2. vm'[n] = IF Accepts(n, c) THEN Executed(vm[n], c) ELSE Refused(vm[n], c)
  BY Zenon DEF MExecutes
<1>3. /\ OwnList(n)' = OwnList(n) /\ OwnLen(n)' = OwnLen(n) /\ SvmList(n)' = SvmList(n)
      /\ FailList(n)' = FailList(n) /\ FailLen(n)' = FailLen(n) /\ domain' = domain
  BY <1>1, KeptLists
<1>4. Handled(n)
  BY <1>1, <1>3 DEF Handled, KnownOS
<1>5. Talks(n) /\ Counts(n) /\ Fresh(n, p) /\ Stage(n)
  BY <1>4 DEF Orderly
<1>6. task[n] \in Conversing /\ k \in 1 .. Len(conv[n].cmds) /\ conv[n].done \in Nat /\ Counts(n)'
  BY <1>5, ExecutesCounts
<1>7. Talks(n)'
  BY <1>1, <1>3, <1>5, Zenon DEF Talks
<1>8. Pending(n, p)' <=> Pending(n, p)
  BY <1>1 DEF Pending
<1>9. vm[n].kind \in {"pvm", "svm"} /\ KnownOS(domain)
  BY <1>4 DEF Handled
<1>10. conv[n].done = k - 1
  BY <1>6
<1>11. Fresh(n, p)' /\ Stage(n)'
  <2>1. CASE task[n] \in {"own-qmp", "serve-qmp"}
    <3>1. k \in 1 .. OwnLen(n) /\ c = OwnList(n)[k]
      BY <1>5, <1>6, <2>1 DEF Talks
    <3>2. ~Pending(n, p)
      BY <1>9, <2>1 DEF Pending, Both, Turn, Sides, Shape
    <3>3. Removed(n) = 0 /\ Removed(n)' = 0
      BY <1>1, <2>1 DEF Removed
    <3>4. Intact(n)
      BY <1>5, <3>3 DEF Stage
    <3> HIDE DEF k, c
    <3>5. Fresh(n, p)' /\ Intact(n)'
      BY <1>1, <1>2, <1>3, <1>5, <1>8, <1>9, <1>10, <2>1, <3>1, <3>2, <3>4, OwnDealtWith
    <3> QED
      BY <3>3, <3>5 DEF Stage
  <2>2. CASE task[n] = "set-params"
    <3>1. PICK property \in PropertyName : conv[n].cmds = set_params_cmds(property)
      BY <1>5, <2>2 DEF Talks
    <3>2. k \in 1 .. 2 /\ c = set_params_cmds(property)[k]
      BY <1>5, <1>6, <2>2, <3>1 DEF Talks
    <3>3. Removed(n) = 0 /\ Removed(n)' = 0
      BY <1>1, <2>2 DEF Removed
    <3>4. Intact(n)
      BY <1>5, <3>3 DEF Stage
    <3> HIDE DEF k, c
    <3>5. Fresh(n, p)' /\ Intact(n)'
      BY <1>1, <1>2, <1>3, <1>5, <1>8, <1>9, <2>2, <3>2, <3>4, ParamsDealtWith
    <3> QED
      BY <3>3, <3>5 DEF Stage
  <2>3. CASE task[n] = "failover"
    <3>1. k \in 1 .. FailLen(n) /\ c = FailList(n)[k]
      BY <1>5, <1>6, <2>3 DEF Talks
    <3> HIDE DEF k, c
    <3> QED
      BY <1>1, <1>2, <1>3, <1>5, <1>8, <1>9, <1>10, <2>3, <3>1, FailoverDealtWith
  <2> QED
    BY <1>6, <2>1, <2>2, <2>3 DEF Conversing
<1> QED
  BY <1>6, <1>7, <1>11

\* The conversation ends, or has ended already, exactly when the handler does.
LEMMA SettledStep ==
  ASSUME NEW h \in Node, NEW p \in Node, Peers(h, p), Both(h, p), Aside(p), Move(h, p), Settled(h)
  PROVE  Settled(h)'
<1> USE DEF Settled, Conversing
<1>1. CASE MNothing(h, p)
  BY <1>1 DEF MNothing, SameHost, SameConv
<1>2. CASE MRefused(h, p)
  BY <1>2 DEF MRefused, SameEntry, SameConv
<1>3. CASE MPlain(h, p)
  BY <1>3 DEF MPlain, SameConv
<1>4. CASE MColo(h, p)
  BY <1>4 DEF MColo, Turns, SameConv
<1>5. CASE MPeerStart(h, p)
  BY <1>5 DEF MPeerStart, Turns, SameConv
<1>6. CASE MAfterStartP(h, p)
  BY <1>6 DEF MAfterStartP, Turns, SameConv
<1>7. CASE MAfterStartS(h, p)
  BY <1>7 DEF MAfterStartS, Turns
<1>8. CASE MServe(h, p)
  BY <1>8 DEF MServe, Turns
<1>9. CASE MReply(h, p)
  BY <1>9 DEF MReply, Turns, SameConv
<1>10. CASE MOwnTalk(h, p)
  BY <1>10 DEF MOwnTalk, Turns
<1>11. CASE MBack(h, p)
  BY <1>11 DEF MBack, SameConv
<1>12. CASE MSetParams(h, p)
  BY <1>12 DEF MSetParams, Turns
<1>13. CASE MFailover(h, p)
  BY <1>13 DEF MFailover, Turns, SameRole
<1>14. CASE MToPeer(h, p)
  BY <1>14 DEF MToPeer, Turns, Closed, NoConv
<1>15. CASE MOwnEnds(h, p)
  BY <1>15 DEF MOwnEnds, Closed, NoConv
<1>16. CASE MServed(h, p)
  BY <1>16 DEF MServed, Turns, Closed, NoConv
<1>17. CASE MOtherEnds(h, p)
  BY <1>17 DEF MOtherEnds, Turns, Closed, NoConv
<1>18. CASE MEnds(h, p)
  BY <1>18 DEF MEnds, Turns, Closed, NoConv
<1>19. CASE MTalk(h, p)
  BY <1>19 DEF MTalk, Goes, SameHost, Both, Shape
<1>20. CASE MExecutes(h, p)
  BY <1>20 DEF MExecutes, SameHost
<1>21. CASE MEvent(h, p)
  BY <1>21 DEF MEvent, SameHost
<1>22. CASE MBecomes(h, p)
  BY <1>22 DEF MBecomes, SameHost, SameConv
<1> QED
  BY <1>1, <1>2, <1>3, <1>4, <1>5, <1>6, <1>7, <1>8, <1>9, <1>10, <1>11, <1>12, <1>13, <1>14, <1>15,
     <1>16, <1>17, <1>18, <1>19, <1>20, <1>21, <1>22, Zenon DEF Move

\* The peer of the host that makes the step: nothing it was told is told again.
LEMMA OrderlyAside ==
  ASSUME NEW h \in Node, NEW p \in Node, Peers(h, p), Both(h, p), Aside(p), Move(h, p),
         events \in Nat, Orderly(p, h)
  PROVE  Orderly(p, h)'
<1>1. events' = events \/ events' = events + 1
  BY Zenon DEF Move, MNothing, MRefused, MPlain, MColo, MPeerStart, MAfterStartP, MAfterStartS,
     MServe, MReply, MOwnTalk, MBack, MSetParams, MFailover, MToPeer, MOwnEnds, MServed, MOtherEnds,
     MEnds, MTalk, MExecutes, MEvent, MBecomes, SameStart
<1>2. task'[h] = "peer-start" => task[h] = "peer-start" \/ vm[p].state = "none"
  BY DEF Both, Turn, Move, MNothing, MRefused, MPlain, MColo, MPeerStart, MAfterStartP, MAfterStartS,
     MServe, MReply, MOwnTalk, MBack, MSetParams, MFailover, MToPeer, MOwnEnds, MServed, MOtherEnds,
     MEnds, MTalk, MExecutes, MEvent, MBecomes, SameHost, Turns
<1>3. asked'[p] = "peer-send-qmpcmds-secondary" => asked[p] = asked'[p] \/ task[h] = "peer-start"
  BY DEF Move, MNothing, MRefused, MPlain, MColo, MPeerStart, MAfterStartP, MAfterStartS,
     MServe, MReply, MOwnTalk, MBack, MSetParams, MFailover, MToPeer, MOwnEnds, MServed, MOtherEnds,
     MEnds, MTalk, MExecutes, MEvent, MBecomes, Calm, Asks, NoAsk, Hears
<1>4. Handled(p) /\ Pending(p, h)' => Pending(p, h)
  BY <1>2, <1>3 DEF Aside, Both, Shape, Pending, Handled
<1> QED
  BY <1>1, <1>4, OrderlyQuiet DEF Aside, Kept

\* A command that changes nothing the vm or its conversation has.
LEMMA OrderlyWhenQuiet ==
  ASSUME NEW h \in Node, NEW p \in Node, Both(h, p), Aside(p), events \in Nat, Orderly(h, p),
         \/ MNothing(h, p) \/ MRefused(h, p) \/ MReply(h, p) \/ MBack(h, p)
  PROVE  Orderly(h, p)'
<1>1. Kept(h)
  BY DEF MNothing, MRefused, MReply, MBack, SameHost, SameEntry, SameVm, SameStart, Aside, Kept
<1>2. \/ conv'[h] = conv[h] /\ task'[h] = task[h]
      \/ task'[h] \notin Conversing /\ task[h] # "failover"
  BY DEF MNothing, MRefused, MReply, MBack, SameHost, SameConv, Turns, Conversing
<1>3. Pending(h, p)' => Pending(h, p)
  BY DEF MNothing, MRefused, MReply, MBack, SameHost, SameVm, Calm, Turns, Hears, NoAsk, Aside, Pending
<1> QED
  BY <1>1, <1>2, <1>3, OrderlyQuiet

\* A vm is forked.
LEMMA OrderlyWhenForked ==
  ASSUME NEW h \in Node, NEW p \in Node, Peers(h, p), Aside(p),
         \/ MPlain(h, p) \/ MPeerStart(h, p) \/ MAfterStartP(h, p) \/ MAfterStartS(h, p)
  PROVE  Orderly(h, p)'
<1>1. p = Peer[h] /\ definition' = definition /\ local_status' = local_status
  BY DEF Peers, Aside
<1>2. CASE MPlain(h, p)
  BY <1>1, <1>2, OrderlyBegun DEF MPlain, Conversing
<1>3. CASE MPeerStart(h, p)
  <2>1. PICK kind \in {"pvm", "svm"} : Begun(h, kind)
    BY <1>3 DEF MPeerStart
  <2>2. task'[h] \notin Conversing
    BY <1>3 DEF MPeerStart, Turns, Conversing
  <2> QED
    BY <1>1, <2>1, <2>2, OrderlyBegun
<1>4. CASE MAfterStartP(h, p)
  BY <1>1, <1>4, OrderlyBegun DEF MAfterStartP, Turns, Conversing
<1>5. CASE MAfterStartS(h, p)
  BY <1>1, <1>5, OrderlyBegun DEF MAfterStartS, Turns
<1> QED
  BY <1>2, <1>3, <1>4, <1>5

\* A conversation begins.
LEMMA OrderlyWhenOpened ==
  ASSUME NEW h \in Node, NEW p \in Node, Peers(h, p), Both(h, p), Aside(p), events \in Nat,
         Orderly(h, p),
         \/ MServe(h, p) \/ MOwnTalk(h, p) \/ MSetParams(h, p) \/ MFailover(h, p)
  PROVE  Orderly(h, p)'
<1>1. Kept(h)
  BY DEF MServe, MOwnTalk, MSetParams, MFailover, SameRole, SameEntry, SameVm, SameStart, Aside, Kept
<1>2. task[h] \notin Conversing
  BY DEF MServe, MOwnTalk, MSetParams, MFailover, Conversing
<1>3. Len(SvmList(h)) = 4 /\ Len(PvmList(h)) = 6
  BY ListsAre DEF Peers
<1>4. CASE MServe(h, p)
  <2>1. vm[h].kind = "svm"
    BY <1>4 DEF MServe, Both, Sides
  <2>2. SvmList(h) = OwnList(h) /\ OwnLen(h) = 4
    BY <2>1 DEF OwnList, OwnLen
  <2>3. Pending(h, p) /\ task'[h] = "serve-qmp" /\ Opened(h, SvmList(h))
    BY <1>4 DEF MServe, Turns, Pending
  <2> QED
    BY <1>1, <1>2, <1>3, <2>2, <2>3, OrderlyOpened
<1>5. CASE MOwnTalk(h, p)
  <2>1. vm[h].kind = "pvm"
    BY <1>5 DEF MOwnTalk, Both, Sides
  <2>2. PvmList(h) = OwnList(h) /\ OwnLen(h) = 6
    BY <2>1 DEF OwnList, OwnLen
  <2>3. Pending(h, p) /\ task'[h] = "own-qmp" /\ Opened(h, PvmList(h))
    BY <1>5, <2>1 DEF MOwnTalk, Turns, Pending
  <2> QED
    BY <1>1, <1>2, <1>3, <2>2, <2>3, OrderlyOpened
<1>6. CASE MSetParams(h, p)
  <2>1. PICK property \in PropertyName : Opened(h, set_params_cmds(property))
    BY <1>6 DEF MSetParams
  <2>2. task'[h] = "set-params"
    BY <1>6 DEF MSetParams, Turns
  <2>3. Pending(h, p)' => Pending(h, p)
    BY <1>6 DEF MSetParams, Turns, Calm, Aside, Pending
  <2> QED
    BY <1>1, <1>2, <2>1, <2>2, <2>3, OrderlyOpened
<1>7. CASE MFailover(h, p)
  <2>1. task'[h] = "failover"
    BY <1>7 DEF MFailover, Turns
  <2>2. Pending(h, p)' => Pending(h, p)
    BY <1>7 DEF MFailover, Turns, Calm, Aside, Pending
  <2>3. CASE entry[h].colo_status = "secondary" /\ Opened(h, failover_svm_cmds)
    <3>1. Handled(h) => failover_svm_cmds = FailList(h)
      BY <2>3 DEF Handled, FailList, Both, Sides
    <3> QED
      BY <1>1, <1>2, <2>1, <2>2, <2>3, <3>1, OrderlyOpened
  <2>4. CASE entry[h].colo_status = "primary" /\ Opened(h, failover_pvm_cmds)
    <3>1. Handled(h) => failover_pvm_cmds = FailList(h)
      BY <2>4 DEF Handled, FailList, Both, Sides
    <3> QED
      BY <1>1, <1>2, <2>1, <2>2, <2>4, <3>1, OrderlyOpened
  <2> QED
    BY <1>7, <2>3, <2>4 DEF MFailover
<1> QED
  BY <1>4, <1>5, <1>6, <1>7

\* A conversation ends.  (After a do-failover that succeeds there is nothing left to take apart.)
LEMMA OrderlyWhenEnded ==
  ASSUME NEW h \in Node, NEW p \in Node, Both(h, p), Aside(p), events \in Nat, Settled(h),
         Orderly(h, p),
         \/ MToPeer(h, p) \/ MOwnEnds(h, p) \/ MServed(h, p) \/ MOtherEnds(h, p) \/ MEnds(h, p)
  PROVE  Orderly(h, p)'
<1> SUFFICES ASSUME Handled(h)' PROVE Orderly(h, p)'
  BY DEF Orderly
<1>1. /\ vm'[h] = vm[h] /\ events' = events /\ definition' = definition
      /\ local_status' = local_status
  BY DEF MToPeer, MOwnEnds, MServed, MOtherEnds, MEnds, SameVm, SameStart, Aside
<1>2. entry'[h] = entry[h] /\ (MOtherEnds(h, p) /\ task[h] = "failover" => conv[h].phase = "connect")
  BY DEF MToPeer, MOwnEnds, MServed, MOtherEnds, MEnds, SameEntry, Handled, Ended
<1>3. Kept(h)
  BY <1>1, <1>2 DEF Kept
<1>4. Handled(h)
  BY <1>3, HandledBefore
<1>5. task'[h] \notin Conversing
  BY DEF MToPeer, MOwnEnds, MServed, MOtherEnds, MEnds, Turns, Conversing
<1>6. ~Dead(h)
  BY <1>4 DEF Handled, Dead
<1>7. task[h] = "failover" => conv[h].phase = "connect"
  BY <1>2, <1>6 DEF MToPeer, MOwnEnds, MServed, MEnds
<1>8. task[h] = "failover" => conv[h].done = 0
  BY <1>4, <1>7 DEF Orderly, Counts, Conversing
<1>9. Pending(h, p)' => Pending(h, p)
  BY <1>1 DEF MToPeer, MOwnEnds, MServed, MOtherEnds, MEnds, Turns, Asks, Calm, Hears, Aside, Both,
     Sides, Pending
<1> QED
  BY <1>3, <1>5, <1>8, <1>9, OrderlyQuiet

\* The host that makes the step.
LEMMA OrderlyStep ==
  ASSUME Tables, NEW h \in Node, NEW p \in Node, Peers(h, p), Both(h, p), Both(h, p)', Aside(p),
         Move(h, p), events \in Nat, Settled(h), Orderly(h, p)
  PROVE  Orderly(h, p)'
<1>1. p = Peer[h] /\ Shape(h)
  BY DEF Peers, Both
<1>2. CASE MNothing(h, p) \/ MRefused(h, p) \/ MReply(h, p) \/ MBack(h, p)
  BY <1>2, OrderlyWhenQuiet
<1>3. CASE MPlain(h, p) \/ MPeerStart(h, p) \/ MAfterStartP(h, p) \/ MAfterStartS(h, p)
  BY <1>3, OrderlyWhenForked
<1>4. CASE MServe(h, p) \/ MOwnTalk(h, p) \/ MSetParams(h, p) \/ MFailover(h, p)
  BY <1>4, OrderlyWhenOpened
<1>5. CASE MToPeer(h, p) \/ MOwnEnds(h, p) \/ MServed(h, p) \/ MOtherEnds(h, p) \/ MEnds(h, p)
  BY <1>5, OrderlyWhenEnded
<1>6. CASE MColo(h, p)
  <2>1. vm'[h] = vm[h] /\ vm[h].kind = "none"
    BY <1>1, <1>6 DEF MColo, SameVm, Shape
  <2> QED
    BY <2>1 DEF Orderly, Handled
<1>7. CASE MTalk(h, p)
  <2>1. Kept(h) /\ Goes(h) /\ task'[h] = task[h]
    BY <1>7 DEF MTalk, SameVm, SameHost, SameStart, Aside, Kept
  <2>2. Pending(h, p)' => Pending(h, p)
    BY <1>7 DEF MTalk, SameVm, SameHost, Calm, Aside, Pending
  <2> QED
    BY <1>1, <2>1, <2>2, OrderlyTalk
<1>8. CASE MExecutes(h, p)
  BY <1>1, <1>8, OrderlyExecutes
<1>9. CASE MEvent(h, p)
  <2>1. events' # 0
    BY <1>9 DEF MEvent
  <2> QED
    BY <2>1 DEF Orderly, Handled
<1>10. CASE MBecomes(h, p)
  <2>1. definition' = definition /\ local_status' = local_status /\ events' = events
    BY <1>10 DEF MBecomes, SameStart, Aside
  <2>2. Pending(h, p)' => Pending(h, p)
    BY <1>10 DEF MBecomes, SameHost, Calm, Aside, Pending
  <2> QED
    BY <1>10, <2>1, <2>2, OrderlyBecomes
<1> QED
  BY <1>2, <1>3, <1>4, <1>5, <1>6, <1>7, <1>8, <1>9, <1>10, Zenon DEF Move

-----------------------------------------------------------------------------
\* The invariant of both hosts.
Leaving == Underway /\ \A n \in Node : Settled(n) /\ Orderly(n, Peer[n])

\* There is no vm yet.
LEMMA LeavingInit == StartInit => Leaving
<1> SUFFICES ASSUME StartInit PROVE Leaving
  OBVIOUS
<1>1. Underway
  BY UnderwayInit
<1>2. ASSUME NEW n \in Node PROVE Settled(n) /\ Orderly(n, Peer[n])
  <2>1. /\ task[n] = "idle" /\ conv[n].next = 1 /\ conv[n].done = 0 /\ vm[n].kind = "none"
    BY DEF StartInit, NoConv, NoVm
  <2> QED
    BY <2>1 DEF Settled, Orderly, Handled
<1> QED
  BY <1>1, <1>2 DEF Leaving

\* A step is a move of one host; the other stands aside.
LEMMA LeavingStep == Leaving /\ [StartNext]_startVars => Leaving'
<1>1. ASSUME Leaving, StartNext PROVE Leaving'
  <2>1. Underway'
    BY <1>1, UnderwayStep DEF Leaving
  <2>2. PICK h \in Node, p \in Node : Peers(h, p) /\ Aside(p) /\ Move(h, p)
    BY <1>1, StepMoves DEF Leaving, Underway
  <2>3. /\ Both(h, p) /\ Both(h, p)' /\ h = Peer[p] /\ p = Peer[h] /\ Node = {h, p}
        /\ Tables /\ events \in Nat
    BY <1>1, <2>1, <2>2 DEF Leaving, Underway, Control, Both, Peers
  <2>4. Settled(h) /\ Settled(p) /\ Orderly(h, p) /\ Orderly(p, h)
    BY <1>1, <2>3 DEF Leaving
  <2>5. Settled(h)'
    BY <2>2, <2>3, <2>4, SettledStep
  <2>6. Settled(p)'
    BY <2>2, <2>4 DEF Aside, Settled
  <2>7. Orderly(h, p)'
    BY <2>2, <2>3, <2>4, OrderlyStep
  <2>8. Orderly(p, h)'
    BY <2>2, <2>3, <2>4, OrderlyAside
  <2>9. ASSUME NEW n \in Node PROVE Settled(n)' /\ Orderly(n, Peer[n])'
    <3>1. CASE n = h
      BY <2>3, <2>5, <2>7, <3>1, Zenon
    <3>2. CASE n = p
      BY <2>3, <2>6, <2>8, <3>2, Zenon
    <3> QED
      BY <2>3, <3>1, <3>2
  <2> QED
    BY <2>1, <2>9 DEF Leaving
<1>2. ASSUME Leaving, UNCHANGED startVars PROVE Leaving'
  <2>1. Underway'
    BY <1>2, UnderwayStep DEF Leaving
  <2>2. UNCHANGED <<definition, local_status, entry, task, asked, conv, vm, events>>
    BY <1>2 DEF startVars
  <2>3. ASSUME NEW n \in Node PROVE Settled(n)' /\ Orderly(n, Peer[n])'
    <3>1. PICK p \in Node : p = Peer[n]
      BY PeerAssumption
    <3>2. Settled(n) /\ Orderly(n, p) /\ events \in Nat
      BY <1>2, <3>1 DEF Leaving, Underway
    <3>3. Kept(n) /\ conv'[n] = conv[n] /\ task'[n] = task[n] /\ (Pending(n, p)' => Pending(n, p))
      BY <2>2 DEF Kept, Pending
    <3>4. Orderly(n, p)'
      BY <3>2, <3>3, OrderlyQuiet
    <3>5. Settled(n)'
      BY <2>2, <3>2 DEF Settled
    <3> QED
      BY <3>1, <3>4, <3>5
  <2> QED
    BY <2>1, <2>3 DEF Leaving
<1> QED
  BY <1>1, <1>2

\* What is left when all the commands have been executed.
LEMMA AllLeftIsApart ==
  ASSUME NEW n \in Node, vm[n].kind \in {"pvm", "svm"}, KnownOS(domain), Left(n, FailLen(n))
  PROVE  TakenApart(n)
<1>1. \A c \in vm[n].refused : c.execute = "qom-set"
  BY DEF Left
<1>2. CASE vm[n].kind = "pvm"
  <2>1. FailLen(n) = 16 /\ FailList(n) = failover_pvm_cmds
    BY <1>2 DEF FailLen, FailList
  <2>2. vm[n].gone = {failover_pvm_cmds[j].id : j \in 6 .. 16}
    BY <2>1 DEF Left
  <2>3. \A o \in Line(n, "pvm").objects : o.id \in vm[n].gone
    BY <2>2, PvmParts
  <2>4. {c.id : c \in chardevs(n)} = {"qmp"}
    <3> DEFINE D == Line(n, "pvm").chardevs
    <3>1. \A c \in D : c.id \in vm[n].gone \/ c.id = "qmp"
      BY <2>2, PvmParts
    <3>2. \E c \in D : c.id = "qmp"
      BY PvmParts
    <3>3. "qmp" \notin vm[n].gone
      BY <2>1, <2>2, RemovedOnce
    <3>4. chardevs(n) = {c \in D : c.id \notin vm[n].gone}
      BY <1>2 DEF chardevs
    <3> HIDE DEF D
    <3> QED
      BY <3>1, <3>2, <3>3, <3>4
  <2>5. {o.id : o \in objects(n)} \subseteq {"rew0"}
    BY <1>2, <2>3 DEF objects
  <2>6. vm[n].blocks \cap {"replication0", "children.1", "export", "colo"} = {}
    BY <1>2, <2>1 DEF Left
  <2> QED
    BY <1>1, <2>4, <2>5, <2>6 DEF TakenApart
<1>3. CASE vm[n].kind = "svm"
  <2>1. FailLen(n) = 9 /\ FailList(n) = failover_svm_cmds
    BY <1>3 DEF FailLen, FailList
  <2>2. vm[n].gone = {failover_svm_cmds[j].id : j \in 6 .. 9}
    BY <2>1 DEF Left
  <2>3. \A o \in Line(n, "svm").objects : o.id \in vm[n].gone \/ o.id = "rew0"
    BY <2>2, SvmParts
  <2>4. {c.id : c \in chardevs(n)} = {"qmp"}
    <3> DEFINE D == Line(n, "svm").chardevs
    <3>1. \A c \in D : c.id \in vm[n].gone \/ c.id = "qmp"
      BY <2>2, SvmParts
    <3>2. \E c \in D : c.id = "qmp"
      BY SvmParts
    <3>3. "qmp" \notin vm[n].gone
      BY <2>1, <2>2, RemovedOnce
    <3>4. chardevs(n) = {c \in D : c.id \notin vm[n].gone}
      BY <1>3 DEF chardevs
    <3> HIDE DEF D
    <3> QED
      BY <3>1, <3>2, <3>3, <3>4
  <2>5. {o.id : o \in objects(n)} \subseteq {"rew0"}
    BY <1>3, <2>3 DEF objects
  <2>6. vm[n].blocks \cap {"replication0", "children.1", "export", "colo"} = {}
    BY <1>3, <2>1 DEF Left
  <2> QED
    BY <1>1, <2>4, <2>5, <2>6 DEF TakenApart
<1> QED
  BY <1>2, <1>3

\* A do-failover that answers success on a living vm has had every command executed.
LEMMA SucceedsWhenApart ==
  ASSUME Leaving, StartNext, NEW n \in Node,
         task[n] = "failover", entry'[n].colo_status = "degrade",
         Whole, ~Dead(n), events = 0, vm[n].kind \in {"pvm", "svm"}, OwnCmds(n) \subseteq vm[n].given
  PROVE  TakenApart(n)
<1>1. PICK p \in Node : p = Peer[n]
  BY PeerAssumption
<1>2. Settled(n) /\ Orderly(n, p)
  BY <1>1 DEF Leaving
<1>3. Handled(n)
  BY <1>2 DEF Settled, Handled, Whole, Dead
<1>4. Talks(n) /\ Counts(n) /\ Stage(n)
  BY <1>2, <1>3 DEF Orderly
<1>5. entry[n].colo_status # "degrade"
  BY <1>3 DEF Handled
<1>6. Ended(n, "ok")
  <2>1. PICK h \in Node, q \in Node : Peers(h, q) /\ Aside(q) /\ Move(h, q)
    BY StepMoves DEF Leaving, Underway
  <2>2. n = h
    BY <1>5, <2>1 DEF Peers, Aside
  <2>3. MOtherEnds(h, q)
    BY <1>5, <2>1, <2>2 DEF Move, MNothing, MRefused, MPlain, MColo, MPeerStart, MAfterStartP,
       MAfterStartS, MServe, MReply, MOwnTalk, MBack, MSetParams, MFailover, MToPeer, MOwnEnds,
       MServed, MEnds, MTalk, MExecutes, MEvent, MBecomes, SameHost, SameRole, SameEntry
  <2> QED
    BY <1>5, <2>2, <2>3 DEF MOtherEnds, SameEntry
<1>7. conv[n].done = FailLen(n)
  <2>1. /\ conv[n].phase \in {"greeting", "answer"} /\ LastSent(conv[n]) /\ conv[n].inbox > 0
    BY <1>6 DEF Ended
  <2>2. Len(conv[n].cmds) = FailLen(n) /\ FailLen(n) \in Nat
    BY <1>4 DEF Talks, FailLen
  <2>3. /\ conv[n].next \in Nat /\ conv[n].done \in Nat /\ conv[n].inbox \in Nat
        /\ conv[n].done < conv[n].next /\ conv[n].next <= FailLen(n) + 1
        /\ conv[n].next + conv[n].inbox <= 2 + conv[n].done
    BY <1>4, <2>1, <2>2 DEF Counts, Conversing
  <2>4. conv[n].next > FailLen(n)
    BY <2>1, <2>2 DEF LastSent
  <2> QED
    BY <2>1, <2>2, <2>3, <2>4
<1>8. OwnGiven(n)
  <2>1. \A j \in 2 .. OwnLen(n) : j \in 1 .. OwnLen(n)
    BY DEF OwnLen
  <2> QED
    BY <2>1, OwnCmdsAre DEF OwnGiven
<1>9. Removed(n) = FailLen(n) /\ FailLen(n) # 0
  BY <1>7 DEF Removed, FailLen
<1>10. Left(n, FailLen(n))
  BY <1>4, <1>8, <1>9 DEF Stage
<1> QED
  BY <1>3, <1>10, AllLeftIsApart DEF Handled

(***************************************************************************)
(* In every behaviour, faults or not, each vm that lives and was sent no   *)
(* event has been told the commands of its start once and in order, and    *)
(* has the devices, blocks and export that the commands of do-failover     *)
(* executed so far have left (colod_start and colod_do_failover).          *)
(***************************************************************************)
THEOREM AlwaysLeaving == StartSpec => []Leaving
BY LeavingInit, LeavingStep, PTL DEF StartSpec

(***************************************************************************)
(* When do-failover answers success for a vm that lives, was started whole *)
(* and sent no event, QEMU has refused nothing and no device, object,      *)
(* export or mirror is left that waits for the other vm: the two lists     *)
(* name all there is, users before what they use (colod_do_failover).      *)
(***************************************************************************)
THEOREM FailoverLeavesNothing == StartSpec => FailoverTakesApart
<1> DEFINE Apart == \A n \in Node :
              /\ task[n] = "failover" /\ entry'[n].colo_status = "degrade"
              /\ Paired /\ ~Dead(n) /\ events = 0
              /\ vm[n].kind \in {"pvm", "svm"} /\ OwnCmds(n) \subseteq vm[n].given
              => TakenApart(n)
<1>1. Leaving /\ [StartNext]_startVars => [Apart]_startVars
  BY SucceedsWhenApart DEF Paired
<1> QED
  BY <1>1, AlwaysLeaving, PTL DEF StartSpec, FailoverTakesApart
=============================================================================
