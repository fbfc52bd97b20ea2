---------------------------- MODULE VmDefinition -----------------------------
(***************************************************************************)
(* The definition file of a virtual machine, as domain.cpp reads it.  The  *)
(* fields are read one after the other; the first that is not there makes  *)
(* vm_config_parse give up with a message, and one that is there but does  *)
(* not convert makes it throw, which no caller catches.  What is read is a *)
(* function of the field's path in the document.                           *)
(***************************************************************************)
EXTENDS Yaml, SequencesExt

Value(T, path)      == [path |-> path, type |-> T, scalar |-> FALSE]
ScalarNumber(path)  == [path |-> path, type |-> "number", scalar |-> TRUE]
Section(path)       == [path |-> path, type |-> "section", scalar |-> FALSE]
Values(T, in, keys) == [i \in DOMAIN keys |-> Value(T, Append(in, keys[i]))]

Fields ==
  <<Value("string", <<"qemu">>), ScalarNumber(<<"memory">>), ScalarNumber(<<"vcpu">>),
    Section(<<"os">>)>>
  \o Values("string", <<"os">>, <<"arch", "machine", "type", "OS">>)
  \o <<Value("string", <<"cpu">>), Section(<<"disk">>), Value("string", <<"disk", "driver">>),
       ScalarNumber(<<"disk", "size">>)>>
  \o Values("string", <<"disk">>, <<"path", "hidden_path", "active_path">>)
  \o <<Section(<<"display">>), Value("port", <<"display", "vnc_port">>), Section(<<"net">>)>>
  \o Values("string", <<"net">>, <<"id", "br", "helper", "mac">>)
  \o <<Section(<<"colo">>), Section(<<"colo", "pri">>)>>
  \o Values("port", <<"colo", "pri">>,
            <<"telnet_port", "mirror_port", "cmp0_port", "cmp1_port", "cmp_out_port">>)
  \o <<Section(<<"colo", "sec">>)>>
  \o Values("port", <<"colo", "sec">>,
            <<"telnet_port", "nbd_port", "migrate_port", "red0_port", "red1_port">>)

NodeAt(config, path) ==
  LET upTo[i \in 0 .. Len(path)] == IF i = 0 THEN config ELSE Get(upTo[i - 1], path[i])
  IN upTo[Len(path)]

\* (The variant is not the code: the check that the node is there is left out.)
Reading_unchecked(config, f) ==
  LET n == NodeAt(config, f.path)
  IN IF n = Throws \/ (f.type # "section" /\ ~Converts(n, f.type)) THEN "throws" ELSE "ok"

\* What becomes of the reading of one field.
Reading(config, f) ==
  LET n == NodeAt(config, f.path)
  IN IF n = Throws THEN "throws"
     ELSE IF ~IsDefined(n) \/ (f.scalar /\ ~IsScalar(n)) THEN "err"
     ELSE IF f.type # "section" /\ ~Converts(n, f.type) THEN "throws"
     ELSE "ok"

ValuePaths == {<<"name">>} \cup {f.path : f \in {g \in ToSet(Fields) : g.type # "section"}}

\* The name is read without a check.
vm_config_parse(config) ==
  LET stops == {i \in DOMAIN Fields : Reading(config, Fields[i]) # "ok"}
  IN IF ~Converts(Get(config, "name"), "string") THEN [result |-> "throws", domain |-> << >>]
     ELSE IF stops # {}
     THEN [result |-> Reading(config, Fields[Min(stops)]), domain |-> << >>]
     ELSE [result |-> "ok", domain |-> [p \in ValuePaths |-> as_T(NodeAt(config, p))]]

\* The document is not const here; a file that cannot be opened throws.
vm_define(config) ==
  LET name == At(config, "name")
  IN IF name = Throws THEN "throws"
     ELSE IF ~IsDefined(name) THEN "err"
     ELSE IF ~Converts(name, "string") THEN "throws"
     ELSE IF as_T(name) = "save" THEN "err"
     ELSE vm_config_parse(config).result

-----------------------------------------------------------------------------
(***************************************************************************)
(* What a definition should be, said without the order of the code: a      *)
(* field is missing when its key, or a section it stands in, is not there; *)
(* a definition is ill-typed when a value is there that is not of its      *)
(* field's kind.                                                           *)
(***************************************************************************)
Missing(config, f) == \E k \in DOMAIN f.path : NodeAt(config, SubSeq(f.path, 1, k)) = Zombie

IllTyped(config, f) ==
  ~Missing(config, f) /\ f.type # "section" /\ ~Converts(NodeAt(config, f.path), f.type)

Complete(config) ==
  \A f \in ToSet(Fields) : ~Missing(config, f) /\ ~IllTyped(config, f)
=============================================================================
