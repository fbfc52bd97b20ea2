------------------------------- MODULE MCTool -------------------------------
(***************************************************************************)
(* The tool with two domains.  The command lines are every sequence of at  *)
(* most three of the tokens below, and one line for each thing a command   *)
(* can be asked; lengths of texts are cut to LenMod = 3, with names just   *)
(* below, at and above it.                                                 *)
(***************************************************************************)
EXTENDS ColoTool

CONSTANTS d1, d2

MCOption == DOMAIN Added
MCDescribed == Added

Tokens ==
  {Short(<<"t">>), Plain(Word(<<"start">>)), LongValue("command-type", Word(<<"colo-enable">>)),
   Long("domain"), LongValue("domain", Word(<<d1>>)), Long("colo"), Short(<<"r", "d">>), Dash,
   Short(<<"d", "r">>), Long("help"), Short(<<"x">>), LongValue("colo", Word(<<d1>>)),
   LongValue("checkpoint-time", Numeral(0)), LongValue("checkpoint-time", Word(<<d1>>))}

Lines(n) == UNION {[1 .. k -> Tokens] : k \in 0 .. n}

Line(command, more) == <<Short(<<"t">>), Plain(Word(<<command>>))>> \o more
OnDomainLine(command, name, more) == Line(command, <<LongValue("domain", Word(name))>> \o more)

NamesTyped == {<< >>, <<d1>>, <<d1, d2, d1>>, <<d2, d1, d2, d1>>}

MCTyped ==
  Lines(3)
  \cup {Line(c, << >>) : c \in command_type_map \cup {"unknown"}}
  \cup {OnDomainLine(c, <<d1>>, << >>) : c \in OnDomain}
  \cup {OnDomainLine("start", n, m) : n \in NamesTyped, m \in {<< >>, <<Long("colo")>>}}
  \cup {OnDomainLine("set-params", n, <<LongValue("max-queue-size", Numeral(7))>>) : n \in NamesTyped}
  \cup {OnDomainLine("set-params", <<d1>>, <<LongValue("max-queue-size", Numeral(7)),
                                             LongValue("compare-timeout", Numeral(7))>>)}
  \cup {Line("define", <<Long("vm-file"), Plain(Word(<<d1, d2>>))>>),
        Line("connect-peer", <<Short(<<"c">>), Plain(Word(<<d1, d2>>))>>),
        Line("list", <<Long("all")>>)}

MCAnswers == {[code |-> 0, msg |-> <<"shutoff">>], [code |-> -1, msg |-> <<d1, d1, d1, d1>>]}

\* Other callers and copies are let in while the tool has files to read: before it calls,
\* in the one command whose client reads any, on a domain that may be there.
Enabling == OnDomainLine("colo-enable", <<d1>>, << >>)

MCNext ==
  \/ ToolStep
  \/ Handle \/ Answer \/ define_writes \/ define_saves \/ Finishes \/ Crashes
  \/ /\ parsed = parse(Enabling) /\ pc # "call"
     /\ OtherCaller \/ peer_transfers

MCSpec == ToolInit /\ [][MCNext]_vars
=============================================================================
