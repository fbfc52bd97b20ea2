------------------------------- MODULE ColoTool -------------------------------
(***************************************************************************)
(* One run of colo_manage_tools (src/main.cpp): the command line, the      *)
(* call to the colod of its own host over buttonrpc, and for colo-enable   *)
(* the part the tool does itself, reading the save file and the definition *)
(* file colod writes.  The tool is a process of its own, so it reads at    *)
(* any moment of a write.                                                  *)
(*                                                                         *)
(* colod is seen from outside: it takes a request, may write the save file *)
(* for it, and answers; and it serves other callers meanwhile.  ColodHost  *)
(* and ColodPair model what its handlers do.                               *)
(***************************************************************************)
EXTENDS CommandLine, Wire, SaveList

CONSTANTS
  Typed,        \* the command lines an operator types
  Answers,      \* colod's answers: a code and a text each
  OtherCalls,   \* the functions other callers have colod run meanwhile
  Copied,       \* the domains the tool of the other host copies to here
  NoMessage     \* no request, no answer

ASSUME TypedAssumption == \A line \in Typed : IsLine(line)
ASSUME AnswersAssumption == \A a \in Answers : IsSeq(a.msg)

VARIABLES
  pc,           \* where the tool is
  argv,         \* what was typed, until it has been acted on
  parsed,       \* what the parser made of it
  request,      \* the message on its way to colod
  m_error_code, \* of the tool's client
  handling,     \* the call colod is serving for the tool
  reply,        \* the message on its way to the tool
  served,       \* the calls of the tool that colod has taken, with their answers
  said          \* how the tool ended: what it printed last

toolVars == <<pc, argv, parsed, request, m_error_code, handling, reply, served, said>>

VARIABLES
  definition,   \* the definition file of each domain: none, empty or whole
  defining,     \* the define colod is at, and its next step
  torn,         \* the domains whose last define was cut short by the end of colod
  copied        \* the domains the tool of the other host has copied to here

definitionVars == <<definition, defining, torn, copied>>
vars == <<toolVars, listVars, definitionVars>>

NoDefine == [of |-> NoName, next |-> "none"]

-----------------------------------------------------------------------------
\* The options main adds, and help, which parse_check adds.

Opt(type, need, letter, default) ==
  [type |-> type, need |-> need, letter |-> letter, default |-> default]
Added ==
  [n \in {"command-type", "vm-file", "config-file", "domain", "qmp-command", "all", "colo",
          "checkpoint-time", "compare-timeout", "max-queue-size", "restart-colod", "help"} |->
     CASE n = "command-type"    -> Opt("string", TRUE, "t", Word(<< >>))
       [] n = "vm-file"         -> Opt("string", FALSE, "v", Word(<< >>))
       [] n = "config-file"     -> Opt("string", FALSE, "c", Word(<< >>))
       [] n = "domain"          -> Opt("string", FALSE, "d", Word(<< >>))
       [] n = "qmp-command"     -> Opt("string", FALSE, "q", Word(<< >>))
       [] n \in {"all", "colo"} -> Opt("flag", FALSE, NoLetter, Word(<< >>))
       [] n \in {"checkpoint-time", "compare-timeout"} -> Opt("int", FALSE, NoLetter, Numeral(1000))
       [] n = "max-queue-size"  -> Opt("int", FALSE, NoLetter, Numeral(65535))
       [] n = "restart-colod"   -> Opt("flag", FALSE, "r", Word(<< >>))
       [] n = "help"            -> Opt("flag", FALSE, "?", Word(<< >>))]

ASSUME OptionsAdded == Option = DOMAIN Added /\ Described = Added

-----------------------------------------------------------------------------
\* The commands: what each needs, and the arguments of its call.

Properties == {"checkpoint-time", "compare-timeout", "max-queue-size"}
OnDomain == {"undefine", "start", "destroy", "colo-enable", "colo-disable", "vm-status",
             "set-params", "do-failover"}
command_type_map == OnDomain \cup {"connect-peer", "connect-status", "define", "list"}

Command == get(parsed, "command-type").text
Given(o) == get(parsed, o).text
GivenProperties == {o \in Properties : exist(parsed, o)}

\* What main prints instead of calling, or "go on".
Refusal(p) ==
  LET c == get(p, "command-type").text
      given == {o \in Properties : exist(p, o)} IN
  IF exist(p, "restart-colod") THEN "todo : restart colod."
  ELSE IF c \notin {<<k>> : k \in command_type_map} THEN "is not defined!"
  ELSE CASE c = <<"define">> /\ ~exist(p, "vm-file") -> "no vm definition file"
         [] c \in {<<k>> : k \in OnDomain} /\ ~exist(p, "domain") -> "no domain name."
         [] c = <<"set-params">> /\ exist(p, "domain") /\ given = {} -> "no params to set."
         [] c = <<"set-params">> /\ exist(p, "domain") /\ Cardinality(given) > 1 ->
              "can only set one param."
         [] OTHER -> "go on"

DefaultConfigFile == <<"default_config.yaml">>

\* The arguments main passes, and their types in main ...
Arguments(name) ==
  CASE name = <<"connect-peer">> ->
         <<IF exist(parsed, "config-file") THEN Given("config-file") ELSE DefaultConfigFile>>
    [] name = <<"connect-status">> -> << >>
    [] name = <<"define">> -> <<Given("vm-file")>>
    [] name = <<"list">> -> <<exist(parsed, "all")>>
    [] name = <<"start">> -> <<Given("domain"), exist(parsed, "colo")>>
    [] name = <<"set-params">> ->
         LET property == CHOOSE o \in GivenProperties : TRUE
         IN <<Given("domain"), <<property>>, get(parsed, property).number>>
    [] OTHER -> <<Given("domain")>>

ArgumentTypes(name) ==
  CASE name = <<"connect-status">> -> << >>
    [] name = <<"list">> -> <<"bool">>
    [] name = <<"start">> -> <<"string", "bool">>
    [] name = <<"set-params">> -> <<"string", "string", "int">>
    [] OTHER -> <<"string">>

\* ... and the parameters of the functions colod binds to the names.
BoundNames ==
  command_type_map \cup {"connect-test", "connect-reply", "domain-test", "peer-destroy-domain",
                         "peer-start-domain", "peer-send-qmpcmds", "peer-save-status",
                         "peer-save-domain"}
BoundTypes(k) ==
  CASE k \in {"connect-status", "connect-test", "connect-reply"} -> << >>
    [] k = "list" -> <<"bool">>
    [] k \in {"start", "peer-start-domain"} -> <<"string", "bool">>
    [] k = "set-params" -> <<"string", "string", "int">>
    [] k = "peer-send-qmpcmds" -> <<"string", "enum">>
    [] k = "peer-save-status" -> colo_status_fields
    [] k = "peer-save-domain" -> colod_domain_status_fields
    [] OTHER -> <<"string">>
Bound == [name \in {<<k>> : k \in BoundNames} |-> BoundTypes(name[1])]

-----------------------------------------------------------------------------
ToolInit ==
  /\ pc = "pretest" /\ argv \in Typed /\ parsed = parse(<< >>)
  /\ request = NoMessage /\ m_error_code = "success" /\ handling = NoMessage
  /\ reply = NoMessage /\ served = << >> /\ said = << >>
  /\ ListInit
  /\ definition = [d \in Domain |-> "none"] /\ defining = NoDefine /\ torn = {} /\ copied = {}

Ends(how) == pc' = "ended" /\ said' = how

\* colod_pretest: the tool goes on only when pidof finds a colod.
pretest ==
  /\ pc = "pretest"
  /\ \/ Ends(<<"please start colod.">>) /\ UNCHANGED parsed
     \/ pc' = "parsed" /\ parsed' = parse(argv) /\ UNCHANGED said
  /\ UNCHANGED <<argv, request, m_error_code, handling, reply, served, listVars, definitionVars>>

\* net_call up to its receive; after a timeout the client sends nothing.
Call(name, types, args) ==
  /\ IF m_error_code = "recv_timeout" THEN UNCHANGED request
     ELSE request' = net_call_request(name, types, args)
  /\ argv' = << >>
  /\ UNCHANGED <<parsed, m_error_code, handling, reply, served, said, listVars, definitionVars>>

\* parse_check and the tests of main that come before a call.
refuse ==
  /\ pc = "parsed"
  /\ \/ Checked(argv, parsed) # "go on" /\ Ends(<<Checked(argv, parsed)>>)
     \/ Checked(argv, parsed) = "go on" /\ Refusal(parsed) # "go on" /\ Ends(<<Refusal(parsed)>>)
  /\ argv' = << >>
  /\ UNCHANGED <<parsed, request, m_error_code, handling, reply, served, listVars, definitionVars>>

\* colo-enable asks for the state of the domain first.
first_call ==
  /\ pc = "parsed" /\ Checked(argv, parsed) = "go on" /\ Refusal(parsed) = "go on"
  /\ IF Command = <<"colo-enable">>
     THEN pc' = "test" /\ Call(<<"domain-test">>, <<"string">>, <<Given("domain")>>)
     ELSE pc' = "call" /\ Call(Command, ArgumentTypes(Command), Arguments(Command))

Waiting == pc \in {"test", "call"}

\* (The variant is not the code: the tool goes on when the test is not answered.)
recv_timeout_goes_on ==
  /\ Waiting
  /\ m_error_code' = "recv_timeout"
  /\ IF pc = "test" THEN pc' = "get_domain" /\ UNCHANGED said
     ELSE Ends(<<"connect to colod timeout.">>)
  /\ UNCHANGED <<argv, parsed, request, handling, reply, served, listVars, definitionVars>>

\* 20 s without an answer.
recv_timeout ==
  /\ Waiting
  /\ m_error_code' = "recv_timeout"
  /\ Ends(<<"connect to colod timeout.">>)
  /\ UNCHANGED <<argv, parsed, request, handling, reply, served, listVars, definitionVars>>

\* The answer.  It is printed whatever its code is, and main exits with 0.
recv_reply ==
  /\ Waiting /\ reply # NoMessage
  /\ LET got == read_answer(reply) IN
     CASE got.error_code # 0 -> Ends(<<"connect to colod timeout.">>)
       [] got.error_code = 0 /\ pc = "call" -> Ends(<<got.code, got.msg>>)
       [] OTHER -> IF got.msg = <<"shutoff">> THEN pc' = "get_domain" /\ UNCHANGED said
                   ELSE Ends(<<"canot colo enable a running domain.">>)
  /\ reply' = NoMessage /\ m_error_code' = "success"
  /\ UNCHANGED <<argv, parsed, request, handling, served, listVars, definitionVars>>

-----------------------------------------------------------------------------
(***************************************************************************)
(* colo_enable of domain.cpp, run by the tool: three reads of the save     *)
(* file and two copies with scp, whose results are not used.  Its own      *)
(* failure is printed and the call is made all the same.                   *)
(***************************************************************************)
Unchanged == UNCHANGED <<argv, parsed, request, m_error_code, handling, reply, served, listVars, definitionVars>>
EnableCall == pc' = "call" /\ Call(<<"colo-enable">>, <<"string">>, <<Given("domain")>>)

\* Names that are in the list are of one character.
TypedDomain == IF Len(Given("domain")) = 1 THEN Given("domain")[1] ELSE NoName

\* get_domain looks for the record in the save file; LoadFile of an empty path throws.
get_domain ==
  /\ pc = "get_domain"
  /\ \/ HasDomain(disk, TypedDomain) /\ ~PathNamed(disk, TypedDomain)
        /\ Ends(<<"exception">>) /\ Unchanged
     \/ HasDomain(disk, TypedDomain) /\ PathNamed(disk, TypedDomain)
        /\ pc' = "load_definition" /\ UNCHANGED said /\ Unchanged
     \/ ~HasDomain(disk, TypedDomain) /\ EnableCall

\* Then it loads the definition file the record names: LoadFile throws when there is
\* none, and vm_config_parse, which converts the name untested, when it is empty.
\* A whole one may still be refused.
load_definition ==
  /\ pc = "load_definition"
  /\ \/ definition[TypedDomain] # "whole" /\ Ends(<<"exception">>) /\ Unchanged
     \/ definition[TypedDomain] = "whole" /\ pc' = "get_path" /\ UNCHANGED said /\ Unchanged
     \/ definition[TypedDomain] = "whole" /\ EnableCall

get_domain_config_file_path ==
  /\ pc = "get_path"
  /\ \/ HasDomain(disk, TypedDomain) /\ pc' = "get_status" /\ UNCHANGED said /\ Unchanged
     \/ ~HasDomain(disk, TypedDomain) /\ EnableCall

transfer ==
  /\ pc = "get_status"
  /\ \/ ConnectStatusReads(disk) /\ EnableCall
     \/ ~ConnectStatusReads(disk) /\ Ends(<<"exception">>) /\ Unchanged

-----------------------------------------------------------------------------
\* colod, one thread: between two calls it may serve others.

UnchangedTool == UNCHANGED <<pc, argv, parsed, m_error_code, said>>
Idle == handling = NoMessage /\ after = NoDocument /\ defining = NoDefine

\* The domain a handler writes for: the name it got, or the name in a file.
Concerns(function, args, d) ==
  function \in OnDomain => args[1] = <<d>>

(***************************************************************************)
(* colod_define: vm_define has save_new_vm_file truncate the definition    *)
(* file and write it, and only then save_domain_info writes the list.  The *)
(* file is in the directory of the save file, and undefine leaves it.      *)
(***************************************************************************)
define_truncates(d) ==
  /\ defining' = [of |-> d, next |-> "write"]
  /\ definition' = [definition EXCEPT ![d] = "empty"]
  /\ UNCHANGED <<torn, copied, listVars>>

\* (The variant is not the code: the stream is still to be flushed when the list is saved.)
define_writes_later ==
  /\ defining.next = "write"
  /\ defining' = [defining EXCEPT !.next = "save"]
  /\ torn' = torn \ {defining.of}
  /\ UNCHANGED <<definition, copied, toolVars, listVars>>

define_writes ==
  /\ defining.next = "write"
  /\ definition' = [definition EXCEPT ![defining.of] = "whole"]
  /\ defining' = [defining EXCEPT !.next = "save"]
  /\ torn' = torn \ {defining.of}
  /\ UNCHANGED <<copied, toolVars, listVars>>

define_saves ==
  /\ defining.next = "save"
  /\ \/ WrongFormat(disk) /\ UNCHANGED listVars
     \/ \E doc \in Written("define", defining.of) : Truncate(doc)
  /\ defining' = NoDefine
  /\ UNCHANGED <<definition, torn, copied, toolVars>>

\* A handler that writes begins to.  The tool of the other host has tried to copy the
\* definition before its colod has the entry saved here.
Begins(function, d) ==
  \/ function = "define" /\ define_truncates(d)
  \/ /\ function # "define"
     /\ \E doc \in Written(function, d) : Truncate(doc)
     /\ copied' = IF function = "peer-save-domain" THEN copied \cup {d} ELSE copied
     /\ UNCHANGED <<definition, defining, torn>>

\* transfer_file of the tool of the other host: scp empties the file and writes it.
\* (It is followed from the test of a domain to the last read.)
peer_transfers ==
  /\ pc \in {"test", "get_domain", "load_definition", "get_path", "get_status"}
  /\ \E d \in Copied \cap Domain, state \in {"empty", "whole"} :
       /\ definition' = [definition EXCEPT ![d] = state]
       /\ copied' = copied \cup {d}
  /\ UNCHANGED <<defining, torn, toolVars, listVars>>

Handle ==
  /\ Idle /\ request # NoMessage
  /\ LET name == request_name(request)
         args == IF name \in DOMAIN Bound
                 THEN ReadAll(request_data(request), Bound[name]).values ELSE << >>
     IN /\ handling' = [name |-> name, args |-> args]
        /\ \/ UNCHANGED <<listVars, definitionVars>>
           \/ /\ name \in DOMAIN Bound
              /\ \E d \in Domain : Concerns(name[1], args, d) /\ Begins(name[1], d)
  /\ request' = NoMessage
  /\ UNCHANGED <<reply, served>> /\ UnchangedTool

Answer ==
  /\ handling # NoMessage /\ after = NoDocument /\ defining = NoDefine
  /\ \E val \in Answers :
       /\ reply' = IF pc = "ended" THEN NoMessage
                   ELSE IF handling.name \in DOMAIN Bound THEN answer(val)
                   ELSE answer_not_bound(handling.name)
       /\ served' = Append(served, [call |-> handling, val |-> val])
  /\ handling' = NoMessage
  /\ UNCHANGED <<request, listVars, definitionVars>> /\ UnchangedTool

\* (Other callers are followed while the tool is calling.)
OtherCaller ==
  /\ Idle /\ pc \notin {"pretest", "parsed", "ended"}
  /\ \E d \in Domain, function \in OtherCalls : Begins(function, d)
  /\ UNCHANGED toolVars

Finishes == WriteOut /\ UNCHANGED <<toolVars, definitionVars>>

\* colod ends, and with it the call it was serving; it leaves what it was writing.
Crashes ==
  /\ EndsInWrite \/ (after = NoDocument /\ UNCHANGED listVars)
  /\ torn' = IF defining.next = "write" THEN torn \cup {defining.of} ELSE torn
  /\ defining' = NoDefine
  /\ handling' = NoMessage
  /\ UNCHANGED <<request, reply, served, definition, copied>> /\ UnchangedTool

ToolStep ==
  \/ pretest \/ refuse \/ first_call \/ recv_timeout \/ recv_reply
  \/ get_domain \/ load_definition \/ get_domain_config_file_path \/ transfer
ColodStep ==
  \/ Handle \/ Answer \/ OtherCaller \/ define_writes \/ define_saves \/ Finishes \/ Crashes
  \/ peer_transfers

ToolNext == ToolStep \/ ColodStep
ToolSpec == ToolInit /\ [][ToolNext]_vars

-----------------------------------------------------------------------------
\* The command line means what it says, or is refused: whatever shapes the
\* arguments have, and in whatever order they come.
MeansWhatItSays == pc = "parsed" => Means(argv, parsed)

\* colod runs the function of the command that was typed (or the test that goes
\* before it) on the arguments that were typed, whatever their lengths: a text
\* that is too long is cut, and the arguments after it arrive whole.
HandlerGetsWhatWasTyped ==
  handling # NoMessage =>
    LET test  == handling.name = <<"domain-test">> /\ Command = <<"colo-enable">>
        typed == IF test THEN <<Given("domain")>> ELSE Arguments(Command)
        types == IF test THEN <<"string">> ELSE ArgumentTypes(Command)
    IN /\ test \/ handling.name = Command
       /\ handling.args = [i \in DOMAIN typed |->
                             IF types[i] = "string" THEN Sent(typed[i]) ELSE typed[i]]

\* What the tool prints as the answer is what colod answered to the command that
\* was typed, never the answer to the test before it.
SaidIsTheAnswer ==
  Len(said) = 2 =>
    /\ served # << >>
    /\ LET last == Last(served)
       IN last.call.name = Command /\ said = <<last.val.code, Sent(last.val.msg)>>

\* The tool ends with an exception only at a record whose path is empty, at a
\* definition file that a define is writing or was cut short in writing, or the other
\* host's tool copies, and for the addresses only in the middle of a write of the save
\* file or after one that was cut short.  A record that can be read never names a
\* definition that is not there, though the tool finds the one and loads the other.
ExceptionOnlyOnCutFile ==
  [][said # said' /\ said' = <<"exception">> =>
       CASE pc = "get_domain"      -> ~PathNamed(disk, TypedDomain)
         [] pc = "load_definition" -> \/ defining = [of |-> TypedDomain, next |-> "write"]
                                      \/ TypedDomain \in torn \cup copied
         [] pc = "get_status"      -> disk = Null \/ cut
         [] OTHER                  -> FALSE]_vars
=============================================================================
