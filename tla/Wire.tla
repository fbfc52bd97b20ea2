-------------------------------- MODULE Wire ---------------------------------
(***************************************************************************)
(* The bytes of a call and of its answer (include/Serializer.hpp, the      *)
(* templates of buttonrpc.hpp, and the operators << and >> of the structs  *)
(* that are sent).  A message is a sequence of cells: one for a value of   *)
(* fixed size, one for the length of a string, one for each character.     *)
(* Nothing in a message says where a value ends; sender and receiver agree *)
(* because they list the same fields.                                      *)
(*                                                                         *)
(* A length is 16 bits wide; it is cut to LenMod here, and the text with   *)
(* it.                                                                     *)
(***************************************************************************)
EXTENDS Integers, Sequences

CONSTANTS
  LenMod,  \* 2^16
  Garbage  \* what is read where nothing, or something else, was written

ASSUME LenModAssumption == LenMod \in Nat /\ LenMod > 1

Cell(type, v) == [type |-> type, v |-> v]

\* input_type<T>: a value of fixed size.
WritePod(type, v) == <<Cell(type, v)>>

\* (The variant is not the code: the length is cut and the text is not.)
WriteStringWhole(s) ==
  <<Cell("length", Len(s) % LenMod)>> \o [i \in 1 .. Len(s) |-> Cell("char", s[i])]

\* input_type<std::string>: the length, cut to its width, and that many characters.
WriteString(s) ==
  LET len == Len(s) % LenMod
  IN <<Cell("length", len)>> \o [i \in 1 .. len |-> Cell("char", s[i])]

Write(type, v) == IF type = "string" THEN WriteString(v) ELSE WritePod(type, v)

\* (The operators below read one value and return it with what follows.)
Took(v, rest) == [v |-> v, rest |-> rest]

\* output_type<T>: at the end of the stream the variable keeps what it held.
ReadPod(in, type) ==
  IF in = << >> THEN Took(Garbage, << >>)
  ELSE Took(IF Head(in).type = type THEN Head(in).v ELSE Garbage, Tail(in))

\* output_type<std::string>: no test for the end of the stream.
ReadString(in) ==
  IF in = << >> \/ Head(in).type # "length" THEN Took(Garbage, << >>)
  ELSE LET len == Head(in).v
       IN IF len > Len(Tail(in)) THEN Took(Garbage, << >>)
          ELSE Took([i \in 1 .. len |-> in[i + 1].v], SubSeq(in, len + 2, Len(in)))

Read(in, type) == IF type = "string" THEN ReadString(in) ELSE ReadPod(in, type)

\* What a string is after it was sent.
Sent(s) == SubSeq(s, 1, Len(s) % LenMod)

-----------------------------------------------------------------------------
\* Fields in a row: package_params and the operators << of the structs;
\* get_tuple and the operators >>.

WriteAll(types, values) ==
  LET out[i \in 0 .. Len(types)] ==
        IF i = 0 THEN << >> ELSE out[i - 1] \o Write(types[i], values[i])
  IN out[Len(types)]

ReadAll(in, types) ==
  LET got[i \in 0 .. Len(types)] ==
        IF i = 0 THEN [values |-> << >>, rest |-> in]
        ELSE LET t == Read(got[i - 1].rest, types[i])
             IN [values |-> Append(got[i - 1].values, t.v), rest |-> t.rest]
  IN got[Len(types)]

colo_status_fields ==
  <<"enum", "int", "string", "string", "string", "string", "string", "string">>
colod_domain_status_fields == <<"int", "string", "enum", "bool", "enum", "string">>
colod_ret_val_fields == <<"int", "string">>

(***************************************************************************)
(* A request is the name of the function, its arguments, and one byte more *)
(* than was written.  The server passes on what follows the name, with a   *)
(* size that is two bytes too long.                                        *)
(***************************************************************************)
Spare == <<Cell("spare", 0)>>

net_call_request(name, types, args) ==
  WriteString(name) \o WriteAll(types, args) \o Spare

request_name(in) == ReadString(in).v
request_data(in) == ReadString(in).rest \o Spare \o Spare

\* call_ and callproxy_: the answer of a handler, or to a name without one.
answer(val) ==
  WriteAll(<<"code", "string">>, <<0, << >>>>)
    \o WriteAll(colod_ret_val_fields, <<val.code, val.msg>>)
answer_not_bound(name) == WriteAll(<<"code", "string">>, <<1, <<"function not bind: ">> \o name>>)

\* value_t: the value is read only when the call succeeded.
read_answer(in) ==
  LET head == ReadAll(in, <<"code", "string">>)
      val  == ReadAll(head.rest, colod_ret_val_fields).values
  IN IF head.values[1] # 0
     THEN [error_code |-> head.values[1], code |-> Garbage, msg |-> Garbage]
     ELSE [error_code |-> 0, code |-> val[1], msg |-> val[2]]
=============================================================================
