---------------------------- MODULE Wire_proofs ------------------------------
(***************************************************************************)
(* What is read of a message is what was written, for texts of any length, *)
(* whatever follows them and whatever the width of a length is.            *)
(***************************************************************************)
EXTENDS Wire, SequenceTheorems, TLAPS

\* The cells of a message over an alphabet.
CellsOf(Cells, Char) ==
  /\ \A n \in Nat : Cell("length", n) \in Cells
  /\ \A c \in Char : Cell("char", c) \in Cells

\* A text that is written is one cell for its length and one for each character
\* that the length still counts.
LEMMA WrittenString ==
  ASSUME NEW Char, NEW Cells, CellsOf(Cells, Char), NEW s \in Seq(Char)
  PROVE  /\ WriteString(s) \in Seq(Cells)
         /\ Len(WriteString(s)) = (Len(s) % LenMod) + 1
         /\ WriteString(s)[1] = Cell("length", Len(s) % LenMod)
         /\ \A i \in 1 .. Len(s) % LenMod : WriteString(s)[i + 1] = Cell("char", s[i])
<1> DEFINE len == Len(s) % LenMod
           chars == [i \in 1 .. len |-> Cell("char", s[i])]
<1>1. len \in Nat /\ len <= Len(s)
  BY LenModAssumption
<1>2. chars \in Seq(Cells) /\ Len(chars) = len
  BY <1>1 DEF CellsOf
<1>3. <<Cell("length", len)>> \in Seq(Cells) /\ Len(<<Cell("length", len)>>) = 1
  BY <1>1 DEF CellsOf
<1>4. WriteString(s) = <<Cell("length", len)>> \o chars
  BY DEF WriteString
<1> HIDE DEF len, chars
<1>5. \A i \in 1 .. len : chars[i] = Cell("char", s[i])
  BY DEF chars
<1>6. QED
  BY <1>1, <1>2, <1>3, <1>4, <1>5 DEF len

(***************************************************************************)
(* A text arrives cut to what its length counts, and the values after it   *)
(* arrive where the reader looks for them: Serializer.hpp's input_type and *)
(* output_type for strings, by which every function name, every argument   *)
(* and every answer travels.                                               *)
(***************************************************************************)
THEOREM StringArrives ==
  ASSUME NEW Char, NEW Cells, CellsOf(Cells, Char), NEW s \in Seq(Char), NEW rest \in Seq(Cells)
  PROVE  ReadString(WriteString(s) \o rest) = Took(Sent(s), rest)
<1> DEFINE len == Len(s) % LenMod
           in == WriteString(s) \o rest
<1>1. len \in Nat /\ len <= Len(s)
  BY LenModAssumption
<1>w. /\ WriteString(s) \in Seq(Cells)
      /\ Len(WriteString(s)) = len + 1
      /\ WriteString(s)[1] = Cell("length", len)
      /\ \A i \in 1 .. len : WriteString(s)[i + 1] = Cell("char", s[i])
  BY WrittenString
<1> HIDE DEF len
<1>2. in \in Seq(Cells) /\ Len(in) = len + 1 + Len(rest)
  BY <1>1, <1>w
<1>3. in[1] = Cell("length", len)
  BY <1>1, <1>w
<1>4. \A i \in 1 .. len : in[i + 1] = Cell("char", s[i])
  BY <1>1, <1>w
<1>5. \A i \in 1 .. Len(rest) : in[len + 1 + i] = rest[i]
  BY <1>1, <1>w
<1> HIDE DEF in
<1>6. Head(in).type = "length" /\ Head(in).v = len /\ in # << >> /\ Len(Tail(in)) = len + Len(rest)
  BY <1>1, <1>2, <1>3 DEF Cell
<1>7. [i \in 1 .. len |-> in[i + 1].v] = Sent(s)
  <2>1. ASSUME NEW i \in 1 .. len PROVE in[i + 1].v = s[i]
    <3>1. in[i + 1] = Cell("char", s[i])
      BY <1>4
    <3>2. QED
      BY <3>1 DEF Cell
  <2>2. Sent(s) = [i \in 1 .. len |-> s[i]]
    <3>1. SubSeq(s, 1, len) = [i \in 1 .. len |-> s[i]]
      BY <1>1
    <3>2. QED
      BY <3>1 DEF Sent, len
  <2>3. QED
    BY <2>1, <2>2
<1>8. SubSeq(in, len + 2, Len(in)) = rest
  <2>1. SubSeq(in, len + 2, Len(in)) \in Seq(Cells) /\ Len(SubSeq(in, len + 2, Len(in))) = Len(rest)
    BY <1>1, <1>2
  <2>2. \A i \in 1 .. Len(rest) : SubSeq(in, len + 2, Len(in))[i] = rest[i]
    BY <1>1, <1>2, <1>5
  <2>3. QED
    BY <2>1, <2>2, SeqEqual
<1>9. ~(len > Len(Tail(in)))
  BY <1>1, <1>6
<1>10. ReadString(in) = Took([i \in 1 .. len |-> in[i + 1].v], SubSeq(in, len + 2, Len(in)))
  BY <1>6, <1>9 DEF ReadString
<1>11. QED
  BY <1>7, <1>8, <1>10 DEF in

(***************************************************************************)
(* The server looks the function up under the name the caller gave, cut if *)
(* it is too long, and hands its handler exactly the arguments' cells and  *)
(* three spare ones: net_call's one byte more and run's two (buttonrpc.hpp *)
(* 284, 341).                                                              *)
(***************************************************************************)
THEOREM RequestArrives ==
  ASSUME NEW Char, NEW Cells, CellsOf(Cells, Char), Cell("spare", 0) \in Cells,
         NEW name \in Seq(Char), NEW types, NEW args, WriteAll(types, args) \in Seq(Cells)
  PROVE  LET request == net_call_request(name, types, args)
         IN /\ request_name(request) = Sent(name)
            /\ request_data(request) = WriteAll(types, args) \o Spare \o Spare \o Spare
<1> DEFINE W == WriteString(name)
           A == WriteAll(types, args)
<1>1. W \in Seq(Cells)
  BY WrittenString
<1>2. Spare \in Seq(Cells)
  BY DEF Spare
<1> HIDE DEF W, A
<1>3. A \in Seq(Cells)
  BY DEF A
<1>4. net_call_request(name, types, args) = W \o (A \o Spare)
  <2>1. net_call_request(name, types, args) = (W \o A) \o Spare
    BY DEF net_call_request, W, A
  <2>2. (W \o A) \o Spare = W \o (A \o Spare)
    BY <1>1, <1>2, <1>3, ConcatAssociative
  <2>3. QED
    BY <2>1, <2>2
<1>5. A \o Spare \in Seq(Cells)
  BY <1>2, <1>3
<1>6. ReadString(W \o (A \o Spare)) = Took(Sent(name), A \o Spare)
  BY <1>5, StringArrives DEF W
<1>7. QED
  BY <1>4, <1>6 DEF request_name, request_data, Took, A
=============================================================================
