----------------------------- MODULE CommandLine -----------------------------
(***************************************************************************)
(* The option parser of the tool (include/commandline.h).  An argument is  *)
(* a token of one of five shapes: --name, --name=value, a cluster of       *)
(* letters after one dash, a dash alone, a word.  The text of an argument  *)
(* is a sequence of characters; a name is one character here.              *)
(*                                                                         *)
(* An option is described by whether it takes a value and of which type,   *)
(* whether it is required, and its letter.                                 *)
(***************************************************************************)
EXTENDS Integers, Sequences, SequencesExt

CONSTANTS
  Option,     \* the names of the options that were added
  Described,  \* Described[o] = [type : "flag", "string", "int"; need; letter; default]
  NoLetter,   \* the letter of an option that has none
  None        \* no option

ASSUME LettersDiffer ==
  \A o, p \in Option :
    Described[o].letter = Described[p].letter /\ o # p => Described[o].letter = NoLetter
ASSUME OptionsFinite == IsFiniteSet(Option)
ASSUME NoneIsNoOption == None \notin Option

\* A text, a list of letters, a command line: a sequence, of whatever.
IsSeq(s) == s \in Seq({s[i] : i \in 1 .. Len(s)})

ASSUME DefaultsAreTexts == \A o \in Option : IsSeq(Described[o].default.text)

\* Texts: a word, and a word that lexical_cast reads as an int.
Word(s) == [reads |-> "text", text |-> s, number |-> 0]
Numeral(n) == [reads |-> "int", text |-> <<"0">>, number |-> n]

Long(name)          == [shape |-> "long", name |-> name]
LongValue(name, v)  == [shape |-> "assign", name |-> name, value |-> v]
Short(letters)      == [shape |-> "short", letters |-> letters]
Dash                == [shape |-> "dash"]
Plain(v)            == [shape |-> "word", value |-> v]

\* What main is given: any sequence of such arguments; a cluster has a letter.
IsToken(t) ==
  /\ t.shape \in {"long", "assign", "short", "dash", "word"}
  /\ t.shape \in {"assign", "word"} => IsSeq(t.value.text)
  /\ t.shape = "short" => IsSeq(t.letters) /\ t.letters # << >>
IsLine(argv) == IsSeq(argv) /\ \A i \in 1 .. Len(argv) : IsToken(argv[i])

\* An argument that is taken for the value of the option before it.
TextOf(token) ==
  CASE token.shape = "word"   -> token.value
    [] token.shape = "long"   -> Word(<<"--", token.name>>)
    [] token.shape = "assign" -> Word(<<"--", token.name, "=">> \o token.value.text)
    [] token.shape = "short"  -> Word(<<"-">> \o token.letters)
    [] token.shape = "dash"   -> Word(<<"-">>)

has_value(o) == Described[o].type # "flag"
Reads(o, v)  == has_value(o) /\ (Described[o].type = "int" => v.reads = "int")

Unset == [o \in Option |-> [has |-> FALSE, actual |-> Described[o].default]]

-----------------------------------------------------------------------------
\* The state of the scan: the options, the errors so far, and the option whose
\* value is the next argument.

Error(st, what, name) == [st EXCEPT !.errors = Append(@, <<what, name>>)]

set_option(st, name) ==
  IF name \notin Option THEN Error(st, "undefined option", name)
  ELSE IF has_value(name) THEN Error(st, "option needs value", name)
  ELSE [st EXCEPT !.options[name].has = TRUE]

\* (The variant is not the code: a value that is given twice is not replaced.)
set_option_value_first(st, name, v) ==
  IF name \notin Option THEN Error(st, "undefined option", name)
  ELSE IF ~Reads(name, v) THEN Error(st, "option value is invalid", name)
  ELSE IF st.options[name].has THEN st
  ELSE [st EXCEPT !.options[name] = [has |-> TRUE, actual |-> v]]

set_option_value(st, name, v) ==
  IF name \notin Option THEN Error(st, "undefined option", name)
  ELSE IF ~Reads(name, v) THEN Error(st, "option value is invalid", name)
  ELSE [st EXCEPT !.options[name] = [has |-> TRUE, actual |-> v]]

\* lookup: the option of a letter.
lookup(letter) ==
  IF \E o \in Option : Described[o].letter = letter /\ letter # NoLetter
  THEN CHOOSE o \in Option : Described[o].letter = letter
  ELSE None

\* A letter that is not the last of its cluster never takes a value.
InCluster(st, letter) ==
  IF lookup(letter) = None THEN Error(st, "undefined short option", letter)
  ELSE set_option(st, lookup(letter))

\* All letters but the last.
Cluster(st, letters) ==
  LET upTo[i \in 0 .. Len(letters)] ==
        IF i = 0 THEN st ELSE InCluster(upTo[i - 1], letters[i])
  IN upTo[Len(letters) - 1]

Scan(st, token) ==
  IF st.pending # None
  THEN set_option_value([st EXCEPT !.pending = None], st.pending, TextOf(token))
  ELSE
    CASE token.shape = "assign" -> set_option_value(st, token.name, token.value)
      [] token.shape = "long" ->
           IF token.name \in Option /\ has_value(token.name)
           THEN [st EXCEPT !.pending = token.name]
           ELSE set_option(st, token.name)
      [] token.shape = "short" ->
           LET before == Cluster(st, token.letters)
               o == lookup(Last(token.letters))
           IN IF o # None /\ has_value(o)
              THEN [before EXCEPT !.pending = o]
              ELSE InCluster(before, Last(token.letters))
      [] token.shape = "dash" -> st
      [] token.shape = "word" -> [st EXCEPT !.rest = Append(@, token.value)]

(***************************************************************************)
(* parse: an option still without its value, then the required options     *)
(* that are missing, are errors too.  ok is errors.size() == 0.            *)
(***************************************************************************)
Begin == [options |-> Unset, errors |-> << >>, rest |-> << >>, pending |-> None]

Scanned(argv) ==
  LET upTo[i \in 0 .. Len(argv)] ==
        IF i = 0 THEN Begin ELSE Scan(upTo[i - 1], argv[i])
  IN upTo[Len(argv)]

parse(argv) ==
  LET st == Scanned(argv)
      end == IF st.pending = None THEN st
             ELSE Error(st, "option needs value", st.pending)
      missing == {<<"need option", o>> :
                    o \in {o \in Option : Described[o].need /\ ~end.options[o].has}}
  IN [end EXCEPT !.errors = @ \o SetToSeq(missing)]

exist(parsed, o) == parsed.options[o].has
get(parsed, o)   == parsed.options[o].actual

\* parse_check: what the tool does before main goes on.  argc counts the program.
Checked(argv, parsed) ==
  IF (argv = << >> /\ parsed.errors # << >>) \/ exist(parsed, "help") THEN "usage"
  ELSE IF parsed.errors # << >> THEN "error"
  ELSE "go on"

-----------------------------------------------------------------------------
(***************************************************************************)
(* What an operator expects of a command line, stated on the arguments     *)
(* instead of the scan: an argument is the value of the one before it when *)
(* that one is an option, not itself a value, that takes one.              *)
(***************************************************************************)
OptionNamed(token) ==
  CASE token.shape = "long" /\ token.name \in Option -> token.name
    [] token.shape = "short" -> lookup(Last(token.letters))
    [] OTHER -> None

IsValue(argv) ==
  LET v[i \in 0 .. Len(argv)] ==
        i > 1 /\ ~v[i - 1] /\ OptionNamed(argv[i - 1]) # None /\ has_value(OptionNamed(argv[i - 1]))
  IN v

\* The values option o is given, by position; a flag is given the empty word.
GivenAt(argv, o, i) ==
  LET t == argv[i] IN
  IF IsValue(argv)[i] THEN {TextOf(t) : p \in {OptionNamed(argv[i - 1])} \cap {o}}
  ELSE CASE t.shape = "assign" -> {t.value : p \in {t.name} \cap {o}}
         [] t.shape = "long" /\ ~has_value(o) -> {Described[o].default : p \in {t.name} \cap {o}}
         [] t.shape = "short" /\ ~has_value(o) ->
              {Described[o].default : p \in {lookup(t.letters[j]) : j \in DOMAIN t.letters} \cap {o}}
         [] OTHER -> {}

LastGiven(argv, o) ==
  LET at == {i \in DOMAIN argv : \E v \in GivenAt(argv, o, i) : has_value(o) => Reads(o, v)}
  IN IF at = {} THEN Described[o].default
     ELSE CHOOSE v \in GivenAt(argv, o, CHOOSE i \in at : \A j \in at : j <= i) : TRUE

\* The mistakes that refuse a command line: a name or a letter nobody added, a
\* value that does not read, a flag with a value, a missing value or option.
Mistaken(argv, i) ==
  LET t == argv[i] IN
  IF IsValue(argv)[i] THEN ~Reads(OptionNamed(argv[i - 1]), TextOf(t))
  ELSE \/ t.shape = "long" /\ (t.name \notin Option \/ (has_value(t.name) /\ i = Len(argv)))
       \/ t.shape = "assign" /\ (t.name \notin Option \/ ~Reads(t.name, t.value))
       \/ t.shape = "short" /\ \E j \in DOMAIN t.letters :
            LET o == lookup(t.letters[j]) IN
            o = None \/ (has_value(o) /\ (j < Len(t.letters) \/ i = Len(argv)))

Missing(argv, o) == Described[o].need /\ \A i \in DOMAIN argv : GivenAt(argv, o, i) = {}

(***************************************************************************)
(* A command line is accepted when it has no mistake, and then it means    *)
(* what it says: every option has the value it was given last, and an      *)
(* argument that was taken for a value is not an option as well.           *)
(***************************************************************************)
Means(argv, parsed) ==
  IF (\E i \in DOMAIN argv : Mistaken(argv, i)) \/ (\E o \in Option : Missing(argv, o))
  THEN parsed.errors # << >>
  ELSE /\ parsed.errors = << >>
       /\ \A o \in Option :
            /\ get(parsed, o) = LastGiven(argv, o)
            /\ exist(parsed, o) <=> \E i \in DOMAIN argv : GivenAt(argv, o, i) # {}
=============================================================================
