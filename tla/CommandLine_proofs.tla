------------------------- MODULE CommandLine_proofs -------------------------
(***************************************************************************)
(* The parser does what an operator expects of it, for every set of        *)
(* options and every command line: the scan, from left to right, of        *)
(* arguments that may each be a value, and the meaning of a line stated    *)
(* without a scan, agree.  The proof follows the scan argument by argument *)
(* (Follows): what Scan does with one (ScanDoes, a lemma per shape of an   *)
(* argument) is what GivenAt says of it.                                   *)
(***************************************************************************)
EXTENDS CommandLine, FiniteSetTheorems, WellFoundedInduction, TLAPS

\* Induction over the arguments read so far.
LEMMA ArgumentInduction ==
  ASSUME NEW S, 0 \in S, \A n \in Nat : n \in S => n + 1 \in S
  PROVE  Nat \subseteq S
<1> DEFINE R == OpToRel(<, Nat)
           T == Nat \ S
<1>1. IsWellFoundedOn(R, Nat)
  BY NatLessThanWellFounded
<1>2. \A x, y \in Nat : x < y => <<x, y>> \in R
  BY DEF OpToRel
<1>3. SUFFICES ASSUME T # {}
               PROVE  FALSE
  OBVIOUS
<1>4. T \subseteq Nat
  OBVIOUS
<1> HIDE DEF R, T
<1>5. PICK x \in T : \A y \in T : ~(<<y, x>> \in R)
  BY <1>1, <1>3, <1>4, WFMin
<1>6. x \in Nat /\ x # 0 /\ x - 1 \in T
  BY DEF T
<1>7. <<x - 1, x>> \in R
  BY <1>2, <1>6
<1> QED
  BY <1>5, <1>6, <1>7

-----------------------------------------------------------------------------
\* A state of the scan, and what is known of it whatever was read.
IsOption(opt, o) ==
  /\ opt = [has |-> opt.has, actual |-> opt.actual] /\ opt.has \in BOOLEAN
  /\ IsSeq(opt.actual.text)
  /\ ~has_value(o) => opt.actual = Described[o].default

ScanState(st) ==
  /\ st = [options |-> st.options, errors |-> st.errors, rest |-> st.rest,
           pending |-> st.pending]
  /\ DOMAIN st.options = Option /\ st.options = [o \in Option |-> st.options[o]]
  /\ \A o \in Option : IsOption(st.options[o], o)
  /\ IsSeq(st.errors)

\* What an argument did: an error, or the values it gives to each option.
Fails(r) == ScanState(r) /\ r.errors # << >>
Does(st, r, values) ==
  /\ ScanState(r)
  /\ r.errors = << >> <=> st.errors = << >>
  /\ \A o \in Option :
       r.options[o] = IF values[o] = {} THEN st.options[o]
                      ELSE [has |-> TRUE, actual |-> CHOOSE v \in values[o] : TRUE]

Gives(name, v) == [o \in Option |-> IF o = name THEN {v} ELSE {}]

\* Another element makes a sequence longer.
LEMMA AppendIsSeq ==
  ASSUME NEW s, NEW x, IsSeq(s)
  PROVE  IsSeq(Append(s, x)) /\ Append(s, x) # << >>
<1> DEFINE S == {s[i] : i \in 1 .. Len(s)}
           a == Append(s, x)
<1>1. s \in Seq(S)
  BY DEF IsSeq
<1>2. s \in Seq(S \cup {x}) /\ x \in S \cup {x}
  <2> HIDE DEF S
  <2> QED
    BY <1>1
<1>3. a \in Seq(S \cup {x}) /\ a # << >> /\ Len(a) \in Nat
  <2> HIDE DEF S
  <2> QED
    BY <1>2
<1> HIDE DEF S, a
<1>4. a \in Seq({a[i] : i \in 1 .. Len(a)})
  BY <1>3
<1> QED
  BY <1>3, <1>4 DEF IsSeq, a

\* An error leaves the options.
LEMMA ErrorFails ==
  ASSUME NEW st, ScanState(st), NEW what, NEW name
  PROVE  /\ Fails(Error(st, what, name))
         /\ Error(st, what, name).pending = st.pending
<1> DEFINE e == Append(st.errors, <<what, name>>)
           r == Error(st, what, name)
<1>1. IsSeq(e) /\ e # << >>
  BY AppendIsSeq DEF ScanState
<1> HIDE DEF e
<1>2. r = [options |-> st.options, errors |-> e, rest |-> st.rest, pending |-> st.pending]
  BY DEF ScanState, Error, e
<1> HIDE DEF r
<1>3. /\ r.options = st.options /\ r.errors = e /\ r.pending = st.pending
      /\ r = [options |-> r.options, errors |-> r.errors, rest |-> r.rest, pending |-> r.pending]
  BY <1>2
<1>4. ScanState(r)
  BY <1>1, <1>3 DEF ScanState
<1> QED
  BY <1>1, <1>3, <1>4 DEF Fails, r

\* One option is set.
LEMMA OptionDoes ==
  ASSUME NEW st, ScanState(st), NEW name \in Option, NEW opt, IsOption(opt, name),
         opt.has
  PROVE  /\ Does(st, [st EXCEPT !.options[name] = opt], Gives(name, opt.actual))
         /\ [st EXCEPT !.options[name] = opt].pending = st.pending
<1> DEFINE r == [st EXCEPT !.options[name] = opt]
           options == [st.options EXCEPT ![name] = opt]
<1>1. r = [options |-> options, errors |-> st.errors, rest |-> st.rest, pending |-> st.pending]
  BY DEF ScanState
<1>2. /\ DOMAIN options = Option /\ options = [o \in Option |-> options[o]]
      /\ \A o \in Option : options[o] = IF o = name THEN opt ELSE st.options[o]
  BY DEF ScanState
<1> HIDE DEF options, r
<1>3. /\ r.options = options /\ r.errors = st.errors /\ r.pending = st.pending
      /\ r = [options |-> r.options, errors |-> r.errors, rest |-> r.rest, pending |-> r.pending]
  BY <1>1
<1>4. \A o \in Option : IsOption(options[o], o)
  BY <1>2 DEF ScanState
<1>5. ScanState(r)
  BY <1>2, <1>3, <1>4 DEF ScanState
<1>6. \A o \in Option :
        options[o] = IF Gives(name, opt.actual)[o] = {} THEN st.options[o]
                     ELSE [has |-> TRUE, actual |-> CHOOSE v \in Gives(name, opt.actual)[o] : TRUE]
  <2>1. opt = [has |-> TRUE, actual |-> opt.actual]
    BY DEF IsOption
  <2>2. (CHOOSE v \in {opt.actual} : TRUE) = opt.actual
    OBVIOUS
  <2> QED
    BY <1>2, <2>1, <2>2 DEF Gives
<1> QED
  BY <1>3, <1>5, <1>6 DEF Does, r

\* The functions of the scan, with what they are called for.
LEMMA SetOptionDoes ==
  ASSUME NEW st, ScanState(st), NEW name
  PROVE  /\ IF name \notin Option \/ has_value(name) THEN Fails(set_option(st, name))
            ELSE Does(st, set_option(st, name), Gives(name, Described[name].default))
         /\ set_option(st, name).pending = st.pending
<1>1. CASE name \notin Option \/ has_value(name)
  BY <1>1, ErrorFails DEF set_option
<1>2. CASE ~(name \notin Option \/ has_value(name))
  <2> DEFINE opt == [st.options[name] EXCEPT !.has = TRUE]
  <2>1. opt = [has |-> TRUE, actual |-> st.options[name].actual]
    <3>1. IsOption(st.options[name], name)
      BY <1>2 DEF ScanState
    <3>2. \A h, a, b :
            [[has |-> h, actual |-> a] EXCEPT !.has = b] = [has |-> b, actual |-> a]
      OBVIOUS
    <3>3. st.options[name] = [has |-> st.options[name].has, actual |-> st.options[name].actual]
      BY <3>1 DEF IsOption
    <3>4. opt = [[has |-> st.options[name].has, actual |-> st.options[name].actual]
                  EXCEPT !.has = TRUE]
      BY <3>3, Zenon
    <3> HIDE DEF opt
    <3> QED
      BY <3>2, <3>4, Zenon
  <2> HIDE DEF opt
  <2>2. IsOption(opt, name) /\ opt.has /\ opt.actual = Described[name].default
    BY <1>2, <2>1 DEF ScanState, IsOption
  <2>3. set_option(st, name) = [st EXCEPT !.options[name] = opt]
    BY <1>2 DEF set_option, opt
  <2>4. Does(st, [st EXCEPT !.options[name] = opt], Gives(name, opt.actual))
        /\ [st EXCEPT !.options[name] = opt].pending = st.pending
    BY <1>2, <2>2, OptionDoes
  <2> QED
    BY <1>2, <2>2, <2>3, <2>4
<1> QED
  BY <1>1, <1>2

\* set_option with a value gives it, or records an error and gives nothing.
LEMMA SetValueDoes ==
  ASSUME NEW st, ScanState(st), NEW name, NEW v, IsSeq(v.text)
  PROVE  /\ IF name \notin Option \/ ~Reads(name, v) THEN Fails(set_option_value(st, name, v))
            ELSE Does(st, set_option_value(st, name, v), Gives(name, v))
         /\ set_option_value(st, name, v).pending = st.pending
<1>1. CASE name \notin Option \/ ~Reads(name, v)
  BY <1>1, ErrorFails DEF set_option_value
<1>2. CASE ~(name \notin Option \/ ~Reads(name, v))
  <2> DEFINE opt == [has |-> TRUE, actual |-> v]
  <2>1. IsOption(opt, name) /\ opt.has /\ opt.actual = v
    BY <1>2 DEF Reads, IsOption
  <2> HIDE DEF opt
  <2>2. set_option_value(st, name, v) = [st EXCEPT !.options[name] = opt]
    BY <1>2 DEF set_option_value, opt
  <2>3. Does(st, [st EXCEPT !.options[name] = opt], Gives(name, opt.actual))
        /\ [st EXCEPT !.options[name] = opt].pending = st.pending
    BY <1>2, <2>1, OptionDoes
  <2> QED
    BY <1>2, <2>1, <2>2, <2>3
<1> QED
  BY <1>1, <1>2

\* A letter stands for an option that has it, or for none.
LEMMA LookupOption ==
  ASSUME NEW letter
  PROVE  lookup(letter) = None \/ lookup(letter) \in Option
BY DEF lookup

\* What a cluster of letters gives, up to a letter.
ByLetters(letters, n) ==
  [o \in Option |-> IF ~has_value(o) /\ \E k \in 1 .. n : lookup(letters[k]) = o
                    THEN {Described[o].default} ELSE {}]
NoFlag(letter) == lookup(letter) = None \/ has_value(lookup(letter))

\* A letter before the last of its cluster is a flag, or an error.
LEMMA LetterDoes ==
  ASSUME NEW st, ScanState(st), NEW letter
  PROVE  /\ IF NoFlag(letter) THEN Fails(InCluster(st, letter))
            ELSE Does(st, InCluster(st, letter),
                      Gives(lookup(letter), Described[lookup(letter)].default))
         /\ InCluster(st, letter).pending = st.pending
<1>1. CASE lookup(letter) = None
  BY <1>1, ErrorFails DEF InCluster, NoFlag
<1>2. CASE lookup(letter) # None
  <2>1. lookup(letter) \in Option
    BY <1>2, LookupOption
  <2> QED
    BY <1>2, <2>1, SetOptionDoes DEF InCluster, NoFlag
<1> QED
  BY <1>1, <1>2

\* What two steps do, one after the other.
LEMMA DoesBoth ==
  ASSUME NEW st, NEW r, NEW q, NEW values1, NEW values2, NEW values,
         Does(st, r, values1), Does(r, q, values2),
         \A o \in Option : values[o] = IF values2[o] = {} THEN values1[o] ELSE values2[o]
  PROVE  Does(st, q, values)
<1>1. ScanState(q) /\ (q.errors = << >> <=> st.errors = << >>)
  BY DEF Does
<1>2. ASSUME NEW o \in Option
      PROVE  q.options[o] = IF values[o] = {} THEN st.options[o]
                            ELSE [has |-> TRUE, actual |-> CHOOSE v \in values[o] : TRUE]
  <2>1. q.options[o] = IF values2[o] = {} THEN r.options[o]
                       ELSE [has |-> TRUE, actual |-> CHOOSE v \in values2[o] : TRUE]
    BY DEF Does
  <2>2. r.options[o] = IF values1[o] = {} THEN st.options[o]
                       ELSE [has |-> TRUE, actual |-> CHOOSE v \in values1[o] : TRUE]
    BY DEF Does
  <2>3. values[o] = IF values2[o] = {} THEN values1[o] ELSE values2[o]
    OBVIOUS
  <2> QED
    BY <2>1, <2>2, <2>3
<1> QED
  BY <1>1, <1>2, Zenon DEF Does

\* Errors stay.
LEMMA FailsStill ==
  ASSUME NEW r, Fails(r), NEW q, Fails(q) \/ \E values : Does(r, q, values)
  PROVE  Fails(q)
BY DEF Fails, Does

\* Nothing was read.
LEMMA DoesNothing ==
  ASSUME NEW st, ScanState(st)
  PROVE  \A values : (\A o \in Option : values[o] = {}) => Does(st, st, values)
BY DEF Does

\* The loop over the letters.
LettersTo(st, letters, h, i) == IF i = 0 THEN st ELSE InCluster(h[i - 1], letters[i])

\* The loop over the letters of a cluster is a function, for any number of letters.
LEMMA LetterLoopExists ==
  ASSUME NEW st, NEW letters
  PROVE  \A n \in Nat : \E h : h = [i \in 0 .. n |-> LettersTo(st, letters, h, i)]
<1> DEFINE S == {n \in Nat : \E h : h = [i \in 0 .. n |-> LettersTo(st, letters, h, i)]}
<1>1. 0 \in S
  <2> DEFINE h == [i \in 0 .. 0 |-> st]
  <2>1. h = [i \in 0 .. 0 |-> st]
    OBVIOUS
  <2> HIDE DEF h
  <2>2. \A i \in 0 .. 0 : LettersTo(st, letters, h, i) = st
    BY DEF LettersTo
  <2>3. h = [i \in 0 .. 0 |-> LettersTo(st, letters, h, i)]
    BY <2>1, <2>2
  <2> QED
    BY <2>3
<1>2. ASSUME NEW n \in Nat, n \in S
      PROVE  n + 1 \in S
  <2>1. PICK h : h = [i \in 0 .. n |-> LettersTo(st, letters, h, i)]
    BY <1>2
  <2> DEFINE g == [i \in 0 .. n + 1 |-> IF i <= n THEN h[i] ELSE LettersTo(st, letters, h, i)]
  <2>2. ASSUME NEW i \in 0 .. n + 1
        PROVE  g[i] = LettersTo(st, letters, g, i)
    <3>1. i # 0 => i - 1 \in 0 .. n + 1 /\ i - 1 <= n /\ g[i - 1] = h[i - 1]
      <4>1. i # 0 => i - 1 \in 0 .. n + 1 /\ i - 1 <= n
        OBVIOUS
      <4> QED
        BY <4>1
    <3>2. i \in 0 .. n => h[i] = LettersTo(st, letters, h, i)
      BY <2>1
    <3>3. g[i] = LettersTo(st, letters, h, i)
      BY <3>2
    <3> HIDE DEF g
    <3>4. LettersTo(st, letters, g, i) = LettersTo(st, letters, h, i)
      BY <3>1 DEF LettersTo
    <3> QED
      BY <3>3, <3>4
  <2>3. g = [i \in 0 .. n + 1 |-> LettersTo(st, letters, g, i)]
    BY <2>2
  <2> HIDE DEF g
  <2> QED
    BY <2>3
<1> HIDE DEF S
<1>3. Nat \subseteq S
  BY <1>1, <1>2, ArgumentInduction
<1> QED
  BY <1>3 DEF S

\* The letters before the last.
LEMMA ClusterDoes ==
  ASSUME NEW st, ScanState(st), NEW letters, IsSeq(letters), letters # << >>
  PROVE  /\ IF \E k \in 1 .. Len(letters) - 1 : NoFlag(letters[k])
            THEN Fails(Cluster(st, letters))
            ELSE Does(st, Cluster(st, letters), ByLetters(letters, Len(letters) - 1))
         /\ Cluster(st, letters).pending = st.pending
<1> DEFINE upTo[i \in 0 .. Len(letters)] ==
             IF i = 0 THEN st ELSE InCluster(upTo[i - 1], letters[i])
           n == Len(letters)
           Bad(i) == \E k \in 1 .. i : NoFlag(letters[k])
           Done(i) == /\ IF Bad(i) THEN Fails(upTo[i])
                         ELSE Does(st, upTo[i], ByLetters(letters, i))
                      /\ upTo[i].pending = st.pending
           S == {i \in Nat : i <= n => Done(i)}
<1>1. Cluster(st, letters) = upTo[n - 1] /\ n \in Nat /\ n - 1 \in 0 .. n
  <2>1. n \in Nat /\ n # 0
    BY DEF IsSeq
  <2> QED
    BY <2>1 DEF Cluster
<1>2. upTo = [i \in 0 .. n |-> LettersTo(st, letters, upTo, i)]
  <2>1. \E h : h = [i \in 0 .. n |-> LettersTo(st, letters, h, i)]
    BY <1>1, LetterLoopExists
  <2> QED
    BY <2>1 DEF LettersTo
<1> HIDE DEF upTo, n
<1>3. 0 \in S
  <2>1. upTo[0] = st
    BY <1>1, <1>2 DEF LettersTo
  <2>2. ~Bad(0) /\ \A o \in Option : ByLetters(letters, 0)[o] = {}
    BY DEF ByLetters
  <2>3. Does(st, st, ByLetters(letters, 0))
    BY <2>2, DoesNothing
  <2> QED
    BY <2>1, <2>2, <2>3
<1> HIDE DEF Done
<1>4. ASSUME NEW i \in Nat, i \in S
      PROVE  i + 1 \in S
  <2>1. SUFFICES ASSUME i + 1 <= n
                 PROVE  Done(i + 1)
    BY <1>4
  <2> DEFINE letter == letters[i + 1]
             values == Gives(lookup(letter), Described[lookup(letter)].default)
  <2>2. Done(i)
    BY <1>1, <1>4, <2>1
  <2>3. ScanState(upTo[i]) /\ upTo[i + 1] = InCluster(upTo[i], letter)
    BY <1>1, <1>2, <2>1, <2>2 DEF LettersTo, Done, Does, Fails
  <2>4. /\ IF NoFlag(letter) THEN Fails(upTo[i + 1]) ELSE Does(upTo[i], upTo[i + 1], values)
        /\ upTo[i + 1].pending = upTo[i].pending
    BY <2>3, LetterDoes, Zenon
  <2>5. Bad(i + 1) <=> Bad(i) \/ NoFlag(letter)
    BY <1>4
  <2>6. ASSUME ~NoFlag(letter), NEW o \in Option
        PROVE  ByLetters(letters, i + 1)[o]
                 = IF values[o] = {} THEN ByLetters(letters, i)[o] ELSE values[o]
    <3>1. lookup(letter) # None /\ ~has_value(lookup(letter))
      BY <2>6 DEF NoFlag
    <3>2. CASE o = lookup(letter)
      <4>1. i + 1 \in 1 .. i + 1 /\ lookup(letters[i + 1]) = o /\ ~has_value(o)
        BY <1>4, <3>1, <3>2
      <4>2. ByLetters(letters, i + 1)[o] = {Described[o].default}
        BY <4>1 DEF ByLetters
      <4> QED
        BY <3>2, <4>2 DEF Gives
    <3>3. CASE o # lookup(letter)
      <4>1. (\E k \in 1 .. i + 1 : lookup(letters[k]) = o)
              <=> \E k \in 1 .. i : lookup(letters[k]) = o
        BY <1>4, <3>3
      <4>2. ByLetters(letters, i + 1)[o] = ByLetters(letters, i)[o]
        BY <4>1 DEF ByLetters
      <4> QED
        BY <3>3, <4>2 DEF Gives
    <3> QED
      BY <3>2, <3>3
  <2> HIDE DEF values, letter, Bad
  <2>7. CASE Bad(i + 1)
    <3>1. Fails(upTo[i + 1])
      BY <2>2, <2>4, <2>5, <2>7, FailsStill DEF Done
    <3> QED
      BY <2>2, <2>4, <2>7, <3>1 DEF Done
  <2>8. CASE ~Bad(i + 1)
    <3>1. Does(st, upTo[i], ByLetters(letters, i)) /\ Does(upTo[i], upTo[i + 1], values)
      BY <2>2, <2>4, <2>5, <2>8 DEF Done
    <3>2. \A o \in Option : ByLetters(letters, i + 1)[o]
                             = IF values[o] = {} THEN ByLetters(letters, i)[o] ELSE values[o]
      BY <2>5, <2>6, <2>8
    <3>3. Does(st, upTo[i + 1], ByLetters(letters, i + 1))
      <4> DEFINE before == ByLetters(letters, i)
                 now    == ByLetters(letters, i + 1)
                 r      == upTo[i]
                 q      == upTo[i + 1]
      <4>1. Does(st, r, before) /\ Does(r, q, values)
        BY <3>1
      <4>2. \A o \in Option : now[o] = IF values[o] = {} THEN before[o] ELSE values[o]
        BY <3>2
      <4> HIDE DEF before, now, r, q
      <4>3. Does(st, q, now)
        BY <4>1, <4>2, DoesBoth
      <4> QED
        BY <4>3 DEF q, now
    <3> QED
      BY <2>2, <2>4, <2>8, <3>3 DEF Done
  <2> QED
    BY <2>7, <2>8
<1> HIDE DEF S
<1>5. Nat \subseteq S
  BY <1>3, <1>4, ArgumentInduction
<1>6. Done(n - 1)
  <2>1. n - 1 \in Nat /\ n - 1 <= n
    BY <1>1
  <2>2. n - 1 \in S
    BY <1>5, <2>1
  <2> QED
    BY <2>1, <2>2 DEF S
<1> QED
  BY <1>1, <1>6 DEF n, Done

-----------------------------------------------------------------------------
\* The loops over the arguments: the scan, and the arguments that are values.
ScannedTo(argv, h, i) == IF i = 0 THEN Begin ELSE Scan(h[i - 1], argv[i])
ValueTo(argv, h, i) ==
  i > 1 /\ ~h[i - 1] /\ OptionNamed(argv[i - 1]) # None /\ has_value(OptionNamed(argv[i - 1]))

\* The scan runs to the end of the line.
LEMMA ScanLoopExists ==
  ASSUME NEW argv
  PROVE  \A n \in Nat : \E h : h = [i \in 0 .. n |-> ScannedTo(argv, h, i)]
<1> DEFINE S == {n \in Nat : \E h : h = [i \in 0 .. n |-> ScannedTo(argv, h, i)]}
<1>1. 0 \in S
  <2> DEFINE h == [i \in 0 .. 0 |-> Begin]
  <2>1. h = [i \in 0 .. 0 |-> Begin]
    OBVIOUS
  <2> HIDE DEF h
  <2>2. \A i \in 0 .. 0 : ScannedTo(argv, h, i) = Begin
    BY DEF ScannedTo
  <2>3. h = [i \in 0 .. 0 |-> ScannedTo(argv, h, i)]
    BY <2>1, <2>2
  <2> QED
    BY <2>3
<1>2. ASSUME NEW n \in Nat, n \in S
      PROVE  n + 1 \in S
  <2>1. PICK h : h = [i \in 0 .. n |-> ScannedTo(argv, h, i)]
    BY <1>2
  <2> DEFINE g == [i \in 0 .. n + 1 |-> IF i <= n THEN h[i] ELSE ScannedTo(argv, h, i)]
  <2>2. ASSUME NEW i \in 0 .. n + 1
        PROVE  g[i] = ScannedTo(argv, g, i)
    <3>1. i # 0 => i - 1 \in 0 .. n + 1 /\ i - 1 <= n /\ g[i - 1] = h[i - 1]
      <4>1. i # 0 => i - 1 \in 0 .. n + 1 /\ i - 1 <= n
        OBVIOUS
      <4> QED
        BY <4>1
    <3>2. i \in 0 .. n => h[i] = ScannedTo(argv, h, i)
      BY <2>1
    <3>3. g[i] = ScannedTo(argv, h, i)
      BY <3>2
    <3> HIDE DEF g
    <3>4. ScannedTo(argv, g, i) = ScannedTo(argv, h, i)
      BY <3>1 DEF ScannedTo
    <3> QED
      BY <3>3, <3>4
  <2>3. g = [i \in 0 .. n + 1 |-> ScannedTo(argv, g, i)]
    BY <2>2
  <2> HIDE DEF g
  <2> QED
    BY <2>3
<1> HIDE DEF S
<1>3. Nat \subseteq S
  BY <1>1, <1>2, ArgumentInduction
<1> QED
  BY <1>3 DEF S

\* It is defined for every argument whether it is a value.
LEMMA ValueLoopExists ==
  ASSUME NEW argv
  PROVE  \A n \in Nat : \E h : h = [i \in 0 .. n |-> ValueTo(argv, h, i)]
<1> DEFINE S == {n \in Nat : \E h : h = [i \in 0 .. n |-> ValueTo(argv, h, i)]}
<1>1. 0 \in S
  <2> DEFINE h == [i \in 0 .. 0 |-> FALSE]
  <2>1. h = [i \in 0 .. 0 |-> FALSE]
    OBVIOUS
  <2> HIDE DEF h
  <2>2. \A i \in 0 .. 0 : ValueTo(argv, h, i) = FALSE
    BY DEF ValueTo
  <2>3. h = [i \in 0 .. 0 |-> ValueTo(argv, h, i)]
    BY <2>1, <2>2
  <2> QED
    BY <2>3
<1>2. ASSUME NEW n \in Nat, n \in S
      PROVE  n + 1 \in S
  <2>1. PICK h : h = [i \in 0 .. n |-> ValueTo(argv, h, i)]
    BY <1>2
  <2> DEFINE g == [i \in 0 .. n + 1 |-> IF i <= n THEN h[i] ELSE ValueTo(argv, h, i)]
  <2>2. ASSUME NEW i \in 0 .. n + 1
        PROVE  g[i] = ValueTo(argv, g, i)
    <3>1. i # 0 => i - 1 \in 0 .. n + 1 /\ i - 1 <= n /\ g[i - 1] = h[i - 1]
      <4>1. i # 0 => i - 1 \in 0 .. n + 1 /\ i - 1 <= n
        OBVIOUS
      <4> QED
        BY <4>1
    <3>2. i \in 0 .. n => h[i] = ValueTo(argv, h, i)
      BY <2>1
    <3>3. g[i] = ValueTo(argv, h, i)
      BY <3>2
    <3> HIDE DEF g
    <3>4. ValueTo(argv, g, i) = ValueTo(argv, h, i)
      BY <3>1 DEF ValueTo
    <3> QED
      BY <3>3, <3>4
  <2>3. g = [i \in 0 .. n + 1 |-> ValueTo(argv, g, i)]
    BY <2>2
  <2> HIDE DEF g
  <2> QED
    BY <2>3
<1> HIDE DEF S
<1>3. Nat \subseteq S
  BY <1>1, <1>2, ArgumentInduction
<1> QED
  BY <1>3 DEF S

\* After argument i the value of an option is missing.
Wants(argv, i) ==
  /\ i > 0 /\ ~IsValue(argv)[i]
  /\ OptionNamed(argv[i]) # None /\ has_value(OptionNamed(argv[i]))

\* An argument is a value exactly if the one before it wants one, and then it wants none itself.
LEMMA ValueIsWanted ==
  ASSUME NEW argv, IsLine(argv), NEW i \in 1 .. Len(argv)
  PROVE  /\ IsValue(argv)[i] <=> Wants(argv, i - 1)
         /\ IsValue(argv)[i] => ~Wants(argv, i)
<1> DEFINE v[j \in 0 .. Len(argv)] ==
             j > 1 /\ ~v[j - 1] /\ OptionNamed(argv[j - 1]) # None
                   /\ has_value(OptionNamed(argv[j - 1]))
<1>1. IsValue(argv) = v
  BY DEF IsValue
<1>2. Len(argv) \in Nat /\ i \in 0 .. Len(argv)
  BY DEF IsLine, IsSeq
<1>3. v = [j \in 0 .. Len(argv) |-> ValueTo(argv, v, j)]
  <2>1. \E h : h = [j \in 0 .. Len(argv) |-> ValueTo(argv, h, j)]
    BY <1>2, ValueLoopExists
  <2> QED
    BY <2>1 DEF ValueTo
<1> HIDE DEF v
<1>4. v[i] = ValueTo(argv, v, i)
  BY <1>2, <1>3
<1>5. i > 1 <=> i - 1 > 0
  BY <1>2
<1> QED
  BY <1>1, <1>4, <1>5, Zenon DEF Wants, ValueTo

-----------------------------------------------------------------------------
(***************************************************************************)
(* One argument.  What Scan does with it is what GivenAt says it gives,    *)
(* unless it is a mistake.                                                 *)
(***************************************************************************)
\* The mistakes of an argument, but that the line ends before its value.
Wrong(argv, i) ==
  LET t == argv[i] IN
  IF IsValue(argv)[i] THEN ~Reads(OptionNamed(argv[i - 1]), TextOf(t))
  ELSE \/ t.shape = "long" /\ t.name \notin Option
       \/ t.shape = "assign" /\ (t.name \notin Option \/ ~Reads(t.name, t.value))
       \/ t.shape = "short" /\ \E j \in 1 .. Len(t.letters) :
            \/ lookup(t.letters[j]) = None
            \/ has_value(lookup(t.letters[j])) /\ j < Len(t.letters)

Gave(argv, i) == [o \in Option |-> GivenAt(argv, o, i)]
After(argv, i) == IF Wants(argv, i) THEN OptionNamed(argv[i]) ELSE None

Scans(argv, i, st, r) ==
  /\ IF Wrong(argv, i) THEN Fails(r) ELSE Does(st, r, Gave(argv, i))
  /\ r.pending = After(argv, i)

\* Another option is waiting for its value.
LEMMA PendingDoes ==
  ASSUME NEW st, ScanState(st), NEW o
  PROVE  /\ ScanState([st EXCEPT !.pending = o])
         /\ [st EXCEPT !.pending = o].pending = o
         /\ [st EXCEPT !.pending = o].options = st.options
         /\ [st EXCEPT !.pending = o].errors = st.errors
<1> DEFINE r == [st EXCEPT !.pending = o]
<1>1. r = [options |-> st.options, errors |-> st.errors, rest |-> st.rest, pending |-> o]
  BY DEF ScanState
<1> HIDE DEF r
<1>2. /\ r.options = st.options /\ r.errors = st.errors /\ r.pending = o
      /\ r = [options |-> r.options, errors |-> r.errors, rest |-> r.rest, pending |-> r.pending]
  BY <1>1
<1> QED
  BY <1>2 DEF ScanState, r

\* So has a word that was read.
LEMMA WordDoes ==
  ASSUME NEW st, ScanState(st), NEW word
  PROVE  /\ ScanState([st EXCEPT !.rest = word])
         /\ [st EXCEPT !.rest = word].pending = st.pending
         /\ [st EXCEPT !.rest = word].options = st.options
         /\ [st EXCEPT !.rest = word].errors = st.errors
<1> DEFINE r == [st EXCEPT !.rest = word]
<1>1. r = [options |-> st.options, errors |-> st.errors, rest |-> word, pending |-> st.pending]
  BY DEF ScanState
<1> HIDE DEF r
<1>2. /\ r.options = st.options /\ r.errors = st.errors /\ r.pending = st.pending
      /\ r = [options |-> r.options, errors |-> r.errors, rest |-> r.rest, pending |-> r.pending]
  BY <1>1
<1> QED
  BY <1>2 DEF ScanState, r

\* The text of an argument that is taken for a value.
LEMMA TextIsSeq ==
  ASSUME NEW t, IsToken(t)
  PROVE  IsSeq(TextOf(t).text)
<1>1. \A s : IsSeq(s) => IsSeq(<<"-">> \o s)
  <2> SUFFICES ASSUME NEW s, IsSeq(s)
               PROVE  IsSeq(<<"-">> \o s)
    OBVIOUS
  <2> DEFINE S == {s[i] : i \in 1 .. Len(s)} \cup {"-"}
             q == <<"-">> \o s
  <2>1. s \in Seq(S) /\ "-" \in S
    BY DEF IsSeq
  <2> HIDE DEF S
  <2>2. q \in Seq(S) /\ Len(q) \in Nat
    BY <2>1
  <2> HIDE DEF q
  <2>3. q \in Seq({q[i] : i \in 1 .. Len(q)})
    BY <2>2
  <2> QED
    BY <2>3 DEF IsSeq, q
<1>2. \A n, s : IsSeq(s) => IsSeq(<<"--", n, "=">> \o s)
  <2> SUFFICES ASSUME NEW n, NEW s, IsSeq(s)
               PROVE  IsSeq(<<"--", n, "=">> \o s)
    OBVIOUS
  <2> DEFINE S == {s[i] : i \in 1 .. Len(s)} \cup {"--", n, "="}
             q == <<"--", n, "=">> \o s
  <2>1. s \in Seq(S) /\ {"--", n, "="} \subseteq S
    BY DEF IsSeq
  <2> HIDE DEF S
  <2>2. q \in Seq(S) /\ Len(q) \in Nat
    BY <2>1
  <2> HIDE DEF q
  <2>3. q \in Seq({q[i] : i \in 1 .. Len(q)})
    BY <2>2
  <2> QED
    BY <2>3 DEF IsSeq, q
<1>3. \A n : IsSeq(<<"--", n>>) /\ IsSeq(<<"-">>)
  BY DEF IsSeq
<1> QED
  BY <1>1, <1>2, <1>3 DEF TextOf, IsToken, Word

\* The value of the option before it.
LEMMA ValueScans ==
  ASSUME NEW argv, IsLine(argv), NEW i \in 1 .. Len(argv), IsValue(argv)[i],
         NEW st, ScanState(st), st.pending = After(argv, i - 1)
  PROVE  Scans(argv, i, st, Scan(st, argv[i]))
<1> DEFINE o == OptionNamed(argv[i - 1])
           t == argv[i]
           s == [st EXCEPT !.pending = None]
           r == set_option_value(s, o, TextOf(t))
<1>1. /\ Wants(argv, i - 1) /\ ~Wants(argv, i)
      /\ st.pending = o /\ o # None /\ has_value(o)
  BY ValueIsWanted DEF After, Wants
<1>2. o \in Option
  <2>1. \/ o = argv[i - 1].name /\ argv[i - 1].name \in Option
        \/ o = lookup(Last(argv[i - 1].letters))
        \/ o = None
    BY DEF OptionNamed
  <2> QED
    BY <1>1, <2>1, LookupOption
<1>3. Scan(st, t) = r
  BY <1>1 DEF Scan
<1>4. /\ ScanState(s) /\ s.pending = None
      /\ s.options = st.options /\ s.errors = st.errors
  BY PendingDoes
<1>5. IsSeq(TextOf(t).text)
  BY TextIsSeq DEF IsLine
<1> HIDE DEF o, s
<1>6. /\ IF o \notin Option \/ ~Reads(o, TextOf(t)) THEN Fails(r) ELSE Does(s, r, Gives(o, TextOf(t)))
      /\ r.pending = s.pending
  BY <1>4, <1>5, SetValueDoes
<1> HIDE DEF r
<1>7. Wrong(argv, i) <=> ~Reads(o, TextOf(t))
  BY DEF Wrong, o
<1>8. \A p \in Option : Gave(argv, i)[p] = Gives(o, TextOf(t))[p]
  BY DEF Gave, Gives, GivenAt, o
<1>9. Does(s, r, Gives(o, TextOf(t))) => Does(st, r, Gave(argv, i))
  BY <1>4, <1>8 DEF Does
<1> QED
  BY <1>1, <1>2, <1>3, <1>4, <1>6, <1>7, <1>9 DEF Scans, After

\* --name=value
LEMMA AssignScans ==
  ASSUME NEW argv, IsLine(argv), NEW i \in 1 .. Len(argv), ~IsValue(argv)[i],
         NEW st, ScanState(st), st.pending = None, argv[i].shape = "assign"
  PROVE  Scans(argv, i, st, Scan(st, argv[i]))
<1> DEFINE t == argv[i]
           r == set_option_value(st, t.name, t.value)
<1>1. Scan(st, t) = r
  BY DEF Scan
<1>2. IsSeq(t.value.text)
  BY DEF IsLine, IsToken
<1>3. /\ IF t.name \notin Option \/ ~Reads(t.name, t.value) THEN Fails(r)
         ELSE Does(st, r, Gives(t.name, t.value))
      /\ r.pending = st.pending
  BY <1>2, SetValueDoes
<1> HIDE DEF r
<1>4. Wrong(argv, i) <=> t.name \notin Option \/ ~Reads(t.name, t.value)
  BY DEF Wrong
<1>5. \A p \in Option : Gave(argv, i)[p] = Gives(t.name, t.value)[p]
  BY DEF Gave, Gives, GivenAt
<1>6. Does(st, r, Gives(t.name, t.value)) => Does(st, r, Gave(argv, i))
  BY <1>5 DEF Does
<1>7. ~Wants(argv, i)
  BY DEF Wants, OptionNamed
<1> QED
  BY <1>1, <1>3, <1>4, <1>6, <1>7 DEF Scans, After

\* --name
LEMMA LongScans ==
  ASSUME NEW argv, IsLine(argv), NEW i \in 1 .. Len(argv), ~IsValue(argv)[i],
         NEW st, ScanState(st), st.pending = None, argv[i].shape = "long"
  PROVE  Scans(argv, i, st, Scan(st, argv[i]))
<1> DEFINE t == argv[i]
<1>1. Wrong(argv, i) <=> t.name \notin Option
  BY DEF Wrong
<1>2. t.name # None => (Wants(argv, i) <=> t.name \in Option /\ has_value(t.name))
  BY DEF Wants, OptionNamed
<1>3. CASE t.name \in Option /\ has_value(t.name)
  <2> DEFINE r == [st EXCEPT !.pending = t.name]
  <2>1. Scan(st, t) = r
    BY <1>3 DEF Scan
  <2>2. ScanState(r) /\ r.pending = t.name /\ r.options = st.options /\ r.errors = st.errors
    BY PendingDoes
  <2> HIDE DEF r
  <2>3. \A p \in Option : Gave(argv, i)[p] = {}
    BY <1>3 DEF Gave, GivenAt
  <2>4. Does(st, r, Gave(argv, i))
    BY <2>2, <2>3 DEF Does
  <2>5. After(argv, i) = t.name
    BY <1>2, <1>3, NoneIsNoOption DEF After, OptionNamed
  <2> QED
    BY <1>1, <1>3, <2>1, <2>2, <2>4, <2>5 DEF Scans
<1>4. CASE ~(t.name \in Option /\ has_value(t.name))
  <2> DEFINE r == set_option(st, t.name)
  <2>1. Scan(st, t) = r
    BY <1>4 DEF Scan
  <2>2. /\ IF t.name \notin Option \/ has_value(t.name) THEN Fails(r)
           ELSE Does(st, r, Gives(t.name, Described[t.name].default))
        /\ r.pending = st.pending
    BY SetOptionDoes
  <2> HIDE DEF r
  <2>3. t.name \in Option =>
          \A p \in Option : Gave(argv, i)[p] = Gives(t.name, Described[t.name].default)[p]
    BY <1>4 DEF Gave, Gives, GivenAt
  <2>4. t.name \in Option => Does(st, r, Gave(argv, i))
    BY <1>4, <2>2, <2>3 DEF Does
  <2>5. After(argv, i) = None
    BY <1>4 DEF After, Wants, OptionNamed
  <2> QED
    BY <1>1, <2>1, <2>2, <2>4, <2>5 DEF Scans
<1> QED
  BY <1>3, <1>4

\* A dash, or a word that is not a value.
LEMMA OtherScans ==
  ASSUME NEW argv, IsLine(argv), NEW i \in 1 .. Len(argv), ~IsValue(argv)[i],
         NEW st, ScanState(st), st.pending = None, argv[i].shape \in {"dash", "word"}
  PROVE  Scans(argv, i, st, Scan(st, argv[i]))
<1> DEFINE t == argv[i]
<1>1. ~Wrong(argv, i) /\ ~Wants(argv, i)
  BY DEF Wrong, Wants, OptionNamed
<1>2. \A p \in Option : Gave(argv, i)[p] = {}
  BY DEF Gave, GivenAt
<1>3. CASE t.shape = "dash"
  <2>1. Scan(st, t) = st
    BY <1>3 DEF Scan
  <2>2. Does(st, st, Gave(argv, i))
    BY <1>2 DEF Does
  <2> QED
    BY <1>1, <2>1, <2>2 DEF Scans, After
<1>4. CASE t.shape = "word"
  <2> DEFINE r == [st EXCEPT !.rest = Append(st.rest, t.value)]
  <2>1. Scan(st, t) = r
    BY <1>4 DEF Scan
  <2>2. ScanState(r) /\ r.pending = st.pending /\ r.options = st.options /\ r.errors = st.errors
    BY WordDoes
  <2> HIDE DEF r
  <2>3. Does(st, r, Gave(argv, i))
    BY <1>2, <2>2 DEF Does
  <2> QED
    BY <1>1, <2>1, <2>2, <2>3 DEF Scans, After
<1> QED
  BY <1>3, <1>4

\* A cluster of letters; the last may take a value.
LEMMA ShortScans ==
  ASSUME NEW argv, IsLine(argv), NEW i \in 1 .. Len(argv), ~IsValue(argv)[i],
         NEW st, ScanState(st), st.pending = None, argv[i].shape = "short"
  PROVE  Scans(argv, i, st, Scan(st, argv[i]))
<1> DEFINE ls == argv[i].letters
           n == Len(ls)
           o == lookup(ls[n])
           b == Cluster(st, ls)
           Early == \E k \in 1 .. n - 1 : NoFlag(ls[k])
<1>1. IsSeq(ls) /\ ls # << >> /\ n \in Nat /\ n # 0 /\ DOMAIN ls = 1 .. n /\ Last(ls) = ls[n]
  <2>1. IsSeq(ls) /\ ls # << >>
    BY DEF IsLine, IsToken
  <2> HIDE DEF ls
  <2> QED
    BY <2>1 DEF IsSeq, Last
<1>2. /\ IF Early THEN Fails(b) ELSE Does(st, b, ByLetters(ls, n - 1))
      /\ b.pending = None
  BY <1>1, ClusterDoes
<1>3. ScanState(b)
  BY <1>2 DEF Fails, Does
<1>4. OptionNamed(argv[i]) = o
  BY <1>1 DEF OptionNamed
<1>5. \A p \in Option : Gave(argv, i)[p] = ByLetters(ls, n)[p]
  <2> SUFFICES ASSUME NEW p \in Option
               PROVE  GivenAt(argv, p, i) = ByLetters(ls, n)[p]
    BY DEF Gave
  <2>1. CASE has_value(p)
    BY <2>1 DEF GivenAt, ByLetters
  <2>2. CASE ~has_value(p)
    <3>1. GivenAt(argv, p, i)
            = {Described[p].default : q \in {lookup(ls[j]) : j \in 1 .. n} \cap {p}}
      BY <1>1, <2>2 DEF GivenAt
    <3>2. ByLetters(ls, n)[p] = IF \E k \in 1 .. n : lookup(ls[k]) = p
                                THEN {Described[p].default} ELSE {}
      BY <2>2 DEF ByLetters
    <3> QED
      BY <3>1, <3>2
  <2> QED
    BY <2>1, <2>2
<1>6. Wrong(argv, i) <=> Early \/ o = None
  <2> DEFINE Bad(j) == lookup(ls[j]) = None \/ (has_value(lookup(ls[j])) /\ j < n)
  <2>1. Wrong(argv, i) <=> \E j \in 1 .. n : Bad(j)
    BY DEF Wrong
  <2>2. \A j \in 1 .. n - 1 : j \in 1 .. n /\ (Bad(j) <=> NoFlag(ls[j]))
    <3> HIDE DEF ls, n
    <3> QED
      BY <1>1 DEF NoFlag
  <2>3. n \in 1 .. n /\ (Bad(n) <=> o = None)
    <3> HIDE DEF ls, n
    <3> QED
      BY <1>1
  <2>4. \A j \in 1 .. n : j \in 1 .. n - 1 \/ j = n
    <3> HIDE DEF ls, n
    <3> QED
      BY <1>1
  <2> HIDE DEF Bad, n, o, ls
  <2> QED
    BY <2>1, <2>2, <2>3, <2>4
<1>7. CASE o # None /\ has_value(o)
  <2> DEFINE r == [b EXCEPT !.pending = o]
  <2>1. Scan(st, argv[i]) = r
    BY <1>1, <1>7 DEF Scan
  <2>2. ScanState(r) /\ r.pending = o /\ r.options = b.options /\ r.errors = b.errors
    BY <1>3, PendingDoes
  <2> HIDE DEF r
  <2>3. ASSUME NEW p \in Option
        PROVE  Gave(argv, i)[p] = ByLetters(ls, n - 1)[p]
    <3>1. CASE has_value(p)
      BY <1>5, <3>1 DEF ByLetters
    <3>2. CASE ~has_value(p)
      <4>1. \A k \in 1 .. n : lookup(ls[k]) = p => k \in 1 .. n - 1
        BY <1>1, <1>7, <3>2
      <4>2. (\E k \in 1 .. n : lookup(ls[k]) = p) <=> \E k \in 1 .. n - 1 : lookup(ls[k]) = p
        BY <1>1, <4>1
      <4> QED
        BY <1>5, <4>2 DEF ByLetters
    <3> QED
      BY <3>1, <3>2
  <2>4. After(argv, i) = o
    BY <1>4, <1>7 DEF After, Wants
  <2> HIDE DEF ls, n, o, b, Early
  <2>5. IF Early THEN Fails(r) ELSE Does(st, r, Gave(argv, i))
    BY <1>2, <2>2, <2>3 DEF Fails, Does
  <2> QED
    BY <1>6, <1>7, <2>1, <2>2, <2>4, <2>5 DEF Scans
<1>8. CASE ~(o # None /\ has_value(o))
  <2> DEFINE r == InCluster(b, ls[n])
             values == Gives(o, Described[o].default)
  <2>1. Scan(st, argv[i]) = r
    BY <1>1, <1>8 DEF Scan
  <2>2. /\ IF NoFlag(ls[n]) THEN Fails(r) ELSE Does(b, r, values)
        /\ r.pending = b.pending
    BY <1>3, LetterDoes, Zenon
  <2>3. NoFlag(ls[n]) <=> o = None
    BY <1>8 DEF NoFlag
  <2>4. ASSUME o # None, NEW p \in Option
        PROVE  Gave(argv, i)[p] = IF values[p] = {} THEN ByLetters(ls, n - 1)[p] ELSE values[p]
    <3>1. CASE p = o
      <4>1. n \in 1 .. n /\ ~has_value(p)
        BY <1>1, <1>8, <2>4, <3>1
      <4>2. ByLetters(ls, n)[p] = {Described[p].default}
        BY <3>1, <4>1 DEF ByLetters
      <4> QED
        BY <1>5, <3>1, <4>2 DEF Gives
    <3>2. CASE p # o
      <4>1. (\E k \in 1 .. n : lookup(ls[k]) = p) <=> \E k \in 1 .. n - 1 : lookup(ls[k]) = p
        <5> HIDE DEF n
        <5> QED
          BY <1>1, <3>2
      <4>2. ByLetters(ls, n)[p] = ByLetters(ls, n - 1)[p]
        BY <4>1 DEF ByLetters
      <4> QED
        BY <1>5, <3>2, <4>2 DEF Gives
    <3> QED
      BY <3>1, <3>2
  <2>5. After(argv, i) = None
    BY <1>4, <1>8 DEF After, Wants
  <2>6. \A p \in Option : o # None =>
          Gave(argv, i)[p] = IF values[p] = {} THEN ByLetters(ls, n - 1)[p] ELSE values[p]
    BY <2>4
  <2>7. CASE Early \/ o = None
    <3> HIDE DEF ls, n, o, b, Early, values, r
    <3>1. Fails(r)
      BY <1>2, <2>2, <2>3, <2>7, FailsStill
    <3> QED
      BY <1>2, <1>6, <2>1, <2>2, <2>5, <2>7, <3>1 DEF Scans
  <2>8. CASE ~(Early \/ o = None)
    <3> DEFINE before == ByLetters(ls, n - 1)
               now == Gave(argv, i)
    <3>1. Does(st, b, before) /\ Does(b, r, values)
      BY <1>2, <2>2, <2>3, <2>8
    <3>2. \A p \in Option : now[p] = IF values[p] = {} THEN before[p] ELSE values[p]
      BY <2>6, <2>8
    <3> HIDE DEF ls, n, o, b, Early, values, r, before, now
    <3>3. Does(st, r, now)
      BY <3>1, <3>2, DoesBoth
    <3> QED
      BY <1>2, <1>6, <2>1, <2>2, <2>5, <2>8, <3>3 DEF Scans, now
  <2> QED
    BY <2>7, <2>8
<1> QED
  BY <1>7, <1>8

\* Every argument.
LEMMA ScanDoes ==
  ASSUME NEW argv, IsLine(argv), NEW i \in 1 .. Len(argv),
         NEW st, ScanState(st), st.pending = After(argv, i - 1)
  PROVE  Scans(argv, i, st, Scan(st, argv[i]))
<1>1. argv[i].shape \in {"long", "assign", "short", "dash", "word"}
  BY DEF IsLine, IsToken
<1>2. ~IsValue(argv)[i] => st.pending = None
  BY ValueIsWanted DEF After
<1> QED
  BY <1>1, <1>2, ValueScans, AssignScans, LongScans, ShortScans, OtherScans

-----------------------------------------------------------------------------
\* The line up to an argument: its mistakes, and where an option was given.
AnyWrong(argv, i) == \E j \in 1 .. i : Wrong(argv, j)
GivenIn(argv, o, i) == {j \in 1 .. i : GivenAt(argv, o, j) # {}}
Latest(argv, o, i) == CHOOSE k \in GivenIn(argv, o, i) : \A j \in GivenIn(argv, o, i) : j <= k
Meant(argv, o, i) ==
  IF GivenIn(argv, o, i) = {} THEN Unset[o]
  ELSE [has |-> TRUE, actual |-> CHOOSE v \in GivenAt(argv, o, Latest(argv, o, i)) : TRUE]

Follows(argv, i, st) ==
  /\ ScanState(st) /\ st.pending = After(argv, i)
  /\ IF AnyWrong(argv, i) THEN st.errors # << >>
     ELSE st.errors = << >> /\ \A o \in Option : st.options[o] = Meant(argv, o, i)

\* Before the first argument.
LEMMA FollowsFirst ==
  ASSUME NEW argv
  PROVE  Follows(argv, 0, Begin)
<1>1. Begin = [options |-> Begin.options, errors |-> Begin.errors, rest |-> Begin.rest,
               pending |-> Begin.pending]
      /\ Begin.options = Unset /\ Begin.errors = << >> /\ Begin.pending = None
  BY DEF Begin
<1>2. IsSeq(<< >>)
  BY DEF IsSeq
<1>3. \A o \in Option : IsOption(Unset[o], o)
  BY DefaultsAreTexts DEF Unset, IsOption
<1>4. DOMAIN Unset = Option /\ Unset = [o \in Option |-> Unset[o]]
  BY DEF Unset
<1>5. ScanState(Begin)
  BY <1>1, <1>2, <1>3, <1>4 DEF ScanState
<1>6. ~AnyWrong(argv, 0) /\ \A o \in Option : Meant(argv, o, 0) = Unset[o]
  BY DEF AnyWrong, Meant, GivenIn
<1>7. After(argv, 0) = None
  BY DEF After, Wants
<1> QED
  BY <1>1, <1>5, <1>6, <1>7 DEF Follows

\* Over one argument.
LEMMA FollowsNext ==
  ASSUME NEW argv, IsLine(argv), NEW i \in Nat, i + 1 <= Len(argv), NEW st, Follows(argv, i, st)
  PROVE  Follows(argv, i + 1, Scan(st, argv[i + 1]))
<1> DEFINE r == Scan(st, argv[i + 1])
           j == i + 1
<1>1. Len(argv) \in Nat /\ j \in 1 .. Len(argv) /\ j - 1 = i
  BY DEF IsLine, IsSeq
<1>2. Scans(argv, j, st, r)
  <2>1. ScanState(st) /\ st.pending = After(argv, j - 1)
    BY <1>1 DEF Follows
  <2> HIDE DEF j
  <2>2. Scans(argv, j, st, Scan(st, argv[j]))
    BY <1>1, <2>1, ScanDoes
  <2> QED
    BY <2>2 DEF j
<1> HIDE DEF r
<1>3. AnyWrong(argv, j) <=> AnyWrong(argv, i) \/ Wrong(argv, j)
  BY DEF AnyWrong
<1>4. ScanState(r) /\ r.pending = After(argv, j)
  BY <1>2 DEF Scans, Fails, Does
<1>5. CASE AnyWrong(argv, j)
  <2>1. r.errors # << >>
    BY <1>2, <1>3, <1>5 DEF Follows, Scans, Fails, Does
  <2> QED
    BY <1>4, <1>5, <2>1 DEF Follows, r
<1>6. CASE ~AnyWrong(argv, j)
  <2>1. Does(st, r, Gave(argv, j)) /\ st.errors = << >>
        /\ \A o \in Option : st.options[o] = Meant(argv, o, i)
    BY <1>2, <1>3, <1>6 DEF Follows, Scans
  <2>2. r.errors = << >>
    BY <2>1 DEF Does
  <2>3. ASSUME NEW o \in Option
        PROVE  r.options[o] = Meant(argv, o, j)
    <3>1. r.options[o] = IF GivenAt(argv, o, j) = {} THEN Meant(argv, o, i)
                         ELSE [has |-> TRUE, actual |-> CHOOSE v \in GivenAt(argv, o, j) : TRUE]
      BY <2>1 DEF Does, Gave
    <3>2. CASE GivenAt(argv, o, j) = {}
      <4>1. GivenIn(argv, o, j) = GivenIn(argv, o, i)
        BY <3>2 DEF GivenIn
      <4>2. Meant(argv, o, j) = Meant(argv, o, i)
        BY <4>1 DEF Meant, Latest
      <4> QED
        BY <3>1, <3>2, <4>2
    <3>3. CASE GivenAt(argv, o, j) # {}
      <4>1. j \in GivenIn(argv, o, j) /\ \A k \in GivenIn(argv, o, j) : k \in Nat /\ k <= j
        BY <3>3 DEF GivenIn
      <4>2. Latest(argv, o, j) = j
        BY <4>1 DEF Latest
      <4>3. Meant(argv, o, j)
              = [has |-> TRUE, actual |-> CHOOSE v \in GivenAt(argv, o, j) : TRUE]
        BY <4>1, <4>2 DEF Meant
      <4> QED
        BY <3>1, <3>3, <4>3
    <3> QED
      BY <3>2, <3>3
  <2> QED
    BY <1>4, <1>6, <2>2, <2>3 DEF Follows, r
<1> QED
  BY <1>5, <1>6

\* The whole line.
LEMMA ScannedFollows ==
  ASSUME NEW argv, IsLine(argv)
  PROVE  Follows(argv, Len(argv), Scanned(argv))
<1> DEFINE upTo[i \in 0 .. Len(argv)] ==
             IF i = 0 THEN Begin ELSE Scan(upTo[i - 1], argv[i])
           n == Len(argv)
           S == {i \in Nat : i <= n => Follows(argv, i, upTo[i])}
<1>1. Scanned(argv) = upTo[n] /\ n \in Nat
  BY DEF Scanned, IsLine, IsSeq
<1>2. upTo = [i \in 0 .. n |-> ScannedTo(argv, upTo, i)]
  <2>1. \E h : h = [i \in 0 .. n |-> ScannedTo(argv, h, i)]
    BY <1>1, ScanLoopExists
  <2> QED
    BY <2>1 DEF ScannedTo
<1> HIDE DEF upTo
<1>3. 0 \in S
  <2>1. upTo[0] = Begin
    BY <1>1, <1>2 DEF ScannedTo
  <2> QED
    BY <2>1, FollowsFirst
<1>4. ASSUME NEW i \in Nat, i \in S
      PROVE  i + 1 \in S
  <2>1. SUFFICES ASSUME i + 1 <= n
                 PROVE  Follows(argv, i + 1, upTo[i + 1])
    BY <1>4
  <2>2. Follows(argv, i, upTo[i])
    BY <1>1, <1>4, <2>1
  <2>3. upTo[i + 1] = Scan(upTo[i], argv[i + 1])
    BY <1>1, <1>2, <2>1 DEF ScannedTo
  <2> QED
    BY <2>1, <2>2, <2>3, FollowsNext
<1> HIDE DEF S
<1>5. Nat \subseteq S
  BY <1>3, <1>4, ArgumentInduction
<1> QED
  BY <1>1, <1>5 DEF S

-----------------------------------------------------------------------------
\* The options that are missing, in some order.
LEMMA SetToSeqIsSeq ==
  ASSUME NEW M, IsFiniteSet(M)
  PROVE  SetToSeq(M) \in Seq(M) /\ (SetToSeq(M) = << >> <=> M = {})
<1> DEFINE n == Cardinality(M)
<1>1. n \in Nat /\ ExistsBijection(1 .. n, M) /\ (n = 0 <=> M = {})
  BY FS_CardinalityType, FS_EmptySet
<1>2. \E f \in [1 .. n -> M] : IsInjective(f)
  BY <1>1 DEF ExistsBijection, Bijection, Injection
<1>3. SetToSeq(M) \in [1 .. n -> M]
  BY <1>2 DEF SetToSeq
<1> HIDE DEF n
<1>4. SetToSeq(M) \in Seq(M) /\ Len(SetToSeq(M)) = n
  BY <1>1, <1>3
<1> QED
  BY <1>1, <1>4

\* The missing options are finitely many, so SetToSeq lists each of them.
LEMMA SomeFinite ==
  ASSUME NEW T, T \subseteq Option
  PROVE  LET M == {<<"need option", o>> : o \in T}
         IN IsFiniteSet(M) /\ (M = {} <=> T = {})
<1> DEFINE M == {<<"need option", o>> : o \in T}
           f == [o \in T |-> <<"need option", o>>]
<1>1. IsFiniteSet(T)
  BY OptionsFinite, FS_Subset
<1>2. f \in Surjection(T, M)
  BY DEF Surjection
<1>3. IsFiniteSet(M)
  BY <1>1, <1>2, FS_Surjection
<1> QED
  BY <1>3

\* What parse makes of the state of the scan.
LEMMA ParseEnds ==
  ASSUME NEW argv, ScanState(Scanned(argv))
  PROVE  /\ \A o : exist(parse(argv), o) = Scanned(argv).options[o].has
         /\ \A o : get(parse(argv), o) = Scanned(argv).options[o].actual
         /\ parse(argv).errors = << >>
              <=> /\ Scanned(argv).errors = << >> /\ Scanned(argv).pending = None
                  /\ \A o \in Option : Described[o].need => Scanned(argv).options[o].has
<1> DEFINE st == Scanned(argv)
           end == IF st.pending = None THEN st
                  ELSE Error(st, "option needs value", st.pending)
           T == {o \in Option : Described[o].need /\ ~end.options[o].has}
           M == {<<"need option", o>> : o \in T}
           e == end.errors \o SetToSeq(M)
           r == [end EXCEPT !.errors = e]
<1>1. parse(argv) = r
  BY DEF parse
<1> HIDE DEF st
<1>2. /\ ScanState(end) /\ end.options = st.options
      /\ end.errors = << >> <=> st.errors = << >> /\ st.pending = None
  <2>1. CASE st.pending = None
    BY <2>1 DEF st
  <2>2. CASE st.pending # None
    <3> DEFINE q == Error(st, "option needs value", st.pending)
    <3>1. Fails(q)
      BY ErrorFails DEF st
    <3>2. q.options = st.options
      BY DEF Error, ScanState, st
    <3> QED
      BY <2>2, <3>1, <3>2 DEF Fails
  <2> QED
    BY <2>1, <2>2
<1> HIDE DEF end
<1>3. IsFiniteSet(M) /\ (M = {} <=> T = {})
  BY SomeFinite
<1>4. SetToSeq(M) \in Seq(M) /\ (SetToSeq(M) = << >> <=> M = {})
  <2> HIDE DEF M
  <2> QED
    BY <1>3, SetToSeqIsSeq
<1>5. T = {} <=> \A o \in Option : Described[o].need => st.options[o].has
  BY <1>2
<1> HIDE DEF T, M
<1>6. e = << >> <=> end.errors = << >> /\ M = {}
  <2>1. IsSeq(end.errors)
    BY <1>2 DEF ScanState
  <2> QED
    BY <1>4, <2>1 DEF IsSeq
<1> HIDE DEF e
<1>7. r = [options |-> end.options, errors |-> e, rest |-> end.rest, pending |-> end.pending]
  BY <1>2 DEF ScanState
<1> HIDE DEF r
<1>8. r.options = st.options /\ r.errors = e
  BY <1>2, <1>7
<1> QED
  BY <1>1, <1>2, <1>3, <1>5, <1>6, <1>8 DEF exist, get, st

\* A line that is no mistake but that it may end too early gives values that read.
LEMMA GivenReads ==
  ASSUME NEW argv, NEW i \in 1 .. Len(argv), IsLine(argv), ~Wrong(argv, i),
         NEW o \in Option, NEW v \in GivenAt(argv, o, i), has_value(o)
  PROVE  Reads(o, v)
<1>1. argv[i].shape \in {"long", "assign", "short", "dash", "word"}
  BY DEF IsLine, IsToken
<1> QED
  BY <1>1 DEF Wrong, GivenAt

\* The mistakes of a line.
LEMMA MistakesOfLine ==
  ASSUME NEW argv, IsLine(argv)
  PROVE  (\E i \in DOMAIN argv : Mistaken(argv, i))
           <=> AnyWrong(argv, Len(argv)) \/ Wants(argv, Len(argv))
<1> DEFINE n == Len(argv)
<1>1. n \in Nat /\ DOMAIN argv = 1 .. n
  BY DEF IsLine, IsSeq
<1>2. ASSUME NEW i \in 1 .. n
      PROVE  Mistaken(argv, i) <=> Wrong(argv, i) \/ (i = n /\ Wants(argv, i))
  <2>1. CASE IsValue(argv)[i]
    BY <2>1 DEF Mistaken, Wrong, Wants
  <2>2. CASE ~IsValue(argv)[i] /\ argv[i].shape = "long"
    <3>1. Mistaken(argv, i) <=> argv[i].name \notin Option \/ (has_value(argv[i].name) /\ i = n)
      BY <2>2 DEF Mistaken
    <3>2. Wrong(argv, i) <=> argv[i].name \notin Option
      BY <2>2 DEF Wrong
    <3>3. argv[i].name \in Option => (Wants(argv, i) <=> has_value(argv[i].name))
      BY <2>2, NoneIsNoOption DEF Wants, OptionNamed
    <3>4. argv[i].name \notin Option => ~Wants(argv, i)
      BY <2>2 DEF Wants, OptionNamed
    <3> QED
      BY <3>1, <3>2, <3>3, <3>4
  <2>3. CASE ~IsValue(argv)[i] /\ argv[i].shape = "short"
    <3> DEFINE ls == argv[i].letters
               k == Len(ls)
               o(j) == lookup(ls[j])
    <3>1. IsSeq(ls) /\ ls # << >>
      BY <2>3 DEF IsLine, IsToken
    <3>2. k \in Nat /\ k \in 1 .. k /\ DOMAIN ls = 1 .. k /\ Last(ls) = ls[k]
      <4> HIDE DEF ls
      <4> QED
        BY <3>1 DEF IsSeq, Last
    <3>3. Mistaken(argv, i) <=>
            \E j \in 1 .. k : o(j) = None \/ (has_value(o(j)) /\ (j < k \/ i = n))
      BY <2>3, <3>2 DEF Mistaken
    <3>4. Wrong(argv, i) <=> \E j \in 1 .. k : o(j) = None \/ (has_value(o(j)) /\ j < k)
      BY <2>3 DEF Wrong
    <3>5. Wants(argv, i) <=> o(k) # None /\ has_value(o(k))
      BY <1>2, <2>3, <3>2 DEF Wants, OptionNamed
    <3>6. \A j \in 1 .. k : j < k \/ j = k
      BY <3>2
    <3> HIDE DEF o, k, n
    <3> QED
      BY <3>2, <3>3, <3>4, <3>5, <3>6
  <2>4. CASE ~IsValue(argv)[i] /\ argv[i].shape \in {"assign", "dash", "word"}
    BY <2>4 DEF Mistaken, Wrong, Wants, OptionNamed
  <2> QED
    BY <2>1, <2>2, <2>3, <2>4 DEF IsLine, IsToken
<1>3. Wants(argv, n) => n \in 1 .. n
  BY <1>1 DEF Wants
<1> HIDE DEF n
<1> QED
  BY <1>1, <1>2, <1>3 DEF AnyWrong, n

(***************************************************************************)
(* The parser does what an operator expects of it: for every set of        *)
(* options and every line of any length, a line with a mistake is refused, *)
(* and else every option has the value it was given last.                  *)
(***************************************************************************)
THEOREM ParseMeans ==
  ASSUME NEW argv, IsLine(argv)
  PROVE  Means(argv, parse(argv))
<1> DEFINE n == Len(argv)
           st == Scanned(argv)
           p == parse(argv)
           Mistake == AnyWrong(argv, n) \/ Wants(argv, n)
<1>1. n \in Nat /\ DOMAIN argv = 1 .. n
  BY DEF IsLine, IsSeq
<1>2. Follows(argv, n, st)
  BY ScannedFollows
<1>3. /\ \A o : exist(p, o) = st.options[o].has /\ get(p, o) = st.options[o].actual
      /\ p.errors = << >>
           <=> /\ st.errors = << >> /\ st.pending = None
               /\ \A o \in Option : Described[o].need => st.options[o].has
  BY <1>2, ParseEnds DEF Follows
<1>4. (\E i \in DOMAIN argv : Mistaken(argv, i)) <=> Mistake
  BY MistakesOfLine
<1>5. st.pending = None <=> ~Wants(argv, n)
  BY <1>2 DEF Follows, After, Wants
<1> HIDE DEF n, st, p
<1>6. CASE Mistake
  <2>1. p.errors # << >>
    BY <1>2, <1>3, <1>5, <1>6 DEF Follows
  <2> QED
    BY <1>4, <1>6, <2>1 DEF Means, p
<1>7. CASE ~Mistake
  <2>1. st.errors = << >> /\ st.pending = None /\ \A o \in Option : st.options[o] = Meant(argv, o, n)
    BY <1>2, <1>5, <1>7 DEF Follows
  <2>2. ASSUME NEW o \in Option
        PROVE  /\ st.options[o].has <=> \E i \in DOMAIN argv : GivenAt(argv, o, i) # {}
               /\ st.options[o].actual = LastGiven(argv, o)
    <3> DEFINE at == {i \in DOMAIN argv : \E v \in GivenAt(argv, o, i) : has_value(o) => Reads(o, v)}
    <3>1. ASSUME NEW i \in 1 .. n
          PROVE  (\E v \in GivenAt(argv, o, i) : has_value(o) => Reads(o, v))
                   <=> GivenAt(argv, o, i) # {}
      <4>1. ~Wrong(argv, i) /\ i \in 1 .. Len(argv)
        BY <1>7, <3>1 DEF AnyWrong, n
      <4> QED
        BY <4>1, GivenReads
    <3>2. at = GivenIn(argv, o, n)
      BY <1>1, <3>1 DEF GivenIn
    <3>3. LastGiven(argv, o)
            = IF at = {} THEN Described[o].default
              ELSE CHOOSE v \in GivenAt(argv, o, CHOOSE i \in at : \A j \in at : j <= i) : TRUE
      BY DEF LastGiven
    <3> HIDE DEF at
    <3>4. LastGiven(argv, o)
            = IF GivenIn(argv, o, n) = {} THEN Described[o].default
              ELSE CHOOSE v \in GivenAt(argv, o, Latest(argv, o, n)) : TRUE
      BY <3>2, <3>3 DEF Latest
    <3>5. GivenIn(argv, o, n) # {} <=> \E i \in DOMAIN argv : GivenAt(argv, o, i) # {}
      BY <1>1 DEF GivenIn
    <3>6. st.options[o] = IF GivenIn(argv, o, n) = {} THEN [has |-> FALSE, actual |-> Described[o].default]
                          ELSE [has |-> TRUE, actual |-> CHOOSE v \in GivenAt(argv, o, Latest(argv, o, n)) : TRUE]
      BY <2>1, <2>2 DEF Meant, Unset
    <3> QED
      BY <3>4, <3>5, <3>6
  <2>3. (\E o \in Option : Missing(argv, o))
          <=> \E o \in Option : Described[o].need /\ ~st.options[o].has
    BY <2>2 DEF Missing
  <2>4. p.errors = << >> <=> ~ \E o \in Option : Missing(argv, o)
    BY <1>3, <2>1, <2>3
  <2> QED
    BY <1>3, <1>4, <1>7, <2>2, <2>4 DEF Means, p
<1> QED
  BY <1>6, <1>7

\* The values it finds are texts.
LEMMA ParsedTexts ==
  ASSUME NEW argv, IsLine(argv), NEW o \in Option
  PROVE  IsSeq(get(parse(argv), o).text)
<1>1. ScanState(Scanned(argv))
  BY ScannedFollows DEF Follows
<1> QED
  BY <1>1, ParseEnds DEF ScanState, IsOption
=============================================================================
