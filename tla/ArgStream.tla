----------------------------- MODULE ArgStream ------------------------------
(***************************************************************************)
(* What the argument parsers of iw are made of (util.c).  A parser is a    *)
(* record that its steps map to a record: the arguments, how many of them  *)
(* have been consumed, the message built so far, and the value returned,   *)
(* "go" while the parser runs.  An attribute in the message is the path of *)
(* attribute types that leads to it, followed by its value; flags have no  *)
(* value.  There is always room in the message: NlMsg is about that.       *)
(*                                                                         *)
(* An argument is a string.  Parts splits those that hold several values,  *)
(* as "1,2" or "00:11" do; the rest is told apart by the sets below.       *)
(***************************************************************************)
EXTENDS Channels

Macs == {"02:00:00:00:00:01", "02:00:00:00:00:02"}

Composite ==
  ("1,2" :> <<"1", "2">>) @@ ("1,5.5" :> <<"1", "5.5">>) @@ ("1,x" :> <<"1", "x">>)
  @@ ("00:11" :> <<"00", "11">>) @@ ("dd:-:05" :> <<"dd", "-", "05">>)
  @@ ("-:xyz" :> <<"-", "xyz">>) @@ ("m1;m2" :> <<"m1", "m2">>)
  @@ ("a:*:b" :> <<"a", "*", "b">>)
Parts(t) == IF t \in DOMAIN Composite THEN Composite[t] ELSE <<t>>

-----------------------------------------------------------------------------
\* argv[argc] is a null pointer.
Null == "NULL"
ASSUME NullIsNoNumber == ~IsNumber(Null)

\* again: the step that was taken is to be taken again, as the body of a loop;
\* loc: the variables of the parser.
Parser(argv) == [argv |-> argv, pos |-> 0, msg |-> <<>>, ret |-> "go",
                 again |-> FALSE, loc |-> [st |-> "start"]]

Left(p) == Len(p.argv) - p.pos
Peek(p, k) == IF k < Left(p) THEN p.argv[p.pos + k + 1] ELSE Null
Arg(p) == Peek(p, 0)
Rest(p) == SubSeq(p.argv, p.pos + 1, Len(p.argv))

Shift(p, n) == [p EXCEPT !.pos = @ + n]
Return(p, r) == [p EXCEPT !.ret = r]
Again(p) == [p EXCEPT !.again = TRUE]
Need(p, n) == IF Left(p) < n THEN Return(p, "1") ELSE p
Put(p, entry) == [p EXCEPT !.msg = Append(@, entry)]
PutArg(p, attr) == Shift(Put(p, <<attr, Arg(p)>>), 1)
PutAll(p, entries) == [p EXCEPT !.msg = @ \o entries]
PutNested(p, attr, block) ==
  PutAll(p, <<<<attr>>>> \o [i \in DOMAIN block |-> <<attr>> \o block[i]])

Has(p, entry) == \E i \in DOMAIN p.msg : p.msg[i] = entry

Word(p, w) == Left(p) > 0 /\ Arg(p) = w

\* argc > 1 && strcmp(argv[0], word) == 0: a word and what belongs to it.
Option(p, word) == Left(p) > 1 /\ Arg(p) = word

\* An argument that has to be a number, and is put as attr.
NumberArg(p, attr, err) ==
  IF Left(p) = 0 THEN Return(p, "undefined")
  ELSE IF IsNumber(Arg(p)) THEN Shift(Put(p, <<attr, Arg(p)>>), 1)
  ELSE Return(p, err)

\* Mutant: the word is looked at, and not whether there is one behind it.
OptNumberUnchecked(p, word, attr) ==
  IF Word(p, word) THEN NumberArg(Shift(p, 1), attr, "1") ELSE p

OptNumber(p, word, attr) ==
  IF Option(p, word) THEN NumberArg(Shift(p, 1), attr, "1") ELSE p

\* A word that stands for a flag.
Flag(p, word, entry) == IF Option(p, word) THEN Shift(Put(p, entry), 1) ELSE p

\* atoi() takes what is not a number for zero.
atoi(t) == IF IsNumber(t) THEN t ELSE "0"

\* A command of exactly one argument.
OneArg(p, ok, attr, err) ==
  IF Left(p) # 1 THEN Return(p, "1")
  ELSE IF ~ok THEN Return(p, err)
  ELSE Return(PutArg(p, attr), "0")

-----------------------------------------------------------------------------
mac_addr_a2n(t) == t \in Macs

\* The bytes between the colons, each a byte or, if a mask is wanted, a place
\* that may hold any; the mask tells which.
HexBytes == {"00", "05", "11", "dd"}
WildBytes == {"-", "xx", "--"}

parse_hex_mask(t, wanted) ==
  LET bytes == Parts(t)
      Fixed == {i \in DOMAIN bytes : bytes[i] \in HexBytes}
      Wild  == {i \in DOMAIN bytes : wanted /\ bytes[i] \in WildBytes}
  IN  [ok   |-> Fixed \cup Wild = DOMAIN bytes,
       val  |-> [i \in DOMAIN bytes |-> IF i \in Wild THEN "0" ELSE bytes[i]],
       mask |-> [i \in DOMAIN bytes |-> IF i \in Fixed THEN "1" ELSE "0"]]

parse_hex(t) == parse_hex_mask(t, FALSE)

\* The text behind "randomise": nothing, or "=<addr>/<mask>".
RandomMacs == ("" :> <<"0", "multicast bit">>)
              @@ ("=a/m" :> <<"a", "m">>)

parse_random_mac_addr(p, rest) ==
  IF rest \in DOMAIN RandomMacs
  THEN PutAll(p, <<<<"MAC", RandomMacs[rest][1]>>,
                   <<"MAC_MASK", RandomMacs[rest][2]>>>>)
  ELSE Return(p, "1")

\* Arguments that begin with "randomise", and what follows that.
Randomise == ("randomise" :> "") @@ ("randomise=a/m" :> "=a/m")
             @@ ("randomise=a" :> "=a")
=============================================================================
