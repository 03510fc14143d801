--------------------------- MODULE IwArgsProofs ----------------------------
(***************************************************************************)
(* That iw's handlers read their arguments and nothing else, for every     *)
(* command line of any length.                                             *)
(*                                                                         *)
(* A handler gets argc and argv, and looks at argc before some of the      *)
(* words it reads and not before others.  What a step of a parser keeps is *)
(* that its position is inside argv or at its end (Sound); a lemma per     *)
(* operator says that it is kept, from what the operator has compared      *)
(* before it steps on (Holds, WordThere, NumberThere, MacThere).  A few    *)
(* handlers return a variable they never set (Fine).  Parsers that are     *)
(* called again with a state of their own keep that state known (Known).   *)
(*                                                                         *)
(* StepArgs, at the end, puts them together: ArgsOK is inductive.          *)
(***************************************************************************)
EXTENDS IwArgs, SequenceTheorems, FiniteSetTheorems, TLAPS

\* What the steps of a parser keep.
Returnable == {"0", "1", "2", "EINVAL", "ENOBUFS", "ENOENT", "EPERM", "go"}
WordList(s) == s \in Seq({s[i] : i \in DOMAIN s})
Shaped(q) ==
  /\ q = [argv |-> q.argv, pos |-> q.pos, msg |-> q.msg, ret |-> q.ret, again |-> q.again,
          loc |-> q.loc]
  /\ WordList(q.argv) /\ Len(q.argv) \in Nat /\ q.pos \in 0..Len(q.argv)
Sound(q) == Shaped(q) /\ q.ret \in Returnable
Fine(q) == Shaped(q) /\ q.ret \in Returnable \cup {"undefined"}
\* There are n more arguments.
Holds(q, n) == Sound(q) /\ Left(q) >= n

\* What a look at argc tells of the arguments that are left.
LEMMA Reduced ==
  ASSUME NEW q, Sound(q)
  PROVE  Holds(q, 0) /\ Fine(q) /\ (Left(q) > 0 => Holds(q, 1)) /\ (Left(q) # 0 => Holds(q, 1))
         /\ (Left(q) > 1 => Holds(q, 2)) /\ (Left(q) \in Nat)
  BY DEF Sound, Shaped, Holds, Left, Fine

\* Who has n arguments has fewer.
LEMMA Fewer ==
  ASSUME NEW q, NEW n
  PROVE  /\ Holds(q, n) => Sound(q)
         /\ Holds(q, 2) => Holds(q, 1)
         /\ Holds(q, 3) => Holds(q, 2)
         /\ Holds(q, 4) => Holds(q, 3)
         /\ Holds(q, 5) => Holds(q, 4)
  BY DEF Sound, Shaped, Holds, Left

\* An attribute takes no argument.
LEMMA PutHolds ==
  ASSUME NEW q, NEW e, NEW n
  PROVE  /\ Sound(q) => Sound(Put(q, e))
         /\ Holds(q, n) => Holds(Put(q, e), n)
         /\ Sound(q) => Put(q, e).ret = q.ret /\ Put(q, e).again = q.again /\ Put(q, e).loc = q.loc
                        /\ Left(Put(q, e)) = Left(q) /\ Put(q, e).argv = q.argv /\ Put(q, e).pos = q.pos
<1> DEFINE m == Append(q.msg, e)
           r == [q EXCEPT !.msg = m]
<1>1. Put(q, e) = r
  BY DEF Put
<1> HIDE DEF m
<1>2. Sound(q) => Sound(r) /\ r.ret = q.ret /\ r.again = q.again /\ r.loc = q.loc
                        /\ Left(r) = Left(q) /\ r.argv = q.argv /\ r.pos = q.pos
  BY DEF Sound, Shaped, Left
<1> HIDE DEF r
<1>3. Holds(q, n) => Holds(r, n)
  BY <1>2 DEF Holds
<1> QED BY <1>1, <1>2, <1>3, Zenon

\* Nor do several attributes.
LEMMA PutAllHolds ==
  ASSUME NEW q, NEW e, NEW n
  PROVE  /\ Sound(q) => Sound(PutAll(q, e))
         /\ Holds(q, n) => Holds(PutAll(q, e), n)
         /\ Sound(q) => PutAll(q, e).ret = q.ret /\ PutAll(q, e).again = q.again /\ PutAll(q, e).loc = q.loc
                        /\ Left(PutAll(q, e)) = Left(q) /\ PutAll(q, e).argv = q.argv
                        /\ PutAll(q, e).pos = q.pos
<1> DEFINE m == q.msg \o e
           r == [q EXCEPT !.msg = m]
<1>1. PutAll(q, e) = r
  BY DEF PutAll
<1> HIDE DEF m
<1>2. Sound(q) => Sound(r) /\ r.ret = q.ret /\ r.again = q.again /\ r.loc = q.loc
                        /\ Left(r) = Left(q) /\ r.argv = q.argv /\ r.pos = q.pos
  BY DEF Sound, Shaped, Left
<1> HIDE DEF r
<1>3. Holds(q, n) => Holds(r, n)
  BY <1>2 DEF Holds
<1> QED BY <1>1, <1>2, <1>3, Zenon

\* The handler's own variables are not the arguments.
LEMMA LocSound ==
  ASSUME NEW q, NEW l
  PROVE  /\ Sound(q) => Sound([q EXCEPT !.loc = l])
         /\ Sound(q) => /\ [q EXCEPT !.loc = l].ret = q.ret /\ [q EXCEPT !.loc = l].again = q.again
                        /\ [q EXCEPT !.loc = l].loc = l
                        /\ Left([q EXCEPT !.loc = l]) = Left(q) /\ [q EXCEPT !.loc = l].argv = q.argv
                        /\ [q EXCEPT !.loc = l].pos = q.pos
  BY DEF Sound, Shaped, Left

\* A handler that returns has read what it has read.
LEMMA ReturnSound ==
  ASSUME NEW q, NEW r
  PROVE  /\ (Sound(q) /\ r \in Returnable) => Sound(Return(q, r))
         /\ (Sound(q) /\ r \in Returnable \cup {"undefined"}) => Fine(Return(q, r))
         /\ Sound(q) => /\ Return(q, r).ret = r /\ Return(q, r).again = q.again /\ Return(q, r).loc = q.loc
                        /\ Left(Return(q, r)) = Left(q) /\ Return(q, r).argv = q.argv
                        /\ Return(q, r).pos = q.pos
  BY DEF Sound, Shaped, Left, Return, Fine

\* Nor does it read when it asks to be called again.
LEMMA AgainSound ==
  ASSUME NEW q
  PROVE  /\ Sound(q) => Sound(Again(q))
         /\ Fine(q) => Fine(Again(q))
         /\ Fine(q) => /\ Again(q).ret = q.ret /\ Again(q).again = TRUE /\ Again(q).loc = q.loc
                       /\ Left(Again(q)) = Left(q) /\ Again(q).argv = q.argv
                       /\ Again(q).pos = q.pos
<1> SUFFICES ASSUME Shaped(q)
             PROVE  /\ Shaped(Again(q)) /\ Again(q).ret = q.ret /\ Again(q).again = TRUE
                    /\ Again(q).loc = q.loc /\ Left(Again(q)) = Left(q) /\ Again(q).argv = q.argv
                    /\ Again(q).pos = q.pos
  BY Zenon DEF Sound, Fine
<1>1. PICK r : r = Again(q)
  OBVIOUS
<1>2. /\ r.ret = q.ret /\ r.again = TRUE /\ r.loc = q.loc /\ r.argv = q.argv
      /\ r.pos = q.pos /\ r.msg = q.msg
      /\ r = [argv |-> r.argv, pos |-> r.pos, msg |-> r.msg, ret |-> r.ret, again |-> r.again,
              loc |-> r.loc]
  BY <1>1 DEF Shaped, Again
<1>3. Shaped(r) /\ Left(r) = Left(q)
  BY <1>2 DEF Shaped, Left
<1> QED BY <1>1, <1>2, <1>3

\* argv += n with n arguments there.
LEMMA ShiftFields ==
  ASSUME NEW q, Sound(q), NEW n \in Nat, n <= Left(q)
  PROVE  /\ Sound(Shift(q, n)) /\ Left(Shift(q, n)) = Left(q) - n
         /\ Shift(q, n).ret = q.ret /\ Shift(q, n).again = q.again /\ Shift(q, n).loc = q.loc
         /\ Shift(q, n).argv = q.argv /\ Shift(q, n).pos = q.pos + n
<1>1. PICK r : r = Shift(q, n)
  OBVIOUS
<1>2. /\ r.ret = q.ret /\ r.again = q.again /\ r.loc = q.loc /\ r.argv = q.argv
      /\ r.pos = q.pos + n /\ r.msg = q.msg
      /\ r = [argv |-> r.argv, pos |-> r.pos, msg |-> r.msg, ret |-> r.ret, again |-> r.again,
              loc |-> r.loc]
  BY <1>1 DEF Sound, Shaped, Shift
<1>3. q.pos \in 0..Len(q.argv) /\ Len(q.argv) \in Nat /\ n <= Len(q.argv) - q.pos
  BY DEF Sound, Shaped, Left
<1>4. r.pos \in 0..Len(r.argv) /\ Len(r.argv) \in Nat /\ Len(r.argv) - r.pos = Len(q.argv) - q.pos - n
  BY <1>2, <1>3
<1>5. Left(r) = Left(q) - n
  BY <1>4 DEF Left
<1>6. Sound(r)
  BY <1>2, <1>4, Zenon DEF Sound, Shaped
<1> QED BY <1>1, <1>2, <1>5, <1>6

\* The arguments behind the next n are still there.
LEMMA ShiftHolds ==
  ASSUME NEW q, NEW n \in Nat, NEW m \in Nat, Holds(q, n + m)
  PROVE  Holds(Shift(q, n), m)
<1>1. Sound(q) /\ Left(q) >= n + m /\ Left(q) \in Nat
  BY Reduced DEF Holds
<1>2. n <= Left(q)
  BY <1>1
<1>3. Sound(Shift(q, n)) /\ Left(Shift(q, n)) = Left(q) - n
  BY <1>1, <1>2, ShiftFields
<1> QED BY <1>1, <1>3 DEF Holds

\* The same for the small numbers that the handlers step by.
LEMMA ShiftSound ==
  ASSUME NEW q
  PROVE  /\ Holds(q, 1) => Sound(Shift(q, 1))
         /\ Holds(q, 2) => Sound(Shift(q, 2)) /\ Holds(Shift(q, 1), 1)
         /\ Holds(q, 3) => Sound(Shift(q, 3)) /\ Holds(Shift(q, 1), 2) /\ Holds(Shift(q, 2), 1)
         /\ Holds(q, 4) => Holds(Shift(q, 1), 3)
         /\ Holds(q, 5) => Sound(Shift(q, 5))
<1>1. \A n, m \in Nat : Holds(q, n + m) => Holds(Shift(q, n), m)
  BY ShiftHolds
<1>2. \A n : Holds(Shift(q, n), 0) => Sound(Shift(q, n))
  BY DEF Holds
<1>3. /\ Holds(q, 1 + 0) => Holds(Shift(q, 1), 0)
      /\ Holds(q, 2 + 0) => Holds(Shift(q, 2), 0)
      /\ Holds(q, 3 + 0) => Holds(Shift(q, 3), 0)
      /\ Holds(q, 5 + 0) => Holds(Shift(q, 5), 0)
  BY <1>1
<1>4. /\ Holds(q, 1 + 1) => Holds(Shift(q, 1), 1)
      /\ Holds(q, 1 + 2) => Holds(Shift(q, 1), 2)
      /\ Holds(q, 2 + 1) => Holds(Shift(q, 2), 1)
      /\ Holds(q, 1 + 3) => Holds(Shift(q, 1), 3)
  BY <1>1
<1>5. 1 + 0 = 1 /\ 2 + 0 = 2 /\ 3 + 0 = 3 /\ 5 + 0 = 5 /\ 1 + 1 = 2 /\ 1 + 2 = 3 /\ 2 + 1 = 3 /\ 1 + 3 = 4
  OBVIOUS
<1> QED BY <1>2, <1>3, <1>4, <1>5, Zenon

\* An argument that is one of a set of words is there.
LEMMA ThereIs ==
  ASSUME NEW q, Sound(q), NEW words, Null \notin words
  PROVE  /\ Arg(q) \in words => Holds(q, 1)
         /\ Peek(q, 1) \in words => Holds(q, 2)
         /\ Peek(q, 2) \in words => Holds(q, 3)
<1>1. Left(q) \in Nat
  BY Reduced
<1>2. /\ Arg(q) \in words => Left(q) > 0
      /\ Peek(q, 1) \in words => Left(q) > 1
      /\ Peek(q, 2) \in words => Left(q) > 2
  BY DEF Arg, Peek
<1> QED BY <1>1, <1>2 DEF Holds

\* A word that was compared is an argument, not argv[argc].
LEMMA WordThere ==
  ASSUME NEW q, Sound(q), NEW w
  PROVE  /\ Word(q, w) => Holds(q, 1)
         /\ Option(q, w) => Holds(q, 2)
         /\ w # Null => /\ Arg(q) = w => Holds(q, 1)
                        /\ Peek(q, 1) = w => Holds(q, 2)
<1>1. Left(q) \in Nat
  BY Reduced
<1>2. w # Null => (Arg(q) = w => Left(q) > 0) /\ (Peek(q, 1) = w => Left(q) > 1)
  BY DEF Arg, Peek
<1> QED BY <1>1, <1>2 DEF Holds, Word, Option

\* So is a number that strtoul() has read to its end,
LEMMA NumberThere ==
  ASSUME NEW q, Sound(q)
  PROVE  /\ IsNumber(Arg(q)) => Holds(q, 1)
         /\ IsNumber(Peek(q, 1)) => Holds(q, 2)
<1>1. Null \notin Numbers
  BY NullIsNoNumber DEF IsNumber
<1> QED BY <1>1, ThereIs, Zenon DEF IsNumber

\* and an address.
LEMMA MacThere ==
  ASSUME NEW q, Sound(q)
  PROVE  /\ mac_addr_a2n(Arg(q)) => Holds(q, 1)
         /\ mac_addr_a2n(Peek(q, 1)) => Holds(q, 2)
         /\ mac_addr_a2n(Peek(q, 2)) => Holds(q, 3)
<1>1. Null \notin Macs
  BY DEF Macs, Null
<1> QED BY <1>1, ThereIs, Zenon DEF mac_addr_a2n
-----------------------------------------------------------------------------
\* NLA_PUT of *argv, and argv++.
LEMMA PutArgSound ==
  ASSUME NEW q, NEW attr
  PROVE  /\ Holds(q, 1) => Sound(PutArg(q, attr))
         /\ Holds(q, 2) => Holds(PutArg(q, attr), 1)
         /\ Holds(q, 3) => Holds(PutArg(q, attr), 2)
         /\ Holds(q, 1) => PutArg(q, attr).ret = q.ret /\ PutArg(q, attr).again = q.again
                           /\ PutArg(q, attr).loc = q.loc /\ Left(PutArg(q, attr)) = Left(q) - 1
<1>1. PICK r : r = Put(q, <<attr, Arg(q)>>)
  OBVIOUS
<1>2. PutArg(q, attr) = Shift(r, 1)
  BY <1>1 DEF PutArg
<1>3. /\ Holds(q, 1) => Holds(r, 1) /\ r.ret = q.ret /\ r.again = q.again /\ r.loc = q.loc /\ Left(r) = Left(q)
      /\ Holds(q, 2) => Holds(r, 2)
      /\ Holds(q, 3) => Holds(r, 3)
  BY <1>1, PutHolds, Fewer, Zenon
<1>4. Holds(r, 1) => Sound(r) /\ 1 \in Nat /\ 1 <= Left(r)
  BY DEF Holds
<1>5. Holds(r, 1) => /\ Shift(r, 1).ret = r.ret /\ Shift(r, 1).again = r.again
                     /\ Shift(r, 1).loc = r.loc /\ Left(Shift(r, 1)) = Left(r) - 1
  BY <1>4, ShiftFields, Zenon
<1>6. /\ Holds(r, 1) => Sound(Shift(r, 1))
      /\ Holds(r, 2) => Holds(Shift(r, 1), 1)
      /\ Holds(r, 3) => Holds(Shift(r, 1), 2)
  BY ShiftSound, Zenon
<1> QED BY <1>2, <1>3, <1>5, <1>6, Zenon

\* A word out of a table, or an error.
LEMMA NumberArgSound ==
  ASSUME NEW q, NEW attr, NEW err \in Returnable
  PROVE  /\ Sound(q) => Fine(NumberArg(q, attr, err))
         /\ Holds(q, 1) => Sound(NumberArg(q, attr, err))
<1>2. Holds(q, 1) => Left(q) # 0 /\ Sound(q)
  BY DEF Holds
<1>3. Left(q) = 0 /\ Sound(q) => Fine(Return(q, "undefined"))
  BY ReturnSound DEF Returnable
<1> QED BY <1>2, <1>3, NumberThere, PutHolds, ShiftSound, ReturnSound, Fewer, Reduced, Zenon DEF NumberArg

\* The values that are returned.
LEMMA Errors ==
  ASSUME NEW q, Sound(q)
  PROVE  /\ Sound(Return(q, "0")) /\ Sound(Return(q, "1")) /\ Sound(Return(q, "2"))
         /\ Sound(Return(q, "EINVAL")) /\ Sound(Return(q, "ENOBUFS")) /\ Sound(Return(q, "ENOENT"))
         /\ Sound(Return(q, "EPERM"))
         /\ Fine(Return(q, "undefined"))
  BY ReturnSound DEF Returnable

\* A word and the number behind it.
LEMMA OptNumberSound ==
  ASSUME NEW q, Sound(q), NEW word, NEW attr
  PROVE  Sound(OptNumber(q, word, attr))
<1>1. "1" \in Returnable
  BY DEF Returnable
<1> QED BY <1>1, WordThere, ShiftSound, NumberArgSound, Zenon DEF OptNumber

\* A word that stands for an attribute.
LEMMA FlagSound ==
  ASSUME NEW q, Sound(q), NEW word, NEW entry
  PROVE  Sound(Flag(q, word, entry))
  BY WordThere, PutHolds, ShiftSound, Fewer, Zenon DEF Flag

\* A handler with one argument.
LEMMA OneArgSound ==
  ASSUME NEW q, Sound(q), NEW ok, NEW attr, NEW err \in Returnable
  PROVE  Sound(OneArg(q, ok, attr, err))
<1>1. Left(q) = 1 => Holds(q, 1)
  BY DEF Holds
<1> QED BY <1>1, PutArgSound, Errors, ReturnSound, Zenon DEF OneArg

\* parse_random_mac_addr(): "randomise", with an address and its mask or without.
LEMMA RandomSound ==
  ASSUME NEW q, Sound(q), NEW rest
  PROVE  /\ Sound(parse_random_mac_addr(q, rest))
         /\ parse_random_mac_addr(q, rest).loc = q.loc
<1>1. CASE rest \in DOMAIN RandomMacs
  BY <1>1, PutAllHolds, Zenon DEF parse_random_mac_addr
<1>2. CASE rest \notin DOMAIN RandomMacs
  BY <1>2, Errors, ReturnSound, Zenon DEF parse_random_mac_addr
<1> QED BY <1>1, <1>2

\* parse_freqchan() uses no more arguments than there are.
LEMMA WidthUses ==
  ASSUME NEW def, NEW S, NEW a \in Seq(S), a # <<>>, NEW w, NEW n \in Nat
  PROVE  /\ WithWidth(def, a, w, n).used \in 0..Len(a)
         /\ WithWidth(def, a, w, n).err \in {"0", "1"}
<1> DEFINE good == {k \in 1..n : k < Len(a) /\ \A j \in 1..k : IsNumber(a[j + 1])}
<1>1. Len(a) \in Nat /\ Len(a) >= 1
  OBVIOUS
<1>2. good \subseteq 1..(Len(a) - 1)
  BY <1>1
<1>3. IsFiniteSet(1..(Len(a) - 1)) /\ Cardinality(1..(Len(a) - 1)) = Len(a) - 1
  BY <1>1, FS_Interval
<1>4. Cardinality(good) \in 0..(Len(a) - 1)
  <2>1. IsFiniteSet(good) /\ Cardinality(good) <= Cardinality(1..(Len(a) - 1))
    BY <1>2, <1>3, FS_Subset
  <2>2. Cardinality(good) \in Nat
    BY <2>1, FS_CardinalityType
  <2> QED BY <1>3, <2>1, <2>2
<1> HIDE DEF good
<1>5. /\ WithWidth(def, a, w, n).used = (IF w = "20_NOHT" THEN 0 ELSE 1 + Cardinality(good))
      /\ WithWidth(def, a, w, n).err = (IF Cardinality(good) < n THEN "1" ELSE "0")
  BY DEF WithWidth, good
<1> QED BY <1>1, <1>4, <1>5

\* parse_freqs() takes no more arguments than there are.
LEMMA FreqsUse ==
  ASSUME NEW def, NEW S, NEW a \in Seq(S)
  PROVE  parse_freqs(def, a).used \in 0..Len(a) /\ parse_freqs(def, a).err \in {"0", "1"}
<1>1. CASE a = <<>>
  BY <1>1 DEF parse_freqs
<1>2. CASE a # <<>>
  <2>1. PICK w : w = str_to_bw(a[1])
    OBVIOUS
  <2>2. CentresOf(w) \in Nat
    BY DEF CentresOf
  <2>3. parse_freqs(def, a) = WithWidth(def, a, w, CentresOf(w))
    BY <1>2, <2>1, Zenon DEF parse_freqs
  <2> QED BY <1>2, <2>2, <2>3, WidthUses
<1> QED BY <1>1, <1>2

\* Nor does parse_freqchan().
LEMMA ChanUses ==
  ASSUME NEW S, NEW a \in Seq(S), NEW chan \in BOOLEAN, NEW exact \in BOOLEAN
  PROVE  parse_freqchan(chan, a, exact).used \in 0..Len(a) /\ parse_freqchan(chan, a, exact).err \in {"0", "1"}
<1>1. CASE ~IsNum(a, 1)
  BY <1>1 DEF parse_freqchan
<1>2. CASE IsNum(a, 1)
  <2>1. a # <<>> /\ Len(a) \in Nat /\ Len(a) >= 1
    BY <1>2 DEF IsNum
  <2>2. PICK def : def = Definition(ChanFreq(chan, Num(a[1])))
    OBVIOUS
  <2>3. PICK res : res = Chosen(chan, def, a)
    OBVIOUS
  <2>4. res = [def |-> res.def, used |-> res.used, err |-> res.err]
        /\ res.used \in 0..Len(a) /\ res.err \in {"0", "1"}
    <3>1. CASE Len(a) > 1 /\ a[2] \in DOMAIN chanmode
      <4>1. res = [def |-> WithMode(def, chanmode[a[2]]), used |-> 2, err |-> "0"]
        BY <2>3, <3>1, Zenon DEF Chosen
      <4> QED BY <2>1, <3>1, <4>1
    <3>2. CASE ~(Len(a) > 1 /\ a[2] \in DOMAIN chanmode) /\ chan
      <4>1. res = [def |-> def, used |-> 1, err |-> "0"]
        BY <2>3, <3>2, Zenon DEF Chosen
      <4> QED BY <2>1, <4>1
    <3>3. CASE ~(Len(a) > 1 /\ a[2] \in DOMAIN chanmode) /\ ~chan
      <4>1. PICK f : f = parse_freqs(def, Tail(a))
        OBVIOUS
      <4>2. res = [f EXCEPT !.used = 1 + @]
        BY <2>3, <3>3, <4>1, Zenon DEF Chosen, OneMore
      <4>3. Tail(a) \in Seq(S) /\ Len(Tail(a)) = Len(a) - 1
        BY <2>1
      <4>4. f.used \in 0..(Len(a) - 1) /\ f.err \in {"0", "1"}
        BY <4>1, <4>3, FreqsUse
      <4>5. f = [def |-> f.def, used |-> f.used, err |-> f.err]
        BY <4>1 DEF parse_freqs, WithWidth
      <4> QED BY <2>1, <4>2, <4>4, <4>5
    <3> QED BY <3>1, <3>2, <3>3
  <2>5. parse_freqchan(chan, a, exact) = AllUsed(res, exact, Len(a))
    BY <1>2, <2>2, <2>3, Zenon DEF parse_freqchan
  <2> QED BY <2>4, <2>5 DEF AllUsed
<1> QED BY <1>1, <1>2

\* argv and argc, as they are handed to parse_freqchan(),
LEMMA RestIs ==
  ASSUME NEW q, Sound(q)
  PROVE  \E S : Rest(q) \in Seq(S) /\ Len(Rest(q)) = Left(q)
<1>1. PICK S : q.argv \in Seq(S)
  BY Zenon DEF Sound, Shaped, WordList
<1>2. q.pos \in 0..Len(q.argv) /\ Len(q.argv) \in Nat
  BY DEF Sound, Shaped
<1>3. Rest(q) \in Seq(S) /\ Len(Rest(q)) = Left(q)
  BY <1>1, <1>2 DEF Rest, Left
<1> QED BY <1>3

\* which steps over no more than it was given.
LEMMA FreqchanUses ==
  ASSUME NEW q, Sound(q), NEW chan \in BOOLEAN, NEW exact \in BOOLEAN
  PROVE  LET r == parse_freqchan(chan, Rest(q), exact)
         IN  r.used \in Nat /\ r.used <= Left(q) /\ r.err \in {"0", "1"}
<1>1. PICK r : r = parse_freqchan(chan, Rest(q), exact)
  OBVIOUS
<1>2. r.used \in 0..Len(Rest(q)) /\ r.err \in {"0", "1"} /\ Len(Rest(q)) = Left(q)
  BY <1>1, RestIs, ChanUses
<1>3. Left(q) \in Nat
  BY Reduced
<1> QED BY <1>1, <1>2, <1>3

\* Any sequence is a sequence of its own members.
LEMMA WordsOf ==
  ASSUME NEW S, NEW s \in Seq(S)
  PROVE  WordList(s)
<1>1. \A i \in 1..Len(s) : s[i] \in {s[j] : j \in DOMAIN s}
  OBVIOUS
<1>2. s = [i \in 1..Len(s) |-> s[i]] /\ Len(s) \in Nat
  OBVIOUS
<1> QED BY <1>1, <1>2, IsASeq DEF WordList

\* A channel definition, after k words that are passed over.
LEMMA PutChandefSound ==
  ASSUME NEW q, Sound(q), NEW k \in Nat, NEW r, r.used \in Nat, k + r.used <= Left(q),
         r.err \in {"0", "1"}
  PROVE  /\ Sound(PutChandef(q, k, r)) /\ PutChandef(q, k, r).again = q.again
<1>1. CASE r.err # "0"
  <2>1. r.err \in Returnable
    BY DEF Returnable
  <2> QED BY <1>1, <2>1, ReturnSound, Zenon DEF PutChandef
<1>2. CASE r.err = "0"
  <2>1. Sound(Shift(q, k + r.used)) /\ Shift(q, k + r.used).again = q.again
    BY ShiftFields
  <2> QED BY <1>2, <2>1, PutAllHolds, Zenon DEF PutChandef
<1> QED BY <1>1, <1>2

\* parse_freqchan() on the words before the last k, and put_chandef().
LEMMA FreqChanSound ==
  ASSUME NEW q, Sound(q), NEW k \in Nat, k <= Left(q)
  PROVE  /\ Sound(FreqChan(q, k)) /\ FreqChan(q, k).again = q.again
<1>1. Sound(Shift(q, k)) /\ Left(Shift(q, k)) = Left(q) - k
  BY ShiftFields
<1>2. PICK r : r = parse_freqchan(FALSE, Rest(Shift(q, k)), FALSE)
  OBVIOUS
<1>3. r.used \in Nat /\ r.used <= Left(q) - k /\ r.err \in {"0", "1"}
  BY <1>1, <1>2, FreqchanUses
<1>4. k + r.used <= Left(q)
  <2>1. Left(q) \in Nat
    BY Reduced
  <2> QED BY <1>3, <2>1
<1>5. FreqChan(q, k) = PutChandef(q, k, r)
  BY <1>2 DEF FreqChan
<1> QED BY <1>3, <1>4, <1>5, PutChandefSound
-----------------------------------------------------------------------------
\* The fixed orders: the stages of connect, auth, ibss join, mesh join, ap start.
LEMMA NullInNone ==
  /\ Null \notin DOMAIN KeyOf /\ Null \notin DOMAIN AkmOf /\ Null \notin DOMAIN CipherOf
  /\ Null \notin DOMAIN AuthOf /\ Null \notin DOMAIN MeshSettings /\ Null \notin DOMAIN HiddenOf
  /\ Null \notin DOMAIN IfTypes
  BY TablesAssumption, Zenon DEF TablesFit

\* The name of a suite, looked up in a table without a look at argc.
LEMMA SuiteArgSound ==
  ASSUME NEW q, Sound(q), NEW table, Null \notin DOMAIN table, NEW attr
  PROVE  Sound(SuiteArg(q, table, attr))
  BY ThereIs, PutHolds, ShiftSound, Errors, Zenon DEF SuiteArg

\* parse_keys(): "psk" and the passphrase,
LEMMA PskKeysSound ==
  ASSUME NEW q, Sound(q)
  PROVE  Sound(PskKeys(q))
<1> DEFINE p1 == PutAll(Shift(q, 1), <<<<"WPA_VERSIONS", "2">>, <<"PMK", Arg(q)>>,
                                       <<"AUTH_TYPE", "OPEN">>>>)
<1>1. CASE Left(q) < 4
  BY <1>1, Errors DEF PskKeys
<1>2. CASE ~(Left(q) < 4)
  <2>1. Holds(q, 1)
    BY <1>2 DEF Holds, Sound, Shaped, Left
  <2>2. Sound(p1)
    BY <2>1, ShiftSound, PutAllHolds, Zenon
  <2>3. CASE ~PskOf[Arg(q)]
    BY <1>2, <2>3, PutHolds, Errors, Zenon DEF PskKeys
  <2>4. CASE PskOf[Arg(q)]
    <3>1. PskKeys(q) = SuiteArg(SuiteArg(SuiteArg(p1, AkmOf, "AKM_SUITES"), CipherOf, "CIPHERS_PAIRWISE"),
                                CipherOf, "CIPHER_GROUP")
      BY <1>2, <2>4, Zenon DEF PskKeys
    <3> HIDE DEF p1
    <3> QED BY <2>2, <3>1, NullInNone, SuiteArgSound, Zenon
  <2> QED BY <2>3, <2>4
<1> QED BY <1>1, <1>2

\* one WEP key,
LEMMA OneKeySound ==
  ASSUME NEW q, Sound(q)
  PROVE  Sound(OneKey(q))
<1> DEFINE n   == q.loc.n + 1
           k   == KeyOf[Arg(q)]
           tx  == q.loc.tx \/ k.tx
           p1  == PutAll(q, (IF k.tx THEN <<<<"KEYS", ToString(n)>> \o <<"DEFAULT">>>> ELSE <<>>)
                         \o <<<<"KEYS", ToString(n)>> \o <<"IDX", k.idx>>,
                              <<"KEYS", ToString(n)>> \o <<"CIPHER", k.cipher>>>>)
           p2  == Shift(Put(p1, <<"KEYS", ToString(n)>> \o <<"DATA", Arg(q)>>), 1)
           p3  == IF ~tx /\ Left(p2) = 0 THEN Put(p2, <<"KEYS", ToString(n)>> \o <<"DEFAULT">>) ELSE p2
           end == [p3 EXCEPT !.loc = [st |-> "keys", n |-> n, tx |-> tx]]
<1>1. CASE Arg(q) \notin DOMAIN KeyOf \/ ~k.ok
  BY <1>1, Errors, Zenon DEF OneKey
<1>2. CASE ~(Arg(q) \notin DOMAIN KeyOf \/ ~k.ok)
  <2>1. Holds(q, 1)
    BY <1>2, ThereIs, NullInNone
  <2>2. Holds(p1, 1)
    BY <2>1, PutAllHolds, Zenon
  <2>3. Sound(p2)
    <3> HIDE DEF p1
    <3> QED BY <2>2, PutHolds, ShiftSound, Zenon
  <2>4. Sound(p3)
    <3> HIDE DEF p2
    <3> QED BY <2>3, PutHolds, Zenon
  <2>5. Sound(end)
    <3> HIDE DEF p3
    <3> QED BY <2>4, LocSound, Zenon
  <2>6. OneKey(q) = IF Left(end) > 0 THEN Again(end) ELSE end
    BY <1>2, Zenon DEF OneKey
  <2> HIDE DEF end
  <2> QED BY <2>5, <2>6, AgainSound, Zenon
<1> QED BY <1>1, <1>2

\* and all of them.
LEMMA ParseKeysSound ==
  ASSUME NEW q, Sound(q)
  PROVE  Sound(parse_keys(q))
<1>1. Sound([Put(q, <<"PRIVACY">>) EXCEPT !.loc = [st |-> "keys", n |-> 0, tx |-> FALSE]])
  BY PutHolds, LocSound, Zenon
<1> QED BY <1>1, OneKeySound, PskKeysSound, Errors, Zenon DEF parse_keys

\* The word "key" before the keys.
LEMMA KeyWordSound ==
  ASSUME NEW q, Sound(q)
  PROVE  Sound(KeyWord(q))
  BY Reduced, ShiftSound, Errors, Zenon DEF KeyWord
\* A frequency or a BSSID, if there is one.
LEMMA OptFreqSound ==
  ASSUME NEW q, Sound(q)
  PROVE  /\ Sound(OptFreq(q)) /\ OptFreq(q).again = q.again
         /\ Sound(OptBssid(q)) /\ OptBssid(q).again = q.again
         /\ Sound(AuthBssid(q)) /\ AuthBssid(q).again = q.again
  BY NumberThere, MacThere, PutArgSound, Errors, ReturnSound, Zenon
     DEF OptFreq, OptBssid, AuthBssid

\* "freq" of a mesh, with its width.
LEMMA MeshFreqSound ==
  ASSUME NEW q, Sound(q)
  PROVE  Sound(MeshFreq(q)) /\ MeshFreq(q).again = q.again
<1>1. Holds(q, 2) => 1 \in Nat /\ 1 <= Left(q)
  BY Reduced DEF Holds
<1> QED BY <1>1, WordThere, FreqChanSound, Zenon DEF MeshFreq

\* The optional parts of ibss join and mesh join.
LEMMA BasicRatesSound ==
  ASSUME NEW q, Sound(q)
  PROVE  /\ Sound(BasicRates(q)) /\ Sound(McastRate(q)) /\ Sound(BeaconInterval(q))
         /\ Sound(DtimPeriod(q)) /\ Sound(FixedFreq(q))
  BY WordThere, ShiftSound, PutHolds, Errors, OptNumberSound, Zenon
     DEF BasicRates, McastRate, BeaconInterval, DtimPeriod, FixedFreq

\* "mfp:req" and its like.
LEMMA MfpSound ==
  ASSUME NEW q, Sound(q)
  PROVE  Sound(Mfp(q))
<1>1. Left(q) # 0 => Holds(q, 1)
  BY Reduced
<1> QED BY <1>1, PutHolds, ShiftSound, Errors, Zenon DEF Mfp

\* The authentication type and the frequency of iw auth.
LEMMA AuthTypeSound ==
  ASSUME NEW q, Sound(q)
  PROVE  Sound(AuthType(q)) /\ Sound(AuthFreq(q))
  BY ThereIs, NullInNone, NumberThere, PutArgSound, PutHolds, ShiftSound, Errors, Zenon
     DEF AuthType, AuthFreq

\* The settings of a mesh before "vendor_sync" and after it.
LEMMA MeshSetupSound ==
  ASSUME NEW q, Sound(q)
  PROVE  Sound(MeshSetup(q))
<1> DEFINE p1 == Put(q, <<"MESH_SETUP">>)
           p2 == IF Option(p1, "vendor_sync")
                 THEN Shift(Put(p1, <<"MESH_SETUP", "VENDOR_SYNC",
                                 IF Peek(p1, 1) = "on" THEN "1" ELSE "0">>), 2)
                 ELSE p1
<1>1. Sound(p1)
  BY PutHolds, Zenon
<1>2. Sound(p2)
  <2> HIDE DEF p1
  <2> QED BY <1>1, WordThere, PutHolds, ShiftSound, Zenon
<1>3. MeshSetup(q) = IF Left(p2) = 0 THEN Return(p2, "0") ELSE Put(p2, <<"MESH_PARAMS">>)
  BY Zenon DEF MeshSetup
<1> HIDE DEF p2
<1> QED BY <1>2, <1>3, Errors, PutHolds, Zenon

\* Mesh parameters with their values.
LEMMA MeshParamSound ==
  ASSUME NEW q, Sound(q)
  PROVE  Sound(MeshParam(q))
<1> DEFINE joined == Arg(q) \in DOMAIN MeshSettings
           name   == IF joined THEN MeshSettings[Arg(q)][1] ELSE Arg(q)
           value  == IF joined THEN MeshSettings[Arg(q)][2] ELSE Peek(q, 1)
           n      == IF joined THEN 1 ELSE 2
           r      == Shift(Put(q, <<"MESH_PARAMS", name, value>>), n)
<1>1. CASE (~joined /\ Left(q) < 2) \/ name \notin DOMAIN MeshParams
           \/ value \notin MeshParams[name]
  BY <1>1, Errors, Zenon DEF MeshParam
<1>2. CASE ~((~joined /\ Left(q) < 2) \/ name \notin DOMAIN MeshParams
           \/ value \notin MeshParams[name])
  <2>1. joined => Holds(q, 1)
    BY ThereIs, NullInNone, Zenon
  <2>2. ~joined => Holds(q, 2)
    <3>1. ~joined => ~(Left(q) < 2)
      BY <1>2, Zenon
    <3> QED BY <3>1 DEF Holds, Sound, Shaped, Left
  <2>3. Sound(r)
    BY <2>1, <2>2, PutHolds, ShiftSound, Zenon
  <2>4. MeshParam(q) = IF Left(r) > 0 THEN Again(r) ELSE Return(r, "0")
    BY <1>2, Zenon DEF MeshParam
  <2> HIDE DEF r
  <2> QED BY <2>3, <2>4, AgainSound, Errors, Zenon
<1> QED BY <1>1, <1>2

\* ap start reads the beacon interval and the DTIM period without a look at argc.
LEMMA ApBeaconFine ==
  ASSUME NEW q, Sound(q)
  PROVE  Fine(ApBeacon(q)) /\ Fine(ApDtim(q))
<1>1. "EINVAL" \in Returnable
  BY DEF Returnable
<1> QED BY <1>1, NumberArgSound, Zenon DEF ApBeacon, ApDtim

\* And the word "head".
LEMMA ApHeadFine ==
  ASSUME NEW q, Sound(q)
  PROVE  Fine(ApHead(q))
<1> DEFINE r == IF Arg(q) \in DOMAIN HiddenOf
                THEN Shift(Put(q, <<"HIDDEN_SSID", HiddenOf[Arg(q)]>>), 1) ELSE q
<1>1. Sound(r)
  BY ThereIs, NullInNone, PutHolds, ShiftSound, Zenon
<1>2. ApHead(q) = IF Left(r) = 0 THEN Return(r, "undefined")
                  ELSE IF Arg(r) # "head" THEN Return(r, "1")
                  ELSE IF Left(r) = 1 THEN Return(r, "undefined")
                  ELSE IF Peek(r, 1) \notin HexData THEN Return(r, "EINVAL")
                  ELSE Shift(Put(r, <<"BEACON_HEAD", Peek(r, 1)>>), 2)
  BY Zenon DEF ApHead
<1> HIDE DEF r
<1>3. Left(r) # 0 /\ Left(r) # 1 => Holds(r, 2)
  BY <1>1 DEF Holds, Sound, Shaped, Left
<1>4. \A x : Sound(x) => Fine(x)
  BY DEF Sound, Fine
<1> QED BY <1>1, <1>2, <1>3, <1>4, Errors, PutHolds, ShiftSound, Zenon

\* Data in hexadecimal is an argument.
LEMMA HexThere ==
  ASSUME NEW q, Sound(q)
  PROVE  Peek(q, 1) \in HexData => Holds(q, 2)
<1>1. Null \notin HexData
  BY DEF HexData, Null
<1> QED BY <1>1, ThereIs, Zenon

\* "tail" and "inactivity-time" are behind a look at argc.
LEMMA ApTailSound ==
  ASSUME NEW q, Sound(q)
  PROVE  Sound(ApTail(q)) /\ Sound(ApInactivity(q))
  BY HexThere, NumberThere, PutHolds, ShiftSound, Errors, Zenon DEF ApTail, ApInactivity

\* A handler that needs n arguments returns 1 when they are not there.
LEMMA NeedSound ==
  ASSUME NEW q, Sound(q), NEW n \in Nat \ {0}
  PROVE  /\ Sound(Need(q, n))
         /\ Need(q, n).ret = "go" => Left(Need(q, n)) >= 1
<1>1. Left(q) \in Nat
  BY Reduced
<1>2. ~(Left(q) < n) => Left(q) >= 1
  BY <1>1
<1> QED BY <1>2, Errors, ReturnSound, Zenon DEF Need
\* What a handler with fixed stages keeps: the first argument is taken at the
\* second stage without a look at argc, which the first stage has made sure of.
Staged12(s, q, r) ==
  /\ s = 1 /\ r.ret = "go" => Left(r) >= 1
  /\ s = 2 => r.again = q.again

\* iw_conn()
LEMMA ConnSound ==
  ASSUME NEW s \in Nat \ {0}, NEW q, Sound(q), s = 2 => Left(q) >= 1
  PROVE  Sound(iw_conn(s, q)) /\ Staged12(s, q, iw_conn(s, q))
<1> DEFINE r == iw_conn(s, q)
<1>1. CASE s = 1
  <2>1. r = Need(q, 1)
    BY <1>1 DEF iw_conn
  <2> QED BY <1>1, <2>1, NeedSound DEF Staged12
<1>2. CASE s = 2
  <2>1. r = OptBssid(OptFreq(Ssid(q)))
    BY <1>2 DEF iw_conn
  <2>2. Holds(q, 1)
    BY <1>2 DEF Holds
  <2>3. Sound(Ssid(q)) /\ Ssid(q).again = q.again
    BY <2>2, PutArgSound, Zenon DEF Ssid
  <2>4. Sound(r) /\ r.again = q.again
    BY <2>1, <2>3, OptFreqSound, Zenon
  <2> QED BY <1>2, <2>4 DEF Staged12
<1>3. CASE s # 1 /\ s # 2
  <2>1. r \in {KeyWord(q), parse_keys(q), Mfp(q)}
    BY <1>3 DEF iw_conn
  <2> QED BY <1>3, <2>1, KeyWordSound, ParseKeysSound, MfpSound DEF Staged12
<1> QED BY <1>1, <1>2, <1>3

\* iw_auth()
LEMMA AuthSound ==
  ASSUME NEW s \in Nat \ {0}, NEW q, Sound(q), s = 2 => Left(q) >= 1
  PROVE  Sound(iw_auth(s, q)) /\ Staged12(s, q, iw_auth(s, q))
<1> DEFINE r == iw_auth(s, q)
<1>1. CASE s = 1
  <2>1. r = Need(q, 4)
    BY <1>1 DEF iw_auth
  <2> QED BY <1>1, <2>1, NeedSound DEF Staged12
<1>2. CASE s = 2
  <2>1. r = AuthBssid(Ssid(q))
    BY <1>2 DEF iw_auth
  <2>2. Holds(q, 1)
    BY <1>2 DEF Holds
  <2>3. Sound(Ssid(q)) /\ Ssid(q).again = q.again
    BY <2>2, PutArgSound, Zenon DEF Ssid
  <2>4. Sound(r) /\ r.again = q.again
    BY <2>1, <2>3, OptFreqSound, Zenon
  <2> QED BY <1>2, <2>4 DEF Staged12
<1>3. CASE s # 1 /\ s # 2
  <2>1. r \in {AuthType(q), AuthFreq(q), KeyWord(q), parse_keys(q), Return(q, "0")}
    BY <1>3 DEF iw_auth, Done
  <2> QED BY <1>3, <2>1, AuthTypeSound, KeyWordSound, ParseKeysSound, Errors DEF Staged12
<1> QED BY <1>1, <1>2, <1>3

\* The network's name, and the channel that follows it.
LEMMA SsidFreqChan ==
  ASSUME NEW q, Sound(q), Left(q) >= 1
  PROVE  Sound(FreqChan(Ssid(q), 0)) /\ FreqChan(Ssid(q), 0).again = q.again
<1>1. Holds(q, 1)
  BY DEF Holds
<1>2. Sound(Ssid(q)) /\ Ssid(q).again = q.again
  BY <1>1, PutArgSound, Zenon DEF Ssid
<1>3. 0 \in Nat /\ 0 <= Left(Ssid(q))
  BY <1>2, Reduced
<1>4. Sound(FreqChan(Ssid(q), 0)) /\ FreqChan(Ssid(q), 0).again = Ssid(q).again
  BY <1>2, <1>3, FreqChanSound
<1> QED BY <1>2, <1>4

\* join_ibss()
LEMMA IbssSound ==
  ASSUME NEW s \in Nat \ {0}, NEW q, Sound(q), s = 2 => Left(q) >= 1
  PROVE  Sound(join_ibss(s, q)) /\ Staged12(s, q, join_ibss(s, q))
<1> DEFINE r == join_ibss(s, q)
<1>1. CASE s = 1
  <2>1. r = Need(q, 2)
    BY <1>1 DEF join_ibss
  <2> QED BY <1>1, <2>1, NeedSound DEF Staged12
<1>2. CASE s = 2
  <2>1. r = FreqChan(Ssid(q), 0)
    BY <1>2 DEF join_ibss
  <2>2. Sound(r) /\ r.again = q.again
    BY <1>2, <2>1, SsidFreqChan
  <2> QED BY <1>2, <2>2 DEF Staged12
<1>3. CASE s # 1 /\ s # 2
  <2>1. r \in {OptBssid(FixedFreq(q)), BeaconInterval(q), BasicRates(q), McastRate(q),
               KeyWord(q), parse_keys(q), Return(q, "0")}
    BY <1>3 DEF join_ibss, Done
  <2>2. Sound(OptBssid(FixedFreq(q)))
    BY BasicRatesSound, OptFreqSound, Zenon
  <2> QED BY <1>3, <2>1, <2>2, BasicRatesSound, KeyWordSound, ParseKeysSound, Errors DEF Staged12
<1> QED BY <1>1, <1>2, <1>3

\* join_mesh()
LEMMA MeshSound ==
  ASSUME NEW s \in Nat \ {0}, NEW q, Sound(q), s = 2 => Left(q) >= 1
  PROVE  Sound(join_mesh(s, q)) /\ Staged12(s, q, join_mesh(s, q))
<1> DEFINE r == join_mesh(s, q)
<1>1. CASE s = 1
  <2>1. r = Need(q, 1)
    BY <1>1 DEF join_mesh
  <2> QED BY <1>1, <2>1, NeedSound DEF Staged12
<1>2. CASE s = 2
  <2>1. r = MeshFreq(PutArg(q, "MESH_ID"))
    BY <1>2 DEF join_mesh
  <2>2. Holds(q, 1)
    BY <1>2 DEF Holds
  <2>3. Sound(PutArg(q, "MESH_ID")) /\ PutArg(q, "MESH_ID").again = q.again
    BY <2>2, PutArgSound, Zenon
  <2>4. Sound(r) /\ r.again = q.again
    BY <2>1, <2>3, MeshFreqSound, Zenon
  <2> QED BY <1>2, <2>4 DEF Staged12
<1>3. CASE s # 1 /\ s # 2
  <2>1. r \in {BasicRates(q), McastRate(q), BeaconInterval(q), DtimPeriod(q), MeshSetup(q),
               MeshParam(q)}
    BY <1>3 DEF join_mesh
  <2> QED BY <1>3, <2>1, BasicRatesSound, MeshSetupSound, MeshParamSound DEF Staged12
<1> QED BY <1>1, <1>2, <1>3

\* set mesh_param looks for the name itself.
LEMMA SetMeshSound ==
  ASSUME NEW s \in Nat \ {0}, NEW q, Sound(q)
  PROVE  Sound(set_interface_meshparam(s, q))
<1>1. Sound(Need(q, 1))
  BY NeedSound
<1>2. set_interface_meshparam(s, q) \in {Put(Need(q, 1), <<"MESH_PARAMS">>), MeshParam(q)}
  BY DEF set_interface_meshparam
<1> QED BY <1>1, <1>2, PutHolds, MeshParamSound

\* handle_start_ap()
LEMMA ApFine ==
  ASSUME NEW s \in Nat \ {0}, NEW q, Sound(q), s = 2 => Left(q) >= 1
  PROVE  Fine(handle_start_ap(s, q)) /\ Staged12(s, q, handle_start_ap(s, q))
<1> DEFINE r == handle_start_ap(s, q)
<1>0. \A x : Sound(x) => Fine(x)
  BY DEF Sound, Fine
<1>1. CASE s = 1
  <2>1. r = Need(q, 6)
    BY <1>1 DEF handle_start_ap
  <2> QED BY <1>0, <1>1, <2>1, NeedSound DEF Staged12
<1>2. CASE s = 2
  <2>1. r = FreqChan(Ssid(q), 0)
    BY <1>2 DEF handle_start_ap
  <2>2. Sound(r) /\ r.again = q.again
    BY <1>2, <2>1, SsidFreqChan
  <2> QED BY <1>0, <1>2, <2>2 DEF Staged12
<1>3. CASE s # 1 /\ s # 2
  <2>1. r \in {ApBeacon(q), ApDtim(q), ApHead(q), ApTail(q), ApInactivity(q),
               KeyWord(q), parse_keys(q), Return(q, "0")}
    BY <1>3 DEF handle_start_ap, Done
  <2> QED BY <1>0, <1>3, <2>1, ApBeaconFine, ApHeadFine, ApTailSound, KeyWordSound, ParseKeysSound, Errors
          DEF Staged12
<1> QED BY <1>1, <1>2, <1>3

\* The handlers that join a network, whichever it is.
LEMMA JoinFine ==
  ASSUME NEW c, Joining(c), NEW s \in Nat \ {0}, NEW q, Sound(q),
         c # "set mesh_param" /\ s = 2 => Left(q) >= 1
  PROVE  /\ Fine(Join(c, s, q))
         /\ c # "ap start" => Sound(Join(c, s, q))
         /\ c # "set mesh_param" => Staged12(s, q, Join(c, s, q))
<1>0. \A x : Sound(x) => Fine(x)
  BY DEF Sound, Fine
<1>1. CASE c = "connect"
  <2>1. Join(c, s, q) = iw_conn(s, q)
    BY <1>1 DEF Join
  <2> QED BY <1>0, <1>1, <2>1, ConnSound
<1>2. CASE c = "auth"
  <2>1. Join(c, s, q) = iw_auth(s, q)
    BY <1>2 DEF Join
  <2> QED BY <1>0, <1>2, <2>1, AuthSound
<1>3. CASE c = "ibss join"
  <2>1. Join(c, s, q) = join_ibss(s, q)
    BY <1>3 DEF Join
  <2> QED BY <1>0, <1>3, <2>1, IbssSound
<1>4. CASE c = "mesh join"
  <2>1. Join(c, s, q) = join_mesh(s, q)
    BY <1>4 DEF Join
  <2> QED BY <1>0, <1>4, <2>1, MeshSound
<1>5. CASE c = "set mesh_param"
  <2>1. Join(c, s, q) = set_interface_meshparam(s, q)
    BY <1>5 DEF Join
  <2> QED BY <1>0, <1>5, <2>1, SetMeshSound
<1>6. CASE c = "ap start"
  <2>1. Join(c, s, q) = handle_start_ap(s, q)
    BY <1>6 DEF Join
  <2> QED BY <1>6, <2>1, ApFine
<1> QED BY <1>1, <1>2, <1>3, <1>4, <1>5, <1>6, Zenon DEF Joining
-----------------------------------------------------------------------------
\* The commands of SetArgs.
LEMMA OnTable ==
  ASSUME NEW q, Sound(q)
  PROVE  /\ Left(q) # 0 => Holds(q, 1)
         /\ Left(q) = 1 => Holds(q, 1)
         /\ Left(q) = 2 => Holds(q, 2)
         /\ ~(Left(q) < 2) => Holds(q, 2) /\ Holds(q, 1)
         /\ ~(Left(q) < 3) => Holds(q, 3) /\ Holds(q, 2) /\ Holds(q, 1)
         /\ Left(q) \in {1, 2} => Holds(q, 1)
         /\ Left(q) \in {3, 4} => Holds(q, 3)
         /\ Left(q) > 0 => Holds(q, 1)
  BY DEF Holds, Sound, Shaped, Left

\* All that is left.
LEMMA ShiftAllSound ==
  ASSUME NEW q, Sound(q)
  PROVE  Sound(Shift(q, Left(q)))
<1>1. Left(q) \in Nat /\ Left(q) <= Left(q)
  BY Reduced
<1> QED BY <1>1, ShiftFields

\* An argument that is looked up in a table and must be the last.
LEMMA LastOfSound ==
  ASSUME NEW q, NEW table, NEW attr, NEW err \in Returnable, Holds(q, 1)
  PROVE  Sound(LastOf(q, table, attr, err))
  BY Fewer, PutHolds, ShiftSound, Errors, ReturnSound, Zenon DEF LastOf

\* A channel, and nothing behind it.
LEMMA ChannelDoneSound ==
  ASSUME NEW q, Sound(q), NEW r, r.used \in Nat, r.used <= Left(q), r.err \in {"0", "1"}
  PROVE  Sound(ChannelDone(q, r)) /\ ChannelDone(q, r).ret \in {"0", "1"}
<1>1. r.err \in Returnable /\ "0" \in Returnable
  BY DEF Returnable
<1>2. Sound(Shift(q, r.used))
  BY ShiftFields
<1>3. Sound(PutAll(Shift(q, r.used), put_chandef(r.def)))
  BY <1>2, PutAllHolds, Zenon
<1>4. CASE r.err # "0"
  <2>1. ChannelDone(q, r) = Return(q, r.err)
    BY <1>4, Zenon DEF ChannelDone
  <2>2. Return(q, r.err).ret = r.err /\ Sound(Return(q, r.err))
    BY <1>1, ReturnSound, Zenon
  <2> QED BY <2>1, <2>2, Zenon
<1>5. CASE r.err = "0"
  <2> DEFINE t == PutAll(Shift(q, r.used), put_chandef(r.def))
  <2>1. ChannelDone(q, r) = Return(t, "0")
    BY <1>5, Zenon DEF ChannelDone
  <2> HIDE DEF t
  <2>2. Sound(t)
    BY <1>3 DEF t
  <2>3. Return(t, "0").ret = "0" /\ Sound(Return(t, "0"))
    BY <1>1, <2>2, ReturnSound, Zenon
  <2>4. "0" \in {"0", "1"}
    OBVIOUS
  <2> QED BY <2>1, <2>3, <2>4, Zenon
<1> QED BY <1>4, <1>5

\* set freq and set channel, read by parse_freqchan().
LEMMA ChannelSound ==
  ASSUME NEW q, Sound(q), NEW chan \in BOOLEAN
  PROVE  Sound(Channel(q, chan)) /\ Channel(q, chan).ret \in {"0", "1"}
<1>1. PICK r : r = parse_freqchan(chan, Rest(q), TRUE)
  OBVIOUS
<1>2. r.used \in Nat /\ r.used <= Left(q) /\ r.err \in {"0", "1"}
  BY <1>1, FreqchanUses
<1>3. Channel(q, chan) = ChannelDone(q, r)
  BY <1>1, Zenon DEF Channel
<1> QED BY <1>2, <1>3, ChannelDoneSound

\* handle_cac_trigger() returns 0 or 1, never a command to go on.
LEMMA CacSound ==
  ASSUME NEW q, Sound(q)
  PROVE  Sound(handle_cac_trigger(q)) /\ handle_cac_trigger(q).ret \in {"0", "1"}
<1>1. CASE Left(q) < 2 \/ Arg(q) \notin {"channel", "freq"}
  <2>1. handle_cac_trigger(q) = Return(q, "1")
    BY <1>1, Zenon DEF handle_cac_trigger
  <2>2. Return(q, "1").ret = "1" /\ Sound(Return(q, "1")) /\ "1" \in {"0", "1"}
    BY Errors, ReturnSound
  <2> QED BY <2>1, <2>2, Zenon
<1>2. CASE ~(Left(q) < 2 \/ Arg(q) \notin {"channel", "freq"})
  <2>1. handle_cac_trigger(q) = Channel(Shift(q, 1), Arg(q) = "channel")
    BY <1>2, Zenon DEF handle_cac_trigger
  <2>2. Sound(Shift(q, 1))
    BY <1>2, OnTable, ShiftSound, Zenon
  <2>3. PICK chan \in BOOLEAN : chan = (Arg(q) = "channel")
    OBVIOUS
  <2> QED BY <2>1, <2>2, <2>3, ChannelSound, Zenon
<1> QED BY <1>1, <1>2

\* The handlers that set one value of a device.
LEMMA NamesSound ==
  ASSUME NEW q, Sound(q)
  PROVE  /\ Sound(handle_name(q)) /\ Sound(handle_freq(q)) /\ Sound(handle_chan(q))
         /\ Sound(handle_fragmentation(q)) /\ Sound(handle_rts(q)) /\ Sound(handle_coverage(q))
<1>1. "1" \in Returnable /\ TRUE \in BOOLEAN /\ FALSE \in BOOLEAN
  BY DEF Returnable
<1> QED BY <1>1, OneArgSound, ChannelSound, Zenon
        DEF handle_name, handle_freq, handle_chan, handle_fragmentation, handle_rts, handle_coverage

\* A record of local variables one of whose fields changes.
LEMMA InnerLoc ==
  ASSUME NEW q, Sound(q), NEW l
  PROVE  Sound([q EXCEPT !.loc = l]) /\ \A n : Holds(q, n) => Holds([q EXCEPT !.loc = l], n)
<1>1. PICK r : r = [q EXCEPT !.loc = l]
  OBVIOUS
<1>2. Sound(r) /\ Left(r) = Left(q)
  BY <1>1, LocSound
<1> QED BY <1>1, <1>2 DEF Holds

\* handle_retry()
LEMMA RetrySound ==
  ASSUME NEW s, NEW q, Sound(q)
  PROVE  Sound(handle_retry(s, q))
<1>1. CASE s = 1
  <2>1. PICK l : l = [st |-> "NONE", have |-> {}, limit |-> [w \in {"short", "long"} |-> "0"]]
    OBVIOUS
  <2>2. handle_retry(s, q) \in {Return(q, "1"), [q EXCEPT !.loc = l]}
    BY <1>1, <2>1 DEF handle_retry
  <2> QED BY <2>2, Errors, InnerLoc
<1>2. CASE s # 1 /\ Left(q) > 0
  <2>1. handle_retry(s, q) = Again(RetryArg(q))
    BY <1>2 DEF handle_retry
  <2>2. Holds(q, 1)
    BY <1>2, OnTable
  <2>3. PICK l : l = [q.loc EXCEPT !.st = Arg(q), !.have = @ \cup {Arg(q)}]
    OBVIOUS
  <2>4. PICK m : m = [q.loc EXCEPT !.limit[q.loc.st] = Arg(q)]
    OBVIOUS
  <2>5. RetryArg(q) \in {Return(q, "1"), Return(q, "EINVAL"), Shift([q EXCEPT !.loc = l], 1),
                         Shift([q EXCEPT !.loc = m], 1)}
    BY <2>3, <2>4 DEF RetryArg
  <2>6. Sound(RetryArg(q))
    BY <2>2, <2>5, Errors, InnerLoc, ShiftSound
  <2> QED BY <2>1, <2>6, AgainSound
<1>3. CASE s # 1 /\ ~(Left(q) > 0)
  <2>1. handle_retry(s, q) = RetryEnd(q)
    BY <1>3 DEF handle_retry
  <2>2. Sound(RetryEnd(q))
    BY Errors, PutAllHolds, Zenon DEF RetryEnd
  <2> QED BY <2>1, <2>2
<1> QED BY <1>1, <1>2, <1>3

\* handle_netns()
LEMMA NetnsSound ==
  ASSUME NEW q, Sound(q)
  PROVE  Sound(handle_netns(q))
<1>1. Sound(OneArg(q, IsNumber(Arg(q)), "PID", "1"))
  BY OneArgSound DEF Returnable
<1>2. Left(q) = 2 => Sound(Return(PutArg(Shift(q, 1), "NETNS_FD"), "0"))
  BY OnTable, ShiftSound, PutArgSound, Errors, Zenon
<1>3. \/ handle_netns(q) = OneArg(q, IsNumber(Arg(q)), "PID", "1")
      \/ Left(q) = 2 /\ handle_netns(q) = Return(PutArg(Shift(q, 1), "NETNS_FD"), "0")
      \/ handle_netns(q) = Return(q, "1")
  BY DEF handle_netns
<1> QED BY <1>1, <1>2, <1>3, Errors

\* handle_distance()
LEMMA DistanceSound ==
  ASSUME NEW q, Sound(q)
  PROVE  Sound(handle_distance(q))
<1>1. \A e : Left(q) = 1 => Sound(Return(Shift(Put(q, e), 1), "0"))
  BY OnTable, PutHolds, ShiftSound, Errors, Zenon
<1>2. PICK c : c = CoverageClass(Distances[Arg(q)])
  OBVIOUS
<1>3. PICK e : e = <<"WIPHY_DYN_ACK">>
  OBVIOUS
<1>4. PICK g : g = <<"WIPHY_COVERAGE_CLASS", ToString(c)>>
  OBVIOUS
<1>5. "auto" \notin DOMAIN Distances
  BY TablesAssumption, Zenon DEF TablesFit
<1>6. CASE Left(q) = 1 /\ Arg(q) = "auto"
  <2>1. handle_distance(q) = Return(Shift(Put(q, e), 1), "0")
    BY <1>3, <1>5, <1>6 DEF handle_distance
  <2> QED BY <1>1, <1>6, <2>1
<1>7. CASE Left(q) = 1 /\ Arg(q) \in DOMAIN Distances
  <2>1. handle_distance(q) = IF c > 255 THEN Return(q, "1") ELSE Return(Shift(Put(q, g), 1), "0")
    BY <1>2, <1>4, <1>5, <1>7 DEF handle_distance
  <2> QED BY <1>1, <1>7, <2>1, Errors
<1>8. CASE Left(q) # 1 \/ (Arg(q) # "auto" /\ Arg(q) \notin DOMAIN Distances)
  <2>1. handle_distance(q) = Return(q, "1")
    BY <1>8 DEF handle_distance
  <2> QED BY <2>1, Errors
<1> QED BY <1>6, <1>7, <1>8

\* handle_txpower()
LEMMA TxpowerSound ==
  ASSUME NEW q, Sound(q)
  PROVE  Sound(handle_txpower(q))
<1> DEFINE r == Shift(Put(q, <<"WIPHY_TX_POWER_SETTING", PowerTypes[Arg(q)]>>), 1)
<1>0. "auto" \in DOMAIN PowerTypes
  BY TablesAssumption, Zenon DEF TablesFit
<1>1. CASE Left(q) \notin {1, 2} \/ Arg(q) \notin DOMAIN PowerTypes
  <2>1. handle_txpower(q) \in {Return(q, "1"), Return(q, "2")}
    BY <1>0, <1>1 DEF handle_txpower
  <2> QED BY <2>1, Errors
<1>2. CASE Left(q) \in {1, 2} /\ Arg(q) \in DOMAIN PowerTypes
  <2>1. Sound(r)
    BY <1>2, OnTable, PutHolds, ShiftSound, Zenon
  <2>2. CASE Arg(q) = "auto"
    <3>1. handle_txpower(q) = Return(r, IF Left(r) = 0 THEN "0" ELSE "1")
      BY <1>0, <1>2, <2>2 DEF handle_txpower
    <3> HIDE DEF r
    <3> QED BY <2>1, <3>1, Errors
  <2>3. CASE Arg(q) # "auto"
    <3>1. handle_txpower(q) = IF ~IsNumber(Arg(r)) THEN Return(r, "2")
                              ELSE Return(PutArg(r, "WIPHY_TX_POWER_LEVEL"), "0")
      BY <1>0, <1>2, <2>3 DEF handle_txpower
    <3> HIDE DEF r
    <3> QED BY <2>1, <3>1, Errors, NumberThere, PutArgSound
  <2> QED BY <2>2, <2>3
<1> QED BY <1>1, <1>2

\* handle_antenna()
LEMMA AntennaSound ==
  ASSUME NEW q, Sound(q)
  PROVE  Sound(handle_antenna(q))
<1>1. \A tx, rx : Sound(Antennas(q, tx, rx))
  <2>1. \A e : Sound(PutAll(q, e)) /\ Left(PutAll(q, e)) = Left(q)
    BY PutAllHolds, Zenon
  <2>2. \A e : Sound(Shift(PutAll(q, e), Left(PutAll(q, e))))
    BY <2>1, ShiftAllSound, Zenon
  <2>3. \A e : Sound(Shift(PutAll(q, e), Left(q)))
    BY <2>1, <2>2
  <2> QED BY <2>3, Errors, Zenon DEF Antennas
<1>2. handle_antenna(q) \in {Antennas(q, Arg(q), Arg(q)), Antennas(q, Arg(q), Peek(q, 1)), Return(q, "1")}
  BY DEF handle_antenna
<1> QED BY <1>1, <1>2, Errors

\* handle_set_txq() and set_power_save()
LEMMA TxqSound ==
  ASSUME NEW q, Sound(q)
  PROVE  Sound(handle_set_txq(q)) /\ Sound(set_power_save(q))
<1>1. "2" \in Returnable
  BY DEF Returnable
<1>2. Sound(handle_set_txq(q))
  BY OnTable, ShiftSound, PutArgSound, Errors, Zenon DEF handle_set_txq
<1>3. Sound(set_power_save(q))
  BY <1>1, OnTable, LastOfSound, Errors, Zenon DEF set_power_save
<1> QED BY <1>2, <1>3

\* A handler with one address.
LEMMA AddressSound ==
  ASSUME NEW q, Sound(q)
  PROVE  Sound(OneAddress(q))
  BY MacThere, PutArgSound, Errors, Zenon DEF OneAddress

\* handle_station_del()
LEMMA StationDelSound ==
  ASSUME NEW s, NEW q, Sound(q)
  PROVE  Sound(handle_station_del(s, q))
<1>1. \A b : Sound(Return(q, IF b THEN "1" ELSE "0"))
  BY Errors, Zenon
<1>2. PICK r : r = IF Left(q) = 0 THEN Return(q, "1")
                   ELSE IF ~mac_addr_a2n(Arg(q)) THEN Return(q, "2")
                   ELSE PutArg(q, "MAC")
  OBVIOUS
<1>3. PICK t : t = Return(q, IF Left(q) > 0 THEN "1" ELSE "0")
  OBVIOUS
<1>4. Sound(r) /\ Sound(t)
  BY <1>1, <1>2, <1>3, MacThere, PutArgSound, Errors, Zenon
<1>5. handle_station_del(s, q) \in {r, t, OptNumber(q, "subtype", "MGMT_SUBTYPE"),
                                    OptNumber(q, "reason-code", "REASON_CODE")}
  BY <1>2, <1>3 DEF handle_station_del
<1> QED BY <1>4, <1>5, OptNumberSound

\* One value of a station.
LEMMA StationSetSound ==
  ASSUME NEW q, Sound(q), NEW table, NEW attr
  PROVE  Sound(StationSet(q, table, attr))
<1>1. "2" \in Returnable
  BY DEF Returnable
<1>2. ~(Left(q) < 3) => Holds(Shift(PutArg(q, "MAC"), 1), 1)
  BY OnTable, PutArgSound, ShiftSound, Zenon
<1> QED BY <1>1, <1>2, LastOfSound, Errors, Zenon DEF StationSet

\* handle_station_set_txpwr(): the kind and, if it is fixed, the limit.
LEMMA TxPowerSound ==
  ASSUME NEW q, Sound(q)
  PROVE  Sound(TxPower(q))
<1> DEFINE t == Shift(q, 2)
           auto == Arg(t) = "auto"
           n == IF auto THEN 1 ELSE 2
           setting == <<"STA_TX_POWER_SETTING", IF auto THEN "AUTOMATIC" ELSE "LIMITED">>
           r == PutAll(t, <<<<"MAC", Arg(q)>>, setting>>
                           \o (IF auto THEN <<>>
                               ELSE <<<<"STA_TX_POWER", atoi(Peek(t, 1))>>>>))
           bad == Arg(t) \notin {"auto", "limit"} \/ (~auto /\ Left(t) # 2)
<1>1. CASE Left(q) \notin {3, 4} \/ ~mac_addr_a2n(Arg(q))
  <2>1. TxPower(q) \in {Return(q, "1"), Return(q, "2")}
    BY <1>1 DEF TxPower
  <2> QED BY <2>1, Errors
<1>2. CASE Left(q) \in {3, 4} /\ mac_addr_a2n(Arg(q))
  <2>1. Holds(q, 3)
    BY <1>2, OnTable
  <2>2. Holds(t, 1) /\ Sound(t)
    BY <2>1, ShiftSound, Fewer, Zenon
  <2>3. ~bad => Holds(t, IF auto THEN 1 ELSE 2)
    <3>1. ~bad /\ ~auto => Left(t) = 2
      OBVIOUS
    <3> HIDE DEF t
    <3> QED BY <2>2, <3>1, OnTable, Zenon
  <2>4. ~bad => Sound(Shift(r, n))
    <3>1. ~bad => Holds(r, n)
      BY <2>3, PutAllHolds, Zenon
    <3> HIDE DEF r
    <3> QED BY <3>1, ShiftSound, Zenon
  <2>5. TxPower(q) = IF bad THEN Return(t, "2")
                     ELSE Return(Shift(r, n), IF Left(t) > n THEN "1" ELSE "0")
    BY <1>2, Zenon DEF TxPower
  <2> HIDE DEF t, bad, r, n
  <2> QED BY <2>2, <2>4, <2>5, Errors, Zenon
<1> QED BY <1>1, <1>2

\* select_station_cmd() and the handler that it chooses.
LEMMA StationSound ==
  ASSUME NEW q, Sound(q)
  PROVE  Sound(select_station_cmd(q))
<1>1. select_station_cmd(q) \in
         {StationSet(q, PlinkActions, "STA_PLINK_ACTION"), StationSet(q, AnyNumber, "STA_VLAN"),
          StationSet(q, PowerModes, "LOCAL_MESH_POWER_MODE"),
          StationSet(q, AnyNumber, "AIRTIME_WEIGHT"), TxPower(q), Return(q, "1")}
  BY DEF select_station_cmd
<1> QED BY <1>1, StationSetSound, TxPowerSound, Errors

\* handle_mpath_set() and handle_mpath_probe()
LEMMA MpathSound ==
  ASSUME NEW q, Sound(q)
  PROVE  Sound(handle_mpath_set(q)) /\ Sound(handle_mpath_probe(q))
<1>1. ~(Left(q) < 3) => Sound(PutArg(Shift(PutArg(q, "MAC"), 1), "MPATH_NEXT_HOP"))
  BY OnTable, PutArgSound, ShiftSound, Zenon
<1>2. \A e : ~(Left(q) < 3) => Sound(Shift(PutAll(q, e), 3))
  BY OnTable, PutAllHolds, ShiftSound, Zenon
<1> QED BY <1>1, <1>2, Errors, Zenon DEF handle_mpath_set, handle_mpath_probe

\* handle_reg_set()
LEMMA RegSound ==
  ASSUME NEW q, Sound(q)
  PROVE  Sound(handle_reg_set(q))
<1>1. "2" \in Returnable
  BY DEF Returnable
<1> QED BY <1>1, OnTable, LastOfSound, Errors, Zenon DEF handle_reg_set

\* A nest is put, and nothing is left.
LEMMA NestedSound ==
  ASSUME NEW q, Sound(q), NEW attr, NEW block
  PROVE  Sound(Return(Shift(PutNested(q, attr, block), Left(q)), "0"))
<1>1. Sound(PutNested(q, attr, block)) /\ Left(PutNested(q, attr, block)) = Left(q)
  BY PutAllHolds, Zenon DEF PutNested
<1> QED BY <1>1, ShiftAllSound, Errors, Zenon

\* iw_cqm_rssi()
LEMMA CqmSound ==
  ASSUME NEW q, Sound(q)
  PROVE  Sound(iw_cqm_rssi(q))
<1>1. \/ iw_cqm_rssi(q) = Return(q, "1")
      \/ iw_cqm_rssi(q) = Return(q, "EINVAL")
      \/ \E b : iw_cqm_rssi(q) = Return(Shift(PutNested(q, "CQM", b), Left(q)), "0")
  BY Zenon DEF iw_cqm_rssi
<1> QED BY <1>1, NestedSound, Errors

\* join_ocb()
LEMMA OcbSound ==
  ASSUME NEW q, Sound(q)
  PROVE  Sound(join_ocb(q))
<1>1. PICK r : r = parse_freqchan(FALSE, Rest(q), FALSE)
  OBVIOUS
<1>2. r.used \in Nat /\ r.used <= Left(q) /\ r.err \in {"0", "1"}
  BY <1>1, FreqchanUses
<1>3. Sound(ChannelDone(q, r))
  BY <1>2, ChannelDoneSound
<1> QED BY <1>1, <1>3, Errors, Zenon DEF join_ocb

\* offchannel() and handle_roc_start()
LEMMA TimeSound ==
  ASSUME NEW q, Sound(q)
  PROVE  Sound(offchannel(q)) /\ Sound(handle_roc_start(q))
<1>1. Left(q) = 2 => Sound(PutArg(PutArg(q, "WIPHY_FREQ"), "DURATION"))
  BY OnTable, PutArgSound, Zenon
<1> QED BY <1>1, Errors, Zenon DEF offchannel, handle_roc_start, FreqAndTime

\* handle_vendor() and register_mgmt_frame()
LEMMA VendorSound ==
  ASSUME NEW q, Sound(q)
  PROVE  Sound(handle_vendor(q)) /\ Sound(register_mgmt_frame(q))
<1>1. \A e : Sound(PutAll(q, e))
  BY PutAllHolds, Zenon
<1>2. \/ handle_vendor(q) \in {Return(q, "1"), Return(q, "2")}
      \/ \E e : handle_vendor(q) \in {Return(PutAll(q, e), "EINVAL"), Return(PutAll(q, e), "0")}
  BY DEF handle_vendor
<1>3. \A e : ~(Left(q) < 2) => Sound(Shift(PutAll(q, e), 2))
  BY OnTable, PutAllHolds, ShiftSound, Zenon
<1>4. Sound(register_mgmt_frame(q))
  BY <1>3, Errors, Zenon DEF register_mgmt_frame
<1> QED BY <1>1, <1>2, <1>4, Errors

\* The three handlers of hwsim.
LEMMA HwsimSound ==
  ASSUME NEW q, Sound(q)
  PROVE  /\ Sound(handle_hwsim_setps(q)) /\ Sound(handle_hwsim_stop_queues(q))
         /\ Sound(handle_hwsim_wake_queues(q))
<1>1. \A b : Sound(TestData(q, b))
  BY NestedSound, Zenon DEF TestData
<1> QED BY <1>1, Errors, Zenon
        DEF handle_hwsim_setps, handle_hwsim_stop_queues, handle_hwsim_wake_queues, NoArguments

\* handle_ftm_start_responder()
LEMMA ResponderSound ==
  ASSUME NEW s \in Nat \ {0}, NEW q, Sound(q)
  PROVE  Sound(handle_ftm_start_responder(s, q))
<1>1. \A e : Sound(PutAll(q, e))
  BY PutAllHolds, Zenon
<1>2. \A e : Left(q) # 0 => Sound(Again(Shift(Put(q, e), 1)))
  BY OnTable, PutHolds, ShiftSound, AgainSound, Zenon
<1>3. PICK e : e = <<<<"FTM_RESPONDER">>, <<"FTM_RESPONDER">> \o <<"ENABLED">>>>
  OBVIOUS
<1>4. PICK g : g = <<"FTM_RESPONDER">> \o FtmResponder[Arg(q)]
  OBVIOUS
<1>5. CASE s = 1
  <2>1. handle_ftm_start_responder(s, q) = PutAll(q, e)
    BY <1>3, <1>5 DEF handle_ftm_start_responder
  <2> QED BY <1>1, <2>1
<1>6. CASE s # 1 /\ Left(q) = 0
  <2>1. handle_ftm_start_responder(s, q) = Return(q, "0")
    BY <1>4, <1>6 DEF handle_ftm_start_responder
  <2> QED BY <2>1, <1>2, Errors
<1>7. CASE s # 1 /\ Left(q) # 0
  <2>1. handle_ftm_start_responder(s, q) \in {Return(q, "1"), Again(Shift(Put(q, g), 1))}
    BY <1>4, <1>7 DEF handle_ftm_start_responder
  <2> QED BY <1>7, <2>1, <1>2, Errors
<1> QED BY <1>5, <1>6, <1>7
-----------------------------------------------------------------------------
\* The commands of NanArgs.
LEMMA MasterPrefSound ==
  ASSUME NEW q, Holds(q, 2)
  PROVE  Sound(MasterPref(q))
  BY PutHolds, ShiftSound, Zenon DEF MasterPref

\* parse_bands()
LEMMA BandsSound ==
  ASSUME NEW q, Sound(q)
  PROVE  Sound(parse_bands(q))
<1>1. \A e : Sound(Put(q, e)) /\ Left(Put(q, e)) = Left(q)
  BY PutHolds, Zenon
<1>2. \A e : Sound(Shift(Put(q, e), Left(Put(q, e))))
  BY <1>1, ShiftAllSound, Zenon
<1>3. \A e : Sound(Shift(Put(q, e), Left(q)))
  BY <1>1, <1>2
<1> QED BY <1>3, Errors, Zenon DEF parse_bands

\* The handlers of nan start, nan config and nan rm_func.
LEMMA NanStartSound ==
  ASSUME NEW s, NEW q, Sound(q)
  PROVE  /\ Sound(handle_nan_start(s, q)) /\ Sound(handle_nan_config(s, q))
         /\ Sound(handle_nan_rm_func(s, q))
<1>1. Option(q, "pref") => Sound(MasterPref(q))
  BY WordThere, MasterPrefSound
<1>2. handle_nan_start(s, q) \in {IF ~Option(q, "pref") THEN Return(q, "EINVAL") ELSE MasterPref(q),
                                  parse_bands(q), Return(q, "0")}
  BY DEF handle_nan_start
<1>3. handle_nan_config(s, q) \in {IF Left(q) < 2 THEN Return(q, "EINVAL")
                                   ELSE IF Option(q, "pref") THEN MasterPref(q) ELSE q,
                                   parse_bands(q), Return(q, "0")}
  BY DEF handle_nan_config
<1>4. Sound(handle_nan_rm_func(s, q))
  BY OnTable, PutHolds, ShiftSound, Errors, Zenon DEF handle_nan_rm_func
<1> QED BY <1>1, <1>2, <1>3, <1>4, BandsSound, Errors

\* A word and its value, in nan add_func.
LEMMA FuncOptionSound ==
  ASSUME NEW q, Sound(q), NEW word, NEW attr
  PROVE  Sound(FuncOption(q, word, attr))
  BY WordThere, PutHolds, ShiftSound, Zenon DEF FuncOption

\* The parts of a function up to its name,
LEMMA FuncTypeSound ==
  ASSUME NEW q, Sound(q)
  PROVE  /\ Sound(FuncType(q)) /\ Sound(FuncBcast(q)) /\ Sound(FuncName(q))
<1>1. Sound(FuncType(q))
  BY WordThere, PutHolds, ShiftSound, Errors, Zenon DEF FuncType
<1>2. Sound(FuncBcast(q))
  BY FlagSound, Errors, Zenon DEF FuncBcast
<1>3. Sound(FuncName(q))
  BY FlagSound, FuncOptionSound, Errors, Zenon DEF FuncName
<1> QED BY <1>1, <1>2, <1>3

\* what kind it is,
LEMMA FuncKindSound ==
  ASSUME NEW q, Sound(q)
  PROVE  Sound(FuncKind(q))
<1> DEFINE a == Flag(q, "active", Func("SUBSCRIBE_ACTIVE"))
<1>1. Sound(a) /\ Sound(Unsolicited(Solicited(q)))
  BY FlagSound, Zenon DEF Solicited, Unsolicited
<1>2. FuncKind(q) \in {a, Unsolicited(Solicited(q)), q}
  BY DEF FuncKind
<1> QED BY <1>1, <1>2

\* what a follow-up needs,
LEMMA FollowUpSound ==
  ASSUME NEW q, Sound(q)
  PROVE  Sound(FollowUp(q))
  BY FuncOptionSound, Errors, Zenon DEF FollowUp

\* parse_srf(),
LEMMA SrfSound ==
  ASSUME NEW q, Sound(q)
  PROVE  Sound(parse_srf(q))
<1>1. \A e : Left(q) >= 5 => Sound(Srf(q, e, 5))
  <2>1. Left(q) >= 5 => Holds(q, 5)
    BY DEF Holds
  <2> QED BY <2>1, PutAllHolds, ShiftSound, Zenon DEF Srf
<1>2. Null \notin MacList
  BY DEF MacList, Null
<1>3. \A e : Peek(q, 2) \in MacList => Sound(Srf(q, e, 3))
  BY <1>2, ThereIs, PutAllHolds, ShiftSound, Zenon DEF Srf
<1> DEFINE include == IF Arg(q) = "include" THEN <<<<"INCLUDE">>>> ELSE <<>>
           bytes == Peek(q, 3)
<1>4. PICK e : e = include \o <<<<"BF_IDX", atoi(Peek(q, 2))>>, <<"BF", bytes>> \o Stations(Peek(q, 4))>>
  OBVIOUS
<1>5. PICK g : g = include \o <<<<"MAC_ADDRS">> \o Stations(Peek(q, 2))>>
  OBVIOUS
<1>6. CASE Arg(q) \notin {"include", "exclude"}
  <2>1. parse_srf(q) = Return(q, "EINVAL")
    BY <1>6 DEF parse_srf
  <2> QED BY <2>1, Errors
<1>7. CASE Arg(q) \in {"include", "exclude"} /\ Peek(q, 1) = "bf"
  <2>1. parse_srf(q) = IF Left(q) < 5 \/ Num(atoi(bytes)) \notin 1..SrfMaxLen
                            \/ Peek(q, 4) \notin MacList
                       THEN Return(q, "EINVAL") ELSE Srf(q, e, 5)
    BY <1>4, <1>7 DEF parse_srf
  <2>2. ~(Left(q) < 5) => Left(q) >= 5
    BY Reduced
  <2> QED BY <1>1, <2>1, <2>2, Errors, Zenon
<1>8. CASE Arg(q) \in {"include", "exclude"} /\ Peek(q, 1) = "list"
  <2>1. parse_srf(q) = IF Peek(q, 2) \notin MacList THEN Return(q, "EINVAL") ELSE Srf(q, g, 3)
    BY <1>5, <1>8 DEF parse_srf
  <2> QED BY <1>3, <2>1, Errors, Zenon
<1>9. CASE Arg(q) \in {"include", "exclude"} /\ Peek(q, 1) # "bf" /\ Peek(q, 1) # "list"
  <2>1. parse_srf(q) = Return(q, "EINVAL")
    BY <1>9 DEF parse_srf
  <2> QED BY <2>1, Errors
<1> QED BY <1>6, <1>7, <1>8, <1>9

\* the filter by which a service responds,
LEMMA FuncSrfSound ==
  ASSUME NEW q, Sound(q)
  PROVE  Sound(FuncSrf(q))
<1>1. Left(q) >= 4 => Holds(q, 1)
  BY Reduced DEF Holds
<1> QED BY <1>1, ShiftSound, SrfSound, Zenon DEF FuncSrf

\* parse_match_filter(),
LEMMA MatchFilterSound ==
  ASSUME NEW q, Sound(q), NEW word, NEW attr
  PROVE  Sound(parse_match_filter(q, word, attr))
<1>1. PICK e : e = Func(attr) \o [i \in DOMAIN Parts(Peek(q, 1)) |->
                                    IF Parts(Peek(q, 1))[i] = "*" THEN ""
                                    ELSE Parts(Peek(q, 1))[i]]
  OBVIOUS
<1>2. Option(q, word) => Sound(Shift(Put(q, e), 2))
  BY WordThere, PutHolds, ShiftSound, Zenon
<1>3. parse_match_filter(q, word, attr) = IF Option(q, word) THEN Shift(Put(q, e), 2) ELSE q
  BY <1>1 DEF parse_match_filter
<1> QED BY <1>2, <1>3

\* and handle_nan_add_func() with all of them.
LEMMA AddFuncSound ==
  ASSUME NEW s \in Nat \ {0}, NEW q, Sound(q)
  PROVE  Sound(handle_nan_add_func(s, q))
<1>1. PICK a : a = FollowUp(FuncOption(q, "info", "SERVICE_INFO"))
  OBVIOUS
<1>2. PICK b : b = parse_match_filter(parse_match_filter(q, "rx_filter", "RX_MATCH_FILTER"),
                            "tx_filter", "TX_MATCH_FILTER")
  OBVIOUS
<1>3. PICK e : e = Return(q, IF Left(q) > 0 THEN "EINVAL" ELSE "0")
  OBVIOUS
<1>4. Sound(a) /\ Sound(b) /\ Sound(e)
  BY <1>1, <1>2, <1>3, FuncOptionSound, FollowUpSound, MatchFilterSound, Errors, Zenon
<1>5. handle_nan_add_func(s, q) \in
         {FuncType(q), FuncKind(q), FuncBcast(q), FuncName(q), a, FuncOption(q, "ttl", "TTL"),
          FuncSrf(q), b, e}
  BY <1>1, <1>2, <1>3 DEF handle_nan_add_func
<1> QED BY <1>4, <1>5, FuncTypeSound, FuncKindSound, FuncOptionSound, FuncSrfSound
-----------------------------------------------------------------------------
\* The commands of ScanArgs.  The local variables are a record: each step is
\* one about [q EXCEPT !.loc = l] for some l.
Same(q, r) == /\ Sound(r) /\ Left(r) = Left(q) /\ r.argv = q.argv /\ r.pos = q.pos
              /\ r.ret = q.ret /\ r.again = q.again

\* A variable of the handler is set: the arguments are the same.
LEMMA LocSame ==
  ASSUME NEW q, Sound(q), NEW l
  PROVE  Same(q, [q EXCEPT !.loc = l]) /\ [q EXCEPT !.loc = l].loc = l
  BY LocSound DEF Same

\* With the same arguments, as many are left.
LEMMA SameHolds ==
  ASSUME NEW q, NEW r, Sound(q), Same(q, r), NEW n, Holds(q, n)
  PROVE  Holds(r, n)
  BY DEF Same, Holds

\* A record with the state st.
InState(l, states) ==
  /\ l = [x \in DOMAIN l |-> l[x]]
  /\ "st" \in DOMAIN l /\ l.st \in states
ScanStates == {"NONE", "DONE", "SSID", "FREQ", "IES", "MESHID", "DURATION"}
Scanning(l) == InState(l, ScanStates) /\ "err" \in DOMAIN l /\ l.err \in {"0", "ENOBUFS"}

\* What a step of the automaton does to its variables.
LEMMA ScanLoc ==
  ASSUME NEW l, Scanning(l), NEW st \in ScanStates, NEW v
  PROVE  /\ Scanning([l EXCEPT !.st = st]) /\ Scanning([l EXCEPT !.have = v])
         /\ Scanning([l EXCEPT !.flags = v]) /\ Scanning([l EXCEPT !.ies = v])
         /\ Scanning([l EXCEPT !.meshid = v]) /\ Scanning([l EXCEPT !.duration = v])
         /\ Scanning([l EXCEPT !.ssids = v]) /\ Scanning([l EXCEPT !.freqs = v])
         /\ Scanning([l EXCEPT !.i = v]) /\ Scanning([l EXCEPT !.err = "0"])
  BY DEF Scanning, InState

\* What is set when handle_scan() goes on, has met a word, or sets a flag.
LEMMA GoIs ==
  ASSUME NEW q, Sound(q), NEW x
  PROVE  /\ Go(q, x) = [q EXCEPT !.loc = [q.loc EXCEPT !.st = x]]
         /\ Met(q, x) = [q EXCEPT !.loc = [q.loc EXCEPT !.have = q.loc.have \cup {x}]]
         /\ Flagged(q, x) = [q EXCEPT !.loc = [q.loc EXCEPT !.flags = q.loc.flags \cup {x}]]
  BY DEF Go, Met, Flagged, Sound, Shaped

\* What keeps the arguments and the automaton in order.
ScanSound(q) == Sound(q) /\ (q.ret = "go" => Scanning(q.loc))

\* After it the arguments and the state of the scan are sound.
LEMMA GoSound ==
  ASSUME NEW q, Sound(q), Scanning(q.loc), NEW st \in ScanStates, NEW x
  PROVE  /\ Sound(Go(q, st)) /\ Scanning(Go(q, st).loc)
         /\ Sound(Met(q, x)) /\ Scanning(Met(q, x).loc)
         /\ Sound(Flagged(q, x)) /\ Scanning(Flagged(q, x).loc)
<1>1. PICK h : h = q.loc.have \cup {x}
  OBVIOUS
<1>2. PICK f : f = q.loc.flags \cup {x}
  OBVIOUS
<1>3. PICK a : a = [q.loc EXCEPT !.st = st]
  OBVIOUS
<1>4. PICK b : b = [q.loc EXCEPT !.have = h]
  OBVIOUS
<1>5. PICK c : c = [q.loc EXCEPT !.flags = f]
  OBVIOUS
<1>6. Scanning(a) /\ Scanning(b) /\ Scanning(c)
  BY <1>3, <1>4, <1>5, ScanLoc
<1>7. /\ Go(q, st) = [q EXCEPT !.loc = a] /\ Met(q, x) = [q EXCEPT !.loc = b]
      /\ Flagged(q, x) = [q EXCEPT !.loc = c]
  BY <1>1, <1>2, <1>3, <1>4, <1>5, GoIs
<1>8. \A l : Sound([q EXCEPT !.loc = l]) /\ [q EXCEPT !.loc = l].loc = l
  BY LocSound
<1> QED BY <1>6, <1>7, <1>8

\* An argument that is consumed together with a change of the variables.
LEMMA ScanSet ==
  ASSUME NEW q, Holds(q, 1), NEW l, Scanning(l)
  PROVE  /\ Sound(Shift([q EXCEPT !.loc = l], 1)) /\ Scanning(Shift([q EXCEPT !.loc = l], 1).loc)
<1>1. PICK r : r = [q EXCEPT !.loc = l]
  OBVIOUS
<1>2. Sound(q)
  BY Fewer
<1>3. Sound(r) /\ r.loc = l /\ Left(r) = Left(q)
  BY <1>1, <1>2, LocSound
<1>4. Holds(r, 1)
  BY <1>3 DEF Holds
<1>5. 1 \in Nat /\ 1 <= Left(r)
  BY <1>4, Reduced DEF Holds
<1>6. Sound(Shift(r, 1)) /\ Shift(r, 1).loc = r.loc
  BY <1>3, <1>5, ShiftFields
<1> QED BY <1>1, <1>3, <1>6

\* A list entry is the argument that is passed.
LEMMA AddIs ==
  ASSUME NEW q, Sound(q), NEW list
  PROVE  Add(q, list) =
           Shift([q EXCEPT !.loc = [q.loc EXCEPT ![list] = Append(q.loc[list], Arg(q)),
                                                 !.i = q.loc.i + 1]], 1)
  BY DEF Add, Sound, Shaped

\* It was there.
LEMMA ScanAddSound ==
  ASSUME NEW q, Holds(q, 1), Scanning(q.loc)
  PROVE  /\ Sound(Add(q, "ssids")) /\ Scanning(Add(q, "ssids").loc)
         /\ Sound(Add(q, "freqs")) /\ Scanning(Add(q, "freqs").loc)
<1>0. Sound(q)
  BY Fewer
<1>1. PICK v : v = Append(q.loc["ssids"], Arg(q))
  OBVIOUS
<1>2. PICK w : w = Append(q.loc["freqs"], Arg(q))
  OBVIOUS
<1>3. PICK i : i = q.loc.i + 1
  OBVIOUS
<1>4. PICK a : a = [q.loc EXCEPT !["ssids"] = v, !.i = i]
  OBVIOUS
<1>5. PICK b : b = [q.loc EXCEPT !["freqs"] = w, !.i = i]
  OBVIOUS
<1>6. Scanning(a) /\ Scanning(b)
  <2>1. \A l, u : Scanning(l) => /\ Scanning([l EXCEPT !.ssids = u])
                                 /\ Scanning([l EXCEPT !.freqs = u])
                                 /\ Scanning([l EXCEPT !.i = u])
    <3>1. "NONE" \in ScanStates
      BY DEF ScanStates
    <3> QED BY <3>1, ScanLoc
  <2>2. /\ a = [[q.loc EXCEPT !.ssids = v] EXCEPT !.i = i]
        /\ b = [[q.loc EXCEPT !.freqs = w] EXCEPT !.i = i]
    BY <1>4, <1>5
  <2> QED BY <2>1, <2>2
<1>7. Add(q, "ssids") = Shift([q EXCEPT !.loc = a], 1) /\ Add(q, "freqs") = Shift([q EXCEPT !.loc = b], 1)
  BY <1>0, <1>1, <1>2, <1>3, <1>4, <1>5, AddIs
<1> QED BY <1>6, <1>7, ScanSet

\* err = 0 in handle_scan()
LEMMA ErrSound ==
  ASSUME NEW q, Sound(q), Scanning(q.loc)
  PROVE  Sound([q EXCEPT !.loc.err = "0"]) /\ Scanning([q EXCEPT !.loc.err = "0"].loc)
<1>1. PICK l : l = [q.loc EXCEPT !.err = "0"]
  OBVIOUS
<1>2. Scanning(l)
  BY <1>1, ScanLoc DEF ScanStates
<1>3. [q EXCEPT !.loc.err = "0"] = [q EXCEPT !.loc = l]
  BY <1>1 DEF Sound, Shaped
<1>4. \A m : Sound([q EXCEPT !.loc = m]) /\ [q EXCEPT !.loc = m].loc = m
  BY LocSound
<1> QED BY <1>2, <1>3, <1>4

\* A word that is an option of a scan,
LEMMA ScanOptionSound ==
  ASSUME NEW q, Holds(q, 1), Scanning(q.loc)
  PROVE  ScanSound(ScanOption(q))
<1> DEFINE w == Arg(q)
<1>1. PICK t : t = Shift(q, 1)
  OBVIOUS
<1>2. PICK r : r = parse_random_mac_addr(t, Randomise[w])
  OBVIOUS
<1>3. Sound(t) /\ Scanning(t.loc)
  <2>1. Sound(q) /\ 1 \in Nat /\ 1 <= Left(q)
    BY Reduced DEF Holds
  <2> QED BY <1>1, <2>1, ShiftFields
<1>4. Sound(r) /\ Scanning(r.loc)
  BY <1>2, <1>3, RandomSound
<1>5. \A st \in ScanStates : \A x :
        /\ Sound(Go(t, st)) /\ Scanning(Go(t, st).loc)
        /\ Sound(Met(t, x)) /\ Scanning(Met(t, x).loc)
        /\ Sound(Flagged(t, x)) /\ Scanning(Flagged(t, x).loc)
        /\ Sound(Go(Met(t, x), st)) /\ Scanning(Go(Met(t, x), st).loc)
  BY <1>3, GoSound
<1>6. Sound([Flagged(r, "RANDOM_ADDR") EXCEPT !.loc.err = "0"])
      /\ Scanning([Flagged(r, "RANDOM_ADDR") EXCEPT !.loc.err = "0"].loc)
  <2>1. Sound(Flagged(r, "RANDOM_ADDR")) /\ Scanning(Flagged(r, "RANDOM_ADDR").loc)
    BY <1>4, GoSound DEF ScanStates
  <2> QED BY <2>1, ErrSound
<1>7. Return(t, "1").ret # "go" /\ Sound(Return(t, "1"))
  BY <1>3, Errors, ReturnSound
<1>8. {"FREQ", "SSID", "DONE", "IES", "MESHID", "DURATION"} \subseteq ScanStates
  BY DEF ScanStates
<1>9. PICK g : g = [Flagged(r, "RANDOM_ADDR") EXCEPT !.loc.err = "0"]
  OBVIOUS
<1>10. ScanOption(q) \in
         {Go(Met(t, "freqs"), "FREQ"), Go(Met(t, "ssids"), "SSID"), Go(Met(t, "passive"), "DONE"),
          Go(t, "IES"), Go(t, "MESHID"), Go(t, "DURATION"), Met(t, w), Flagged(t, ScanFlagOf[w]),
          r, g, Return(t, "1")}
  BY <1>1, <1>2, <1>9 DEF ScanOption
<1> QED BY <1>4, <1>5, <1>6, <1>7, <1>8, <1>9, <1>10 DEF ScanSound

\* any argument in any state,
LEMMA ScanArgSound ==
  ASSUME NEW q, Holds(q, 1), Scanning(q.loc)
  PROVE  ScanSound(ScanArg(q))
<1> DEFINE w == Arg(q)
<1>0. Sound(q)
  BY Fewer
<1>1. \A l, v : Scanning(l) => Scanning([l EXCEPT !.ies = v]) /\ Scanning([l EXCEPT !.meshid = v])
                               /\ Scanning([l EXCEPT !.duration = v])
  BY ScanLoc DEF ScanStates
<1>2. PICK a : a = [q.loc EXCEPT !.ies = parse_hex(w).val]
  OBVIOUS
<1>3. PICK b : b = [q.loc EXCEPT !.meshid = <<"114", w>>]
  OBVIOUS
<1>4. PICK c : c = [q.loc EXCEPT !.duration = atoi(w)]
  OBVIOUS
<1>5. Scanning(a) /\ Scanning(b) /\ Scanning(c)
  BY <1>1, <1>2, <1>3, <1>4
<1>6. /\ [q EXCEPT !.loc.ies = parse_hex(w).val] = [q EXCEPT !.loc = a]
      /\ [q EXCEPT !.loc.meshid = <<"114", w>>] = [q EXCEPT !.loc = b]
      /\ [q EXCEPT !.loc.duration = atoi(w)] = [q EXCEPT !.loc = c]
  BY <1>0, <1>2, <1>3, <1>4 DEF Sound, Shaped
<1>7. "NONE" \in ScanStates
  BY DEF ScanStates
<1>8. \A l : Scanning(l) => ScanSound(Go(Shift([q EXCEPT !.loc = l], 1), "NONE"))
  <2> SUFFICES ASSUME NEW l, Scanning(l)
               PROVE  ScanSound(Go(Shift([q EXCEPT !.loc = l], 1), "NONE"))
    OBVIOUS
  <2>1. PICK r : r = Shift([q EXCEPT !.loc = l], 1)
    OBVIOUS
  <2>2. Sound(r) /\ Scanning(r.loc)
    BY <2>1, ScanSet
  <2>3. Sound(Go(r, "NONE")) /\ Scanning(Go(r, "NONE").loc)
    BY <1>7, <2>2, GoSound
  <2> QED BY <2>1, <2>3 DEF ScanSound
<1>9. ScanSound(Go(q, "NONE"))
  BY <1>0, <1>7, GoSound DEF ScanSound
<1>10. \A e \in {"1", "0", "ENOBUFS"} : ScanSound(Return(q, e))
  <2>1. \A e \in {"1", "0", "ENOBUFS"} : e \in Returnable /\ e # "go"
    BY DEF Returnable
  <2> QED BY <1>0, <2>1, ReturnSound, Zenon DEF ScanSound
<1>11. q.loc.st \in ScanStates /\ q.loc.err \in {"0", "ENOBUFS"}
  BY DEF Scanning, InState
<1>12. ScanArg(q) \in
         {ScanOption(q), Return(q, "1"), Add(q, "ssids"), Add(q, "freqs"), Go(q, "NONE"),
          Return(q, q.loc.err), Go(Shift([q EXCEPT !.loc = a], 1), "NONE"),
          Go(Shift([q EXCEPT !.loc = b], 1), "NONE"), Go(Shift([q EXCEPT !.loc = c], 1), "NONE")}
  BY <1>6, <1>11 DEF ScanArg, ScanStates
<1>13. ScanSound(Add(q, "ssids")) /\ ScanSound(Add(q, "freqs"))
  BY ScanAddSound DEF ScanSound
<1> QED BY <1>5, <1>8, <1>9, <1>10, <1>11, <1>12, <1>13, ScanOptionSound

\* the end of the arguments,
LEMMA ScanEndSound ==
  ASSUME NEW q, Sound(q)
  PROVE  Sound(ScanEnd(q)) /\ ScanEnd(q).ret # "go"
<1> DEFINE l     == q.loc
           flags == l.flags \cup (IF "freqs" \in l.have THEN {} ELSE {"COLOCATED_6GHZ"})
           ie    == l.ies \o l.meshid
           ssids == IF "ssids" \in l.have THEN l.ssids ELSE <<"">>
           r     == PutAll(q,
                 (IF ie # <<>> THEN <<<<"IE">> \o ie>> ELSE <<>>)
                 \o (IF "passive" \in l.have THEN <<>> ELSE List("SCAN_SSIDS", ssids))
                 \o (IF "freqs" \in l.have THEN List("SCAN_FREQUENCIES", l.freqs) ELSE <<>>)
                 \o FlagsAttr(flags)
                 \o (IF l.duration # "0" THEN <<<<"MEASUREMENT_DURATION", l.duration>>>>
                     ELSE <<>>))
           t     == Put(r, <<"MEASUREMENT_DURATION_MANDATORY">>)
<1>1. Sound(r)
  BY PutAllHolds, Zenon
<1>2. Sound(t)
  <2> HIDE DEF r
  <2> QED BY <1>1, PutHolds, Zenon
<1>3. ScanEnd(q) \in {Return(r, "0"), Return(t, "0"), Return(r, "EINVAL")}
  BY DEF ScanEnd
<1> HIDE DEF r, t
<1>4. \A x \in {r, t}, e \in {"0", "EINVAL"} : Sound(Return(x, e)) /\ Return(x, e).ret = e
  <2>1. {"0", "EINVAL"} \subseteq Returnable
    BY DEF Returnable
  <2> QED BY <1>1, <1>2, <2>1, ReturnSound
<1> QED BY <1>3, <1>4

\* and handle_scan() from its first call to its last.
LEMMA HandleScanSound ==
  ASSUME NEW s \in Nat \ {0}, NEW q, Sound(q), s # 1 => Scanning(q.loc)
  PROVE  ScanSound(handle_scan(s, q))
<1>1. CASE s = 1
  <2>1. handle_scan(s, q) = [q EXCEPT !.loc = Scanner]
    BY <1>1 DEF handle_scan
  <2>2. Scanning(Scanner)
    <3>1. Scanner.st = "NONE" /\ Scanner.err = "ENOBUFS" /\ "st" \in DOMAIN Scanner
          /\ "err" \in DOMAIN Scanner /\ Scanner = [x \in DOMAIN Scanner |-> Scanner[x]]
      BY DEF Scanner
    <3> QED BY <3>1 DEF Scanning, InState, ScanStates
  <2> QED BY <2>1, <2>2, LocSound DEF ScanSound
<1>2. CASE s # 1 /\ Left(q) > 0
  <2>1. handle_scan(s, q) = Again(ScanArg(q))
    BY <1>2 DEF handle_scan
  <2>2. ScanSound(ScanArg(q))
    BY <1>2, OnTable, ScanArgSound
  <2>3. PICK r : r = ScanArg(q)
    OBVIOUS
  <2>4. Sound(r) /\ Fine(r) /\ (r.ret = "go" => Scanning(r.loc))
    BY <2>2, <2>3 DEF ScanSound, Sound, Fine
  <2>5. Sound(Again(r)) /\ Again(r).ret = r.ret /\ Again(r).loc = r.loc
    BY <2>4, AgainSound
  <2> QED BY <2>1, <2>3, <2>4, <2>5 DEF ScanSound
<1>3. CASE s # 1 /\ ~(Left(q) > 0)
  <2>1. handle_scan(s, q) = ScanEnd(q)
    BY <1>3 DEF handle_scan
  <2> QED BY <2>1, ScanEndSound DEF ScanSound
<1> QED BY <1>1, <1>2, <1>3
-----------------------------------------------------------------------------
\* The other automaton, which wowlan enable has too.
SchedStates == {"TOPLEVEL", "MATCH", "ACTIVE", "FREQS", "PLANS"}
AllSched == SchedStates \cup {"DONE", "NOT_OURS"}
Keeps(q, r) == Sound(r) /\ (InState(q.loc, AllSched) => InState(r.loc, AllSched))

\* One step of parse_sched_scan() after another.
LEMMA KeepsKept ==
  ASSUME NEW q, NEW r, NEW t, Keeps(q, r), Keeps(r, t)
  PROVE  Keeps(q, t)
  BY DEF Keeps

\* The state is one of S when it is set to one of S.
LEMMA InStateSet ==
  ASSUME NEW S, NEW l, InState(l, S), NEW st \in S, NEW k, k # "st", NEW v
  PROVE  InState([l EXCEPT !.st = st], S) /\ InState([l EXCEPT ![k] = v], S)
  BY DEF InState

\* The steps that take no argument,
LEMMA GoKeeps ==
  ASSUME NEW q, Sound(q), NEW st \in AllSched, NEW x
  PROVE  /\ Keeps(q, Go(q, st)) /\ Left(Go(q, st)) = Left(q)
         /\ Keeps(q, Met(q, x)) /\ Left(Met(q, x)) = Left(q)
         /\ Keeps(q, Flagged(q, x))
<1>1. PICK h : h = q.loc.have \cup {x}
  OBVIOUS
<1>2. PICK f : f = q.loc.flags \cup {x}
  OBVIOUS
<1>3. PICK a : a = [q.loc EXCEPT !.st = st]
  OBVIOUS
<1>4. PICK b : b = [q.loc EXCEPT !["have"] = h]
  OBVIOUS
<1>5. PICK c : c = [q.loc EXCEPT !["flags"] = f]
  OBVIOUS
<1>6. InState(q.loc, AllSched) => InState(a, AllSched) /\ InState(b, AllSched) /\ InState(c, AllSched)
  BY <1>3, <1>4, <1>5, InStateSet
<1>7. /\ Go(q, st) = [q EXCEPT !.loc = a] /\ Met(q, x) = [q EXCEPT !.loc = b]
      /\ Flagged(q, x) = [q EXCEPT !.loc = c]
  BY <1>1, <1>2, <1>3, <1>4, <1>5, GoIs
<1>8. \A l : Sound([q EXCEPT !.loc = l]) /\ [q EXCEPT !.loc = l].loc = l
             /\ Left([q EXCEPT !.loc = l]) = Left(q)
  BY LocSound
<1> QED BY <1>6, <1>7, <1>8 DEF Keeps

\* those that return or put an attribute,
LEMMA ReturnKeeps ==
  ASSUME NEW q, Sound(q), NEW e
  PROVE  /\ e \in Returnable => Keeps(q, Return(q, e))
         /\ Keeps(q, q) /\ Keeps(q, PutAll(q, e)) /\ Keeps(q, Put(q, e))
  BY ReturnSound, PutAllHolds, PutHolds, Zenon DEF Keeps

\* those that pass arguments,
LEMMA ShiftKeeps ==
  ASSUME NEW q, Sound(q), NEW n \in Nat, n <= Left(q)
  PROVE  Keeps(q, Shift(q, n)) /\ Left(Shift(q, n)) = Left(q) - n
  BY ShiftFields DEF Keeps

\* and those that pass one into a list.
LEMMA AddKeeps ==
  ASSUME NEW q, Holds(q, 1), NEW list \in {"ssids", "freqs", "matches", "plans"}
  PROVE  Keeps(q, Add(q, list))
<1>0. Sound(q)
  BY Fewer
<1>1. PICK v : v = Append(q.loc[list], Arg(q))
  OBVIOUS
<1>2. PICK i : i = q.loc.i + 1
  OBVIOUS
<1>3. PICK a : a = [q.loc EXCEPT ![list] = v, !.i = i]
  OBVIOUS
<1>4. InState(q.loc, AllSched) => InState(a, AllSched)
  <2>1. a = [[q.loc EXCEPT ![list] = v] EXCEPT !["i"] = i]
    BY <1>3
  <2>2. \A l, k, u : InState(l, AllSched) /\ k # "st" => InState([l EXCEPT ![k] = u], AllSched)
    BY DEF InState
  <2>3. list # "st" /\ "i" # "st"
    OBVIOUS
  <2> QED BY <2>1, <2>2, <2>3
<1>5. Add(q, list) = Shift([q EXCEPT !.loc = a], 1)
  BY <1>0, <1>1, <1>2, <1>3, AddIs
<1>6. PICK r : r = [q EXCEPT !.loc = a]
  OBVIOUS
<1>7. Sound(r) /\ r.loc = a /\ Left(r) = Left(q)
  BY <1>0, <1>6, LocSound
<1>8. 1 \in Nat /\ 1 <= Left(r)
  BY <1>7, Reduced DEF Holds
<1>9. Sound(Shift(r, 1)) /\ Shift(r, 1).loc = r.loc
  BY <1>7, <1>8, ShiftFields
<1> QED BY <1>4, <1>5, <1>6, <1>7, <1>9 DEF Keeps

\* A word that begins a list.
LEMMA EnterKeeps ==
  ASSUME NEW q, Holds(q, 1), NEW st \in AllSched, NEW option
  PROVE  Keeps(q, Enter(q, st, option))
<1>0. Sound(q)
  BY Fewer
<1>1. PICK m : m = Met(q, option)
  OBVIOUS
<1>2. Keeps(q, m) /\ Left(m) = Left(q) /\ Sound(m)
  BY <1>0, <1>1, GoKeeps DEF Keeps
<1>3. PICK g : g = Go(m, st)
  OBVIOUS
<1>4. Keeps(m, g) /\ Left(g) = Left(m) /\ Sound(g)
  BY <1>2, <1>3, GoKeeps DEF Keeps
<1>5. PICK t : t = Shift(g, 1)
  OBVIOUS
<1>6. 1 \in Nat /\ 1 <= Left(g)
  BY <1>2, <1>4, Reduced DEF Holds
<1>7. Keeps(g, t) /\ Sound(t)
  BY <1>4, <1>5, <1>6, ShiftKeeps DEF Keeps
<1>8. PICK l : l = [t.loc EXCEPT !["i"] = 0]
  OBVIOUS
<1>9. InState(t.loc, AllSched) => InState(l, AllSched)
  <2>1. "TOPLEVEL" \in AllSched /\ "i" # "st"
    BY DEF AllSched, SchedStates
  <2> QED BY <1>8, <2>1, InStateSet
<1>10. Enter(q, st, option) = [t EXCEPT !.loc = l]
  BY <1>1, <1>3, <1>5, <1>7, <1>8 DEF Enter, Sound, Shaped
<1>11. \A m2 : Sound([t EXCEPT !.loc = m2]) /\ [t EXCEPT !.loc = m2].loc = m2
  BY <1>7, LocSound
<1>12. Keeps(t, [t EXCEPT !.loc = l])
  BY <1>9, <1>11 DEF Keeps
<1> QED BY <1>2, <1>4, <1>7, <1>10, <1>12, KeepsKept

\* A word with its number.
LEMMA SchedNumberKeeps ==
  ASSUME NEW q, Sound(q), NEW option, NEW attr, NEW least
  PROVE  Keeps(q, SchedNumber(q, option, attr, least))
<1> DEFINE v == Peek(q, 1)
<1>1. PICK e : e = <<attr \o <<v>>>>
  OBVIOUS
<1>2. PICK t : t = PutAll(q, e)
  OBVIOUS
<1>3. Keeps(q, t) /\ Sound(t) /\ Left(t) = Left(q)
  BY <1>2, ReturnKeeps, PutAllHolds DEF Keeps
<1>4. PICK r : r = Shift(t, 2)
  OBVIOUS
<1>5. SchedNumber(q, option, attr, least) =
         IF Left(q) < 2 \/ ~IsNumber(v) \/ (least /\ v = "0") THEN Return(q, "EINVAL")
         ELSE IF v = "0" THEN r ELSE Met(r, option)
  BY <1>1, <1>2, <1>4, Zenon DEF SchedNumber
<1>6. CASE Left(q) < 2 \/ ~IsNumber(v) \/ (least /\ v = "0")
  <2>1. Keeps(q, Return(q, "EINVAL"))
    BY ReturnKeeps DEF Returnable
  <2>2. SchedNumber(q, option, attr, least) = Return(q, "EINVAL")
    BY <1>5, <1>6, Zenon
  <2> QED BY <2>1, <2>2
<1>7. CASE ~(Left(q) < 2 \/ ~IsNumber(v) \/ (least /\ v = "0"))
  <2>1. 2 \in Nat /\ 2 <= Left(t)
    BY <1>3, <1>7, Reduced
  <2>2. Keeps(t, r) /\ Sound(r)
    BY <1>3, <1>4, <2>1, ShiftKeeps DEF Keeps
  <2>3. Keeps(r, Met(r, option))
    BY <2>2, GoKeeps DEF AllSched
  <2>4. SchedNumber(q, option, attr, least) \in {r, Met(r, option)}
    BY <1>5, <1>7, Zenon
  <2> QED BY <1>3, <2>2, <2>3, <2>4, KeepsKept
<1> QED BY <1>6, <1>7

\* A word that may come once.
LEMMA UnlessKeeps ==
  ASSUME NEW q, Sound(q), NEW options, NEW r, Keeps(q, r)
  PROVE  Keeps(q, Unless(q, options, r))
<1>1. Keeps(q, Return(q, "EINVAL"))
  BY ReturnKeeps DEF Returnable
<1> QED BY <1>1, Zenon DEF Unless

\* A word that is an option of a scheduled scan.
LEMMA SchedOptionKeeps ==
  ASSUME NEW q, Holds(q, 1), NEW attr
  PROVE  Keeps(q, SchedOption(q, attr))
<1> DEFINE w == Arg(q)
<1>0. Sound(q)
  BY Fewer
<1>1. PICK a : a = Unless(q, {"interval", "scan_plans"},
                           SchedNumber(q, w, attr \o <<"SCHED_SCAN_INTERVAL">>, TRUE))
  OBVIOUS
<1>2. PICK b : b = Unless(q, {"delay"}, SchedNumber(q, w, attr \o <<"SCHED_SCAN_DELAY">>, FALSE))
  OBVIOUS
<1>3. PICK c : c = Unless(q, {w, "passive"}, Enter(q, "ACTIVE", w))
  OBVIOUS
<1>4. PICK d : d = Unless(q, {w, "active"}, Shift(Met(q, w), 1))
  OBVIOUS
<1>5. PICK e : e = Unless(q, {"interval", w}, Enter(q, "PLANS", w))
  OBVIOUS
<1>6. PICK f : f = Unless(q, {"matchset"}, Enter(q, "MATCH", w))
  OBVIOUS
<1>7. PICK g : g = Unless(q, {w}, Enter(q, "FREQS", w))
  OBVIOUS
<1>8. PICK t : t = Shift(q, 1)
  OBVIOUS
<1>9. Keeps(q, t) /\ Sound(t)
  <2>1. 1 \in Nat /\ 1 <= Left(q)
    BY <1>0, Reduced DEF Holds
  <2> QED BY <1>0, <1>8, <2>1, ShiftKeeps DEF Keeps
<1>10. PICK r : r = parse_random_mac_addr(t, Randomise[w])
  OBVIOUS
<1>11. Keeps(q, r) /\ Sound(r)
  BY <1>9, <1>10, RandomSound DEF Keeps
<1>12. Keeps(q, Flagged(r, "RANDOM_ADDR"))
  <2>1. Keeps(r, Flagged(r, "RANDOM_ADDR"))
    BY <1>11, GoKeeps DEF AllSched
  <2> QED BY <1>11, <2>1, KeepsKept
<1>13. PICK h : h = Flagged(q, SchedFlagOf[w])
  OBVIOUS
<1>14. Keeps(q, Shift(h, 1))
  <2>1. Keeps(q, h) /\ Sound(h)
    BY <1>0, <1>13, GoKeeps DEF AllSched, Keeps
  <2>2. PICK k : k = q.loc.flags \cup {SchedFlagOf[w]}
    OBVIOUS
  <2>3. PICK l : l = [q.loc EXCEPT !.flags = k]
    OBVIOUS
  <2>4. h = [q EXCEPT !.loc = l]
    BY <1>0, <1>13, <2>2, <2>3, GoIs
  <2>5. Left(h) = Left(q)
    BY <1>0, <2>4, LocSound
  <2>6. 1 \in Nat /\ 1 <= Left(h)
    BY <1>0, <2>5, Reduced DEF Holds
  <2>7. Keeps(h, Shift(h, 1))
    BY <2>1, <2>6, ShiftKeeps
  <2> QED BY <2>1, <2>7, KeepsKept
<1>15. Keeps(q, Shift(Met(q, w), 1))
  <2>1. PICK m : m = Met(q, w)
    OBVIOUS
  <2>2. Keeps(q, m) /\ Sound(m) /\ Left(m) = Left(q)
    BY <1>0, <2>1, GoKeeps DEF AllSched, Keeps
  <2>3. 1 \in Nat /\ 1 <= Left(m)
    BY <1>0, <2>2, Reduced DEF Holds
  <2>4. Keeps(m, Shift(m, 1))
    BY <2>2, <2>3, ShiftKeeps
  <2> QED BY <2>1, <2>2, <2>4, KeepsKept
<1>16. {"ACTIVE", "PLANS", "MATCH", "FREQS", "NOT_OURS"} \subseteq AllSched
  BY DEF AllSched, SchedStates
<1>17. /\ Keeps(q, Enter(q, "ACTIVE", w)) /\ Keeps(q, Enter(q, "PLANS", w))
       /\ Keeps(q, Enter(q, "MATCH", w)) /\ Keeps(q, Enter(q, "FREQS", w))
       /\ Keeps(q, Go(q, "NOT_OURS"))
  BY <1>0, <1>16, EnterKeeps, GoKeeps
<1>18. Keeps(q, a) /\ Keeps(q, b)
  BY <1>0, <1>1, <1>2, SchedNumberKeeps, UnlessKeeps, Zenon
<1>19. Keeps(q, c) /\ Keeps(q, d) /\ Keeps(q, e) /\ Keeps(q, f) /\ Keeps(q, g)
  BY <1>0, <1>3, <1>4, <1>5, <1>6, <1>7, <1>15, <1>17, UnlessKeeps, Zenon
<1>20. SchedOption(q, attr) \in {a, b, c, d, e, f, g, Shift(h, 1), r, Flagged(r, "RANDOM_ADDR"),
                                 Go(q, "NOT_OURS")}
  BY <1>1, <1>2, <1>3, <1>4, <1>5, <1>6, <1>7, <1>8, <1>10, <1>13 DEF SchedOption
<1> QED BY <1>11, <1>12, <1>14, <1>17, <1>18, <1>19, <1>20

\* The end of a list that is still open.
LEMMA SchedListEndKeeps ==
  ASSUME NEW q, Sound(q)
  PROVE  Keeps(q, SchedListEnd(q))
<1>1. Keeps(q, Return(q, "EINVAL"))
  BY ReturnKeeps DEF Returnable
<1>2. Keeps(q, Go(q, "TOPLEVEL"))
  BY GoKeeps DEF AllSched, SchedStates
<1> QED BY <1>1, <1>2, Zenon DEF SchedListEnd

\* An entry of a list of SSIDs or frequencies.
LEMMA SchedSsidKeeps ==
  ASSUME NEW q, Sound(q), NEW list \in {"ssids", "freqs", "matches", "plans"}, NEW have
  PROVE  Keeps(q, SchedSsid(q, list, have))
<1>1. Keeps(q, Return(q, "EINVAL"))
  BY ReturnKeeps DEF Returnable
<1>2. CASE Left(q) < 2
  BY <1>1, <1>2, Zenon DEF SchedSsid
<1>3. CASE ~(Left(q) < 2)
  <2>1. PICK t : t = Shift(q, 1)
    OBVIOUS
  <2>2. Holds(t, 1)
    BY <1>3, <2>1, OnTable, ShiftSound
  <2>3. Keeps(q, t)
    <3>1. 1 \in Nat /\ 1 <= Left(q)
      BY <1>3, Reduced
    <3> QED BY <2>1, <3>1, ShiftKeeps
  <2>4. PICK a : a = Add(t, list)
    OBVIOUS
  <2>5. Keeps(t, a) /\ Sound(a)
    BY <2>2, <2>4, AddKeeps DEF Keeps
  <2>6. Keeps(a, Met(a, have))
    BY <2>5, GoKeeps DEF AllSched
  <2>7. SchedSsid(q, list, have) = Met(a, have)
    BY <1>3, <2>1, <2>4, Zenon DEF SchedSsid
  <2> QED BY <2>3, <2>5, <2>6, <2>7, KeepsKept
<1> QED BY <1>2, <1>3

\* An entry of the list of plans.
LEMMA SchedPlanKeeps ==
  ASSUME NEW q, Holds(q, 1)
  PROVE  Keeps(q, SchedPlan(q))
<1>0. Sound(q)
  BY Fewer
<1>1. Keeps(q, Return(q, "EINVAL"))
  BY <1>0, ReturnKeeps DEF Returnable
<1>2. PICK a : a = Add(q, "plans")
  OBVIOUS
<1>3. Keeps(q, a) /\ Sound(a)
  BY <1>2, AddKeeps DEF Keeps
<1>4. Keeps(a, Go(a, "TOPLEVEL"))
  BY <1>3, GoKeeps DEF AllSched, SchedStates
<1>5. SchedPlan(q) \in {Return(q, "EINVAL"), a, Go(a, "TOPLEVEL")}
  BY <1>2 DEF SchedPlan
<1> QED BY <1>1, <1>3, <1>4, <1>5, KeepsKept

\* Any argument in any state of parse_sched_scan(),
LEMMA SchedArgKeeps ==
  ASSUME NEW q, Holds(q, 1), q.loc.st \in SchedStates, NEW attr
  PROVE  Keeps(q, SchedArg(q, attr))
<1>0. Sound(q)
  BY Fewer
<1>1. /\ Keeps(q, SchedSsid(q, "matches", "matchset")) /\ Keeps(q, SchedSsid(q, "ssids", "ssids"))
      /\ Keeps(q, Add(q, "freqs"))
  BY <1>0, SchedSsidKeeps, AddKeeps
<1>2. SchedArg(q, attr) \in {SchedOption(q, attr), SchedSsid(q, "matches", "matchset"),
                             SchedSsid(q, "ssids", "ssids"), SchedListEnd(q), Add(q, "freqs"),
                             SchedPlan(q)}
  BY DEF SchedArg, SchedStates
<1> QED BY <1>0, <1>1, <1>2, SchedOptionKeeps, SchedListEndKeeps, SchedPlanKeeps

\* the end of the arguments,
LEMMA SchedEndKeeps ==
  ASSUME NEW q, Sound(q), NEW attr
  PROVE  Keeps(q, SchedEnd(q, attr))
<1>1. \A e : Keeps(q, PutAll(q, e)) /\ Sound(PutAll(q, e))
  BY ReturnKeeps, PutAllHolds
<1>2. \A e : Keeps(PutAll(q, e), Go(PutAll(q, e), "DONE"))
  BY <1>1, GoKeeps DEF AllSched
<1>3. \A e : Keeps(q, Go(PutAll(q, e), "DONE"))
  BY <1>1, <1>2, KeepsKept
<1> QED BY <1>3, Zenon DEF SchedEnd

\* and both.
LEMMA SchedKeeps ==
  ASSUME NEW q, Sound(q), q.loc.st \in SchedStates, NEW attr
  PROVE  Keeps(q, parse_sched_scan(q, attr))
<1>1. Left(q) > 0 => Holds(q, 1)
  BY OnTable
<1> QED BY <1>1, SchedArgKeeps, SchedEndKeeps, Zenon DEF parse_sched_scan

\* Where parse_sched_scan() starts.
LEMMA SchedStartIs ==
  ASSUME NEW q, Sound(q)
  PROVE  Sound(SchedStart(q)) /\ InState(SchedStart(q).loc, SchedStates)
<1>1. PICK l : l = [Scanner EXCEPT !.st = "TOPLEVEL"]
  OBVIOUS
<1>2. SchedStart(q) = [q EXCEPT !.loc = l]
  BY <1>1, Zenon DEF SchedStart
<1>3. InState(l, SchedStates)
  <2>1. l.st = "TOPLEVEL" /\ "st" \in DOMAIN l /\ l = [x \in DOMAIN l |-> l[x]]
    BY <1>1 DEF Scanner
  <2> QED BY <2>1 DEF InState, SchedStates
<1> QED BY <1>2, <1>3, LocSound

\* handle_start_sched_scan()
LEMMA HandleSchedSound ==
  ASSUME NEW s \in Nat \ {0}, NEW q, Sound(q), s # 1 => InState(q.loc, SchedStates)
  PROVE  LET r == handle_start_sched_scan(s, q)
         IN  Sound(r) /\ (r.ret = "go" => InState(r.loc, SchedStates))
<1>1. CASE s = 1
  <2>1. handle_start_sched_scan(s, q) = SchedStart(q)
    BY <1>1 DEF handle_start_sched_scan
  <2> QED BY <2>1, SchedStartIs
<1>2. CASE s # 1
  <2>1. PICK r : r = parse_sched_scan(q, <<>>)
    OBVIOUS
  <2>2. handle_start_sched_scan(s, q) = IF r.loc.st \in {"DONE", "NOT_OURS"} THEN Return(r, "0")
                                        ELSE Again(r)
    BY <1>2, <2>1 DEF handle_start_sched_scan
  <2>3. q.loc.st \in SchedStates /\ InState(q.loc, AllSched)
    BY <1>2 DEF InState, AllSched
  <2>4. Sound(r) /\ InState(r.loc, AllSched)
    BY <2>1, <2>3, SchedKeeps DEF Keeps
  <2>5. Sound(Return(r, "0")) /\ Return(r, "0").ret # "go"
    BY <2>4, Errors, ReturnSound
  <2>6. Sound(Again(r)) /\ Again(r).loc = r.loc
    BY <2>4, AgainSound DEF Sound, Fine
  <2>7. r.loc.st \notin {"DONE", "NOT_OURS"} => InState(r.loc, SchedStates)
    BY <2>4 DEF InState, AllSched
  <2> QED BY <2>2, <2>5, <2>6, <2>7
<1> QED BY <1>1, <1>2
-----------------------------------------------------------------------------
\* The commands of FileArgs.
LEMMA TcpSound ==
  ASSUME NEW q, Sound(q), NEW file
  PROVE  /\ Sound(wowlan_parse_tcp_file(q, file))
         /\ Left(wowlan_parse_tcp_file(q, file)) = Left(q)
<1>1. \A e : Sound(PutAll(q, e)) /\ Left(PutAll(q, e)) = Left(q)
  BY PutAllHolds, Zenon
<1>2. Sound(Return(q, "1")) /\ Left(Return(q, "1")) = Left(q)
  BY Errors, ReturnSound, Zenon
<1> QED BY <1>1, <1>2, Zenon DEF wowlan_parse_tcp_file

\* A word of wowlan enable.
LEMMA WowlanArgSound ==
  ASSUME NEW q, Holds(q, 1)
  PROVE  Sound(WowlanArg(q))
<1> DEFINE w == Arg(q)
<1>0. Sound(q)
  BY Fewer
<1>1. PICK a : a = Put(q, Triggers \o <<TriggerOf[w]>>)
  OBVIOUS
<1>2. PICK b : b = IF Left(q) < 2 THEN Return(q, "1")
                   ELSE Shift(wowlan_parse_tcp_file(q, Peek(q, 1)), 2)
  OBVIOUS
<1>3. PICK l : l = [st |-> "PAT", patterns |-> <<>>]
  OBVIOUS
<1>4. PICK c : c = [q EXCEPT !.loc = l]
  OBVIOUS
<1>5. PICK d : d = Put(q, Triggers \o <<"NET_DETECT">>)
  OBVIOUS
<1>6. PICK e : e = IF Left(q) < 2 THEN Return(q, "1") ELSE SchedStart(Shift(d, 1))
  OBVIOUS
<1>7. Sound(Shift(a, 1))
  BY <1>1, PutHolds, ShiftSound, Zenon
<1>8. Sound(b)
  <2>1. PICK t : t = wowlan_parse_tcp_file(q, Peek(q, 1))
    OBVIOUS
  <2>2. Sound(t) /\ Left(t) = Left(q)
    BY <1>0, <2>1, TcpSound
  <2>3. ~(Left(q) < 2) => 2 \in Nat /\ 2 <= Left(t)
    BY <1>0, <2>2, Reduced
  <2>4. ~(Left(q) < 2) => Sound(Shift(t, 2))
    BY <2>2, <2>3, ShiftFields
  <2> QED BY <1>0, <1>2, <2>1, <2>4, Errors, Zenon
<1>9. Sound(Shift(c, 1))
  BY <1>0, <1>4, InnerLoc, ShiftSound
<1>10. Sound(e)
  <2>1. Sound(Shift(d, 1))
    BY <1>5, PutHolds, ShiftSound, Zenon
  <2> QED BY <1>0, <1>6, <2>1, SchedStartIs, Errors, Zenon
<1>11. WowlanArg(q) \in {Shift(a, 1), b, Shift(c, 1), e, Return(q, "1")}
  BY <1>1, <1>2, <1>3, <1>4, <1>5, <1>6 DEF WowlanArg
<1> QED BY <1>0, <1>7, <1>8, <1>9, <1>10, <1>11, Errors

\* A pattern with its offset and mask.
LEMMA PatternSound ==
  ASSUME NEW q, Holds(q, 1)
  PROVE  Sound(WowlanPattern(q))
<1>0. Sound(q)
  BY Fewer
<1>1. \A v : Sound([q EXCEPT !.loc.patterns = v]) /\ Left([q EXCEPT !.loc.patterns = v]) = Left(q)
  BY <1>0 DEF Sound, Shaped, Left
<1>2. \A v : Sound(Shift([q EXCEPT !.loc.patterns = v], 1))
  <2> SUFFICES ASSUME NEW v
               PROVE  Sound(Shift([q EXCEPT !.loc.patterns = v], 1))
    OBVIOUS
  <2>1. PICK r : r = [q EXCEPT !.loc.patterns = v]
    OBVIOUS
  <2>2. Holds(r, 1)
    BY <1>1, <2>1 DEF Holds
  <2> QED BY <2>1, <2>2, ShiftSound
<1>3. \A r, n : Sound(OnePattern(q, r, n))
  <2> SUFFICES ASSUME NEW r, NEW n
               PROVE  Sound(OnePattern(q, r, n))
    OBVIOUS
  <2>1. PICK v : v = Append(q.loc.patterns, [i \in DOMAIN r.put |-> <<n>> \o r.put[i]])
    OBVIOUS
  <2>2. OnePattern(q, r, n) = IF ~r.ok THEN Return(q, "1")
                              ELSE Shift([q EXCEPT !.loc.patterns = v], 1)
    BY <2>1 DEF OnePattern
  <2> QED BY <1>0, <1>2, <2>2, Errors
<1> QED BY <1>3, Zenon DEF WowlanPattern

\* The patterns are put behind the triggers.
LEMMA WowlanEndSound ==
  ASSUME NEW q, Sound(q)
  PROVE  Sound(WowlanEnd(q))
<1>1. \A e : Sound(Return(PutAll(q, e), "0"))
  BY PutAllHolds, Errors, Zenon
<1> QED BY <1>1, Errors, Zenon DEF WowlanEnd

\* handle_wowlan_enable()
LEMMA WowlanSound ==
  ASSUME NEW s \in Nat \ {0}, NEW q, Sound(q)
  PROVE  Sound(handle_wowlan_enable(s, q))
<1>1. Sound(Put(q, Triggers))
  BY PutHolds
<1>2. PICK a : a = parse_sched_scan(q, Triggers \o <<"NET_DETECT">>)
  OBVIOUS
<1>3. q.loc.st \in SchedStates => Sound(a)
  BY <1>2, SchedKeeps DEF Keeps
<1>4. PICK l : l = [st |-> "start"]
  OBVIOUS
<1>5. PICK b : b = WowlanArg([q EXCEPT !.loc = l])
  OBVIOUS
<1>6. Left(q) > 0 => Sound(b)
  BY <1>5, OnTable, InnerLoc, WowlanArgSound
<1>7. Left(q) > 0 => Sound(WowlanPattern(q))
  BY OnTable, PatternSound
<1>8. \A r : Sound(r) => Sound(Again(r))
  BY AgainSound
<1>9. \/ handle_wowlan_enable(s, q) = Put(q, Triggers)
      \/ q.loc.st \in SchedStates /\ handle_wowlan_enable(s, q) = Again(a)
      \/ Left(q) > 0 /\ handle_wowlan_enable(s, q) \in {Again(b), Again(WowlanPattern(q))}
      \/ handle_wowlan_enable(s, q) = WowlanEnd(q)
  BY <1>2, <1>4, <1>5 DEF handle_wowlan_enable, SchedStates
<1> QED BY <1>1, <1>3, <1>6, <1>7, <1>8, <1>9, WowlanEndSound

\* A line of a coalesce rule is no argument.
LEMMA InRuleSound ==
  ASSUME NEW q, Sound(q), NEW st, NEW rule, NEW es, NEW k
  PROVE  Sound(InRule(q, st, rule, es, k))
<1>1. PICK e : e = [i \in DOMAIN es |-> RuleAt(q, rule) \o es[i]]
  OBVIOUS
<1>2. PICK r : r = PutAll(q, e)
  OBVIOUS
<1>3. Sound(r)
  BY <1>2, PutAllHolds
<1>4. PICK n : n = r.loc.n + 1
  OBVIOUS
<1>5. PICK m : m = r.loc.pats + k
  OBVIOUS
<1>6. PICK l : l = [r.loc EXCEPT !.st = st, !.n = n, !.rule = rule, !.pats = m]
  OBVIOUS
<1>7. InRule(q, st, rule, es, k) = [r EXCEPT !.loc = l]
  <2>1. InRule(q, st, rule, es, k) =
           [r EXCEPT !.loc.st = st, !.loc.n = n, !.loc.rule = rule, !.loc.pats = m]
    BY <1>1, <1>2, <1>4, <1>5 DEF InRule
  <2>2. [r EXCEPT !.loc.st = st, !.loc.n = n, !.loc.rule = rule, !.loc.pats = m] = [r EXCEPT !.loc = l]
    BY <1>3, <1>6 DEF Sound, Shaped
  <2> QED BY <2>1, <2>2
<1> QED BY <1>3, <1>7, LocSound

\* Whatever the line says.
LEMMA OneLineSound ==
  ASSUME NEW q, Sound(q), NEW l, NEW text
  PROVE  Sound(OneLine(q, l, text))
<1>1. \A pats : Sound(PatternLine(q, text, pats))
  BY InRuleSound, Errors, Zenon DEF PatternLine
<1>2. PICK a : a = InRule(q, "CONDITION", l.rule + 1, <<<<>>, <<"DELAY", text[2]>>>>, 0)
  OBVIOUS
<1>3. PICK b : b = InRule(q, "PATTERNS", l.rule, <<<<"CONDITION", text[2]>>>>, 0)
  OBVIOUS
<1>4. PICK c : c = PatternLine(q, text, CoalescePatterns(text, l.pats))
  OBVIOUS
<1>5. Sound(a) /\ Sound(b) /\ Sound(c)
  BY <1>1, <1>2, <1>3, <1>4, InRuleSound
<1>6. OneLine(q, l, text) \in {a, b, c, Return(q, "1")}
  BY <1>2, <1>3, <1>4 DEF OneLine
<1> QED BY <1>5, <1>6, Errors

\* handle_coalesce_enable() may return a value that it never set.
LEMMA CoalesceFine ==
  ASSUME NEW s \in Nat \ {0}, NEW q, Sound(q)
  PROVE  Fine(handle_coalesce_enable(s, q))
<1>0. \A x : Sound(x) => Fine(x)
  BY DEF Sound, Fine
<1>1. CASE s = 1
  <2>1. PICK l : l = [st |-> "DELAY", lines |-> Files[Arg(q)], n |-> 0, rule |-> 0, pats |-> 0]
    OBVIOUS
  <2>2. PICK r : r = Put(q, <<"COALESCE_RULE">>)
    OBVIOUS
  <2>3. Left(q) # 0 => Sound(Shift([r EXCEPT !.loc = l], 1))
    <3>1. Left(q) # 0 => Holds(r, 1)
      BY <2>2, OnTable, PutHolds
    <3>2. PICK t : t = [r EXCEPT !.loc = l]
      OBVIOUS
    <3>3. Left(q) # 0 => Holds(t, 1)
      BY <3>1, <3>2, Fewer, InnerLoc
    <3> QED BY <3>2, <3>3, ShiftSound
  <2>4. \/ handle_coalesce_enable(s, q) \in {Return(q, "undefined"), Return(q, "1")}
        \/ Left(q) # 0 /\ handle_coalesce_enable(s, q) = Shift([r EXCEPT !.loc = l], 1)
    BY <1>1, <2>1, <2>2 DEF handle_coalesce_enable
  <2> QED BY <1>0, <2>3, <2>4, Errors
<1>2. CASE s # 1
  <2>1. Sound(CoalesceLine(q))
    BY OneLineSound DEF CoalesceLine
  <2>2. Sound(Again(CoalesceLine(q)))
    BY <2>1, AgainSound
  <2>3. handle_coalesce_enable(s, q) \in {Again(CoalesceLine(q)), Return(q, "0"), Return(q, "1")}
    BY <1>2 DEF handle_coalesce_enable
  <2> QED BY <1>0, <2>2, <2>3, Errors
<1> QED BY <1>1, <1>2

\* parse_ftm_target() may, too.
LEMMA TargetReturns ==
  ASSUME NEW text
  PROVE  parse_ftm_target(text).ret \in {"1", "undefined", "go"}
  BY DEF parse_ftm_target

\* parse_ftm_config() hands it on.
LEMMA FtmConfigFine ==
  ASSUME NEW q, Sound(q)
  PROVE  Fine(parse_ftm_config(q))
<1>0. \A x : Sound(x) => Fine(x)
  BY DEF Sound, Fine
<1>1. PICK v : v = q.loc.n + 1
  OBVIOUS
<1>2. PICK r : r = [q EXCEPT !.loc.n = v]
  OBVIOUS
<1>3. Sound(r)
  BY <1>2 DEF Sound, Shaped
<1>4. \A n, text : Fine(FtmPeer(r, n, parse_ftm_target(text)))
  <2> SUFFICES ASSUME NEW n, NEW text
               PROVE  Fine(FtmPeer(r, n, parse_ftm_target(text)))
    OBVIOUS
  <2>1. PICK t : t = parse_ftm_target(text)
    OBVIOUS
  <2>2. t.ret \in Returnable \cup {"undefined"}
    BY <2>1, TargetReturns DEF Returnable
  <2>3. Fine(Return(r, t.ret))
    BY <1>3, <2>2, ReturnSound
  <2>4. \A e : Fine(PutAll(r, e))
    BY <1>0, <1>3, PutAllHolds
  <2>5. Fine(FtmPeer(r, n, t))
    BY <2>3, <2>4, Zenon DEF FtmPeer
  <2> QED BY <2>1, <2>5
<1>5. \A n, text : Fine(FtmLine(r, n, text))
  BY <1>0, <1>3, <1>4, Zenon DEF FtmLine
<1>6. parse_ftm_config(q) = FtmLine(r, q.loc.n + 1, q.loc.lines[q.loc.n + 1])
  BY <1>1, <1>2, Zenon DEF parse_ftm_config
<1> QED BY <1>5, <1>6, Zenon

\* The words before and behind the file,
LEMMA FtmOptionSound ==
  ASSUME NEW q, Holds(q, 1)
  PROVE  Sound(FtmOption(q))
<1> DEFINE w == Arg(q)
<1>0. Sound(q)
  BY Fewer
<1>1. PICK a : a = parse_random_mac_addr(Shift(q, 1), Randomise[w])
  OBVIOUS
<1>2. PICK b : b = IF IsNumber(TimeoutOf[w]) THEN Shift(Put(q, <<"TIMEOUT", TimeoutOf[w]>>), 1)
                   ELSE Return(q, "1")
  OBVIOUS
<1>3. Sound(a)
  BY <1>1, ShiftSound, RandomSound
<1>4. Sound(b)
  BY <1>0, <1>2, PutHolds, ShiftSound, Errors, Zenon
<1>5. FtmOption(q) \in {a, b, Return(q, "1")}
  BY <1>1, <1>2 DEF FtmOption
<1> QED BY <1>0, <1>3, <1>4, <1>5, Errors

\* opening it,
LEMMA FtmOpenSound ==
  ASSUME NEW q, Sound(q)
  PROVE  Sound(FtmOpen(q))
<1>1. PICK r : r = Put(q, <<"PEERS">>)
  OBVIOUS
<1>2. PICK l : l = [st |-> "lines", lines |-> Files[q.loc.file], n |-> 0]
  OBVIOUS
<1>3. Sound(r)
  BY <1>1, PutHolds
<1>4. Sound([r EXCEPT !.loc = l])
  BY <1>3, LocSound
<1>5. FtmOpen(q) \in {Return(q, "ENOENT"), [r EXCEPT !.loc = l]}
  BY <1>1, <1>2 DEF FtmOpen
<1> QED BY <1>4, <1>5, Errors

\* and handle_ftm_req_send().
LEMMA FtmFine ==
  ASSUME NEW s \in Nat \ {0}, NEW q, Sound(q)
  PROVE  Fine(handle_ftm_req_send(s, q))
<1>0. \A x : Sound(x) => Fine(x)
  BY DEF Sound, Fine
<1>1. PICK l : l = [st |-> "options", file |-> Arg(q)]
  OBVIOUS
<1>2. PICK r : r = [q EXCEPT !.loc = l]
  OBVIOUS
<1>3. Left(q) # 0 => Sound(Shift(r, 1))
  BY <1>2, OnTable, InnerLoc, ShiftSound
<1>4. \A x : Fine(x) => Fine(Again(x))
  BY AgainSound
<1>5. Left(q) > 0 => Fine(FtmOption(q))
  BY <1>0, OnTable, FtmOptionSound
<1>6. Fine(FtmOpen(q)) /\ Fine(parse_ftm_config(q))
  BY <1>0, FtmOpenSound, FtmConfigFine
<1>7. \/ handle_ftm_req_send(s, q) \in {Return(q, "1"), Return(q, "0"), Again(FtmOpen(q)),
                                        Again(parse_ftm_config(q))}
      \/ Left(q) # 0 /\ handle_ftm_req_send(s, q) = Shift(r, 1)
      \/ Left(q) > 0 /\ handle_ftm_req_send(s, q) = Again(FtmOption(q))
  BY <1>1, <1>2 DEF handle_ftm_req_send
<1> QED BY <1>0, <1>3, <1>4, <1>5, <1>6, <1>7, Errors
-----------------------------------------------------------------------------
\* The commands of RateArgs and IfaceArgs.
TidStates == {"ADDR", "TIDS", "CONF", "NEXT"} \cup RateStates
AllTid == TidStates \cup {"RATES_DONE"}
Rated(q, r) == Sound(r) /\ (InState(q.loc, AllTid) => InState(r.loc, AllTid))

\* A step that sets the variables to what a step on them gives.
LEMMA RatedLoc ==
  ASSUME NEW q, Sound(q), NEW l, InState(q.loc, AllTid) => InState(l, AllTid)
  PROVE  /\ Rated(q, [q EXCEPT !.loc = l]) /\ Left([q EXCEPT !.loc = l]) = Left(q)
<1>1. PICK r : r = [q EXCEPT !.loc = l]
  OBVIOUS
<1>2. Sound(r) /\ r.loc = l /\ Left(r) = Left(q)
  BY <1>1, LocSound
<1> QED BY <1>1, <1>2 DEF Rated

\* One step of set_bitrates() after another.
LEMMA RatedKept ==
  ASSUME NEW q, NEW r, NEW t, Rated(q, r), Rated(r, t)
  PROVE  Rated(q, t)
  BY DEF Rated

\* A word is passed.
LEMMA RatedShift ==
  ASSUME NEW q, Holds(q, 1)
  PROVE  Rated(q, Shift(q, 1)) /\ Shift(q, 1).loc = q.loc
<1>1. Sound(q) /\ 1 \in Nat /\ 1 <= Left(q)
  BY Reduced DEF Holds
<1> QED BY <1>1, ShiftFields DEF Rated

\* A value goes to the list of the word before it.
LEMMA ValueRated ==
  ASSUME NEW q, Holds(q, 1)
  PROVE  Rated(q, Value(q))
<1>1. PICK t : t = Shift(q, 1)
  OBVIOUS
<1>2. Rated(q, t) /\ Sound(t)
  BY <1>1, RatedShift DEF Rated
<1>3. PICK v : v = Append(t.loc.values[q.loc.st][q.loc.band], Arg(q))
  OBVIOUS
<1>4. PICK x : x = [t.loc.values EXCEPT ![q.loc.st][q.loc.band] = v]
  OBVIOUS
<1>5. PICK l : l = [t.loc EXCEPT !["values"] = x]
  OBVIOUS
<1>6. Value(q) = [t EXCEPT !.loc = l]
  <2>1. Value(q) = [t EXCEPT !.loc.values[q.loc.st][q.loc.band] = v]
    BY <1>1, <1>3 DEF Value
  <2> QED BY <1>2, <1>4, <1>5, <2>1 DEF Sound, Shaped
<1>7. InState(t.loc, AllTid) => InState(l, AllTid)
  <2>1. "CONF" \in AllTid /\ "values" # "st"
    BY DEF AllTid, TidStates
  <2> QED BY <1>5, <2>1, InStateSet
<1>8. Rated(t, [t EXCEPT !.loc = l])
  BY <1>2, <1>7, RatedLoc
<1> QED BY <1>2, <1>6, <1>8, RatedKept

\* A word that begins a list of rates.
LEMMA AnnouncedRated ==
  ASSUME NEW q, Holds(q, 1), NEW w \in DOMAIN RateWords
  PROVE  Rated(q, [Shift(q, 1) EXCEPT !.loc.st = RateWords[w][1], !.loc.band = RateWords[w][2],
                                      !.loc.have = @ \cup {RateWords[w]}])
<1>1. PICK t : t = Shift(q, 1)
  OBVIOUS
<1>2. Rated(q, t) /\ Sound(t)
  BY <1>1, RatedShift DEF Rated
<1>3. PICK a : a = RateWords[w][1]
  OBVIOUS
<1>4. PICK b : b = RateWords[w][2]
  OBVIOUS
<1>5. PICK h : h = t.loc.have \cup {RateWords[w]}
  OBVIOUS
<1>6. a \in AllTid
  <2>1. RateWords[w][1] \in RateStates
    BY TablesAssumption, Zenon DEF TablesFit
  <2> QED BY <1>3, <2>1 DEF AllTid, TidStates
<1>7. PICK l : l = [t.loc EXCEPT !.st = a, !.band = b, !.have = h]
  OBVIOUS
<1>8. [Shift(q, 1) EXCEPT !.loc.st = RateWords[w][1], !.loc.band = RateWords[w][2],
                                      !.loc.have = @ \cup {RateWords[w]}] = [t EXCEPT !.loc = l]
  <2>1. [t EXCEPT !.loc.st = a, !.loc.band = b, !.loc.have = h] = [t EXCEPT !.loc = l]
    BY <1>2, <1>7 DEF Sound, Shaped
  <2> QED BY <1>1, <1>3, <1>4, <1>5, <2>1
<1>9. InState(t.loc, AllTid) => InState(l, AllTid)
  <2>1. l = [[[t.loc EXCEPT !.st = a] EXCEPT !["band"] = b] EXCEPT !["have"] = h]
    BY <1>7
  <2>2. \A m, k, u : InState(m, AllTid) /\ k # "st" => InState([m EXCEPT ![k] = u], AllTid)
    BY DEF InState
  <2>3. \A m : InState(m, AllTid) => InState([m EXCEPT !.st = a], AllTid)
    BY <1>6 DEF InState
  <2>4. "band" # "st" /\ "have" # "st"
    OBVIOUS
  <2> QED BY <2>1, <2>2, <2>3, <2>4
<1>10. Rated(t, [t EXCEPT !.loc = l])
  BY <1>2, <1>9, RatedLoc
<1> QED BY <1>2, <1>8, <1>10, RatedKept

\* One variable is set.
LEMMA RatedSet ==
  ASSUME NEW q, Sound(q), NEW st \in AllTid, NEW v
  PROVE  /\ Rated(q, [q EXCEPT !.loc.st = st])
         /\ Rated(q, [q EXCEPT !.loc.gi = v]) /\ Left([q EXCEPT !.loc.gi = v]) = Left(q)
         /\ Rated(q, [q EXCEPT !.loc.ltf = v]) /\ Left([q EXCEPT !.loc.ltf = v]) = Left(q)
<1>1. PICK a : a = [q.loc EXCEPT !.st = st]
  OBVIOUS
<1>2. PICK b : b = [q.loc EXCEPT !["gi"] = v]
  OBVIOUS
<1>3. PICK c : c = [q.loc EXCEPT !["ltf"] = v]
  OBVIOUS
<1>4. /\ [q EXCEPT !.loc.st = st] = [q EXCEPT !.loc = a]
      /\ [q EXCEPT !.loc.gi = v] = [q EXCEPT !.loc = b]
      /\ [q EXCEPT !.loc.ltf = v] = [q EXCEPT !.loc = c]
  BY <1>1, <1>2, <1>3 DEF Sound, Shaped
<1>5. InState(q.loc, AllTid) => InState(a, AllTid) /\ InState(b, AllTid) /\ InState(c, AllTid)
  <2>1. "gi" # "st" /\ "ltf" # "st"
    OBVIOUS
  <2> QED BY <1>1, <1>2, <1>3, <2>1, InStateSet
<1>6. \A l : (InState(q.loc, AllTid) => InState(l, AllTid)) =>
               Rated(q, [q EXCEPT !.loc = l]) /\ Left([q EXCEPT !.loc = l]) = Left(q)
  BY RatedLoc
<1> QED BY <1>4, <1>5, <1>6

\* Returning, and the attributes.
LEMMA ReturnRated ==
  ASSUME NEW q, Sound(q), NEW e
  PROVE  /\ Rated(q, Return(q, "1")) /\ Rated(q, Return(q, "EINVAL")) /\ Rated(q, PutAll(q, e))
  BY ReturnSound, PutAllHolds, Errors, Zenon DEF Rated

\* Any argument of set_bitrates(),
LEMMA RateArgRated ==
  ASSUME NEW q, Holds(q, 1), NEW attr
  PROVE  Rated(q, RateArg(q, attr))
<1> DEFINE w == Arg(q)
<1>0. Sound(q)
  BY Fewer
<1>1. PICK a : a = [Shift(q, 1) EXCEPT !.loc.st = RateWords[w][1], !.loc.band = RateWords[w][2],
                                       !.loc.have = @ \cup {RateWords[w]}]
  OBVIOUS
<1>2. PICK b : b = [q EXCEPT !.loc.gi = w]
  OBVIOUS
<1>3. PICK c : c = [q EXCEPT !.loc.ltf = HeLtf[w]]
  OBVIOUS
<1>4. PICK d : d = [q EXCEPT !.loc.st = "NEXT"]
  OBVIOUS
<1>5. w \in DOMAIN RateWords => Rated(q, a)
  BY <1>1, AnnouncedRated
<1>6. "NEXT" \in AllTid
  BY DEF AllTid, TidStates
<1>7. Rated(q, b) /\ Rated(q, c) /\ Rated(q, d) /\ Left(b) = Left(q) /\ Left(c) = Left(q)
  BY <1>0, <1>2, <1>3, <1>4, <1>6, RatedSet
<1>8. Holds(b, 1) /\ Holds(c, 1)
  BY <1>7 DEF Holds, Rated
<1>9. Rated(b, Shift(b, 1)) /\ Rated(c, Shift(c, 1)) /\ Rated(q, Shift(q, 1))
  BY <1>8, RatedShift
<1>10. Rated(q, Shift(b, 1)) /\ Rated(q, Shift(c, 1))
  BY <1>7, <1>9, RatedKept
<1>11. Rated(q, Return(q, "1"))
  BY <1>0, ReturnRated
<1>12. CASE w \in DOMAIN RateWords
  <2>1. RateArg(q, attr) \in {Return(q, "1"), a}
    BY <1>1, <1>12 DEF RateArg
  <2> QED BY <1>5, <1>11, <1>12, <2>1
<1>13. CASE w \notin DOMAIN RateWords
  <2>1. RateArg(q, attr) \in {Value(q), Return(q, "1"), Shift(q, 1), Shift(b, 1), Shift(c, 1), d}
    BY <1>2, <1>3, <1>4, <1>13 DEF RateArg
  <2> QED BY <1>7, <1>9, <1>10, <1>11, <2>1, ValueRated
<1> QED BY <1>12, <1>13

\* the end of the arguments,
LEMMA RateEndRated ==
  ASSUME NEW q, Sound(q), NEW attr
  PROVE  Rated(q, RateEnd(q, attr))
<1>1. \A e : Rated(q, PutAll(q, e))
  BY ReturnRated
<1>2. Rated(q, Return(q, "1")) /\ Rated(q, Return(q, "EINVAL"))
  BY ReturnRated
<1> QED BY <1>1, <1>2, Zenon DEF RateEnd

\* and both.
LEMMA BitratesRated ==
  ASSUME NEW q, Sound(q), NEW attr
  PROVE  Rated(q, set_bitrates(q, attr))
<1>1. CASE q.loc.st \in RateStates /\ Left(q) > 0
  <2>1. Holds(q, 1)
    BY <1>1, OnTable
  <2>2. set_bitrates(q, attr) = RateArg(q, attr)
    BY <1>1, Zenon DEF set_bitrates
  <2> QED BY <2>1, <2>2, RateArgRated
<1>2. CASE ~(q.loc.st \in RateStates /\ Left(q) > 0)
  <2>1. PICK r : r = RateEnd(q, attr)
    OBVIOUS
  <2>2. set_bitrates(q, attr) = [r EXCEPT !.loc.st = "RATES_DONE"]
    BY <1>2, <2>1, Zenon DEF set_bitrates
  <2>3. Rated(q, r) /\ Sound(r)
    BY <2>1, RateEndRated DEF Rated
  <2>4. "RATES_DONE" \in AllTid
    BY DEF AllTid
  <2>5. Rated(r, [r EXCEPT !.loc.st = "RATES_DONE"])
    BY <2>3, <2>4, RatedSet
  <2> QED BY <2>2, <2>3, <2>5, RatedKept
<1> QED BY <1>1, <1>2

\* handle_bitrates()
LEMMA HandleBitratesSound ==
  ASSUME NEW s \in Nat \ {0}, NEW q, Sound(q)
  PROVE  Sound(handle_bitrates(s, q)) /\ Sound(RateStart(q))
<1>1. PICK l : l = [st |-> "NONE", band |-> "2GHZ", have |-> {},
                     values |-> [k \in OnceKinds |-> [b \in {"2GHZ", "5GHZ", "6GHZ"} |-> <<>>]],
                     gi |-> "0.8", ltf |-> "0", from |-> q.pos]
  OBVIOUS
<1>2. RateStart(q) = [q EXCEPT !.loc = l]
  BY <1>1, Zenon DEF RateStart
<1>3. Sound(RateStart(q))
  BY <1>2, LocSound
<1>4. PICK r : r = set_bitrates(q, TxRates)
  OBVIOUS
<1>5. Sound(r)
  BY <1>4, BitratesRated DEF Rated
<1>6. Sound(RatesAgain(r))
  BY <1>5, AgainSound, Errors, Zenon DEF RatesAgain
<1>7. handle_bitrates(s, q) \in {RateStart(q), RatesAgain(r)}
  BY <1>4 DEF handle_bitrates
<1> QED BY <1>3, <1>6, <1>7

\* set tidconf
LEMMA StateRated ==
  ASSUME NEW q, Sound(q), NEW st \in TidStates
  PROVE  /\ Sound(State(q, st)) /\ InState(State(q, st).loc, TidStates)
         /\ State(q, st).ret = q.ret
<1>1. PICK l : l = [st |-> st]
  OBVIOUS
<1>2. State(q, st) = [q EXCEPT !.loc = l]
  BY <1>1 DEF State
<1>3. InState(l, TidStates)
  BY <1>1 DEF InState
<1>4. PICK r : r = [q EXCEPT !.loc = l]
  OBVIOUS
<1>5. Sound(r) /\ r.loc = l /\ r.ret = q.ret
  BY <1>4, LocSound
<1> QED BY <1>2, <1>3, <1>4, <1>5

\* A stage of set tidconf leaves a state behind that the next one knows.
TidSound(q) == Sound(q) /\ (q.ret = "go" => InState(q.loc, TidStates))

\* The address and the mask that a TID configuration begins with.
LEMMA TidAddrSound ==
  ASSUME NEW q, Sound(q)
  PROVE  TidSound(TidAddr(q)) /\ TidSound(TidMask(q))
<1>1. PICK a : a = PutArg(Shift(q, 1), "MAC")
  OBVIOUS
<1>2. ~(Left(q) < 2) => Sound(a)
  BY <1>1, OnTable, ShiftSound, PutArgSound
<1>3. \A e : ~(Left(q) < 2) => Sound(Shift(PutAll(q, e), 2))
  BY OnTable, PutAllHolds, ShiftSound, Zenon
<1>4. {"TIDS", "CONF"} \subseteq TidStates
  BY DEF TidStates
<1>5. TidSound(Return(q, "1")) /\ TidSound(Return(q, "2"))
  BY Errors, ReturnSound DEF TidSound
<1>6. /\ TidSound(State(q, "TIDS"))
      /\ ~(Left(q) < 2) => TidSound(State(a, "TIDS"))
      /\ \A e : ~(Left(q) < 2) => TidSound(State(Shift(PutAll(q, e), 2), "CONF"))
  BY <1>2, <1>3, <1>4, StateRated DEF TidSound
<1>7. TidSound(TidAddr(q))
  <2>1. \/ TidAddr(q) \in {Return(q, "1"), Return(q, "2"), State(q, "TIDS")}
        \/ ~(Left(q) < 2) /\ TidAddr(q) = State(a, "TIDS")
    BY <1>1 DEF TidAddr
  <2> QED BY <1>5, <1>6, <2>1
<1>8. TidSound(TidMask(q))
  BY <1>5, <1>6, Zenon DEF TidMask
<1> QED BY <1>7, <1>8

\* set_bitrates() inside a TID configuration.
LEMMA RatesReadSound ==
  ASSUME NEW q, Sound(q), InState(q.loc, AllTid)
  PROVE  TidSound(RatesRead(q))
<1>1. TidSound(Return(q, "1"))
  BY Errors, ReturnSound DEF TidSound
<1>2. TidSound(State(q, "CONF"))
  <2>1. "CONF" \in TidStates
    BY DEF TidStates
  <2> QED BY <2>1, StateRated DEF TidSound
<1>3. q.loc.st # "RATES_DONE" => TidSound(q)
  BY DEF InState, AllTid, TidSound
<1> QED BY <1>1, <1>2, <1>3, Zenon DEF RatesRead

\* Where it starts there.
LEMMA RateStartTid ==
  ASSUME NEW q, Sound(q)
  PROVE  TidSound(RateStart(q))
<1>1. PICK l : l = [st |-> "NONE", band |-> "2GHZ", have |-> {},
                     values |-> [k \in OnceKinds |-> [b \in {"2GHZ", "5GHZ", "6GHZ"} |-> <<>>]],
                     gi |-> "0.8", ltf |-> "0", from |-> q.pos]
  OBVIOUS
<1>2. RateStart(q) = [q EXCEPT !.loc = l]
  BY <1>1, Zenon DEF RateStart
<1>3. InState(l, TidStates)
  <2>1. l.st = "NONE" /\ "st" \in DOMAIN l /\ l = [x \in DOMAIN l |-> l[x]]
    BY <1>1
  <2> QED BY <2>1 DEF InState, TidStates, RateStates
<1>4. PICK r : r = [q EXCEPT !.loc = l]
  OBVIOUS
<1>5. Sound(r) /\ r.loc = l
  BY <1>4, LocSound
<1> QED BY <1>2, <1>3, <1>4, <1>5 DEF TidSound

\* A word of a TID configuration.
LEMMA TidConfSound ==
  ASSUME NEW q, Holds(q, 1), InState(q.loc, TidStates)
  PROVE  TidSound(TidConf(q))
<1> DEFINE w == Arg(q)
           v == Peek(q, 1)
<1>0. Sound(q)
  BY Fewer
<1>1. PICK e : e = TidAt(q, 0) \o <<"OVERRIDE">>
  OBVIOUS
<1>2. PICK a : a = Put(q, e)
  OBVIOUS
<1>3. PICK b : b = Shift(a, 1)
  OBVIOUS
<1>4. TidSound(b)
  <2>1. Holds(a, 1) /\ a.loc = q.loc
    BY <1>0, <1>2, PutHolds
  <2>2. Sound(b) /\ b.loc = a.loc
    BY <1>3, <2>1, RatedShift DEF Rated
  <2> QED BY <2>1, <2>2 DEF TidSound
<1>5. \A attr, x : Left(q) > 1 => TidSound(TidPut(q, attr, x)) /\ Sound(TidPut(q, attr, x))
  <2> SUFFICES ASSUME NEW attr, NEW x, Left(q) > 1
               PROVE  TidSound(TidPut(q, attr, x)) /\ Sound(TidPut(q, attr, x))
    OBVIOUS
  <2>1. PICK g : g = TidAt(q, 0) \o <<attr, x>>
    OBVIOUS
  <2>2. PICK r : r = Put(q, g)
    OBVIOUS
  <2>3. Sound(r) /\ r.loc = q.loc /\ Left(r) = Left(q)
    BY <1>0, <2>2, PutHolds
  <2>4. 2 \in Nat /\ 2 <= Left(r)
    BY <2>3, <1>0, Reduced
  <2>5. Sound(Shift(r, 2)) /\ Shift(r, 2).loc = r.loc
    BY <2>3, <2>4, ShiftFields
  <2>6. TidPut(q, attr, x) = Shift(r, 2)
    BY <2>1, <2>2, Zenon DEF TidPut
  <2> QED BY <2>3, <2>5, <2>6 DEF TidSound
<1>6. PICK d : d = TidPut(q, "TX_RATE_TYPE", TidRateType[v])
  OBVIOUS
<1>7. PICK g : g = IF v \notin DOMAIN TidRateType THEN Return(q, "2")
                   ELSE IF v = "auto" THEN d ELSE RateStart(d)
  OBVIOUS
<1>8. TidSound(State(q, "TIDS"))
  <2>1. "TIDS" \in TidStates
    BY DEF TidStates
  <2> QED BY <1>0, <2>1, StateRated DEF TidSound
<1>9. TidSound(Return(q, "1")) /\ TidSound(Return(q, "2"))
  BY <1>0, Errors, ReturnSound DEF TidSound
<1>10. Left(q) > 1 => TidSound(g)
  BY <1>5, <1>6, <1>7, <1>9, RateStartTid
<1>11. \/ TidConf(q) \in {State(q, "TIDS"), b, Return(q, "1"), Return(q, "2")}
       \/ Left(q) > 1 /\ TidConf(q) \in {TidPut(q, TidToggles[w], toggle_tid_param[v]),
                                         TidPut(q, TidRetries[w], v), g}
  BY <1>1, <1>2, <1>3, <1>6, <1>7 DEF TidConf
<1> QED BY <1>4, <1>5, <1>8, <1>9, <1>10, <1>11

\* handle_tid_config()
LEMMA HandleTidSound ==
  ASSUME NEW s \in Nat \ {0}, NEW q, Sound(q), s # 1 => InState(q.loc, TidStates)
  PROVE  TidSound(handle_tid_config(s, q))
<1>1. \A r : TidSound(r) => TidSound(Again(r))
  BY AgainSound DEF TidSound, Sound, Fine
<1>2. CASE s = 1
  <2>1. handle_tid_config(s, q) = State(q, "ADDR")
    BY <1>2 DEF handle_tid_config
  <2>2. "ADDR" \in TidStates
    BY DEF TidStates
  <2> QED BY <2>1, <2>2, StateRated DEF TidSound
<1>3. CASE s # 1
  <2>1. InState(q.loc, AllTid)
    BY <1>3 DEF InState, AllTid
  <2>2. PICK a : a = set_bitrates(q, TidAt(q, 0) \o <<"TX_RATE">>)
    OBVIOUS
  <2>3. TidSound(TidRates(q))
    <3>1. Sound(a) /\ InState(a.loc, AllTid)
      BY <2>1, <2>2, BitratesRated DEF Rated
    <3>2. TidRates(q) = RatesRead(a)
      BY <2>2, Zenon DEF TidRates
    <3> QED BY <3>1, <3>2, RatesReadSound
  <2>4. TidSound(Return(q, "0"))
    BY Errors, ReturnSound DEF TidSound
  <2>5. Left(q) > 0 => TidSound(TidConf(q))
    BY <1>3, OnTable, TidConfSound
  <2>6. q.loc.st \in TidStates /\ Left(q) \in Nat
    BY <1>3, Reduced DEF InState
  <2>7. \/ handle_tid_config(s, q) \in {Again(TidRates(q)), Return(q, "0"), Again(TidAddr(q)),
                                        Again(TidMask(q))}
        \/ Left(q) > 0 /\ handle_tid_config(s, q) = Again(TidConf(q))
    <3>1. CASE q.loc.st \in RateStates \cup {"NEXT"}
      BY <1>3, <3>1 DEF handle_tid_config
    <3>2. CASE q.loc.st \notin RateStates \cup {"NEXT"} /\ Left(q) = 0
      BY <1>3, <3>2 DEF handle_tid_config
    <3>3. CASE q.loc.st \notin RateStates \cup {"NEXT"} /\ Left(q) # 0
      <4>1. Left(q) > 0 /\ q.loc.st \in {"ADDR", "TIDS", "CONF"}
        BY <2>6, <3>3 DEF TidStates
      <4> QED BY <1>3, <3>3, <4>1 DEF handle_tid_config
    <3> QED BY <3>1, <3>2, <3>3
  <2> QED BY <1>1, <2>3, <2>4, <2>5, <2>7, TidAddrSound
<1> QED BY <1>2, <1>3

\* interface add, and the other commands of IfaceArgs.
LEMMA MumimoSound ==
  ASSUME NEW q, Sound(q)
  PROVE  Sound(parse_mumimo_options(q))
<1>1. \A attr, values : Null \notin values => Sound(MumimoOption(q, attr, values))
  BY ThereIs, PutHolds, ShiftSound, Errors, Zenon DEF MumimoOption
<1>2. Null \notin GroupIds /\ Null \notin Macs
  BY DEF GroupIds, Macs, Null
<1>3. parse_mumimo_options(q) \in {MumimoOption(q, "MU_MIMO_GROUP_DATA", GroupIds),
                                   MumimoOption(q, "MU_MIMO_FOLLOW_MAC_ADDR", Macs), q}
  BY DEF parse_mumimo_options
<1> QED BY <1>1, <1>2, <1>3

\* Monitor flags.
LEMMA MntrSound ==
  ASSUME NEW q, Sound(q)
  PROVE  /\ Sound(MntrFlag(q)) /\ Sound(PutFlags(q)) /\ Sound(Flags(q))
<1>1. PICK r : r = parse_mumimo_options(q)
  OBVIOUS
<1>2. Sound(r)
  BY <1>1, MumimoSound
<1>3. \A v : Sound([r EXCEPT !.loc.flags = v]) /\ Left([r EXCEPT !.loc.flags = v]) = Left(r)
  BY <1>2 DEF Sound, Shaped, Left
<1>4. PICK v : v = Append(r.loc.flags, Arg(r))
  OBVIOUS
<1>5. PICK t : t = [r EXCEPT !.loc.flags = v]
  OBVIOUS
<1>6. Left(r) # 0 => Sound(Shift(t, 1))
  <2>1. Left(r) # 0 => Holds(t, 1)
    BY <1>2, <1>3, <1>5, OnTable DEF Holds
  <2> QED BY <2>1, ShiftSound
<1>7. MntrFlag(q) = IF r.ret # "go" \/ Left(r) = 0 THEN r
                    ELSE IF Arg(r) \notin mntr_flags THEN Return(r, "EINVAL")
                    ELSE Shift(t, 1)
  BY <1>1, <1>4, <1>5 DEF MntrFlag
<1>8. Sound(MntrFlag(q))
  BY <1>2, <1>6, <1>7, Errors, Zenon
<1>9. Sound(PutFlags(q)) /\ Sound(Flags(q))
  <2>1. PICK l : l = [st |-> "flags", flags |-> <<>>]
    OBVIOUS
  <2>2. Flags(q) = [q EXCEPT !.loc = l]
    BY <2>1 DEF Flags
  <2>3. \A k : Sound([q EXCEPT !.loc = k])
    BY LocSound
  <2>4. Sound(Flags(q))
    BY <2>2, <2>3
  <2>5. Sound(PutFlags(q))
    BY PutHolds DEF PutFlags
  <2> QED BY <2>4, <2>5
<1> QED BY <1>8, <1>9

\* The type of an interface, behind "type" or alone.
LEMMA IfTypeSound ==
  ASSUME NEW q, Sound(q)
  PROVE  Sound(IfType(q, 0)) /\ Sound(IfType(q, 1))
<1>1. Peek(q, 0) \in DOMAIN IfTypes => Holds(q, 1)
  BY ThereIs, NullInNone, Zenon DEF Arg
<1>2. Peek(q, 1) \in DOMAIN IfTypes => Holds(q, 2)
  BY ThereIs, NullInNone, Zenon
<1>3. 0 + 1 = 1 /\ 1 + 1 = 2
  OBVIOUS
<1>4. Peek(q, 0) \in DOMAIN IfTypes =>
        \A e : Sound(Shift(Put(q, e), 0 + 1))
  BY <1>1, <1>3, PutHolds, ShiftSound, Zenon
<1>5. Peek(q, 1) \in DOMAIN IfTypes =>
        \A e : Sound(Shift(Put(q, e), 1 + 1))
  BY <1>2, <1>3, PutHolds, ShiftSound, Zenon
<1> QED BY <1>4, <1>5, Errors, Zenon DEF IfType

\* parse_4addr_flag() returns a value that it never set when no argument is left,
LEMMA FourSound ==
  ASSUME NEW q, Sound(q), NEW err \in Returnable
  PROVE  /\ Fine(parse_4addr_flag(q, err))
         /\ Left(q) # 0 => Sound(parse_4addr_flag(q, err))
<1>0. \A x : Sound(x) => Fine(x)
  BY DEF Sound, Fine
<1>1. \A e : Left(q) # 0 => Sound(Shift(Put(q, e), 1))
  BY OnTable, PutHolds, ShiftSound, Zenon
<1>2. Sound(Return(q, err)) /\ Fine(Return(q, "undefined"))
  BY ReturnSound, Errors
<1>3. Left(q) # 0 => Sound(parse_4addr_flag(q, err))
  BY <1>1, <1>2, Zenon DEF parse_4addr_flag
<1>4. Left(q) = 0 => parse_4addr_flag(q, err) = Return(q, "undefined")
  BY Zenon DEF parse_4addr_flag
<1> QED BY <1>0, <1>2, <1>3, <1>4

\* and interface add calls it then.
LEMMA AddOptionFine ==
  ASSUME NEW q, Sound(q)
  PROVE  Fine(AddOption(q))
<1>0. \A x : Sound(x) => Fine(x)
  BY DEF Sound, Fine
<1>1. CASE Left(q) = 0
  <2>1. AddOption(q) = q
    BY <1>1 DEF AddOption, Word
  <2> QED BY <1>0, <2>1
<1>2. CASE Left(q) # 0
  <2>1. PICK t : t = Shift(q, 1)
    OBVIOUS
  <2>2. Sound(t)
    BY <1>2, <2>1, OnTable, ShiftSound
  <2>3. PICK a : a = IF Left(t) = 0 THEN Return(t, "undefined")
                     ELSE IF ~mac_addr_a2n(Arg(t)) THEN Return(t, "2")
                     ELSE Again([Shift(t, 1) EXCEPT !.loc.mac = <<Arg(t)>>])
    OBVIOUS
  <2>4. PICK b : b = IF Left(t) = 0 THEN Return(t, "1")
                     ELSE Shift([t EXCEPT !.loc.mesh_id = <<Arg(t)>>], 1)
    OBVIOUS
  <2>5. PICK c : c = [t EXCEPT !.loc.st = "flags"]
    OBVIOUS
  <2>6. PICK u : u = Shift(t, 1)
    OBVIOUS
  <2>7. Left(t) # 0 => Sound(u)
    BY <2>2, <2>6, OnTable, ShiftSound
  <2>8. \A v : Sound(u) => Sound([u EXCEPT !.loc.mac = v])
    BY DEF Sound, Shaped
  <2>9. \A v : /\ Sound([t EXCEPT !.loc.mesh_id = v]) /\ Left([t EXCEPT !.loc.mesh_id = v]) = Left(t)
               /\ Sound([t EXCEPT !.loc.st = v])
    BY <2>2 DEF Sound, Shaped, Left
  <2>10. Fine(a)
    <3>1. Left(t) # 0 => Sound(Again([u EXCEPT !.loc.mac = <<Arg(t)>>]))
      BY <2>7, <2>8, AgainSound
    <3> QED BY <1>0, <2>2, <2>3, <2>6, <3>1, Errors
  <2>11. Sound(b)
    <3>1. PICK x : x = [t EXCEPT !.loc.mesh_id = <<Arg(t)>>]
      OBVIOUS
    <3>2. Left(t) # 0 => Holds(x, 1)
      BY <2>2, <2>9, <3>1, OnTable DEF Holds
    <3>3. Left(t) # 0 => Sound(Shift(x, 1))
      BY <3>2, ShiftSound
    <3> QED BY <2>2, <2>4, <3>1, <3>3, Errors
  <2>12. Sound(c)
    BY <2>5, <2>9
  <2>13. Fine(parse_4addr_flag(t, "2"))
    BY <2>2, FourSound DEF Returnable
  <2>14. AddOption(q) \in {a, b, parse_4addr_flag(t, "2"), c, Return(q, "1")}
    BY <1>2, <2>1, <2>3, <2>4, <2>5 DEF AddOption
  <2> QED BY <1>0, <2>10, <2>11, <2>12, <2>13, <2>14, Errors
<1> QED BY <1>1, <1>2

\* The flags behind "flags", and the end.
LEMMA AddFlagsSound ==
  ASSUME NEW q, Sound(q)
  PROVE  Sound(AddFlags(q)) /\ Sound(AddEnd(q))
<1>1. Sound(MntrFlag(q)) /\ Sound(PutFlags(q))
  BY MntrSound
<1>2. Sound(AddFlags(q))
  BY <1>1, AgainSound, Errors, Zenon DEF AddFlags
<1>3. \A e : Sound(PutAll(q, e))
  BY PutAllHolds
<1>4. Sound(AddEnd(q))
  BY <1>3, Errors, Zenon DEF AddEnd
<1> QED BY <1>2, <1>4

\* handle_interface_add()
LEMMA InterfaceAddFine ==
  ASSUME NEW s \in Nat \ {0}, NEW q, Sound(q)
  PROVE  Fine(handle_interface_add(s, q))
<1>0. \A x : Sound(x) => Fine(x)
  BY DEF Sound, Fine
<1>1. PICK l : l = [st |-> "add", name |-> <<Arg(q)>>, mac |-> <<>>, mesh_id |-> <<>>, flags |-> <<>>]
  OBVIOUS
<1>2. PICK r : r = [q EXCEPT !.loc = l]
  OBVIOUS
<1>3. Left(q) # 0 => Sound(Shift(r, 1))
  BY <1>2, OnTable, InnerLoc, ShiftSound
<1>4. \/ handle_interface_add(s, q) \in {Return(q, "1"), IfType(q, 1), AddOption(q), AddFlags(q),
                                         AddEnd(q)}
      \/ Left(q) # 0 /\ handle_interface_add(s, q) = Shift(r, 1)
  BY <1>1, <1>2 DEF handle_interface_add
<1> QED BY <1>0, <1>3, <1>4, IfTypeSound, AddOptionFine, AddFlagsSound, Errors

\* handle_interface_set()
LEMMA MonitorSound ==
  ASSUME NEW s \in Nat \ {0}, NEW q, Sound(q)
  PROVE  Sound(handle_interface_set(s, q))
<1>1. PICK r : r = Put(q, <<"IFTYPE", "MONITOR">>)
  OBVIOUS
<1>2. Sound(Flags(r))
  BY <1>1, PutHolds, MntrSound
<1>3. PICK t : t = MntrFlag(q)
  OBVIOUS
<1>4. Sound(t) /\ Sound(PutFlags(q))
  BY <1>3, MntrSound
<1>5. handle_interface_set(s, q) \in {Return(q, "1"), Flags(r), Return(PutFlags(q), "0"),
                                      Return(t, "2"), Again(t)}
  BY <1>1, <1>3 DEF handle_interface_set
<1> QED BY <1>2, <1>4, <1>5, Errors, AgainSound

\* The handlers of a mesh id, a noack map, a peer and a multicast rate.
LEMMA TypeSound ==
  ASSUME NEW q, Sound(q)
  PROVE  /\ Sound(handle_interface_meshid(q)) /\ Sound(handle_interface_noack_map(q))
         /\ Sound(handle_interface_wds_peer(q)) /\ Sound(set_mcast_rate(q))
<1>1. "1" \in Returnable /\ "2" \in Returnable
  BY DEF Returnable
<1> QED BY <1>1, OneArgSound, Errors, Zenon
        DEF handle_interface_meshid, handle_interface_noack_map, handle_interface_wds_peer,
            set_mcast_rate

\* handle_interface_type() and handle_interface_4addr(), which has its one argument.
LEMMA InterfaceTypeSound ==
  ASSUME NEW q, Sound(q)
  PROVE  Sound(handle_interface_type(q)) /\ Sound(handle_interface_4addr(q))
<1>1. \A x, b : Sound(x) => Sound(Return(x, IF b THEN "1" ELSE "0"))
  BY Errors, Zenon
<1>2. Sound(handle_interface_type(q))
  BY <1>1, IfTypeSound, Errors, Zenon DEF handle_interface_type
<1>3. Left(q) = 1 => Sound(parse_4addr_flag(q, "1"))
  BY FourSound DEF Returnable
<1>4. Sound(handle_interface_4addr(q))
  BY <1>3, Errors, Zenon DEF handle_interface_4addr
<1> QED BY <1>2, <1>4

\* handle_chanfreq()
LEMMA ChanFreqSound ==
  ASSUME NEW s \in Nat \ {0}, NEW q, Sound(q), NEW chan \in BOOLEAN
  PROVE  Sound(handle_chanfreq(s, q, chan))
<1>1. PICK r : r = parse_freqchan(chan, Rest(q), FALSE)
  OBVIOUS
<1>2. r.used \in Nat /\ r.used <= Left(q) /\ r.err \in {"0", "1"}
  BY <1>1, FreqchanUses
<1>3. Sound(KeepChandef(q, r))
  <2>1. r.err \in Returnable
    BY <1>2 DEF Returnable
  <2>2. PICK l : l = [st |-> "chandef", def |-> r.def]
    OBVIOUS
  <2>3. PICK t : t = [q EXCEPT !.loc = l]
    OBVIOUS
  <2>4. Sound(t) /\ Left(t) = Left(q)
    BY <2>3, LocSound
  <2>5. Sound(Shift(t, r.used))
    BY <1>2, <2>4, ShiftFields
  <2>6. KeepChandef(q, r) = IF r.err # "0" THEN Return(q, r.err) ELSE Shift(t, r.used)
    BY <2>2, <2>3 DEF KeepChandef
  <2> QED BY <2>1, <2>5, <2>6, ReturnSound
<1>4. "1" \in Returnable
  BY DEF Returnable
<1>5. Left(q) > 0 => Sound(ChanFreqOption(q))
  <2>1. ~(Left(q) < 2) => Sound(NumberArg(Shift(q, 1), "CH_SWITCH_COUNT", "1"))
    BY <1>4, OnTable, ShiftSound, NumberArgSound
  <2>2. PICK a : a = Put(q, <<"CH_SWITCH_BLOCK_TX">>)
    OBVIOUS
  <2>3. Left(q) > 0 => Sound(Shift(a, 1))
    BY <2>2, OnTable, PutHolds, ShiftSound
  <2>4. \/ ChanFreqOption(q) = Return(q, "1")
        \/ ~(Left(q) < 2) /\ ChanFreqOption(q) = NumberArg(Shift(q, 1), "CH_SWITCH_COUNT", "1")
        \/ ChanFreqOption(q) = Shift(a, 1)
    BY <2>2 DEF ChanFreqOption
  <2> QED BY <2>1, <2>3, <2>4, Errors
<1>6. PICK e : e = put_chandef(q.loc.def)
  OBVIOUS
<1>7. Sound(Return(PutAll(q, e), "0"))
  BY PutAllHolds, Errors
<1>8. \/ handle_chanfreq(s, q, chan) = KeepChandef(q, r)
      \/ Left(q) > 0 /\ handle_chanfreq(s, q, chan) = Again(ChanFreqOption(q))
      \/ handle_chanfreq(s, q, chan) = Return(PutAll(q, e), "0")
  BY <1>1, <1>6 DEF handle_chanfreq
<1> QED BY <1>3, <1>5, <1>7, <1>8, AgainSound

-----------------------------------------------------------------------------
\* What the stages of a command know of each other: after the first one of a
\* command that joins there is a word left, and the states of those that go
\* over their arguments stay what they are.
Scans(c) == c = "scan trigger"
Schedules(c) == c = "scan sched_start"
Tids(c) == c = "set tidconf"
Known(c, s, q) ==
  /\ (Joining(c) /\ c # "set mesh_param" /\ s = 2) => Left(q) >= 1
  /\ (Scans(c) /\ s > 1) => Scanning(q.loc)
  /\ (Schedules(c) /\ s > 1) => InState(q.loc, SchedStates)
  /\ (Tids(c) /\ s > 1) => InState(q.loc, TidStates)

\* A stage of a command of several leaves a parser that is one, and returns
\* "undefined" only for a command of ReadsBeyond.
LEMMA StagesFine ==
  ASSUME NEW c, Staged(c), NEW s \in Nat \ {0}, NEW q, Sound(q), Known(c, s, q)
  PROVE  LET r == Stages(c, s, q)
         IN  /\ Fine(r) /\ (c \notin ReadsBeyond => Sound(r))
             /\ r.ret = "go" => /\ Scans(c) => Scanning(r.loc)
                                /\ Schedules(c) => InState(r.loc, SchedStates)
                                /\ Tids(c) => InState(r.loc, TidStates)
<1> DEFINE r == Stages(c, s, q)
<1>0. /\ \A x : Sound(x) => Fine(x)
      /\ s # 1 => s > 1
  BY DEF Sound, Fine
<1> DEFINE Unstated == ~Scans(c) /\ ~Schedules(c) /\ ~Tids(c)
<1>1. CASE c = "scan trigger"
  <2>1. r = handle_scan(s, q)
    BY <1>1 DEF Stages
  <2>2. Scans(c) /\ ~Schedules(c) /\ ~Tids(c)
    BY <1>1 DEF Scans, Schedules, Tids
  <2>3. s # 1 => Scanning(q.loc)
    BY <1>0, <2>2 DEF Known
  <2>4. Sound(r) /\ (r.ret = "go" => Scanning(r.loc))
    BY <2>1, <2>3, HandleScanSound DEF ScanSound
  <2> QED BY <1>0, <2>2, <2>4
<1>2. CASE c = "scan sched_start"
  <2>1. r = handle_start_sched_scan(s, q)
    BY <1>2 DEF Stages
  <2>2. Schedules(c) /\ ~Scans(c) /\ ~Tids(c)
    BY <1>2 DEF Scans, Schedules, Tids
  <2>3. s # 1 => InState(q.loc, SchedStates)
    BY <1>0, <2>2 DEF Known
  <2>4. Sound(r) /\ (r.ret = "go" => InState(r.loc, SchedStates))
    BY <2>1, <2>3, HandleSchedSound
  <2> QED BY <1>0, <2>2, <2>4
<1>3. CASE c = "wowlan enable"
  <2>1. r = handle_wowlan_enable(s, q)
    BY <1>3 DEF Stages
  <2>2. Unstated
    BY <1>3 DEF Scans, Schedules, Tids
  <2>3. Sound(r)
    BY <2>1, WowlanSound
  <2> QED BY <1>0, <2>2, <2>3
<1>4. CASE c = "coalesce enable"
  <2>1. r = handle_coalesce_enable(s, q)
    BY <1>4 DEF Stages
  <2>2. Unstated
    BY <1>4 DEF Scans, Schedules, Tids
  <2>3. Fine(r) /\ c \in ReadsBeyond
    BY <1>4, <2>1, CoalesceFine DEF ReadsBeyond
  <2> QED BY <1>0, <2>2, <2>3
<1>5. CASE c = "ftm_request_send"
  <2>1. r = handle_ftm_req_send(s, q)
    BY <1>5 DEF Stages
  <2>2. Unstated
    BY <1>5 DEF Scans, Schedules, Tids
  <2>3. Fine(r) /\ c \in ReadsBeyond
    BY <1>5, <2>1, FtmFine DEF ReadsBeyond
  <2> QED BY <1>0, <2>2, <2>3
<1>6. CASE c = "nan start"
  <2>1. r = handle_nan_start(s, q)
    BY <1>6 DEF Stages
  <2>2. Unstated
    BY <1>6 DEF Scans, Schedules, Tids
  <2>3. Sound(r)
    BY <2>1, NanStartSound
  <2> QED BY <1>0, <2>2, <2>3
<1>7. CASE c = "nan config"
  <2>1. r = handle_nan_config(s, q)
    BY <1>7 DEF Stages
  <2>2. Unstated
    BY <1>7 DEF Scans, Schedules, Tids
  <2>3. Sound(r)
    BY <2>1, NanStartSound
  <2> QED BY <1>0, <2>2, <2>3
<1>8. CASE c = "nan rm_func"
  <2>1. r = handle_nan_rm_func(s, q)
    BY <1>8 DEF Stages
  <2>2. Unstated
    BY <1>8 DEF Scans, Schedules, Tids
  <2>3. Sound(r)
    BY <2>1, NanStartSound
  <2> QED BY <1>0, <2>2, <2>3
<1>9. CASE c = "nan add_func"
  <2>1. r = handle_nan_add_func(s, q)
    BY <1>9 DEF Stages
  <2>2. Unstated
    BY <1>9 DEF Scans, Schedules, Tids
  <2>3. Sound(r)
    BY <2>1, AddFuncSound
  <2> QED BY <1>0, <2>2, <2>3
<1>10. CASE c = "set bitrates"
  <2>1. r = handle_bitrates(s, q)
    BY <1>10 DEF Stages
  <2>2. Unstated
    BY <1>10 DEF Scans, Schedules, Tids
  <2>3. Sound(r)
    BY <2>1, HandleBitratesSound
  <2> QED BY <1>0, <2>2, <2>3
<1>11. CASE c = "interface add"
  <2>1. r = handle_interface_add(s, q)
    BY <1>11 DEF Stages
  <2>2. Unstated
    BY <1>11 DEF Scans, Schedules, Tids
  <2>3. Fine(r) /\ c \in ReadsBeyond
    BY <1>11, <2>1, InterfaceAddFine DEF ReadsBeyond
  <2> QED BY <1>0, <2>2, <2>3
<1>12. CASE c = "set monitor"
  <2>1. r = handle_interface_set(s, q)
    BY <1>12 DEF Stages
  <2>2. Unstated
    BY <1>12 DEF Scans, Schedules, Tids
  <2>3. Sound(r)
    BY <2>1, MonitorSound
  <2> QED BY <1>0, <2>2, <2>3
<1>13. CASE c = "switch freq"
  <2>1. r = handle_chanfreq(s, q, FALSE)
    BY <1>13 DEF Stages
  <2>2. Unstated
    BY <1>13 DEF Scans, Schedules, Tids
  <2>3. Sound(r)
    BY <2>1, ChanFreqSound
  <2> QED BY <1>0, <2>2, <2>3
<1>14. CASE c = "switch channel"
  <2>1. r = handle_chanfreq(s, q, TRUE)
    BY <1>14 DEF Stages
  <2>2. Unstated
    BY <1>14 DEF Scans, Schedules, Tids
  <2>3. Sound(r)
    BY <2>1, ChanFreqSound
  <2> QED BY <1>0, <2>2, <2>3
<1>15. CASE c = "set tidconf"
  <2>1. r = handle_tid_config(s, q)
    BY <1>15 DEF Stages
  <2>2. Tids(c) /\ ~Scans(c) /\ ~Schedules(c)
    BY <1>15 DEF Scans, Schedules, Tids
  <2>3. s # 1 => InState(q.loc, TidStates)
    BY <1>0, <2>2 DEF Known
  <2>4. Sound(r) /\ (r.ret = "go" => InState(r.loc, TidStates))
    BY <2>1, <2>3, HandleTidSound DEF TidSound
  <2> QED BY <1>0, <2>2, <2>4
<1>16. CASE c = "set retry"
  <2>1. r = handle_retry(s, q)
    BY <1>16 DEF Stages
  <2>2. Unstated
    BY <1>16 DEF Scans, Schedules, Tids
  <2>3. Sound(r)
    BY <2>1, RetrySound
  <2> QED BY <1>0, <2>2, <2>3
<1>17. CASE c = "station del"
  <2>1. r = handle_station_del(s, q)
    BY <1>17 DEF Stages
  <2>2. Unstated
    BY <1>17 DEF Scans, Schedules, Tids
  <2>3. Sound(r)
    BY <2>1, StationDelSound
  <2> QED BY <1>0, <2>2, <2>3
<1>18. CASE c = "ftm start_responder"
  <2>1. r = handle_ftm_start_responder(s, q)
    BY <1>18 DEF Stages
  <2>2. Unstated
    BY <1>18 DEF Scans, Schedules, Tids
  <2>3. Sound(r)
    BY <2>1, ResponderSound
  <2> QED BY <1>0, <2>2, <2>3
<1> QED BY <1>1, <1>2, <1>3, <1>4, <1>5, <1>6, <1>7, <1>8, <1>9, <1>10, <1>11, <1>12, <1>13, <1>14, <1>15, <1>16, <1>17, <1>18, Zenon DEF Staged
\* So does a command of one stage, and it reads no argument that is not there.
LEMMA ShortSound ==
  ASSUME NEW c, OneStage(c), NEW q, Sound(q)
  PROVE  Sound(Short(c, q))
<1>1. CASE c \in {"set meshid", "set noack_map", "set peer", "set mcast_rate", "set type", "set 4addr"}
  <2>1. c = "set meshid" => Short(c, q) = handle_interface_meshid(q)
    BY DEF Short
  <2>2. c = "set noack_map" => Short(c, q) = handle_interface_noack_map(q)
    BY DEF Short
  <2>3. c = "set peer" => Short(c, q) = handle_interface_wds_peer(q)
    BY DEF Short
  <2>4. c = "set mcast_rate" => Short(c, q) = set_mcast_rate(q)
    BY DEF Short
  <2>5. c = "set type" => Short(c, q) = handle_interface_type(q)
    BY DEF Short
  <2>6. c = "set 4addr" => Short(c, q) = handle_interface_4addr(q)
    BY DEF Short
  <2> QED BY <1>1, <2>1, <2>2, <2>3, <2>4, <2>5, <2>6,
           TypeSound, InterfaceTypeSound
<1>2. CASE c \in {"set name", "set freq", "set channel", "set frag", "set rts", "set coverage"}
  <2>1. c = "set name" => Short(c, q) = handle_name(q)
    BY DEF Short
  <2>2. c = "set freq" => Short(c, q) = handle_freq(q)
    BY DEF Short
  <2>3. c = "set channel" => Short(c, q) = handle_chan(q)
    BY DEF Short
  <2>4. c = "set frag" => Short(c, q) = handle_fragmentation(q)
    BY DEF Short
  <2>5. c = "set rts" => Short(c, q) = handle_rts(q)
    BY DEF Short
  <2>6. c = "set coverage" => Short(c, q) = handle_coverage(q)
    BY DEF Short
  <2> QED BY <1>2, <2>1, <2>2, <2>3, <2>4, <2>5, <2>6,
           NamesSound
<1>3. CASE c \in {"cac trigger", "set netns", "set distance", "set txpower", "set antenna"}
  <2>1. c = "cac trigger" => Short(c, q) = handle_cac_trigger(q)
    BY DEF Short
  <2>2. c = "set netns" => Short(c, q) = handle_netns(q)
    BY DEF Short
  <2>3. c = "set distance" => Short(c, q) = handle_distance(q)
    BY DEF Short
  <2>4. c = "set txpower" => Short(c, q) = handle_txpower(q)
    BY DEF Short
  <2>5. c = "set antenna" => Short(c, q) = handle_antenna(q)
    BY DEF Short
  <2> QED BY <1>3, <2>1, <2>2, <2>3, <2>4, <2>5,
           CacSound, NetnsSound, DistanceSound, TxpowerSound, AntennaSound
<1>4. CASE c \in {"set txq", "set power_save", "station set", "mpath set", "mpath probe", "reg set"}
  <2>1. c = "set txq" => Short(c, q) = handle_set_txq(q)
    BY DEF Short
  <2>2. c = "set power_save" => Short(c, q) = set_power_save(q)
    BY DEF Short
  <2>3. c = "station set" => Short(c, q) = select_station_cmd(q)
    BY DEF Short
  <2>4. c = "mpath set" => Short(c, q) = handle_mpath_set(q)
    BY DEF Short
  <2>5. c = "mpath probe" => Short(c, q) = handle_mpath_probe(q)
    BY DEF Short
  <2>6. c = "reg set" => Short(c, q) = handle_reg_set(q)
    BY DEF Short
  <2> QED BY <1>4, <2>1, <2>2, <2>3, <2>4, <2>5, <2>6,
           TxqSound, StationSound, MpathSound, RegSound
<1>5. CASE c \in {"cqm rssi", "ocb join", "offchannel", "roc start"}
  <2>1. c = "cqm rssi" => Short(c, q) = iw_cqm_rssi(q)
    BY DEF Short
  <2>2. c = "ocb join" => Short(c, q) = join_ocb(q)
    BY DEF Short
  <2>3. c = "offchannel" => Short(c, q) = offchannel(q)
    BY DEF Short
  <2>4. c = "roc start" => Short(c, q) = handle_roc_start(q)
    BY DEF Short
  <2> QED BY <1>5, <2>1, <2>2, <2>3, <2>4,
           CqmSound, OcbSound, TimeSound
<1>6. CASE c \in {"vendor send", "mgmt reg", "hwsim setps", "hwsim stopqueues", "hwsim wakequeues"}
  <2>1. c = "vendor send" => Short(c, q) = handle_vendor(q)
    BY DEF Short
  <2>2. c = "mgmt reg" => Short(c, q) = register_mgmt_frame(q)
    BY DEF Short
  <2>3. c = "hwsim setps" => Short(c, q) = handle_hwsim_setps(q)
    BY DEF Short
  <2>4. c = "hwsim stopqueues" => Short(c, q) = handle_hwsim_stop_queues(q)
    BY DEF Short
  <2>5. c = "hwsim wakequeues" => Short(c, q) = handle_hwsim_wake_queues(q)
    BY DEF Short
  <2> QED BY <1>6, <2>1, <2>2, <2>3, <2>4, <2>5,
           VendorSound, HwsimSound
<1>7. CASE c \in {"station get", "mpath get", "mpp get"}
  <2>1. Short(c, q) = OneAddress(q)
    BY <1>7 DEF Short
  <2> QED BY <2>1, AddressSound
<1> QED BY <1>1, <1>2, <1>3, <1>4, <1>5, <1>6, <1>7, Zenon DEF OneStage
-----------------------------------------------------------------------------
\* The inductive invariant of the parsers: the words and the place in them are
\* what they should be, and what a stage knows of the earlier ones holds.
ArgsOK ==
  /\ cmd \in Commands \cup {"none"} /\ at \in Nat \ {0} /\ steps \in 0..MaxSteps
  /\ Fine(p)
  /\ p.ret = "undefined" => cmd \in ReadsBeyond
  /\ p.ret = "go" => Known(cmd, at, p)

\* A parser that has not begun.
LEMMA ParserSound ==
  ASSUME NEW S, NEW s \in Seq(S)
  PROVE  Sound(Parser(s)) /\ Fine(Parser(s)) /\ Parser(s).ret = "go"
<1>1. WordList(s)
  BY WordsOf
<1> QED BY <1>1 DEF Parser, Fine, Sound, Shaped, Returnable

\* Every command that is tried has a handler.
LEMMA CoversCommands ==
  ASSUME NEW c \in Commands
  PROVE  Joining(c) \/ Staged(c) \/ OneStage(c)
  BY HandlersAssumption, Zenon

\* The handler of a command keeps what the next stage knows; after is the stage
\* that comes next.
LEMMA HandlerFine ==
  ASSUME NEW c \in Commands, NEW s \in Nat \ {0}, NEW q, Sound(q), ~q.again, Known(c, s, q)
  PROVE  LET r == Handler(c, s, q)
         IN  /\ Fine(r) /\ (c \notin ReadsBeyond => Sound(r))
             /\ r.ret = "go" => Known(c, IF r.again THEN s ELSE s + 1, r)
<1> DEFINE r == Handler(c, s, q)
           after == IF r.again THEN s ELSE s + 1
<1>00. \A a : (a = s \/ a = s + 1) /\ a = 2 => (s = 1 \/ s = 2) /\ (a = s + 1 => s = 1)
  OBVIOUS
<1>0. (after = s \/ after = s + 1) /\ (~r.again => after = s + 1)
  BY Zenon
<1>1. CASE Joining(c)
  <2>1. r = Join(c, s, q)
    BY <1>1 DEF Handler
  <2>2. ~Scans(c) /\ ~Schedules(c) /\ ~Tids(c)
    BY <1>1, Zenon DEF Joining, Scans, Schedules, Tids
  <2>3. c # "set mesh_param" /\ s = 2 => Left(q) >= 1
    BY <1>1 DEF Known
  <2>4. /\ Fine(r)
        /\ c # "ap start" => Sound(r)
        /\ c # "set mesh_param" => Staged12(s, q, r)
    BY <1>1, <2>1, <2>3, JoinFine
  <2>5. c = "ap start" => c \in ReadsBeyond
    BY DEF ReadsBeyond
  <2>6. ASSUME c # "set mesh_param", r.ret = "go", after = 2
        PROVE  Left(r) >= 1
    <3> HIDE DEF r, after
    <3>1. s = 1 => Left(r) >= 1
      BY <2>4, <2>6 DEF Staged12
    <3>2. s = 2 => ~r.again
      BY <2>4, <2>6 DEF Staged12
    <3>3. after = s \/ after = s + 1
      BY <1>0
    <3>4. (s = 1 \/ s = 2) /\ (after = s + 1 => s = 1)
      BY <1>00, <2>6, <3>3, Zenon
    <3> QED BY <1>0, <2>6, <3>1, <3>2, <3>4, Zenon
  <2> QED BY <2>2, <2>4, <2>5, <2>6 DEF Known
<1>2. CASE ~Joining(c) /\ Staged(c)
  <2>1. r = Stages(c, s, q)
    BY <1>2 DEF Handler
  <2>2. /\ Fine(r) /\ (c \notin ReadsBeyond => Sound(r))
        /\ r.ret = "go" => /\ Scans(c) => Scanning(r.loc)
                           /\ Schedules(c) => InState(r.loc, SchedStates)
                           /\ Tids(c) => InState(r.loc, TidStates)
    BY <1>2, <2>1, StagesFine
  <2> QED BY <1>2, <2>2 DEF Known
<1>3. CASE ~Joining(c) /\ ~Staged(c)
  <2>1. r = Short(c, q)
    BY <1>3 DEF Handler
  <2>2. OneStage(c)
    BY <1>3, CoversCommands
  <2>3. Sound(r)
    BY <2>1, <2>2, ShortSound
  <2>4. ~Scans(c) /\ ~Schedules(c) /\ ~Tids(c)
    BY <1>3, Zenon DEF Staged, Scans, Schedules, Tids
  <2> QED BY <1>3, <2>3, <2>4 DEF Known, Sound, Fine
<1> QED BY <1>1, <1>2, <1>3

\* A stage of a parser keeps the invariant.
LEMMA StepArgs ==
  ASSUME ArgsOK, cmd \in Commands, Step
  PROVE  ArgsOK'
<1>1. PICK q : q = [p EXCEPT !.again = FALSE]
  OBVIOUS
<1>2. p' = Handler(cmd, at, q) /\ p.ret = "go" /\ cmd' = cmd /\ at' = (IF p'.again THEN at ELSE at + 1)
      /\ steps' = steps + 1 /\ steps < MaxSteps
  BY <1>1 DEF Step
<1>3. Sound(q) /\ ~q.again /\ Left(q) = Left(p) /\ q.loc = p.loc
  BY <1>1, <1>2 DEF ArgsOK, Fine, Sound, Shaped, Left, Returnable
<1>4. Known(cmd, at, q)
  BY <1>2, <1>3 DEF ArgsOK, Known
<1>5. at \in Nat \ {0} /\ steps \in 0..MaxSteps
  BY DEF ArgsOK
<1>6. PICK r : r = p'
  OBVIOUS
<1>7. /\ Fine(r) /\ (cmd \notin ReadsBeyond => Sound(r))
      /\ r.ret = "go" => Known(cmd, at', r)
  BY <1>2, <1>3, <1>4, <1>5, <1>6, HandlerFine
<1>8. at' \in Nat \ {0} /\ steps' \in 0..MaxSteps
  BY <1>2, <1>5, MaxStepsAssumption
<1>9. r.ret = "undefined" => cmd \in ReadsBeyond
  BY <1>7 DEF Sound, Returnable
<1>10. ArgsOK' <=> /\ cmd' \in Commands \cup {"none"} /\ at' \in Nat \ {0} /\ steps' \in 0..MaxSteps
                   /\ Fine(p')
                   /\ p'.ret = "undefined" => cmd' \in ReadsBeyond
                   /\ p'.ret = "go" => Known(cmd', at', p')
  BY DEF ArgsOK
<1> QED BY <1>2, <1>6, <1>7, <1>8, <1>9, <1>10
=============================================================================
