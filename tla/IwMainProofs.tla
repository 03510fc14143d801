---------------------------- MODULE IwMainProofs ----------------------------
(***************************************************************************)
(* What iw's main() and __handle_cmd() keep, for every command line: the   *)
(* commands that handlers call are found, memory is given back, what is    *)
(* printed is what was asked for, and 0 is returned only for a request     *)
(* that the kernel has accepted.                                           *)
(*                                                                         *)
(* The invariant IInv is about the stack of calls: at most two of them,    *)
(* the outer one waiting at "calling" for what its handler calls after     *)
(* that many steps (Callee).  Shape says what each call knows of its       *)
(* command, Place what was done before it got where it is, Prints which    *)
(* callback is registered meanwhile; HeapOK counts what the calls own.     *)
(***************************************************************************)
EXTENDS IwMain, IwArgsProofs

Ends == {"0", "error", "EOPNOTSUPP"} \cup (Results \ {"undefined"})
Heards == {"heard", "aborted"}
Idents == {"none", "netdev", "wdev", "phy_name", "phy_idx"}
Places == {"find", "command", "handler", "calling", "prepare", "listen", "watch", "send", "wait",
           "out"}

\* The words of the command lines, and those that handlers add.
AllWords ==
  {"scan", "trigger", "dump", "connect", "establish", "link", "get_bss", "get_sta", "cac",
   "measurement", "ftm_request_send", "mgmt", "reg", "features", "-q", Mac1}
  \cup UNION {{l.words[i] : i \in DOMAIN l.words} : l \in UNION CommandLines}

\* What handler h calls after d steps.
NoCallee == <<"", "">>
Callee(h, d) ==
  CASE h = "handle_scan_combined" /\ d = 0 -> <<"scan", "trigger">>
    [] h = "handle_scan_combined" /\ d = 2 -> <<"scan", "dump">>
    [] h = "iw_connect" /\ d = 1 -> <<"connect", "establish">>
    [] h = "handle_link" /\ d = 0 -> <<"link", "get_bss">>
    [] h = "handle_link" /\ d = 1 -> <<"link", "get_sta">>
    [] h = "handle_cac" /\ d = 0 -> <<"cac", "trigger">>
    [] h = "handle_ftm_req" /\ d = 0 -> <<"measurement", "ftm_request_send">>
    [] h = "handle_mgmt_dump" -> <<"mgmt", "reg">>
    [] h = "handle_info" /\ d = 0 -> <<"features", "-q">>
    [] h = "handle_reg_get" /\ d = 0 -> <<"reg", "dump">>
    [] OTHER -> NoCallee

IsCallee(c, e) == /\ c.cmd # "0"
                  /\ IF e[1] = "features" THEN c.parent = "" /\ c.name = "features"
                     ELSE c.parent = e[1] /\ c.name = e[2]

\* g is what the handler of f calls next.
Calls(f, g) ==
  LET e == Callee(f.c.handler, f.done)
  IN  IF f.c.handler \in {"handle_info", "handle_reg_get"}
      THEN g.id = "none" /\ g.argv = <<e[1], e[2]>>
      ELSE /\ g.id = IF f.c.handler = "handle_mgmt_dump" THEN "netdev" ELSE f.id
           /\ Len(g.argv) >= 3
           /\ g.argv[1] = f.argv[1] /\ g.argv[2] = e[1] /\ g.argv[3] = e[2]
           /\ e[2] = "get_bss" => Len(g.argv) = 3

\* The last request was accepted.
Kept(s) == s # <<>> /\ s[Len(s)].r = "0"
Answer(f, s) == f.err \in Ends /\ (f.err = "0" => Kept(s))

Record(f) == f = [id |-> f.id, argv |-> f.argv, c |-> f.c, args |-> f.args, at |-> f.at,
                  done |-> f.done, err |-> f.err, owns |-> f.owns]
Shape(f) ==
  /\ Record(f)
  /\ f.id \in Idents /\ f.at \in Places /\ f.done \in Nat /\ f.owns \in 0..3
  /\ f.argv \in Seq(AllWords) /\ f.argv # <<>> /\ f.args \in Seq(AllWords)
  /\ f.at \in {"find", "command"} => f.done = 0 /\ f.owns = 0 /\ f.c = NoCommand
  /\ f.at \notin {"find", "command"} => f.c \in Table /\ Fits(f.c, By(f.id))
  /\ (f.at # "find" /\ f.id # "none") => Len(f.argv) > 1
  /\ f.at # "find" => ~Negative(f.id, f.argv)
  /\ f.c.handler = "handle_ftm_req" => Len(f.argv) > 2

\* A handler of several steps that goes on.
Resumed(f, s) ==
  LET h == f.c.handler
      Heard == f.err = "heard" /\ Kept(s)
  IN  \/ f.done = 0
      \/ h = "handle_scan_combined" /\ f.done \in {1, 3} /\ Answer(f, s)
      \/ h = "handle_scan_combined" /\ f.done = 2 /\ f.err \in Heards /\ Kept(s)
      \/ h = "iw_connect" /\ f.done = 1 /\ f.err \in Ends
      \/ h = "iw_connect" /\ f.done = 2 /\ Answer(f, s)
      \/ h = "iw_connect" /\ f.done = 3 /\ Heard
      \/ h = "handle_link" /\ f.done \in {1, 2} /\ Answer(f, s)
      \/ h \in {"handle_cac", "handle_ftm_req"} /\ f.done = 1 /\ Answer(f, s)
      \/ h \in {"handle_cac", "handle_ftm_req"} /\ f.done = 2 /\ Heard
      \/ h = "handle_mgmt_dump" /\ (Answer(f, s) \/ Heard)
      \/ h = "print_events" /\ f.done = 1 /\ f.err \in Ends
      \/ h \in {"handle_info", "handle_reg_get"} /\ f.done = 1 /\ Answer(f, s)

Listening(f) ==
  \/ f.c.handler \in {"handle_scan_combined", "handle_cac", "handle_ftm_req"} /\ f.done = 1
  \/ f.c.handler = "iw_connect" /\ f.done = 2
  \/ f.c.handler = "handle_mgmt_dump"

Place(f, s) ==
  /\ f.at = "handler" => Resumed(f, s)
  /\ f.at = "calling" => Callee(f.c.handler, f.done) # NoCallee
  /\ f.at = "prepare" => f.c.handler \in {"iw_connect", "print_events"} /\ f.done = 0
  /\ f.at = "listen" => Listening(f) /\ Kept(s)
  /\ f.at = "watch" => f.c.handler \in {"handle_mgmt_dump", "print_events"}
  /\ f.at \in {"send", "wait"} => f.c.handler \notin Callers \cup {"print_events", "handle_commands"}
  /\ f.at = "out" =>
       /\ f.err \in Ends \cup (IF f.c.handler = "handle_reg_get" THEN {"3"} ELSE {})
       /\ f.err \in {"0", "3"} => Kept(s)
  /\ f.c.handler = "handle_cac" =>
       IF f.at = "handler" /\ f.done = 0 THEN f.owns = 0 ELSE f.owns = 1 /\ Len(f.argv) >= 3

Prints(f, reg) ==
  /\ f.at \in {"send", "wait"} =>
       reg # "wait_event" /\ (f.c.cmd \in DOMAIN Printers => reg \in Printers[f.c.cmd])
  /\ f.c.handler = "handle_reg_dump" /\ (f.at \in {"send", "wait"} \/ (f.at = "out" /\ f.err = "EOPNOTSUPP"))
       => reg = "print_reg_handler"
  /\ (f.c.handler = "handle_reg_get" /\ f.at = "handler" /\ f.done = 1 /\ f.err = "EOPNOTSUPP")
       => reg = "print_reg_handler"

Frame(f, reg, s) == Shape(f) /\ Place(f, s) /\ Prints(f, reg)

Outer(f) ==
  /\ f.id = Identified(line.words).id /\ f.argv = Identified(line.words).argv
  /\ ran = IF f.at \in {"find", "command"} THEN <<>> ELSE <<f.c>>
Inner(f, g) ==
  /\ f.at = "calling"
  /\ Calls(f, g)
  /\ g.at \notin {"find", "command"} => IsCallee(g.c, Callee(f.c.handler, f.done))

CallsOK ==
  \/ calls = <<>>
  \/ calls = <<calls[1]>> /\ Frame(calls[1], registered, sent) /\ Outer(calls[1]) /\ calls[1].at # "calling"
  \/ /\ calls = <<calls[1], calls[2]>>
     /\ Frame(calls[1], registered, sent) /\ Outer(calls[1])
     /\ Frame(calls[2], registered, sent) /\ Inner(calls[1], calls[2])

\* Who has waited for an event.
Listened(f) == \/ f.c.handler \in {"handle_scan_combined", "handle_ftm_req"} /\ f.done >= 2
               \/ f.c.handler = "iw_connect" /\ f.done >= 3
WaitOK == (registered = "wait_event" /\ calls # <<>>) => Listened(calls[1])

HeapOK ==
  /\ heap \in 0..6
  /\ Len(calls) = 1 => heap = calls[1].owns
  /\ Len(calls) = 2 => heap = calls[1].owns + calls[2].owns
  /\ (exit \notin {Running, "undefined"} /\ heap # 0) =>
        /\ heap = 1 /\ ran # <<>> /\ ran[1].handler = "handle_cac"
        /\ Len(Identified(line.words).argv) < 3
ExitOK ==
  /\ exit \in {Running} \cup Ends \cup {"undefined"}
  /\ exit # Running => calls = <<>>
  /\ exit = "0" => NoRequest \/ Kept(sent)
  /\ (exit = Running /\ calls = <<>>) => heap = 0 /\ ran = <<>> /\ registered = "none"
DataOK ==
  /\ \E lines \in CommandLines : line \in lines
  /\ ran = <<>> \/ \E c \in Table \cup {NoCommand} : ran = <<c>>
  /\ sent \in Seq([cmd : {c.cmd : c \in Table}, r : {"0", "error", "EOPNOTSUPP"}])

IInv == CallsOK /\ WaitOK /\ HeapOK /\ ExitOK /\ DataOK /\ ArgsOK

-----------------------------------------------------------------------------
\* A sequence of two entries,
LEMMA SeqOfTwo ==
  ASSUME NEW S, NEW s \in Seq(S), Len(s) = 2
  PROVE  s = <<s[1], s[2]>>
<1>0. s[1] \in S /\ s[2] \in S
  BY ElementOfSeq
<1>1. <<s[1], s[2]>> \in Seq(S)
  BY <1>0
<1>2. Len(<<s[1], s[2]>>) = 2
  OBVIOUS
<1>3. \A i \in 1..Len(s) : s[i] = <<s[1], s[2]>>[i]
  OBVIOUS
<1> QED BY <1>1, <1>2, <1>3, SeqEqual

\* and of one.
LEMMA SeqOfOne ==
  ASSUME NEW S, NEW s \in Seq(S), Len(s) = 1
  PROVE  s = <<s[1]>>
<1>0. s[1] \in S
  BY ElementOfSeq
<1>1. <<s[1]>> \in Seq(S)
  BY <1>0
<1>2. Len(<<s[1]>>) = 1
  OBVIOUS
<1>3. \A i \in 1..Len(s) : s[i] = <<s[1]>>[i]
  OBVIOUS
<1> QED BY <1>1, <1>2, <1>3, SeqEqual

\* The stack of calls holds one call or two.
LEMMA AppendToOne ==
  ASSUME NEW f, NEW h
  PROVE  Append(<<f>>, h) = <<f, h>>
<1>1. <<f>> \in Seq({f, h}) /\ Len(<<f>>) = 1 /\ <<f>>[1] = f
  OBVIOUS
<1>2. Append(<<f>>, h) \in Seq({f,h}) /\ Len(Append(<<f>>, h)) = 2 /\ Append(<<f>>, h)[1] = f /\ Append(<<f>>, h)[2] = h
  BY <1>1, AppendProperties
<1> QED BY <1>2, SeqOfTwo

\* Without the last of two the first is left.
LEMMA FirstOfTwo ==
  ASSUME NEW f, NEW h
  PROVE  SubSeq(<<f, h>>, 1, 1) = <<f>>
<1>1. <<f, h>>[1] = f
  OBVIOUS
<1>2. SubSeq(<<f, h>>, 1, 1) \in Seq({f,h}) /\ Len(SubSeq(<<f, h>>, 1, 1)) = 1 /\ SubSeq(<<f, h>>, 1, 1)[1] = f
  BY <1>1, SubSeqProperties
<1> QED BY <1>2, SeqOfOne

\* The call that runs, when main()'s __handle_cmd() is the only one,
LEMMA TopOfOne ==
  ASSUME NEW f, calls = <<f>>
  PROVE  /\ Top = f /\ Below = <<>> /\ calls # <<>> /\ Len(calls) = 1
         /\ \A g : Set(g) <=> calls' = <<g>>
  BY DEF Top, Below, Set

\* and when a handler has called another command.
LEMMA TopOfTwo ==
  ASSUME NEW f, NEW g, calls = <<f, g>>
  PROVE  /\ Top = g /\ Below = <<f>> /\ calls # <<>> /\ Len(calls) = 2
         /\ \A h : Set(h) <=> calls' = <<f, h>>
<1>1. Len(calls) = 2 /\ Top = g
  BY DEF Top
<1>2. Below = <<f>>
  BY <1>1, FirstOfTwo DEF Below
<1> QED BY <1>1, <1>2, AppendToOne DEF Set

\* Which of the two it is.
LEMMA CallsCases ==
  ASSUME CallsOK, calls # <<>>
  PROVE  \/ \E f : calls = <<f>> /\ Frame(f, registered, sent) /\ Outer(f) /\ f.at # "calling"
         \/ \E f, g : /\ calls = <<f, g>>
                      /\ Frame(f, registered, sent) /\ Outer(f)
                      /\ Frame(g, registered, sent) /\ Inner(f, g)
<1>1. CASE calls = <<calls[1]>> /\ Frame(calls[1], registered, sent) /\ Outer(calls[1]) /\ calls[1].at # "calling"
  BY <1>1, Zenon
<1>2. CASE /\ calls = <<calls[1], calls[2]>>
           /\ Frame(calls[1], registered, sent) /\ Outer(calls[1])
           /\ Frame(calls[2], registered, sent) /\ Inner(calls[1], calls[2])
  BY <1>2, Zenon
<1> QED BY <1>1, <1>2, Zenon DEF CallsOK

-----------------------------------------------------------------------------
\* What a handler may do next.
Does(f, d) ==
  LET h == f.c.handler
  IN  \/ /\ d.do = "call"
         /\ Callee(h, f.done) # NoCallee
         /\ d.id \in Idents /\ d.argv \in Seq(AllWords) /\ d.argv # <<>>
         /\ Calls(f, d)
      \/ d.do = "prepare" /\ h \in {"iw_connect", "print_events"} /\ f.done = 0
      \/ d.do = "listen" /\ Listening(f) /\ Kept(sent)
      \/ d.do = "watch" /\ h \in {"handle_mgmt_dump", "print_events"}
      \/ /\ d.do = "send"
         /\ h \notin Callers \cup {"print_events", "handle_commands"}
         /\ h = "handle_reg_get" => f.done = 1 /\ f.err = "EOPNOTSUPP"
      \/ /\ d.do = "return"
         /\ d.r \in Ends \cup (IF h = "handle_reg_get" THEN {"3"} ELSE {})
         /\ d.r \in {"0", "3"} => Kept(sent)
         /\ h = "handle_reg_dump" => d.r # "EOPNOTSUPP"

\* The results that a command can end with.
LEMMA EndsAre ==
  Ends = {"0", "1", "2", "EINVAL", "ENOBUFS", "ENOENT", "EPERM", "error", "EOPNOTSUPP"}
  BY DEF Ends, Results

\* The words that handlers build their own command lines from.
LEMMA WordsAre ==
  {"scan", "trigger", "dump", "connect", "establish", "link", "get_bss", "get_sta", "cac",
   "measurement", "ftm_request_send", "mgmt", "reg", "features", "-q", Mac1} \subseteq AllWords
  BY Zenon DEF AllWords

\* Three words in front of others.
LEMMA ThreeWords ==
  ASSUME NEW a \in AllWords, NEW b \in AllWords, NEW c \in AllWords, NEW s \in Seq(AllWords)
  PROVE  LET t == <<a, b, c>> \o s
         IN  t \in Seq(AllWords) /\ t # <<>> /\ Len(t) >= 3 /\ t[1] = a /\ t[2] = b /\ t[3] = c
<1>1. <<a, b, c>> \in Seq(AllWords) /\ Len(<<a, b, c>>) = 3
  OBVIOUS
<1>2. /\ <<a, b, c>> \o s \in Seq(AllWords)
      /\ Len(<<a, b, c>> \o s) = 3 + Len(s)
      /\ \A i \in 1..3 : (<<a, b, c>> \o s)[i] = <<a, b, c>>[i]
  BY <1>1, ConcatProperties
<1> QED BY <1>1, <1>2

\* The arguments behind device, section and command.
LEMMA Behind3 ==
  ASSUME NEW f, Shape(f)
  PROVE  More(f) \in Seq(AllWords)
  BY DEF Shape, More

\* Three words are some.
LEMMA NotEmpty ==
  ASSUME NEW S
  PROVE  \A s \in Seq(S) : Len(s) >= 3 => s # <<>>
  OBVIOUS

\* A call for the handler's own device.
LEMMA OwnCall ==
  ASSUME NEW f, Shape(f), f.c.handler \in Callers \ {"handle_mgmt_dump"},
         Callee(f.c.handler, f.done) # NoCallee, NEW b, NEW c,
         Callee(f.c.handler, f.done)[1] = b, Callee(f.c.handler, f.done)[2] = c,
         NEW t \in Seq(AllWords), Len(t) >= 3, t[1] = f.argv[1], t[2] = b, t[3] = c,
         c = "get_bss" => Len(t) = 3
  PROVE  Does(f, Makes(f.id, t))
<1> DEFINE g == Makes(f.id, t)
<1>1. t # <<>>
  <2>1. \A s \in Seq(AllWords) : Len(s) >= 3 => s # <<>>
    BY NotEmpty, Zenon
  <2> QED BY <2>1, Zenon
<1>4. f.id \in Idents
  BY Zenon DEF Shape
<1>5. f.c.handler \notin {"handle_info", "handle_reg_get"} /\ f.c.handler # "handle_mgmt_dump"
  BY DEF Callers
<1>6. g.do = "call" /\ g.id = f.id /\ g.argv = t
  BY DEF g, Makes
<1> HIDE DEF g
<1>7. Calls(f, g)
  BY <1>5, <1>6, Zenon DEF Calls
<1>8. Does(f, g)
  BY <1>1, <1>4, <1>6, <1>7, Zenon DEF Does
<1> QED BY <1>8 DEF g

\* The handler returns a result that is not zero, or that of an answer.
LEMMA GivesResult ==
  ASSUME NEW f, NEW r \in Ends, r = "0" => Kept(sent),
         f.c.handler = "handle_reg_dump" => r # "EOPNOTSUPP"
  PROVE  Does(f, Gives(r))
  BY EndsAre DEF Does, Gives

\* handle_scan_combined()
LEMMA ScanDoes ==
  ASSUME NEW f, Shape(f), f.at = "handler", Resumed(f, sent), f.c.handler = "handle_scan_combined"
  PROVE  Does(f, handle_scan_combined(f))
<1> DEFINE option == IF More(f) # <<>> /\ More(f)[1] \in {"-u", "-b"} THEN <<More(f)[1]>> ELSE <<>>
           rest == SubSeq(More(f), 1 + Len(option), Len(More(f)))
<1>1. option \in Seq(AllWords) /\ rest \in Seq(AllWords) /\ f.argv[1] \in AllWords
  BY Behind3 DEF Shape
<1>2. {"scan", "trigger", "dump"} \subseteq AllWords
  BY WordsAre
<1>3. f.c.handler \in Callers \ {"handle_mgmt_dump"}
  BY DEF Callers
<1>4. CASE f.done = 0
  <2>1. handle_scan_combined(f) = Makes(f.id, <<f.argv[1], "scan", "trigger">> \o rest)
    BY <1>4 DEF handle_scan_combined, option, rest
  <2>2. /\ Callee(f.c.handler, f.done) # NoCallee
       /\ Callee(f.c.handler, f.done)[1] = "scan" /\ Callee(f.c.handler, f.done)[2] = "trigger"
    BY <1>4 DEF Callee, NoCallee
  <2> HIDE DEF rest, option
  <2> DEFINE t == <<f.argv[1], "scan", "trigger">> \o rest
  <2>3. t \in Seq(AllWords) /\ Len(t) >= 3 /\ t[1] = f.argv[1] /\ t[2] = "scan" /\ t[3] = "trigger"
    BY <1>1, <1>2, ThreeWords
  <2> HIDE DEF t
  <2>4. Does(f, Makes(f.id, t))
    BY <1>3, <2>2, <2>3, OwnCall
  <2> QED BY <2>1, <2>4 DEF t
<1>5. CASE f.done = 2 /\ f.err \in Heards /\ Kept(sent)
  <2>1. CASE f.err = "aborted"
    <3>1. handle_scan_combined(f) = Gives("0")
      BY <1>5, <2>1 DEF handle_scan_combined
    <3> QED BY <1>5, <3>1, GivesResult, EndsAre
  <2>2. CASE f.err # "aborted"
    <3>1. handle_scan_combined(f) = Makes(f.id, <<f.argv[1], "scan", "dump">> \o option)
      BY <1>5, <2>2 DEF handle_scan_combined, option
    <3>2. /\ Callee(f.c.handler, f.done) # NoCallee
         /\ Callee(f.c.handler, f.done)[1] = "scan" /\ Callee(f.c.handler, f.done)[2] = "dump"
      BY <1>5 DEF Callee, NoCallee
    <3> HIDE DEF rest, option
    <3> DEFINE t == <<f.argv[1], "scan", "dump">> \o option
    <3>3. t \in Seq(AllWords) /\ Len(t) >= 3 /\ t[1] = f.argv[1] /\ t[2] = "scan" /\ t[3] = "dump"
      BY <1>1, <1>2, ThreeWords
    <3> HIDE DEF t
    <3>4. Does(f, Makes(f.id, t))
      BY <1>3, <3>2, <3>3, OwnCall
    <3> QED BY <3>1, <3>4 DEF t
  <2> QED BY <2>1, <2>2
<1>6. CASE f.done = 1 /\ Answer(f, sent)
  <2>1. handle_scan_combined(f) = IF f.err = "0" THEN Listens ELSE Gives(f.err)
    BY <1>6 DEF handle_scan_combined, IfSound
  <2>2. CASE f.err = "0"
    BY <1>6, <2>1, <2>2 DEF Does, Listens, Listening, Answer
  <2> QED BY <1>6, <2>1, <2>2, GivesResult DEF Answer
<1>7. CASE f.done = 3 /\ Answer(f, sent)
  <2>1. handle_scan_combined(f) = Gives(f.err)
    BY <1>7 DEF handle_scan_combined
  <2> QED BY <1>7, <2>1, GivesResult DEF Answer
<1> QED BY <1>4, <1>5, <1>6, <1>7 DEF Resumed

\* iw_connect()
LEMMA ConnectDoes ==
  ASSUME NEW f, Shape(f), f.at = "handler", Resumed(f, sent), f.c.handler = "iw_connect"
  PROVE  Does(f, iw_connect(f))
<1> DEFINE wait == More(f) # <<>> /\ More(f)[1] = "-w"
           rest == IF wait THEN Tail(More(f)) ELSE More(f)
<1>1. rest \in Seq(AllWords) /\ f.argv[1] \in AllWords
  BY Behind3 DEF Shape
<1>2. {"connect", "establish"} \subseteq AllWords
  BY WordsAre
<1>3. f.c.handler \in Callers \ {"handle_mgmt_dump"}
  BY DEF Callers
<1>4. CASE f.done = 0
  <2>1. iw_connect(f) = Prepares
    BY <1>4 DEF iw_connect
  <2> QED BY <1>4, <2>1 DEF Does, Prepares
<1>5. CASE f.done = 1 /\ f.err \in Ends
  <2>1. CASE f.err = "0"
    <3>1. iw_connect(f) = Makes(f.id, <<f.argv[1], "connect", "establish">> \o rest)
      BY <1>5, <2>1 DEF iw_connect, IfSound, rest
    <3>2. /\ Callee(f.c.handler, f.done) # NoCallee
         /\ Callee(f.c.handler, f.done)[1] = "connect" /\ Callee(f.c.handler, f.done)[2] = "establish"
      BY <1>5 DEF Callee, NoCallee
    <3> HIDE DEF rest
    <3> DEFINE t == <<f.argv[1], "connect", "establish">> \o rest
    <3>3. t \in Seq(AllWords) /\ Len(t) >= 3 /\ t[1] = f.argv[1] /\ t[2] = "connect" /\ t[3] = "establish"
      BY <1>1, <1>2, ThreeWords
    <3> HIDE DEF t
    <3>4. Does(f, Makes(f.id, t))
      BY <1>3, <3>2, <3>3, OwnCall
    <3> QED BY <3>1, <3>4 DEF t
  <2>2. CASE f.err # "0"
    <3>1. iw_connect(f) = Gives(f.err)
      BY <1>5, <2>2 DEF iw_connect, IfSound
    <3> QED BY <1>5, <2>2, <3>1, GivesResult
  <2> QED BY <2>1, <2>2
<1>6. CASE f.done = 2 /\ Answer(f, sent)
  <2>1. \/ iw_connect(f) \in {Listens, Gives("0")} /\ f.err = "0"
        \/ iw_connect(f) = Gives(f.err)
    BY <1>6 DEF iw_connect, IfSound
  <2>2. CASE iw_connect(f) = Listens /\ f.err = "0"
    BY <1>6, <2>2 DEF Does, Listens, Listening, Answer
  <2> QED BY <1>6, <2>1, <2>2, GivesResult, EndsAre DEF Answer
<1>7. CASE f.done = 3 /\ Kept(sent)
  <2>1. iw_connect(f) = Gives("0")
    BY <1>7 DEF iw_connect
  <2> QED BY <1>7, <2>1, GivesResult, EndsAre
<1> QED BY <1>4, <1>5, <1>6, <1>7 DEF Resumed

\* handle_link()
LEMMA LinkDoes ==
  ASSUME NEW f, Shape(f), f.at = "handler", Resumed(f, sent), f.c.handler = "handle_link",
         NEW d \in handle_link(f)
  PROVE  Does(f, d)
<1>1. f.argv[1] \in AllWords
  BY DEF Shape
<1>2. {"link", "get_bss", "get_sta", Mac1} \subseteq AllWords
  BY WordsAre
<1>3. f.c.handler \in Callers \ {"handle_mgmt_dump"}
  BY DEF Callers
<1>4. CASE f.done = 0
  <2>1. d = Makes(f.id, <<f.argv[1], "link", "get_bss">>)
    BY <1>4 DEF handle_link
  <2>2. /\ Callee(f.c.handler, f.done) # NoCallee
       /\ Callee(f.c.handler, f.done)[1] = "link" /\ Callee(f.c.handler, f.done)[2] = "get_bss"
    BY <1>4 DEF Callee, NoCallee
  <2> DEFINE t == <<f.argv[1], "link", "get_bss">>
  <2>3. /\ t \in Seq(AllWords) /\ Len(t) = 3 /\ Len(t) >= 3
       /\ t[1] = f.argv[1] /\ t[2] = "link" /\ t[3] = "get_bss"
    BY <1>1, <1>2
  <2> HIDE DEF t
  <2>4. Does(f, Makes(f.id, t))
    BY <1>3, <2>2, <2>3, OwnCall
  <2> QED BY <2>1, <2>4 DEF t
<1>5. CASE f.done = 1 /\ Answer(f, sent)
  <2>1. \/ d = Gives(f.err)
        \/ d = Gives("0") /\ f.err = "0"
        \/ d = Makes(f.id, <<f.argv[1], "link", "get_sta", Mac1>>)
    BY <1>5 DEF handle_link
  <2>2. CASE d = Makes(f.id, <<f.argv[1], "link", "get_sta", Mac1>>)
    <3>1. /\ Callee(f.c.handler, f.done) # NoCallee
         /\ Callee(f.c.handler, f.done)[1] = "link" /\ Callee(f.c.handler, f.done)[2] = "get_sta"
      BY <1>5 DEF Callee, NoCallee
    <3> DEFINE t == <<f.argv[1], "link", "get_sta", Mac1>>
    <3>2. /\ t \in Seq(AllWords) /\ Len(t) >= 3
         /\ t[1] = f.argv[1] /\ t[2] = "link" /\ t[3] = "get_sta"
      BY <1>1, <1>2
    <3> HIDE DEF t
    <3>3. Does(f, Makes(f.id, t))
      BY <1>3, <3>1, <3>2, OwnCall
    <3> QED BY <2>2, <3>3 DEF t
  <2> QED BY <1>5, <2>1, <2>2, GivesResult DEF Answer
<1>6. CASE f.done = 2 /\ Answer(f, sent)
  <2>1. d = Gives(f.err)
    BY <1>6 DEF handle_link
  <2> QED BY <1>6, <2>1, GivesResult DEF Answer
<1> QED BY <1>4, <1>5, <1>6 DEF Resumed
\* What handle_cac() asks the parser of cac trigger.
LEMMA CacParsed ==
  ASSUME NEW f, Shape(f)
  PROVE  handle_cac_trigger(Parser(More(f))).ret \in {"0", "1"}
<1>1. PICK a : a = More(f)
  OBVIOUS
<1>2. a \in Seq(AllWords)
  BY <1>1, Behind3 DEF Shape
<1>3. Sound(Parser(a))
  BY <1>2, ParserSound
<1> QED BY <1>1, <1>3, CacSound

\* handle_cac()
LEMMA CacDoes ==
  ASSUME NEW f, Shape(f), f.at = "handler", Resumed(f, sent), f.c.handler = "handle_cac"
  PROVE  Does(f, handle_cac(f))
<1>1. More(f) \in Seq(AllWords) /\ f.argv[1] \in AllWords
  BY Behind3 DEF Shape
<1>2. {"cac", "trigger"} \subseteq AllWords
  BY WordsAre
<1>3. f.c.handler \in Callers \ {"handle_mgmt_dump"}
  BY DEF Callers
<1>4. CASE f.done = 0
  <2> DEFINE r == handle_cac_trigger(Parser(More(f))).ret
             t == <<f.argv[1], "cac", "trigger">> \o More(f)
  <2>1. r \in {"0", "1"}
    BY CacParsed
  <2>2. handle_cac(f) = CacTrigger(f, r)
    BY <1>4 DEF handle_cac
  <2>3. /\ t \in Seq(AllWords) /\ Len(t) >= 3
        /\ t[1] = f.argv[1] /\ t[2] = "cac" /\ t[3] = "trigger"
    BY <1>1, <1>2, ThreeWords
  <2>4. /\ Callee(f.c.handler, f.done) # NoCallee
        /\ Callee(f.c.handler, f.done)[1] = "cac" /\ Callee(f.c.handler, f.done)[2] = "trigger"
    BY <1>4 DEF Callee, NoCallee
  <2>5. r = "0" => CacTrigger(f, r) = Makes(f.id, t)
    BY DEF CacTrigger
  <2>6. r # "0" => CacTrigger(f, r) = Gives(r)
    BY DEF CacTrigger
  <2> HIDE DEF r, t
  <2>7. Does(f, Makes(f.id, t))
    BY <1>3, <2>3, <2>4, OwnCall
  <2>8. r # "0" => Does(f, Gives(r))
    BY <2>1, GivesResult, EndsAre
  <2> QED BY <2>1, <2>2, <2>5, <2>6, <2>7, <2>8
<1>5. CASE f.done = 1 /\ Answer(f, sent)
  <2>1. handle_cac(f) = IF f.err = "0" THEN Listens ELSE Gives(f.err)
    BY <1>5 DEF handle_cac, IfSound
  <2>2. CASE f.err = "0"
    BY <1>5, <2>1, <2>2 DEF Does, Listens, Listening, Answer
  <2> QED BY <1>5, <2>1, <2>2, GivesResult DEF Answer
<1>6. CASE f.done = 2 /\ Kept(sent)
  <2>1. handle_cac(f) = Gives("0")
    BY <1>6 DEF handle_cac
  <2> QED BY <1>6, <2>1, GivesResult, EndsAre
<1> QED BY <1>4, <1>5, <1>6 DEF Resumed

\* handle_ftm_req()
LEMMA FtmDoes ==
  ASSUME NEW f, Shape(f), f.at = "handler", Resumed(f, sent), f.c.handler = "handle_ftm_req"
  PROVE  Does(f, handle_ftm_req(f))
<1>1. More(f) \in Seq(AllWords) /\ f.argv[1] \in AllWords
  BY Behind3 DEF Shape
<1>2. {"measurement", "ftm_request_send"} \subseteq AllWords
  BY WordsAre
<1>3. f.c.handler \in Callers \ {"handle_mgmt_dump"}
  BY DEF Callers
<1>4. CASE f.done = 0
  <2> DEFINE rest == Tail(More(f))
             t == <<f.argv[1], "measurement", "ftm_request_send">> \o rest
  <2>1. handle_ftm_req(f) = Makes(f.id, t)
    BY <1>4 DEF handle_ftm_req
  <2>2. /\ Callee(f.c.handler, f.done) # NoCallee
        /\ Callee(f.c.handler, f.done)[1] = "measurement"
        /\ Callee(f.c.handler, f.done)[2] = "ftm_request_send"
    BY <1>4 DEF Callee, NoCallee
  <2>3. rest \in Seq(AllWords)
    <3>1. Len(f.argv) > 2 /\ f.argv \in Seq(AllWords)
      BY DEF Shape
    <3>2. Len(More(f)) > 0
      BY <3>1 DEF More
    <3>3. More(f) # <<>>
      BY <1>1, <3>2
    <3> QED BY <1>1, <3>3
  <2> HIDE DEF rest
  <2>4. /\ t \in Seq(AllWords) /\ Len(t) >= 3
        /\ t[1] = f.argv[1] /\ t[2] = "measurement" /\ t[3] = "ftm_request_send"
    BY <1>1, <1>2, <2>3, ThreeWords
  <2> HIDE DEF t
  <2> QED BY <1>3, <2>1, <2>2, <2>4, OwnCall
<1>5. CASE f.done = 1 /\ Answer(f, sent)
  <2>1. handle_ftm_req(f) = IF f.err = "0" THEN Listens ELSE Gives(f.err)
    BY <1>5 DEF handle_ftm_req, IfSound
  <2>2. CASE f.err = "0"
    BY <1>5, <2>1, <2>2 DEF Does, Listens, Listening, Answer
  <2> QED BY <1>5, <2>1, <2>2, GivesResult DEF Answer
<1>6. CASE f.done = 2 /\ Kept(sent)
  <2>1. handle_ftm_req(f) = Gives("0")
    BY <1>6 DEF handle_ftm_req
  <2> QED BY <1>6, <2>1, GivesResult, EndsAre
<1> QED BY <1>4, <1>5, <1>6 DEF Resumed

\* print_events()
LEMMA EventsDoes ==
  ASSUME NEW f, Shape(f), f.at = "handler", Resumed(f, sent), f.c.handler = "print_events"
  PROVE  Does(f, print_events(f))
<1>1. CASE f.done = 0
  <2>1. print_events(f) \in {Gives("1"), Prepares}
    BY <1>1, Zenon DEF print_events
  <2>2. Does(f, Gives("1"))
    BY GivesResult, EndsAre
  <2>3. Does(f, Prepares)
    BY <1>1 DEF Does, Prepares
  <2> QED BY <2>1, <2>2, <2>3
<1>2. CASE f.done = 1 /\ f.err \in Ends
  <2>1. print_events(f) = IF f.err = "0" THEN Watches ELSE Gives(f.err)
    BY <1>2 DEF print_events, IfSound
  <2>2. CASE f.err = "0"
    BY <2>1, <2>2 DEF Does, Watches
  <2> QED BY <1>2, <2>1, <2>2, GivesResult
<1> QED BY <1>1, <1>2 DEF Resumed

\* A call that needs no device.
LEMMA OtherCall ==
  ASSUME NEW f, f.c.handler \in {"handle_info", "handle_reg_get"}, NEW a \in AllWords, NEW b \in AllWords,
         Callee(f.c.handler, f.done) # NoCallee,
         Callee(f.c.handler, f.done)[1] = a, Callee(f.c.handler, f.done)[2] = b
  PROVE  Does(f, Makes("none", <<a, b>>))
<1> DEFINE g == Makes("none", <<a, b>>)
<1>1. <<a, b>> \in Seq(AllWords) /\ <<a, b>> # <<>>
  OBVIOUS
<1>2. g.do = "call" /\ g.id = "none" /\ g.argv = <<a, b>>
  BY DEF g, Makes
<1>3. "none" \in Idents
  BY DEF Idents
<1> HIDE DEF g
<1>4. Calls(f, g)
  BY <1>2, Zenon DEF Calls
<1>5. Does(f, g)
  BY <1>1, <1>2, <1>3, <1>4, Zenon DEF Does
<1> QED BY <1>5 DEF g

\* handle_info()
LEMMA InfoDoes ==
  ASSUME NEW f, Shape(f), f.at = "handler", Resumed(f, sent), f.c.handler = "handle_info"
  PROVE  Does(f, handle_info(f))
<1>1. CASE f.done = 0
  <2>1. handle_info(f) = Makes("none", <<"features", "-q">>)
    BY <1>1 DEF handle_info
  <2>2. /\ Callee(f.c.handler, f.done) # NoCallee
        /\ Callee(f.c.handler, f.done)[1] = "features" /\ Callee(f.c.handler, f.done)[2] = "-q"
    BY <1>1 DEF Callee, NoCallee
  <2>3. "features" \in AllWords /\ "-q" \in AllWords
    BY WordsAre
  <2> QED BY <2>1, <2>2, <2>3, OtherCall
<1>2. CASE f.done = 1
  <2>1. handle_info(f) = Sends
    BY <1>2 DEF handle_info
  <2> QED BY <2>1 DEF Does, Sends, Callers
<1> QED BY <1>1, <1>2 DEF Resumed

\* handle_reg_get()
LEMMA RegGetDoes ==
  ASSUME NEW f, Shape(f), f.at = "handler", Resumed(f, sent), f.c.handler = "handle_reg_get"
  PROVE  Does(f, handle_reg_get(f))
<1>1. CASE f.done = 0
  <2>1. handle_reg_get(f) = Makes("none", <<"reg", "dump">>)
    BY <1>1 DEF handle_reg_get
  <2>2. /\ Callee(f.c.handler, f.done) # NoCallee
        /\ Callee(f.c.handler, f.done)[1] = "reg" /\ Callee(f.c.handler, f.done)[2] = "dump"
    <3>1. Callee("handle_reg_get", 0) = <<"reg", "dump">>
      BY DEF Callee
    <3>2. <<"reg", "dump">>[1] = "reg" /\ <<"reg", "dump">>[2] = "dump" /\ NoCallee[1] = ""
      BY DEF NoCallee
    <3> QED BY <1>1, <3>1, <3>2, Zenon
  <2>3. "reg" \in AllWords /\ "dump" \in AllWords
    BY WordsAre
  <2> QED BY <2>1, <2>2, <2>3, OtherCall
<1>2. CASE f.done = 1 /\ Answer(f, sent)
  <2>1. CASE f.err = "EOPNOTSUPP"
    <3>1. handle_reg_get(f) = Sends
      BY <1>2, <2>1 DEF handle_reg_get
    <3> QED BY <1>2, <2>1, <3>1 DEF Does, Sends, Callers
  <2>2. CASE f.err = "0"
    <3>1. handle_reg_get(f) = Gives("3")
      BY <1>2, <2>2 DEF handle_reg_get, IfSound
    <3> QED BY <1>2, <2>2, <3>1 DEF Does, Gives, Answer
  <2>3. CASE f.err \notin {"0", "EOPNOTSUPP"}
    <3>1. handle_reg_get(f) = Gives(f.err)
      BY <1>2, <2>3 DEF handle_reg_get, IfSound
    <3> QED BY <1>2, <2>3, <3>1, GivesResult DEF Answer
  <2> QED BY <2>1, <2>2, <2>3
<1> QED BY <1>1, <1>2 DEF Resumed
\* Without its first word a line is one word shorter.
LEMMA TailOf ==
  ASSUME NEW S, NEW s \in Seq(S), Len(s) > 0
  PROVE  Tail(s) \in Seq(S) /\ Len(Tail(s)) = Len(s) - 1
<1>1. s # <<>>
  OBVIOUS
<1> QED BY <1>1

\* The frames that handle_mgmt_dump() has not registered yet.
LEMMA LeftOf ==
  ASSUME NEW S, NEW s \in Seq(S), NEW n \in Nat
  PROVE  /\ SubSeq(s, 3 * n + 1, Len(s)) \in Seq(S)
         /\ n = 0 => Len(SubSeq(s, 3 * n + 1, Len(s))) = Len(s)
  OBVIOUS

\* handle_mgmt_dump()
LEMMA MgmtDoes ==
  ASSUME NEW f, Shape(f), f.at = "handler", Resumed(f, sent), f.c.handler = "handle_mgmt_dump"
  PROVE  Does(f, handle_mgmt_dump(f))
<1> DEFINE words == Tail(More(f))
           left == SubSeq(words, 3 * f.done + 1, Len(words))
           t == <<f.argv[1], "mgmt", "reg", left[2], left[3]>>
           d == handle_mgmt_dump(f)
<1>1. f.argv \in Seq(AllWords) /\ f.argv # <<>> /\ f.done \in Nat /\ Len(f.argv) \in Nat
  BY DEF Shape
<1>2. f.done > 0 => Answer(f, sent) \/ (f.err = "heard" /\ Kept(sent))
  BY <1>1 DEF Resumed
<1>3. \/ d = Gives("1")
      \/ f.done > 0 /\ f.err = "heard" /\ d = Gives("0")
      \/ f.done > 0 /\ f.err \notin {"0", "heard"} /\ d = Gives(f.err)
      \/ Len(f.argv) >= 6 /\ Len(left) >= 3 /\ d = Makes("netdev", t)
      \/ d = Watches
      \/ Len(f.argv) >= 6 /\ (f.done > 0 => f.err = "0") /\ Len(left) = 2 /\ d = Listens
  <2> HIDE DEF left, words
  <2>0. f.done > 0 \/ ~(f.done > 0)
    OBVIOUS
  <2>1. CASE Len(f.argv) < 6
    BY <2>1, Zenon DEF d, handle_mgmt_dump
  <2>2. CASE ~(Len(f.argv) < 6) /\ f.done > 0 /\ f.err = "heard"
    BY <2>2, Zenon DEF d, handle_mgmt_dump
  <2>3. CASE ~(Len(f.argv) < 6) /\ f.done > 0 /\ f.err # "heard" /\ f.err # "0"
    <3>1. d = Gives(f.err)
      BY <2>3, Zenon DEF d, handle_mgmt_dump
    <3> QED BY <2>3, <3>1
  <2>4. CASE ~(Len(f.argv) < 6) /\ ~(f.done > 0 /\ f.err = "heard") /\ ~(f.done > 0 /\ f.err # "0")
    <3>0. d = IF Len(left) >= 3
               THEN IF left[1] # "frame" THEN Gives("1") ELSE Makes("netdev", t)
             ELSE IF left = <<>> THEN Watches
             ELSE IF Len(left) = 2 /\ left[1] = "count" THEN Listens
             ELSE Gives("1")
      BY <2>4, Zenon DEF d, handle_mgmt_dump, left, words, t
    <3>1. Len(f.argv) >= 6
      BY <1>1, <2>4
    <3> HIDE DEF d, t
    <3> QED BY <2>4, <3>0, <3>1
  <2> QED BY <2>1, <2>2, <2>3, <2>4
<1>4. CASE d = Gives("1")
  BY <1>4, GivesResult, EndsAre
<1>5. CASE f.done > 0 /\ f.err = "heard" /\ d = Gives("0")
  <2>1. Kept(sent)
    BY <1>2, <1>5, EndsAre DEF Answer
  <2> QED BY <1>5, <2>1, GivesResult, EndsAre
<1>6. CASE f.done > 0 /\ f.err \notin {"0", "heard"} /\ d = Gives(f.err)
  BY <1>2, <1>6, GivesResult DEF Answer
<1>7. CASE Len(f.argv) >= 6 /\ Len(left) >= 3 /\ d = Makes("netdev", t)
  <2>1. More(f) \in Seq(AllWords) /\ Len(More(f)) = Len(f.argv) - 2
    <3>1. Len(f.argv) >= 6
      BY <1>7
    <3> QED BY <1>1, <3>1 DEF More
  <2>2. words \in Seq(AllWords)
    <3>1. Len(More(f)) > 0
      BY <1>1, <1>7, <2>1
    <3> QED BY <2>1, <3>1, TailOf
  <2> HIDE DEF words
  <2>3. left[2] \in AllWords /\ left[3] \in AllWords
    <3>1. left \in Seq(AllWords)
      BY <1>1, <2>2, LeftOf
    <3> HIDE DEF left
    <3> QED BY <1>7, <3>1, ElementOfSeq
  <2>4. f.argv[1] \in AllWords
    BY <1>1
  <2>5. "mgmt" \in AllWords /\ "reg" \in AllWords
    BY WordsAre
  <2> HIDE DEF left
  <2>6. t \in Seq(AllWords) /\ Len(t) = 5 /\ t[1] = f.argv[1] /\ t[2] = "mgmt" /\ t[3] = "reg"
    BY <2>3, <2>4, <2>5
  <2>7. t # <<>> /\ Len(t) >= 3
    OBVIOUS
  <2> HIDE DEF t
  <2>8. Callee("handle_mgmt_dump", f.done) = <<"mgmt", "reg">>
    BY DEF Callee
  <2>9. /\ <<"mgmt", "reg">>[1] = "mgmt" /\ <<"mgmt", "reg">>[2] = "reg" /\ NoCallee[1] = ""
        /\ "reg" # "get_bss" /\ "mgmt" # ""
    BY DEF NoCallee
  <2> DEFINE g == Makes("netdev", t)
  <2>10. g.do = "call" /\ g.id = "netdev" /\ g.argv = t
    BY DEF g, Makes
  <2>11. "netdev" \in Idents
    BY DEF Idents
  <2> HIDE DEF g
  <2>12. Calls(f, g)
    BY <2>6, <2>7, <2>8, <2>9, <2>10, Zenon DEF Calls
  <2>13. Does(f, g)
    BY <2>6, <2>7, <2>8, <2>9, <2>10, <2>11, <2>12, Zenon DEF Does
  <2> QED BY <1>7, <2>13 DEF g
<1>8. CASE d = Watches
  BY <1>8 DEF Does, Watches
<1>9. CASE Len(f.argv) >= 6 /\ (f.done > 0 => f.err = "0") /\ Len(left) = 2 /\ d = Listens
  <2>1. f.done > 0
    <3> SUFFICES ASSUME f.done = 0 PROVE FALSE
      BY <1>1
    <3>1. More(f) \in Seq(AllWords) /\ Len(More(f)) >= 4
      BY <1>1, <1>9 DEF More
    <3>2. words \in Seq(AllWords) /\ Len(words) >= 3
      BY <3>1
    <3> HIDE DEF words
    <3>3. Len(left) = Len(words)
      BY <3>2, LeftOf
    <3>4. Len(left) = 2
      BY <1>9
    <3> HIDE DEF left
    <3> QED BY <3>2, <3>3, <3>4
  <2>2. Kept(sent)
    BY <1>2, <1>9, <2>1 DEF Answer
  <2> QED BY <1>9, <2>2 DEF Does, Listens, Listening
<1> QED BY <1>3, <1>4, <1>5, <1>6, <1>7, <1>8, <1>9
\* A handler that only builds the request.
LEMMA OneStepDoes ==
  ASSUME NEW f, f.c.handler \notin Goers
  PROVE  Does(f, OneStep(f))
<1>1. \/ OneStep(f) = Sends /\ f.c.handler # "handle_commands"
      \/ OneStep(f) \in {Gives("1"), Gives("2")}
  BY SMTT(30) DEF OneStep
<1>2. Does(f, Gives("1")) /\ Does(f, Gives("2"))
  BY GivesResult, EndsAre
<1>3. f.c.handler # "handle_commands" => Does(f, Sends)
  <2>1. f.c.handler \notin Callers \cup {"print_events", "handle_reg_get"}
    BY DEF Goers
  <2>2. Sends.do = "send"
    BY DEF Sends
  <2> QED BY <2>1, <2>2, Zenon DEF Does
<1> QED BY <1>1, <1>2, <1>3

\* Whatever the handler does next is one of these.
LEMMA ContinuedDoes ==
  ASSUME NEW f, Shape(f), f.at = "handler", Resumed(f, sent), NEW d \in Continued(f)
  PROVE  Does(f, d)
<1> DEFINE h == f.c.handler
<1>1. CASE h = "handle_scan_combined"
  <2>1. d = handle_scan_combined(f)
    BY <1>1 DEF Continued
  <2> QED BY <1>1, <2>1, ScanDoes
<1>2. CASE h = "iw_connect"
  <2>1. d = iw_connect(f)
    BY <1>2 DEF Continued
  <2> QED BY <1>2, <2>1, ConnectDoes
<1>3. CASE h = "handle_link"
  <2>1. d \in handle_link(f)
    BY <1>3 DEF Continued
  <2> QED BY <1>3, <2>1, LinkDoes
<1>4. CASE h = "handle_cac"
  <2>1. d = handle_cac(f)
    BY <1>4 DEF Continued
  <2> QED BY <1>4, <2>1, CacDoes
<1>5. CASE h = "handle_ftm_req"
  <2>1. d = handle_ftm_req(f)
    BY <1>5 DEF Continued
  <2> QED BY <1>5, <2>1, FtmDoes
<1>6. CASE h = "handle_mgmt_dump"
  <2>1. d = handle_mgmt_dump(f)
    BY <1>6 DEF Continued
  <2> QED BY <1>6, <2>1, MgmtDoes
<1>7. CASE h = "print_events"
  <2>1. d = print_events(f)
    BY <1>7 DEF Continued
  <2> QED BY <1>7, <2>1, EventsDoes
<1>8. CASE h = "handle_info"
  <2>1. d = handle_info(f)
    BY <1>8 DEF Continued
  <2> QED BY <1>8, <2>1, InfoDoes
<1>9. CASE h = "handle_reg_get"
  <2>1. d = handle_reg_get(f)
    BY <1>9 DEF Continued
  <2> QED BY <1>9, <2>1, RegGetDoes
<1>10. CASE h \notin Goers
  <2>1. d = OneStep(f)
    BY <1>10, SMTT(30) DEF Continued, Goers, Callers
  <2> QED BY <1>10, <2>1, OneStepDoes
<1> QED BY <1>1, <1>2, <1>3, <1>4, <1>5, <1>6, <1>7, <1>8, <1>9, <1>10 DEF Goers, Callers
-----------------------------------------------------------------------------
\* The words of the command line, and the device.
LEMMA LineWords ==
  ASSUME NEW lines \in CommandLines, line \in lines
  PROVE  line.words \in Seq(AllWords) /\ line.faulty \in BOOLEAN
<1> DEFINE own == {line.words[i] : i \in DOMAIN line.words}
<1>1. line.words \in Seq(own) /\ line.faulty \in BOOLEAN
  BY LinesAssumption
<1>2. own \subseteq AllWords
  <2>1. line \in UNION CommandLines
    OBVIOUS
  <2> QED BY <2>1, Zenon DEF AllWords
<1> HIDE DEF own
<1> DEFINE w == line.words
<1>3. w \in Seq(own)
  BY <1>1
<1> HIDE DEF w
<1>4. w \in Seq(AllWords)
  BY <1>2, <1>3
<1> QED BY <1>1, <1>4 DEF w

\* What main() makes of the words: a way to name the device, and the rest.
LEMMA IdentifiedWords ==
  ASSUME NEW w \in Seq(AllWords), w # <<>>
  PROVE  /\ Identified(w).id \in Idents
         /\ Identified(w).argv \in Seq(AllWords) /\ Identified(w).argv # <<>>
<1>1. Len(w) > 1 => Tail(w) \in Seq(AllWords) /\ Tail(w) # <<>>
  <2> SUFFICES ASSUME Len(w) > 1 PROVE Tail(w) \in Seq(AllWords) /\ Tail(w) # <<>>
    OBVIOUS
  <2>1. Tail(w) \in Seq(AllWords) /\ Len(Tail(w)) = Len(w) - 1
    BY TailOf
  <2>2. Tail(w) # <<>>
    <3> DEFINE t == Tail(w)
    <3>1. t \in Seq(AllWords) /\ Len(t) > 0
      BY <2>1
    <3> HIDE DEF t
    <3>2. t # <<>>
      BY <3>1
    <3> QED BY <3>2 DEF t
  <2> QED BY <2>1, <2>2
<1>2. Detected(w) \in Idents
  BY DEF Detected, Idents
<1>3. {"netdev", "wdev", "phy_name", "phy_idx"} \subseteq Idents
  BY DEF Idents
<1> QED BY <1>1, <1>2, <1>3, Zenon DEF Identified

\* What is found.
LEMMA FoundAre ==
  ASSUME NEW w \in Seq(AllWords), w # <<>>, NEW by, NEW g \in Found(by, w)
  PROVE  /\ g = [c |-> g.c, args |-> g.args] /\ g.args \in Seq(AllWords)
         /\ \/ g.c = NoCommand
            \/ /\ g.c \in Table /\ Fits(g.c, by)
               /\ \/ g.c.parent = "" /\ g.c.name = w[1]
                  \/ g.c.parent = w[1] /\ Len(w) > 1 /\ g.c.name = w[2]
<1> DEFINE args == Tail(w)
           matches == Sections(by, w[1])
           found(s) == IF Subcommands(s, by, args) # {}
                       THEN {[c |-> c, args |-> Tail(args)] : c \in Subcommands(s, by, args)}
                       ELSE IF Usable(s, by, args) THEN {[c |-> s, args |-> args]}
                       ELSE {[c |-> NoCommand, args |-> args]}
<1>1. args \in Seq(AllWords) /\ Len(args) = Len(w) - 1
  BY TailOf
<1>2. CASE matches = {}
  <2>1. g = [c |-> NoCommand, args |-> args]
    BY <1>2, Zenon DEF Found
  <2> HIDE DEF args
  <2> QED BY <1>1, <2>1
<1>3. CASE matches # {}
  <2>1. PICK s \in matches : g \in found(s)
    BY <1>3, Zenon DEF Found
  <2>2. s \in Table /\ s.parent = "" /\ s.name = w[1]
    BY Zenon DEF Sections
  <2>3. CASE Subcommands(s, by, args) # {}
    <3>1. PICK c \in Subcommands(s, by, args) : g = [c |-> c, args |-> Tail(args)]
      BY <2>1, <2>3, Zenon
    <3>2. c \in Table /\ c.parent = s.name /\ Fits(c, by) /\ args # <<>> /\ c.name = args[1]
      BY Zenon DEF Subcommands
    <3>3. Len(args) > 0
      BY <1>1, <3>2
    <3>4. Tail(args) \in Seq(AllWords)
      BY <1>1, <3>3, TailOf
    <3>5. args[1] = w[2] /\ Len(w) > 1
      BY <1>1, <3>3
    <3> HIDE DEF args
    <3>6. g.c = c /\ g.args = Tail(args) /\ g = [c |-> g.c, args |-> g.args]
      BY <3>1
    <3> QED BY <2>2, <3>2, <3>4, <3>5, <3>6, Zenon
  <2>4. CASE ~(Subcommands(s, by, args) # {}) /\ Usable(s, by, args)
    <3>1. g = [c |-> s, args |-> args]
      BY <2>1, <2>4, Zenon
    <3>2. Fits(s, by)
      BY <2>4, Zenon DEF Usable
    <3> HIDE DEF args
    <3>3. g.c = s /\ g.args = args /\ g = [c |-> g.c, args |-> g.args]
      BY <3>1
    <3> QED BY <1>1, <2>2, <3>2, <3>3, Zenon
  <2>5. CASE ~(Subcommands(s, by, args) # {}) /\ ~Usable(s, by, args)
    <3>1. g = [c |-> NoCommand, args |-> args]
      BY <2>1, <2>5, Zenon
    <3> HIDE DEF args
    <3>3. g.c = NoCommand /\ g.args = args /\ g = [c |-> g.c, args |-> g.args]
      BY <3>1
    <3> QED BY <1>1, <3>3, Zenon
  <2> QED BY <2>3, <2>4, <2>5, Zenon
<1> QED BY <1>2, <1>3
-----------------------------------------------------------------------------
\* The commands that handlers call.
LEMMA CalleeCases ==
  ASSUME NEW h, NEW d, Callee(h, d) # NoCallee
  PROVE  \/ h = "handle_scan_combined" /\ d = 0 /\ Callee(h, d) = <<"scan", "trigger">>
         \/ h = "handle_scan_combined" /\ d = 2 /\ Callee(h, d) = <<"scan", "dump">>
         \/ h = "iw_connect" /\ d = 1 /\ Callee(h, d) = <<"connect", "establish">>
         \/ h = "handle_link" /\ d = 0 /\ Callee(h, d) = <<"link", "get_bss">>
         \/ h = "handle_link" /\ d = 1 /\ Callee(h, d) = <<"link", "get_sta">>
         \/ h = "handle_cac" /\ d = 0 /\ Callee(h, d) = <<"cac", "trigger">>
         \/ h = "handle_ftm_req" /\ d = 0 /\ Callee(h, d) = <<"measurement", "ftm_request_send">>
         \/ h = "handle_mgmt_dump" /\ Callee(h, d) = <<"mgmt", "reg">>
         \/ h = "handle_info" /\ d = 0 /\ Callee(h, d) = <<"features", "-q">>
         \/ h = "handle_reg_get" /\ d = 0 /\ Callee(h, d) = <<"reg", "dump">>
  BY DEF Callee

\* What a handler calls is one of the commands that are called.
LEMMA CalleeIn ==
  ASSUME NEW h, NEW d, Callee(h, d) # NoCallee, h # "handle_info"
  PROVE  /\ Callee(h, d) \in Callees
         /\ h = "handle_reg_get" => Callee(h, d) = <<"reg", "dump">>
         /\ h # "handle_reg_get" => /\ h \in Callers
                                    /\ Callee(h, d)[1] \notin {"reg", "features"}
                                    /\ Callee(h, d)[2] = "dump" => Callee(h, d)[1] = "scan"
<1>1. \/ h = "handle_reg_get" /\ Callee(h, d) = <<"reg", "dump">>
      \/ h \in Callers /\ Callee(h, d) \in Callees \ {<<"reg", "dump">>}
  BY CalleeCases DEF Callers, Callees
<1> QED BY <1>1 DEF Callees, Callers

\* __handle_cmd() finds it in the table, by section and name.
LEMMA SubcommandFound ==
  ASSUME NEW w \in Seq(AllWords), Len(w) >= 2, NEW by, NEW e \in Callees, w[1] = e[1], w[2] = e[2],
         by \in IF e[1] = "reg" THEN {"none"} ELSE {"dev", "wdev"},
         Len(w) > 2 => (e[2] \notin {"get_bss", "dump"} \/ e[1] = "scan"),
         NEW r \in Found(by, w)
  PROVE  /\ r.c \in Table /\ r.c.parent = e[1] /\ r.c.name = e[2] /\ r.c.cmd # "0"
         /\ r.c.handler \notin Goers
         /\ e = <<"scan", "dump">> => r.c.handler = "handle_scan_dump"
         /\ e = <<"reg", "dump">> => r.c.handler = "handle_reg_dump"
<1> DEFINE args == Tail(w)
           matches == Sections(by, w[1])
<1>1. args \in Seq(AllWords) /\ Len(args) = Len(w) - 1
  BY TailOf
<1>2. args[1] = w[2] /\ (Len(args) > 1 => Len(w) > 2)
  BY <1>1
<1>3. args # <<>>
  <2>1. Len(args) > 0
    BY <1>1
  <2> HIDE DEF args
  <2> QED BY <1>1, <2>1
<1>4. matches # {} /\ \A s \in matches : s.name = w[1]
  <2>1. \E s \in Table : s.parent = "" /\ s.name = e[1]
    BY CalleesAssumption, Zenon DEF CalleesReachable
  <2>2. PICK s \in Table : s.parent = "" /\ s.name = w[1]
    BY <2>1, Zenon
  <2> QED BY <2>2, Zenon DEF Sections
<1>5. PICK c0 \in Table : c0.parent = e[1] /\ c0.name = e[2]
  BY CalleesAssumption, Zenon DEF CalleesReachable
<1>6. \A c \in Table : (c.parent = e[1] /\ c.name = e[2]) =>
            /\ c.handler \notin Goers \cup {"NULL"} /\ c.cmd # "0"
            /\ c.args = (e[2] \notin {"get_bss", "dump"} \/ e[1] = "scan")
            /\ c.idby = IF e[1] = "reg" THEN "none" ELSE "dev"
            /\ e = <<"scan", "dump">> => c.handler = "handle_scan_dump"
            /\ e = <<"reg", "dump">> => c.handler = "handle_reg_dump"
  BY CalleesAssumption, Zenon DEF CalleesReachable
<1> HIDE DEF args, matches
<1>7. Fits(c0, by)
  BY <1>5, <1>6 DEF Fits
<1>8. \A s \in matches : c0 \in Subcommands(s, by, args)
  <2> SUFFICES ASSUME NEW s \in matches PROVE c0 \in Subcommands(s, by, args)
    OBVIOUS
  <2>1. c0.handler # "NULL"
    BY <1>5, <1>6, Zenon
  <2>2. s.name = e[1] /\ args[1] = e[2]
    BY <1>2, <1>4
  <2>3. Len(args) > 1 => c0.args
    BY <1>2, <1>5, <1>6
  <2> QED BY <1>3, <1>5, <1>7, <2>1, <2>2, <2>3, Zenon DEF Subcommands
<1>9. PICK s \in matches : \E c \in Subcommands(s, by, args) : r = [c |-> c, args |-> Tail(args)]
  BY <1>4, <1>8, Zenon DEF Found, matches, args
<1>10. PICK c \in Subcommands(s, by, args) : r = [c |-> c, args |-> Tail(args)]
  BY <1>9
<1>11. r.c = c
  BY <1>10
<1>12. c \in Table /\ c.parent = s.name /\ c.name = args[1]
  BY Zenon DEF Subcommands
<1> QED BY <1>2, <1>4, <1>6, <1>11, <1>12, Zenon
\* The command that a handler calls is found.
LEMMA CalleeFound ==
  ASSUME NEW f, Shape(f), f.at \notin {"find", "command"}, Callee(f.c.handler, f.done) # NoCallee,
         NEW g, Shape(g), g.at = "command", Calls(f, g),
         NEW r \in Found(By(g.id), Behind(g.id, g.argv))
  PROVE  /\ r.c \in Table /\ IsCallee(r.c, Callee(f.c.handler, f.done))
         /\ r.c.handler \notin Goers
         /\ (f.c.handler = "handle_scan_combined" /\ f.done = 2) => r.c.handler = "handle_scan_dump"
         /\ f.c.handler = "handle_reg_get" => r.c.handler = "handle_reg_dump"
<1> DEFINE h == f.c.handler
           e == Callee(h, f.done)
           w == Behind(g.id, g.argv)
           by == By(g.id)
<1>1. CASE h = "handle_info"
  <2>1. e = <<"features", "-q">>
    BY <1>1, CalleeCases DEF e
  <2>2. g.id = "none" /\ g.argv = <<e[1], e[2]>>
    BY <1>1, Zenon DEF Calls, e
  <2>3. w = <<"features", "-q">> /\ by = "none"
    BY <2>1, <2>2 DEF Behind, By
  <2> HIDE DEF e
  <2>4. w[1] = "features" /\ Tail(w) # <<>>
    BY <2>3
  <2> DEFINE args == Tail(w)
             matches == Sections(by, w[1])
  <2>5. matches # {} /\ \A s \in matches : s \in Table /\ s.parent = "" /\ s.name = "features"
    <3>1. PICK s \in Table : s.parent = "" /\ s.name = "features"
      BY CalleesAssumption, Zenon DEF CalleesReachable
    <3> QED BY <2>4, <3>1, Zenon DEF Sections
  <2>6. /\ \A c \in Table : c.parent # "features"
        /\ \A c \in Table : (c.parent = "" /\ c.name = "features") =>
             c.handler = "handle_features" /\ c.cmd # "0" /\ c.args /\ c.idby = "none"
    BY CalleesAssumption, Zenon DEF CalleesReachable
  <2>7. \A s \in matches : Subcommands(s, by, args) = {} /\ Usable(s, by, args)
    <3> SUFFICES ASSUME NEW s \in matches
                 PROVE  Subcommands(s, by, args) = {} /\ Usable(s, by, args)
      OBVIOUS
    <3>1. s.name = "features" /\ s.handler = "handle_features" /\ s.args /\ s.idby = "none"
      BY <2>5, <2>6, Zenon
    <3>2. Subcommands(s, by, args) = {}
      BY <2>6, <3>1, Zenon DEF Subcommands
    <3>3. s.handler # "NULL"
      BY <3>1
    <3> HIDE DEF args, by
    <3> QED BY <2>3, <3>1, <3>2, <3>3, Zenon DEF Usable, Fits
  <2> HIDE DEF args, matches, by, w
  <2>8. PICK s \in matches : r = [c |-> s, args |-> args]
    BY <2>5, <2>7, Zenon DEF Found, matches, args, by, w
  <2>9. r.c = s
    BY <2>8
  <2>10. e[1] = "features"
    BY <2>1
  <2>11. r.c.handler \notin Goers
    <3>1. r.c.handler = "handle_features"
      BY <2>5, <2>6, <2>9, Zenon
    <3> QED BY <3>1 DEF Goers, Callers
  <2> QED BY <1>1, <2>5, <2>6, <2>9, <2>10, <2>11, Zenon DEF IsCallee, e
<1>2. CASE h # "handle_info"
  <2>1. /\ e \in Callees
        /\ h = "handle_reg_get" => e = <<"reg", "dump">>
        /\ h # "handle_reg_get" => /\ h \in Callers
                                   /\ e[1] \notin {"reg", "features"}
                                   /\ e[2] = "dump" => e[1] = "scan"
    BY <1>2, CalleeIn DEF e
  <2>2. g.argv \in Seq(AllWords)
    BY DEF Shape
  <2> HIDE DEF e
  <2>3. CASE h = "handle_reg_get"
    <3>1. g.id = "none" /\ g.argv = <<e[1], e[2]>>
      BY <2>3, Zenon DEF Calls, e
    <3>2. w = g.argv /\ by = "none"
      BY <3>1 DEF Behind, By
    <3>3. Len(w) = 2 /\ w[1] = e[1] /\ w[2] = e[2] /\ e[1] = "reg" /\ e[2] = "dump"
      BY <2>1, <2>3, <3>1, <3>2
    <3> HIDE DEF w, by
    <3>4. /\ by \in IF e[1] = "reg" THEN {"none"} ELSE {"dev", "wdev"}
          /\ w \in Seq(AllWords) /\ Len(w) >= 2 /\ ~(Len(w) > 2)
      BY <2>2, <3>2, <3>3
    <3>5. r \in Found(by, w)
      BY DEF by, w
    <3>6. /\ r.c \in Table /\ r.c.parent = e[1] /\ r.c.name = e[2] /\ r.c.cmd # "0"
          /\ r.c.handler \notin Goers
          /\ e = <<"reg", "dump">> => r.c.handler = "handle_reg_dump"
      <4>1. e \in Callees /\ w[1] = e[1] /\ w[2] = e[2]
        BY <2>1, <3>3
      <4>2. Len(w) > 2 => (e[2] \notin {"get_bss", "dump"} \/ e[1] = "scan")
        BY <3>4, Zenon
      <4>3. w \in Seq(AllWords) /\ Len(w) >= 2
        BY <3>4
      <4>4. by \in IF e[1] = "reg" THEN {"none"} ELSE {"dev", "wdev"}
        BY <3>4
      <4> QED BY <3>5, <4>1, <4>2, <4>3, <4>4, SubcommandFound
    <3>7. e[1] # "features" /\ h # "handle_scan_combined"
      BY <2>3, <3>3
    <3> QED BY <2>1, <2>3, <3>6, <3>7, Zenon DEF IsCallee, e
  <2>4. CASE h # "handle_reg_get"
    <3>1. /\ g.id = IF h = "handle_mgmt_dump" THEN "netdev" ELSE f.id
          /\ Len(g.argv) >= 3
          /\ g.argv[2] = e[1] /\ g.argv[3] = e[2]
          /\ e[2] = "get_bss" => Len(g.argv) = 3
      BY <1>2, <2>4, Zenon DEF Calls, e
    <3>2. By(f.id) \in {"dev", "wdev"}
      <4>1. f.c \in Table /\ Fits(f.c, By(f.id))
        BY Zenon DEF Shape
      <4>2. f.c.idby = "dev"
        BY <2>1, <2>4, <4>1, CalleesAssumption, Zenon DEF CalleesReachable
      <4> QED BY <4>1, <4>2, Zenon DEF Fits
    <3>3. By(g.id) \in {"dev", "wdev"}
      <4>1. By("netdev") = "dev"
        BY DEF By
      <4> QED BY <3>1, <3>2, <4>1
    <3>4. g.id # "none"
      <4>1. By("none") = "none"
        BY DEF By
      <4> QED BY <3>3, <4>1
    <3>5. w = Tail(g.argv)
      BY <3>4, Zenon DEF Behind
    <3>6. w \in Seq(AllWords) /\ Len(w) = Len(g.argv) - 1 /\ w[1] = g.argv[2] /\ w[2] = g.argv[3]
      <4> DEFINE a == g.argv
      <4>1. a \in Seq(AllWords) /\ Len(a) >= 3
        BY <2>2, <3>1
      <4> HIDE DEF a
      <4>2. Tail(a) \in Seq(AllWords) /\ Len(Tail(a)) = Len(a) - 1 /\ Tail(a)[1] = a[2] /\ Tail(a)[2] = a[3]
        BY <4>1
      <4> QED BY <3>5, <4>2 DEF a
    <3>7. Len(w) >= 2 /\ (e[2] = "get_bss" => ~(Len(w) > 2))
      <4> DEFINE n == Len(g.argv)
      <4>1. n \in Nat /\ n >= 3 /\ (e[2] = "get_bss" => n = 3) /\ Len(w) = n - 1
        BY <2>2, <3>1, <3>6
      <4> HIDE DEF n, w
      <4> QED BY <4>1
    <3>8. r \in Found(by, w)
      BY DEF by, w
    <3> HIDE DEF w
    <3>9. w[1] = e[1] /\ w[2] = e[2] /\ w \in Seq(AllWords)
      BY <3>1, <3>6, Zenon
    <3>10. by \in IF e[1] = "reg" THEN {"none"} ELSE {"dev", "wdev"}
      BY <2>1, <2>4, <3>3, Zenon
    <3>11. Len(w) > 2 => (e[2] \notin {"get_bss", "dump"} \/ e[1] = "scan")
      BY <2>1, <2>4, <3>7, Zenon
    <3> HIDE DEF by
    <3>12. /\ r.c \in Table /\ r.c.parent = e[1] /\ r.c.name = e[2] /\ r.c.cmd # "0"
           /\ r.c.handler \notin Goers
           /\ e = <<"scan", "dump">> => r.c.handler = "handle_scan_dump"
      BY <2>1, <3>7, <3>8, <3>9, <3>10, <3>11, SubcommandFound
    <3>13. e[1] # "features"
      BY <2>1, <2>4
    <3>14. (h = "handle_scan_combined" /\ f.done = 2) => e = <<"scan", "dump">>
      BY CalleeCases DEF e
    <3> QED BY <2>4, <3>12, <3>13, <3>14, Zenon DEF IsCallee, e
  <2> QED BY <2>3, <2>4
<1> QED BY <1>1, <1>2
-----------------------------------------------------------------------------
\* What register_handler() was told fits the request.
LEMMA RegisteredFits ==
  ASSUME NEW c \in Table, c.handler # "handle_commands",
         c.handler = "handle_reg_get" => registered = "print_reg_handler"
  PROVE  /\ c.cmd \in DOMAIN Printers => RegisteredBy(c) \in Printers[c.cmd]
         /\ c.handler = "handle_reg_dump" => RegisteredBy(c) = "print_reg_handler"
         /\ RegisteredBy(c) = "wait_event" => registered = "wait_event" /\ c.handler # "handle_scan_dump"
<1>1. /\ c.cmd \in DOMAIN Printers =>
           /\ c.name \notin {"recv", "recvbin"}
           /\ \/ c.handler = "handle_commands"
              \/ c.handler = "handle_reg_get" /\ c.cmd = "GET_REG"
              \/ c.handler \in DOMAIN PrinterOf /\ PrinterOf[c.handler] \in Printers[c.cmd]
      /\ c.handler \in {"handle_reg_get", "handle_reg_dump"} => c.cmd \in DOMAIN Printers
      /\ {"handle_scan_dump", "handle_reg_dump"} \subseteq DOMAIN PrinterOf
      /\ "handle_reg_get" \notin DOMAIN PrinterOf
      /\ PrinterOf["handle_reg_dump"] = "print_reg_handler"
      /\ \A h \in DOMAIN PrinterOf : PrinterOf[h] # "wait_event"
      /\ "print_reg_handler" \in Printers["GET_REG"]
  BY PrintersAssumption, Zenon DEF PrintersFit
<1>2. c.cmd \in DOMAIN Printers => RegisteredBy(c) \in Printers[c.cmd]
  <2> SUFFICES ASSUME c.cmd \in DOMAIN Printers PROVE RegisteredBy(c) \in Printers[c.cmd]
    OBVIOUS
  <2>1. CASE c.handler = "handle_reg_get" /\ c.cmd = "GET_REG"
    <3>1. RegisteredBy(c) = registered
      BY <1>1, <2>1, Zenon DEF RegisteredBy
    <3> QED BY <1>1, <2>1, <3>1, Zenon
  <2>2. CASE c.handler \in DOMAIN PrinterOf /\ PrinterOf[c.handler] \in Printers[c.cmd]
    <3>1. RegisteredBy(c) = PrinterOf[c.handler]
      BY <1>1, <2>2, Zenon DEF RegisteredBy
    <3> QED BY <2>2, <3>1, Zenon
  <2> QED BY <1>1, <2>1, <2>2, Zenon
<1>3. c.handler = "handle_reg_dump" => RegisteredBy(c) = "print_reg_handler"
  BY <1>1, Zenon DEF RegisteredBy
<1>4. ASSUME RegisteredBy(c) = "wait_event"
      PROVE  registered = "wait_event" /\ c.handler # "handle_scan_dump"
  <2>1. c.name \notin {"recv", "recvbin"}
    BY <1>4 DEF RegisteredBy
  <2>2. c.handler \notin DOMAIN PrinterOf
    BY <1>1, <1>4, <2>1, Zenon DEF RegisteredBy
  <2>3. RegisteredBy(c) = registered
    BY <2>1, <2>2, Zenon DEF RegisteredBy
  <2> QED BY <1>1, <1>4, <2>2, <2>3, Zenon
<1> QED BY <1>2, <1>3, <1>4

\* A handler that has called another is as it was.
LEMMA CallingStays ==
  ASSUME NEW f, NEW r, NEW s, Frame(f, r, s), f.at = "calling", NEW r2, NEW s2
  PROVE  Frame(f, r2, s2)
<1>1. Shape(f) /\ Place(f, s)
  BY DEF Frame
<1>2. Place(f, s2)
  BY <1>1 DEF Place
<1>3. Prints(f, r2)
  BY DEF Prints
<1> QED BY <1>1, <1>2, <1>3 DEF Frame

\* One call is as it should be,
LEMMA OneCall ==
  ASSUME NEW h, calls' = <<h>>, Frame(h, registered', sent'), Outer(h)', h.at # "calling"
  PROVE  CallsOK'
<1>1. calls'[1] = h
  OBVIOUS
<1> QED BY <1>1, Zenon DEF CallsOK

\* and so are two.
LEMMA TwoCalls ==
  ASSUME NEW f, NEW h, calls' = <<f, h>>, Frame(f, registered', sent'), Outer(f)',
         Frame(h, registered', sent'), Inner(f, h)
  PROVE  CallsOK'
<1>1. calls'[1] = f /\ calls'[2] = h
  OBVIOUS
<1> QED BY <1>1, Zenon DEF CallsOK

\* The call on top goes on.
LEMMA TopMovesOne ==
  ASSUME IInv, NEW f, calls = <<f>>, Frame(f, registered, sent), NEW h, calls' = <<h>>,
         Frame(h, registered', sent'), h.at # "calling", Outer(h)',
         heap' = (heap + h.owns) - f.owns,
         (registered' = "wait_event" /\ registered # "wait_event") => Listened(h),
         Listened(f) => Listened(h),
         exit' = exit, DataOK', ArgsOK'
  PROVE  IInv'
<1>1. Len(calls) = 1 /\ calls[1] = f /\ calls # <<>> /\ Len(calls') = 1 /\ calls'[1] = h /\ calls' # <<>>
  OBVIOUS
<1>2. exit = Running /\ heap = f.owns
  BY <1>1 DEF IInv, ExitOK, HeapOK
<1>3. h.owns \in 0..3 /\ f.owns \in 0..3
  BY DEF Frame, Shape
<1>4. CallsOK'
  BY OneCall
<1>5. WaitOK'
  BY <1>1 DEF WaitOK, IInv
<1>6. HeapOK'
  <2>1. heap' = h.owns
    BY <1>2, <1>3
  <2>2. heap' \in 0..6 /\ Len(calls') # 2
    BY <1>1, <1>3, <2>1
  <2>3. exit' = Running
    BY <1>2
  <2> QED BY <1>1, <2>1, <2>2, <2>3, Zenon DEF HeapOK
<1>7. ExitOK'
  <2>1. exit' = Running /\ Running # "0"
    BY <1>2 DEF Running
  <2> QED BY <1>1, <2>1, Zenon DEF ExitOK
<1> QED BY <1>4, <1>5, <1>6, <1>7 DEF IInv

\* The called command moves; the handler that called it waits.
LEMMA TopMovesTwo ==
  ASSUME IInv, NEW f, NEW g, calls = <<f, g>>, Frame(f, registered, sent), Outer(f),
         Frame(g, registered, sent), Inner(f, g), NEW h, calls' = <<f, h>>,
         Frame(h, registered', sent'), Inner(f, h),
         heap' = (heap + h.owns) - g.owns,
         registered' = "wait_event" => registered = "wait_event",
         exit' = exit, line' = line, ran' = ran, DataOK', ArgsOK'
  PROVE  IInv'
<1>1. /\ Len(calls) = 2 /\ calls[1] = f /\ calls[2] = g /\ calls # <<>> /\ Len(calls') = 2
      /\ calls'[1] = f /\ calls'[2] = h /\ calls' # <<>>
  OBVIOUS
<1>2. exit = Running /\ heap = f.owns + g.owns
  BY <1>1 DEF IInv, ExitOK, HeapOK
<1>3. h.owns \in 0..3 /\ f.owns \in 0..3 /\ g.owns \in 0..3
  BY DEF Frame, Shape
<1>4. Frame(f, registered', sent')
  <2>1. f.at = "calling"
    BY DEF Inner
  <2> QED BY <2>1, CallingStays
<1>5. Outer(f)'
  BY DEF Outer
<1>6. CallsOK'
  BY <1>4, <1>5, TwoCalls
<1>7. WaitOK'
  BY <1>1 DEF WaitOK, IInv
<1>8. HeapOK'
  <2>1. heap' = f.owns + h.owns
    BY <1>2, <1>3
  <2>2. heap' \in 0..6 /\ Len(calls') # 1
    BY <1>1, <1>3, <2>1
  <2>3. exit' = Running
    BY <1>2
  <2> QED BY <1>1, <2>1, <2>2, <2>3, Zenon DEF HeapOK
<1>9. ExitOK'
  <2>1. exit' = Running /\ Running # "0"
    BY <1>2 DEF Running
  <2> QED BY <1>1, <2>1, Zenon DEF ExitOK
<1> QED BY <1>6, <1>7, <1>8, <1>9 DEF IInv

\* __handle_cmd() returns to main().
LEMMA MainReturns ==
  ASSUME IInv, NEW f, calls = <<f>>, NEW r, Returns(r), line' = line, sent' = sent,
         r \in Ends \cup {"3"}, r \in {"0", "3"} => NoRequest \/ Kept(sent),
         \/ heap' = 0
         \/ /\ heap' = 1 /\ ran' = <<f.c>> /\ f.c.handler = "handle_cac"
            /\ Len(Identified(line.words).argv) < 3,
         DataOK', ArgsOK'
  PROVE  IInv'
<1>1. calls' = <<>> /\ exit' = IF r = "3" THEN "0" ELSE r
  BY TopOfOne DEF Returns
<1>2. exit' \in Ends /\ (exit' = "0" => r \in {"0", "3"})
  BY <1>1, EndsAre
<1>3. CallsOK' /\ WaitOK'
  BY <1>1, Zenon DEF CallsOK, WaitOK
<1>4. Len(calls') = 0
  BY <1>1
<1>5. HeapOK'
  BY <1>4 DEF HeapOK
<1>6. ExitOK'
  <2>1. exit' # Running
    BY <1>2, EndsAre DEF Running
  <2>2. exit' = "0" => NoRequest' \/ Kept(sent')
    BY <1>2 DEF NoRequest
  <2> QED BY <1>1, <1>2, <2>1, <2>2, Zenon DEF ExitOK
<1> QED BY <1>3, <1>5, <1>6 DEF IInv
\* The fields of a call that has changed.
LEMMA AtFields ==
  ASSUME NEW f, Record(f), NEW t, NEW h, h = [f EXCEPT !.at = t]
  PROVE  /\ Record(h) /\ h.at = t /\ h.id = f.id /\ h.argv = f.argv /\ h.c = f.c /\ h.args = f.args
         /\ h.done = f.done /\ h.err = f.err /\ h.owns = f.owns
  BY DEF Record

\* A call that is set somewhere else with a result.
LEMMA ErrFields ==
  ASSUME NEW f, Record(f), NEW t, NEW r, NEW h, h = [f EXCEPT !.at = t, !.err = r]
  PROVE  /\ Record(h) /\ h.at = t /\ h.id = f.id /\ h.argv = f.argv /\ h.c = f.c /\ h.args = f.args
         /\ h.done = f.done /\ h.err = r /\ h.owns = f.owns
  BY DEF Record

\* A handler that is gone on with.
LEMMA ResumedFields ==
  ASSUME NEW f, Record(f), NEW r, NEW h, h = [f EXCEPT !.at = "handler", !.err = r, !.done = @ + 1]
  PROVE  /\ Record(h) /\ h.at = "handler" /\ h.id = f.id /\ h.argv = f.argv /\ h.c = f.c
         /\ h.args = f.args /\ h.done = f.done + 1 /\ h.err = r /\ h.owns = f.owns
  BY DEF Record

\* A call that has allocated.
LEMMA OwnsFields ==
  ASSUME NEW f, Record(f), NEW n, NEW h, h = [f EXCEPT !.owns = @ + n]
  PROVE  /\ Record(h) /\ h.at = f.at /\ h.id = f.id /\ h.argv = f.argv /\ h.c = f.c
         /\ h.args = f.args /\ h.done = f.done /\ h.err = f.err /\ h.owns = f.owns + n
  BY DEF Record

\* A call keeps its command and its arguments.
LEMMA ShapeStays ==
  ASSUME NEW f, Shape(f), NEW h, Record(h), f.at \notin {"find", "command"},
         h.at \in Places, h.at \notin {"find", "command"}, h.id = f.id, h.argv = f.argv, h.c = f.c,
         h.args = f.args, h.done \in Nat, h.owns \in 0..3
  PROVE  Shape(h)
<1>1. f.at # "find" /\ h.at # "find"
  OBVIOUS
<1>2. /\ h.id \in Idents /\ h.argv \in Seq(AllWords) /\ h.argv # <<>>
      /\ h.args \in Seq(AllWords) /\ h.c \in Table /\ Fits(h.c, By(h.id))
  BY Zenon DEF Shape
<1>3. /\ h.id # "none" => Len(h.argv) > 1
      /\ ~Negative(h.id, h.argv)
      /\ h.c.handler = "handle_ftm_req" => Len(h.argv) > 2
  BY <1>1, Zenon DEF Shape
<1> QED BY <1>1, <1>2, <1>3, Zenon DEF Shape

\* The handler goes on when the call that it made returns.
LEMMA ResumedBy ==
  ASSUME NEW f, Shape(f), Callee(f.c.handler, f.done) # NoCallee, NEW r \in Ends, NEW s, r = "0" => Kept(s)
  PROVE  Resumed([f EXCEPT !.at = "handler", !.err = r, !.done = @ + 1], s)
<1> DEFINE f2 == [f EXCEPT !.at = "handler", !.err = r, !.done = @ + 1]
<1>1. f2.c = f.c /\ f2.err = r /\ f2.done = f.done + 1 /\ f.done \in Nat
  BY DEF Shape
<1> HIDE DEF f2
<1>2. Answer(f2, s)
  BY <1>1 DEF Answer
<1>3. \/ f.c.handler = "handle_scan_combined" /\ f.done \in {0, 2}
      \/ f.c.handler = "iw_connect" /\ f.done = 1
      \/ f.c.handler = "handle_link" /\ f.done \in {0, 1}
      \/ f.c.handler = "handle_cac" /\ f.done = 0
      \/ f.c.handler = "handle_ftm_req" /\ f.done = 0
      \/ f.c.handler = "handle_mgmt_dump"
      \/ f.c.handler \in {"handle_info", "handle_reg_get"} /\ f.done = 0
  BY CalleeCases
<1>4. Resumed(f2, s)
  BY <1>1, <1>2, <1>3 DEF Resumed
<1> QED BY <1>4 DEF f2

\* A called command returns into the handler that called it.
LEMMA CallReturns ==
  ASSUME IInv, NEW f, NEW g, calls = <<f, g>>, Frame(f, registered, sent), Outer(f),
         Frame(g, registered, sent), Inner(f, g),
         NEW r, Returns(r), line' = line, ran' = ran, registered' = registered, sent' = sent,
         r \in Ends, r = "0" => Kept(sent),
         (f.c.handler = "handle_reg_get" /\ r = "EOPNOTSUPP") => registered = "print_reg_handler",
         heap' = heap - g.owns, DataOK', ArgsOK'
  PROVE  IInv'
<1>0. PICK f2 : f2 = [f EXCEPT !.at = "handler", !.err = r, !.done = @ + 1]
  OBVIOUS
<1>1. /\ Len(calls) = 2 /\ calls[1] = f /\ calls[2] = g /\ calls # <<>> /\ Below = <<f>>
  <2>1. Len(calls) = 2 /\ calls[1] = f /\ calls[2] = g /\ calls # <<>>
    OBVIOUS
  <2> QED BY <2>1, TopOfTwo
<1>2. exit = Running /\ heap = f.owns + g.owns /\ Running # "0"
  BY <1>1 DEF IInv, ExitOK, HeapOK, Running
<1>3. f.owns \in 0..3 /\ g.owns \in 0..3 /\ Shape(f) /\ f.at = "calling"
  BY DEF Frame, Shape, Inner
<1>4. exit' = exit /\ calls' = <<f2>>
  <2>1. Len(<<f>>) = 1 /\ <<f>> # <<>>
    OBVIOUS
  <2>2. /\ calls' = [<<f>> EXCEPT ![1].at = "handler", ![1].err = r, ![1].done = @ + 1]
        /\ exit' = exit
    BY <1>1, <2>1 DEF Returns
  <2> QED BY <1>0, <2>2
<1>5. /\ f2.c = f.c /\ f2.err = r /\ f2.done = f.done + 1 /\ f2.id = f.id /\ f2.argv = f.argv
      /\ f2.at = "handler" /\ f2.owns = f.owns /\ f2.args = f.args
  BY <1>0, <1>3 DEF Shape, Record
<1>6. Callee(f.c.handler, f.done) # NoCallee
  BY <1>3 DEF Frame, Place
<1>7. Resumed(f2, sent)
  BY <1>0, <1>3, <1>6, ResumedBy
<1>8. Shape(f2)
  <2>1. Record(f2)
    <3>1. Record(f)
      BY <1>3, Zenon DEF Shape
    <3> QED BY <1>0, <3>1, ResumedFields
  <2>2. f2.at \in Places /\ f2.done \in Nat
    BY <1>3, <1>5 DEF Shape, Places
  <2>3. f.at \notin {"find", "command"} /\ f2.at \notin {"find", "command"}
    BY <1>3, <1>5
  <2> QED BY <1>3, <1>5, <2>1, <2>2, <2>3, ShapeStays
<1>9. f2.done # 0
  BY <1>3, <1>5 DEF Shape
<1>10. f.c.handler = "handle_cac" => f.owns = 1 /\ Len(f.argv) >= 3
  BY <1>3 DEF Frame, Place
<1>11. Place(f2, sent)
  <2> QED BY <1>5, <1>7, <1>9, <1>10, SMT DEF Place
<1>12. Prints(f2, registered)
  <2> QED BY <1>5 DEF Prints
<1>13. Frame(f2, registered', sent')
  BY <1>8, <1>11, <1>12 DEF Frame
<1>14. Outer(f2)'
  <2>1. f.at \notin {"find", "command"} /\ f2.at \notin {"find", "command"}
    BY <1>3, <1>5
  <2> QED BY <1>5, <2>1, Zenon DEF Outer
<1>15. Listened(f) => Listened(f2)
  <2> QED BY <1>3, <1>5 DEF Listened, Shape
<1>16. calls'[1] = f2 /\ calls' # <<>> /\ Len(calls') = 1
  BY <1>4
<1>17. CallsOK'
  <2>1. f2.at # "calling"
    BY <1>5
  <2> QED BY <1>4, <1>13, <1>14, <2>1, OneCall
<1>18. WaitOK'
  BY <1>1, <1>15, <1>16 DEF WaitOK, IInv
<1>19. HeapOK'
  <2>1. heap' = f2.owns
    BY <1>2, <1>3, <1>5
  <2>2. heap' \in 0..6 /\ Len(calls') # 2
    BY <1>3, <1>5, <1>16, <2>1
  <2> QED BY <1>2, <1>4, <1>16, <2>1, <2>2, Zenon DEF HeapOK
<1>20. ExitOK'
  BY <1>2, <1>4, <1>16, Zenon DEF ExitOK
<1> QED BY <1>17, <1>18, <1>19, <1>20 DEF IInv-----------------------------------------------------------------------------
\* A step outside the parsers leaves their variables alone.
LEMMA ArgsStay ==
  ASSUME ArgsOK, UNCHANGED argVars
  PROVE  ArgsOK'
<1>1. p' = p /\ cmd' = cmd /\ at' = at /\ steps' = steps
  BY DEF argVars
<1>2. Known(cmd, at, p) => Known(cmd, at, p)'
  BY <1>1, Zenon DEF Known
<1> QED BY <1>1, <1>2, Zenon DEF ArgsOK

\* Neither the command line nor what was run and sent changes.
LEMMA DataStays ==
  ASSUME DataOK, line' = line, ran' = ran, sent' = sent
  PROVE  DataOK'
  BY Zenon DEF DataOK

\* No command has no handler.
LEMMA NoCommandIs == NoCommand.handler = "NULL"
  BY DEF NoCommand, Section, Hidden, Bare, Toplevel, Command

\* main()
LEMMA StartKeeps ==
  ASSUME IInv, Start
  PROVE  IInv'
<1> USE DEF IInv
<1>1. line' = line /\ ran' = ran /\ registered' = registered /\ sent' = sent /\ heap' = heap
  BY DEF Start
<1>2. ArgsOK' /\ DataOK'
  <2>1. UNCHANGED argVars
    BY DEF Start
  <2> QED BY <1>1, <2>1, ArgsStay, DataStays
<1>3. exit = Running /\ calls = <<>> /\ heap = 0 /\ ran = <<>> /\ registered = "none"
  BY DEF Start, ExitOK
<1>4. CASE calls' = <<>> /\ exit' \in {"0", "1"} /\ (exit' = "0" => NoRequest)
  <2>1. CallsOK' /\ WaitOK'
    BY <1>4, Zenon DEF CallsOK, WaitOK
  <2>2. HeapOK'
    <3>1. Len(calls') = 0
      BY <1>4
    <3> QED BY <1>1, <1>3, <3>1 DEF HeapOK
  <2>3. ExitOK'
    <3>1. exit' \in Ends /\ exit' # Running
      BY <1>4, EndsAre DEF Running
    <3>2. exit' = "0" => NoRequest'
      BY <1>1, <1>4 DEF NoRequest
    <3> QED BY <1>4, <3>1, <3>2, Zenon DEF ExitOK
  <2> QED BY <1>2, <2>1, <2>2, <2>3
<1>5. CASE /\ line.words # <<>> /\ exit' = exit
           /\ calls' = <<CallOf(Identified(line.words).id, Identified(line.words).argv)>>
  <2>1. PICK h : h = CallOf(Identified(line.words).id, Identified(line.words).argv)
    OBVIOUS
  <2>2. calls' = <<h>> /\ Len(calls') = 1 /\ calls'[1] = h /\ calls' # <<>>
    BY <1>5, <2>1
  <2>3. /\ Record(h) /\ h.id = Identified(line.words).id /\ h.argv = Identified(line.words).argv
        /\ h.c = NoCommand /\ h.args = <<>> /\ h.at = "find" /\ h.done = 0 /\ h.owns = 0
    BY <2>1 DEF CallOf, Record
  <2>4. line.words \in Seq(AllWords)
    BY LineWords DEF DataOK
  <2>5. /\ Identified(line.words).id \in Idents
        /\ Identified(line.words).argv \in Seq(AllWords) /\ Identified(line.words).argv # <<>>
    BY <1>5, <2>4, IdentifiedWords
  <2>6. Shape(h)
    <3>1. <<>> \in Seq(AllWords) /\ "find" \in Places
      BY DEF Places
    <3>2. h.c.handler # "handle_ftm_req"
      BY <2>3, NoCommandIs
    <3> QED BY <2>3, <2>5, <3>1, <3>2 DEF Shape
  <2>7. Place(h, sent) /\ Prints(h, registered)
    <3>1. h.c.handler \notin {"handle_cac", "handle_reg_dump", "handle_reg_get"}
      BY <2>3, NoCommandIs
    <3>2. Place(h, sent)
      BY <2>3, <3>1 DEF Place
    <3>3. Prints(h, registered)
      BY <2>3, <3>1 DEF Prints
    <3> QED BY <3>2, <3>3
  <2>8. Frame(h, registered', sent')
    BY <1>1, <2>6, <2>7 DEF Frame
  <2>9. Outer(h)'
    BY <1>1, <1>3, <2>3 DEF Outer
  <2>10. CallsOK'
    <3>1. h.at # "calling"
      BY <2>3
    <3> QED BY <2>2, <2>8, <2>9, <3>1, OneCall
  <2>11. WaitOK'
    BY <1>1, <1>3 DEF WaitOK
  <2>12. HeapOK'
    <3>1. heap' = h.owns /\ heap' \in 0..6 /\ Len(calls') # 2 /\ exit' = Running
      BY <1>1, <1>3, <1>5, <2>2, <2>3
    <3> QED BY <2>2, <3>1, Zenon DEF HeapOK
  <2>13. ExitOK'
    <3>1. exit' = Running /\ Running # "0"
      BY <1>3, <1>5 DEF Running
    <3> QED BY <2>2, <3>1, Zenon DEF ExitOK
  <2> QED BY <1>2, <2>10, <2>11, <2>12, <2>13
<1>6. \/ calls' = <<>> /\ exit' \in {"0", "1"} /\ (exit' = "0" => NoRequest)
      \/ /\ line.words # <<>> /\ exit' = exit
         /\ calls' = <<CallOf(Identified(line.words).id, Identified(line.words).argv)>>
  <2>1. (line.words = <<>> \/ line.words[1] \in {"help", "--version"}) => NoRequest
    BY Zenon DEF NoRequest
  <2> QED BY <1>3, <2>1 DEF Start
<1> QED BY <1>4, <1>5, <1>6
\* The device is found; NoCommand is what ran holds without one.
LEMMA NegativeGone ==
  ASSUME NEW id \in Idents, NEW argv, argv # <<>>, NEW d \in Device(id, argv[1]), d # "error", d # "1",
         id # "none" => Len(argv) > 1
  PROVE  d = (IF Negative(id, argv) THEN "0" ELSE "go")
<1>1. CASE id = "none"
  <2>1. d = "go"
    BY <1>1 DEF Device
  <2>2. ~Negative(id, argv)
    BY <1>1 DEF Negative
  <2> QED BY <2>1, <2>2
<1>2. CASE id = "netdev" \/ id = "phy_name"
  <2>1. d \in LookedUp(argv[1] \in Netdevs) \cup LookedUp(argv[1] \in Phys)
    BY <1>2 DEF Device
  <2>2. d = "go"
    BY <2>1 DEF LookedUp
  <2>3. ~Negative(id, argv)
    BY <1>2 DEF Negative
  <2> QED BY <2>2, <2>3
<1>3. CASE id \in {"phy_idx", "wdev"}
  <2>1. Device(id, argv[1]) = IF argv[1] \notin DOMAIN IndexOf(id) THEN {"1"}
                              ELSE IF IndexOf(id)[argv[1]] < 0 THEN {"0", "error"} ELSE {"go"}
    BY <1>3 DEF Device
  <2>2. argv[1] \in DOMAIN IndexOf(id)
    BY <2>1
  <2>3. Len(argv) > 1
    BY <1>3
  <2>4. Negative(id, argv) <=> IndexOf(id)[argv[1]] < 0
    BY <1>3, <2>2, <2>3, Zenon DEF Negative
  <2>5. CASE IndexOf(id)[argv[1]] < 0
    <3>1. d \in {"0", "error"}
      BY <2>1, <2>2, <2>5, Zenon
    <3> QED BY <2>4, <2>5, <3>1
  <2>6. CASE ~(IndexOf(id)[argv[1]] < 0)
    <3>1. d \in {"go"}
      BY <2>1, <2>2, <2>6, Zenon
    <3> QED BY <2>4, <2>6, <3>1
  <2> QED BY <2>5, <2>6
<1> QED BY <1>1, <1>2, <1>3 DEF Idents

\* What comes of the name of a device.
LEMMA DeviceEnds ==
  ASSUME NEW id, NEW word, NEW d \in Device(id, word)
  PROVE  d \in {"go", "error", "1", "0"}
<1>1. \A b : LookedUp(b) \subseteq {"go", "error"}
  BY DEF LookedUp
<1>2. CASE id \in {"none", "netdev", "phy_name"}
  BY <1>1, <1>2 DEF Device
<1>3. CASE id \notin {"none", "netdev", "phy_name"}
  <2>1. Device(id, word) = IF word \notin DOMAIN IndexOf(id) THEN {"1"}
                           ELSE IF IndexOf(id)[word] < 0 THEN {"0", "error"} ELSE {"go"}
    BY <1>3 DEF Device
  <2> QED BY <2>1, Zenon
<1> QED BY <1>2, <1>3
\* A call that gets a device its caller could use is not given a negative number.
LEMMA InnerDevice ==
  ASSUME NEW f, Shape(f), f.at = "calling", NEW g, Calls(f, g)
  PROVE  ~Negative(g.id, g.argv)
<1> SUFFICES ASSUME Negative(g.id, g.argv) PROVE FALSE
  OBVIOUS
<1>1. /\ g.id \in {"phy_idx", "wdev"} /\ g.argv[1] \in DOMAIN IndexOf(g.id)
      /\ IndexOf(g.id)[g.argv[1]] < 0
  BY Zenon DEF Negative
<1>2. g.id = f.id /\ g.argv[1] = f.argv[1]
  <2>1. g.id # "none" /\ g.id # "netdev"
    BY <1>1
  <2> QED BY <2>1, Zenon DEF Calls
<1>3. f.id # "none" /\ f.at # "find"
  BY <1>1, <1>2
<1>4. Len(f.argv) > 1 /\ ~Negative(f.id, f.argv)
  BY <1>3, Zenon DEF Shape
<1> QED BY <1>1, <1>2, <1>4, Zenon DEF Negative

\* A device was found: the words are still there, and no index is negative.
LEMMA FindDeviceShape ==
  ASSUME NEW f, Shape(f), f.at = "find", NEW h, h = [f EXCEPT !.at = "command"],
         ~Negative(f.id, f.argv), f.id # "none" => Len(f.argv) > 1
  PROVE  /\ Shape(h) /\ h.at = "command" /\ h.id = f.id /\ h.argv = f.argv /\ h.c = NoCommand
         /\ h.owns = 0 /\ f.owns = 0 /\ h.done = 0
         /\ \A r, s : Frame(h, r, s)
<1>1. Record(f)
  BY Zenon DEF Shape
<1>2. /\ Record(h) /\ h.at = "command" /\ h.id = f.id /\ h.argv = f.argv /\ h.c = f.c /\ h.args = f.args
      /\ h.done = f.done /\ h.err = f.err /\ h.owns = f.owns
  BY <1>1, AtFields
<1>3. f.at \in {"find", "command"}
  OBVIOUS
<1>4. /\ f.id \in Idents /\ f.argv \in Seq(AllWords) /\ f.argv # <<>> /\ f.args \in Seq(AllWords)
      /\ f.done = 0 /\ f.owns = 0 /\ f.c = NoCommand
  BY <1>3, Zenon DEF Shape
<1>5. h.c.handler = "NULL" /\ h.at \in Places
  BY <1>2, <1>4, NoCommandIs DEF Places
<1>6. Shape(h)
  BY <1>2, <1>4, <1>5 DEF Shape
<1>7. \A r, s : Place(h, s) /\ Prints(h, r)
  BY <1>2, <1>5 DEF Place, Prints
<1> QED BY <1>2, <1>4, <1>6, <1>7 DEF Frame

\* __handle_cmd() looks for the device, called by main(),
LEMMA FindDeviceOne ==
  ASSUME IInv, FindDevice, NEW f, calls = <<f>>, Frame(f, registered, sent), Outer(f)
  PROVE  IInv'
<1>1. Top = f /\ Below = <<>> /\ \A g : Set(g) <=> calls' = <<g>>
  BY TopOfOne
<1>2. f.at = "find" /\ Shape(f) /\ line' = line /\ registered' = registered /\ sent' = sent
  BY <1>1 DEF FindDevice, Frame
<1>3. f.id = Identified(line.words).id /\ f.argv = Identified(line.words).argv /\ ran = <<>>
  BY <1>2 DEF Outer
<1>4. f.owns = 0 /\ f.argv \in Seq(AllWords) /\ f.argv # <<>> /\ f.id \in Idents
  BY <1>2 DEF Shape
<1>5. heap = 0 /\ exit = Running
  <2>1. Len(calls) = 1 /\ calls[1] = f /\ calls # <<>>
    OBVIOUS
  <2> QED BY <1>4, <2>1 DEF IInv, HeapOK, ExitOK
<1>6. UNCHANGED argVars
  BY <1>1 DEF FindDevice, Refuse
<1>7. ArgsOK'
  BY <1>6, ArgsStay DEF IInv
<1>8. CASE Len(f.argv) <= 1 /\ f.id # "none"
  <2>1. Returns("1") /\ heap' = heap /\ ran' = <<NoCommand>>
    BY <1>1, <1>8 DEF FindDevice, Refuse
  <2>2. DataOK'
    BY <1>2, <2>1 DEF DataOK, IInv
  <2>3. "1" \in Ends \cup {"3"} /\ ("1" \in {"0", "3"} => NoRequest \/ Kept(sent))
    BY EndsAre
  <2> QED BY <1>2, <1>5, <1>7, <2>1, <2>2, <2>3, MainReturns
<1>9. CASE ~(Len(f.argv) <= 1 /\ f.id # "none")
  <2>1. ran' = ran
    BY <1>1, <1>9 DEF FindDevice
  <2>2. DataOK'
    BY <1>2, <2>1, DataStays DEF IInv
  <2>3. f.id # "none" => Len(f.argv) > 1
    BY <1>4, <1>9
  <2>4. PICK d \in Device(f.id, f.argv[1]) :
          IF d # "go" THEN Refuse(d)
          ELSE Set([f EXCEPT !.at = "command"]) /\ UNCHANGED <<heap, exit, argVars>>
    BY <1>1, <1>9, Zenon DEF FindDevice
  <2>5. d \in {"go", "error", "1", "0"}
    BY DeviceEnds
  <2>6. (d # "error" /\ d # "1") => d = (IF Negative(f.id, f.argv) THEN "0" ELSE "go")
    BY <1>4, <2>3, NegativeGone
  <2>7. CASE d # "go"
    <3>1. Returns(d) /\ heap' = heap
      BY <2>4, <2>7 DEF Refuse
    <3>2. d \in Ends \cup {"3"}
      BY <2>5, <2>7, EndsAre
    <3>3. d \in {"0", "3"} => NoRequest \/ Kept(sent)
      <4>1. d \in {"0", "3"} => Negative(f.id, f.argv)
        BY <2>5, <2>6
      <4> QED BY <1>3, <4>1, Zenon DEF NoRequest
    <3> QED BY <1>2, <1>5, <1>7, <2>2, <3>1, <3>2, <3>3, MainReturns
  <2>8. CASE d = "go"
    <3>1. PICK h : h = [f EXCEPT !.at = "command"]
      OBVIOUS
    <3>2. calls' = <<h>> /\ heap' = heap /\ exit' = exit
      BY <1>1, <2>4, <2>8, <3>1
    <3>3. ~Negative(f.id, f.argv)
      BY <2>6, <2>8
    <3>4. /\ Shape(h) /\ h.at = "command" /\ h.id = f.id /\ h.argv = f.argv /\ h.c = NoCommand
          /\ h.owns = 0 /\ h.done = 0
          /\ \A r, s : Frame(h, r, s)
      BY <1>2, <2>3, <3>1, <3>3, FindDeviceShape
    <3>5. Frame(h, registered', sent') /\ h.at # "calling"
      BY <3>4
    <3>6. Outer(h)'
      BY <1>2, <1>3, <2>1, <3>4 DEF Outer
    <3>7. heap' = (heap + h.owns) - f.owns
      BY <1>4, <1>5, <3>2, <3>4
    <3>8. Listened(f) => Listened(h)
      BY <1>2 DEF Listened, Shape
    <3> QED BY <1>2, <1>7, <2>2, <3>2, <3>5, <3>6, <3>7, <3>8, TopMovesOne
  <2> QED BY <2>7, <2>8
<1> QED BY <1>8, <1>9
\* called by a handler,
LEMMA FindDeviceTwo ==
  ASSUME IInv, FindDevice, NEW f, NEW g, calls = <<f, g>>, Frame(f, registered, sent), Outer(f),
         Frame(g, registered, sent), Inner(f, g)
  PROVE  IInv'
<1>1. Top = g /\ Below = <<f>> /\ \A h : Set(h) <=> calls' = <<f, h>>
  BY TopOfTwo
<1>2. g.at = "find" /\ Shape(g) /\ Shape(f) /\ line' = line /\ registered' = registered /\ sent' = sent
  BY <1>1 DEF FindDevice, Frame
<1>3. Below # <<>>
  BY <1>1
<1>4. g.owns = 0 /\ g.argv \in Seq(AllWords) /\ g.argv # <<>> /\ g.id \in Idents
  BY <1>2 DEF Shape
<1>5. UNCHANGED argVars
  BY <1>1 DEF FindDevice, Refuse
<1>6. ran' = ran
  BY <1>1, <1>3, Zenon DEF FindDevice
<1>7. ArgsOK' /\ DataOK'
  BY <1>2, <1>5, <1>6, ArgsStay, DataStays DEF IInv
<1>8. heap \in Int
  BY DEF IInv, HeapOK
<1>9. ASSUME NEW r, Refuse(r), r \in {"1", "error"} PROVE IInv'
  <2>1. Returns(r) /\ heap' = heap - g.owns
    BY <1>4, <1>8, <1>9 DEF Refuse
  <2>2. r \in Ends /\ (r = "0" => Kept(sent)) /\ r # "EOPNOTSUPP"
    BY <1>9, EndsAre
  <2>3. (f.c.handler = "handle_reg_get" /\ r = "EOPNOTSUPP") => registered = "print_reg_handler"
    BY <2>2
  <2> QED BY <1>2, <1>6, <1>7, <2>1, <2>2, <2>3, CallReturns
<1>10. CASE Len(g.argv) <= 1 /\ g.id # "none"
  <2>1. Refuse("1")
    BY <1>1, <1>10 DEF FindDevice
  <2> QED BY <1>9, <2>1
<1>11. CASE ~(Len(g.argv) <= 1 /\ g.id # "none")
  <2>1. g.id # "none" => Len(g.argv) > 1
    BY <1>4, <1>11
  <2>2. PICK d \in Device(g.id, g.argv[1]) :
          IF d # "go" THEN Refuse(d)
          ELSE Set([g EXCEPT !.at = "command"]) /\ UNCHANGED <<heap, exit, argVars>>
    BY <1>1, <1>11, Zenon DEF FindDevice
  <2>3. d \in {"go", "error", "1", "0"}
    BY DeviceEnds
  <2>4. (d # "error" /\ d # "1") => d = (IF Negative(g.id, g.argv) THEN "0" ELSE "go")
    BY <1>4, <2>1, NegativeGone
  <2>5. ~Negative(g.id, g.argv)
    <3>1. f.at = "calling" /\ Calls(f, g)
      BY Zenon DEF Inner
    <3> QED BY <1>2, <3>1, InnerDevice
  <2>6. CASE d # "go"
    <3>1. Refuse(d) /\ d \in {"1", "error"}
      BY <2>2, <2>3, <2>4, <2>5, <2>6
    <3> QED BY <1>9, <3>1
  <2>7. CASE d = "go"
    <3>1. PICK h : h = [g EXCEPT !.at = "command"]
      OBVIOUS
    <3>2. calls' = <<f, h>> /\ heap' = heap /\ exit' = exit
      BY <1>1, <2>2, <2>7, <3>1
    <3>3. /\ Shape(h) /\ h.at = "command" /\ h.id = g.id /\ h.argv = g.argv /\ h.c = NoCommand
          /\ h.owns = 0 /\ h.done = 0
          /\ \A r, s : Frame(h, r, s)
      BY <1>2, <2>1, <2>5, <3>1, FindDeviceShape
    <3>4. Frame(h, registered', sent')
      BY <3>3
    <3>5. Inner(f, h)
      BY <3>3, Zenon DEF Inner, Calls
    <3>6. heap' = (heap + h.owns) - g.owns
      BY <1>4, <1>8, <3>2, <3>3
    <3>7. registered' = "wait_event" => registered = "wait_event"
      BY <1>2
    <3> QED BY <1>2, <1>6, <1>7, <3>2, <3>4, <3>5, <3>6, <3>7, TopMovesTwo
  <2> QED BY <2>6, <2>7
<1> QED BY <1>10, <1>11

\* or either.
LEMMA FindDeviceKeeps ==
  ASSUME IInv, FindDevice
  PROVE  IInv'
<1>1. calls # <<>> /\ CallsOK
  BY DEF FindDevice, IInv
<1>2. ASSUME NEW f, calls = <<f>>, Frame(f, registered, sent), Outer(f)
      PROVE  IInv'
  BY <1>2, FindDeviceOne
<1>3. ASSUME NEW f, NEW g, calls = <<f, g>>, Frame(f, registered, sent), Outer(f),
             Frame(g, registered, sent), Inner(f, g)
      PROVE  IInv'
  BY <1>3, FindDeviceTwo
<1> QED BY <1>1, <1>2, <1>3, CallsCases, Zenon
\* The command is found, and what it needs is allocated.
LEMMA BehindWords ==
  ASSUME NEW f, Shape(f), f.at # "find"
  PROVE  /\ Behind(f.id, f.argv) \in Seq(AllWords) /\ Behind(f.id, f.argv) # <<>>
         /\ f.id # "none" => Len(f.argv) = Len(Behind(f.id, f.argv)) + 1
<1>1. f.argv \in Seq(AllWords) /\ f.argv # <<>> /\ (f.id # "none" => Len(f.argv) > 1)
  BY Zenon DEF Shape
<1>2. CASE f.id = "none"
  BY <1>1, <1>2 DEF Behind
<1>3. CASE f.id # "none"
  <2>1. Behind(f.id, f.argv) = Tail(f.argv)
    BY <1>3, Zenon DEF Behind
  <2>2. Tail(f.argv) \in Seq(AllWords) /\ Len(Tail(f.argv)) = Len(f.argv) - 1 /\ Len(f.argv) > 1
    BY <1>1, <1>3, TailOf
  <2> DEFINE t == Tail(f.argv)
             n == Len(f.argv)
  <2>3. t \in Seq(AllWords) /\ Len(t) = n - 1 /\ n > 1 /\ n \in Nat
    BY <1>1, <2>2
  <2> HIDE DEF t, n
  <2>4. t # <<>> /\ n = Len(t) + 1
    BY <2>3
  <2> QED BY <2>1, <2>3, <2>4 DEF t, n
<1> QED BY <1>2, <1>3

\* Only a command of two words has the handler of measurement ftm_request.
LEMMA FtmWords ==
  ASSUME NEW f, Shape(f), f.at # "find", NEW r \in Found(By(f.id), Behind(f.id, f.argv)),
         r.c.handler = "handle_ftm_req"
  PROVE  Len(f.argv) > 2
<1> DEFINE w == Behind(f.id, f.argv)
<1>1. w \in Seq(AllWords) /\ w # <<>> /\ (f.id # "none" => Len(f.argv) = Len(w) + 1)
  BY BehindWords
<1> HIDE DEF w
<1>2. r.c # NoCommand
  BY NoCommandIs
<1>3. r.c \in Table /\ Fits(r.c, By(f.id)) /\ (r.c.parent = "" \/ Len(w) > 1)
  <2>1. r \in Found(By(f.id), w)
    BY DEF w
  <2> QED BY <1>1, <1>2, <2>1, FoundAre
<1>4. r.c.idby = "dev" /\ r.c.parent # ""
  <2>1. "handle_ftm_req" \in Callers
    BY DEF Callers
  <2> QED BY <1>3, <2>1, CalleesAssumption, Zenon DEF CalleesReachable
<1>5. f.id # "none"
  <2>1. By(f.id) \in {"dev", "wdev"}
    BY <1>3, <1>4, Zenon DEF Fits
  <2>2. By("none") = "none"
    BY DEF By
  <2> QED BY <2>1, <2>2
<1>6. Len(w) > 1 /\ Len(f.argv) = Len(w) + 1 /\ w \in Seq(AllWords)
  BY <1>1, <1>3, <1>4, <1>5, Zenon
<1> QED BY <1>6

\* The command that was found, where its handler starts or fails.
LEMMA FoundFrame ==
  ASSUME NEW f, Shape(f), f.at = "command", NEW r \in Found(By(f.id), Behind(f.id, f.argv)),
         r.c # NoCommand, NEW h, Record(h), h.id = f.id, h.argv = f.argv, h.c = r.c, h.args = r.args,
         h.done = 0, h.at \in {"handler", "out"}, h.owns \in 0..3, h.at = "out" => h.err = "2",
         h.c.handler = "handle_cac" => h.at = "handler" /\ h.owns = 0
  PROVE  \A reg, s : Frame(h, reg, s)
<1> DEFINE w == Behind(f.id, f.argv)
<1>0. f.at # "find"
  OBVIOUS
<1>1. w \in Seq(AllWords) /\ w # <<>>
  BY <1>0, BehindWords
<1>2. r.c \in Table /\ Fits(r.c, By(f.id)) /\ r.args \in Seq(AllWords)
  <2> HIDE DEF w
  <2>1. r \in Found(By(f.id), w)
    BY DEF w
  <2> QED BY <1>1, <2>1, FoundAre
<1>3. h.c.handler = "handle_ftm_req" => Len(h.argv) > 2
  BY <1>0, FtmWords
<1>4. /\ f.id \in Idents /\ f.argv \in Seq(AllWords) /\ f.argv # <<>>
      /\ f.id # "none" => Len(f.argv) > 1
      /\ ~Negative(f.id, f.argv)
  BY <1>0, Zenon DEF Shape
<1>5. h.at \in Places /\ h.at \notin {"find", "command"} /\ 0 \in Nat
  BY DEF Places
<1>6. Shape(h)
  BY <1>2, <1>3, <1>4, <1>5, Zenon DEF Shape
<1>7. \A s : Place(h, s)
  <2>1. "2" \in Ends
    BY EndsAre
  <2> QED BY <2>1 DEF Place, Resumed
<1>8. \A reg : Prints(h, reg)
  BY DEF Prints
<1> QED BY <1>6, <1>7, <1>8 DEF Frame

\* The parser of the command starts at its arguments.
LEMMA FindCommandArgs ==
  ASSUME IInv, FindCommand, NEW r, r.c.handler \in Commands,
         cmd' = r.c.handler, p' = Parser(r.args), at' = 1, steps' = 0, r.args \in Seq(AllWords)
  PROVE  ArgsOK'
<1>1. Fine(Parser(r.args)) /\ Parser(r.args).ret = "go"
  BY ParserSound
<1>2. Known(cmd, at, p)'
  BY DEF Known
<1>3. steps' \in 0..MaxSteps /\ at' \in Nat \ {0}
  BY MaxStepsAssumption
<1>4. Fine(p)' /\ p'.ret = "go" /\ "go" # "undefined"
  BY <1>1
<1> QED BY <1>2, <1>3, <1>4, Zenon DEF ArgsOK
\* What finding the command does to the call f.
FindsNone(r) == r.c = NoCommand /\ Refuse("1")
Acting(f, r) == [f EXCEPT !.c = r.c, !.args = r.args, !.at = "handler"]
Requesting(f, r, n) == [Acting(f, r) EXCEPT !.owns = n, !.at = IF n < 3 THEN "out" ELSE @,
                                            !.err = IF n < 3 THEN "2" ELSE @]
FindsAction(f, r) == /\ r.c # NoCommand /\ r.c.cmd = "0"
                     /\ Set(Acting(f, r))
                     /\ UNCHANGED <<heap, exit, argVars>>
FindsRequest(f, r, n) ==
  /\ r.c # NoCommand /\ r.c.cmd # "0"
  /\ IF n = 0 THEN Refuse("2")
     ELSE /\ heap' = heap + n
          /\ Set(Requesting(f, r, n))
          /\ IF Parsed(r.c)
             THEN cmd' = r.c.handler /\ p' = Parser(r.args) /\ at' = 1 /\ steps' = 0
             ELSE UNCHANGED argVars
          /\ exit' = exit

\* What __handle_cmd() does with what it has found.
LEMMA FindCommandCases ==
  ASSUME FindCommand
  PROVE  \E r \in Found(By(Top.id), Behind(Top.id, Top.argv)) :
           /\ ran' = IF Below = <<>> THEN <<r.c>> ELSE ran
           /\ \/ FindsNone(r) \/ FindsAction(Top, r) \/ \E n \in Allocated : FindsRequest(Top, r, n)
<1>1. PICK r \in Found(By(Top.id), Behind(Top.id, Top.argv)) :
       /\ ran' = IF Below = <<>> THEN <<r.c>> ELSE ran
       /\ LET f == [Top EXCEPT !.c = r.c, !.args = r.args, !.at = "handler"]
          IN  IF r.c = NoCommand THEN Refuse("1")
              ELSE IF r.c.cmd = "0" THEN Set(f) /\ UNCHANGED <<heap, exit, argVars>>
              ELSE \E n \in Allocated :
                     IF n = 0 THEN Refuse("2")
                     ELSE /\ heap' = heap + n
                          /\ Set([f EXCEPT !.owns = n, !.at = IF n < 3 THEN "out" ELSE @,
                                           !.err = IF n < 3 THEN "2" ELSE @])
                          /\ IF Parsed(r.c)
                             THEN cmd' = r.c.handler /\ p' = Parser(r.args) /\ at' = 1 /\ steps' = 0
                             ELSE UNCHANGED argVars
                          /\ exit' = exit
  BY Zenon DEF FindCommand
<1>2. CASE r.c = NoCommand
  BY <1>1, <1>2, Zenon DEF FindsNone
<1>3. CASE r.c # NoCommand /\ r.c.cmd = "0"
  BY <1>1, <1>3, Zenon DEF FindsAction, Acting
<1>4. CASE r.c # NoCommand /\ r.c.cmd # "0"
  BY <1>1, <1>4, Zenon DEF FindsRequest, Requesting, Acting
<1> QED BY <1>2, <1>3, <1>4

\* The call that has found its command.
LEMMA ActionFields ==
  ASSUME NEW f, Record(f), f.done = 0, f.owns = 0, NEW r
  PROVE  LET h == Acting(f, r)
         IN  /\ Record(h) /\ h.id = f.id /\ h.argv = f.argv /\ h.c = r.c /\ h.args = r.args
             /\ h.done = 0 /\ h.at = "handler" /\ h.owns = 0
<1>1. PICK h : h = Acting(f, r)
  OBVIOUS
<1>2. h = [f EXCEPT !.c = r.c, !.args = r.args, !.at = "handler"]
  BY <1>1 DEF Acting
<1>3. /\ Record(h) /\ h.id = f.id /\ h.argv = f.argv /\ h.c = r.c /\ h.args = r.args
      /\ h.done = 0 /\ h.at = "handler" /\ h.owns = 0
  BY <1>2 DEF Record
<1> QED BY <1>1, <1>3

\* The request is allocated.
LEMMA RequestFields ==
  ASSUME NEW f, Record(f), f.done = 0, f.owns = 0, NEW r, NEW n \in 1..3
  PROVE  LET h == Requesting(f, r, n)
         IN  /\ Record(h) /\ h.id = f.id /\ h.argv = f.argv /\ h.c = r.c /\ h.args = r.args
             /\ h.done = 0 /\ h.at \in {"handler", "out"} /\ h.owns = n
             /\ h.at = "out" => h.err = "2"
<1>1. LET g == Acting(f, r)
      IN  /\ Record(g) /\ g.id = f.id /\ g.argv = f.argv /\ g.c = r.c /\ g.args = r.args
          /\ g.done = 0 /\ g.at = "handler" /\ g.owns = 0
  BY ActionFields
<1>2. PICK g : g = Acting(f, r)
  OBVIOUS
<1>3. /\ Record(g) /\ g.id = f.id /\ g.argv = f.argv /\ g.c = r.c /\ g.args = r.args
      /\ g.done = 0 /\ g.at = "handler" /\ g.owns = 0
  BY <1>1, <1>2
<1>4. PICK h : h = Requesting(f, r, n)
  OBVIOUS
<1>5. h = [g EXCEPT !.owns = n, !.at = IF n < 3 THEN "out" ELSE @, !.err = IF n < 3 THEN "2" ELSE @]
  BY <1>2, <1>4 DEF Requesting
<1>6. /\ Record(h) /\ h.at = (IF n < 3 THEN "out" ELSE g.at) /\ h.id = g.id /\ h.argv = g.argv
      /\ h.c = g.c /\ h.args = g.args /\ h.done = g.done
      /\ h.err = (IF n < 3 THEN "2" ELSE g.err) /\ h.owns = n
  BY <1>3, <1>5 DEF Record
<1> QED BY <1>3, <1>4, <1>6

\* A handler that calls a command finds it.
LEMMA FoundCall ==
  ASSUME IInv, FindCommand, NEW f, Shape(f), f.at = "command",
         NEW r \in Found(By(f.id), Behind(f.id, f.argv)), r.c # NoCommand,
         NEW h, Record(h), h.id = f.id, h.argv = f.argv, h.c = r.c, h.args = r.args, h.done = 0,
         h.at \in {"handler", "out"}, h.owns \in 0..3, h.at = "out" => h.err = "2",
         heap' = heap + h.owns,
         \/ r.c.cmd = "0" /\ h.at = "handler" /\ h.owns = 0 /\ UNCHANGED argVars
         \/ /\ r.c.cmd # "0"
            /\ IF Parsed(r.c)
               THEN cmd' = r.c.handler /\ p' = Parser(r.args) /\ at' = 1 /\ steps' = 0
               ELSE UNCHANGED argVars
  PROVE  /\ \A reg, s : Frame(h, reg, s)
         /\ f.owns = 0 /\ heap' = (heap + h.owns) - f.owns
         /\ ArgsOK'
<1>1. f.owns = 0
  <2>1. f.at \in {"find", "command"}
    OBVIOUS
  <2> QED BY <2>1, Zenon DEF Shape
<1>2. heap \in Int /\ heap' = (heap + h.owns) - f.owns
  BY <1>1 DEF IInv, HeapOK
<1>3. r.c \in Table /\ r.args \in Seq(AllWords)
  <2>0. f.at # "find"
    OBVIOUS
  <2>1. Behind(f.id, f.argv) \in Seq(AllWords) /\ Behind(f.id, f.argv) # <<>>
    BY <2>0, BehindWords
  <2> QED BY <2>1, FoundAre
<1>4. h.c.handler = "handle_cac" => h.at = "handler" /\ h.owns = 0
  <2>1. "handle_cac" \in Callers
    BY DEF Callers
  <2>2. \A c \in Table : c.handler \in Callers => c.cmd = "0"
    BY CalleesAssumption, Zenon DEF CalleesReachable
  <2> QED BY <1>3, <2>1, <2>2, Zenon
<1>5. \A reg, s : Frame(h, reg, s)
  BY <1>4, FoundFrame
<1>6. CASE UNCHANGED argVars
  <2>1. ArgsOK'
    BY <1>6, ArgsStay DEF IInv
  <2> QED BY <1>1, <1>2, <1>5, <2>1
<1>7. CASE Parsed(r.c) /\ cmd' = r.c.handler /\ p' = Parser(r.args) /\ at' = 1 /\ steps' = 0
  <2>1. r.c.handler \in Commands
    BY <1>7 DEF Parsed
  <2>2. ArgsOK'
    BY <1>3, <1>7, <2>1, FindCommandArgs
  <2> QED BY <1>1, <1>2, <1>5, <2>2
<1> QED BY <1>6, <1>7, Zenon

\* __handle_cmd() looks for the command, called by main(),
LEMMA FindCommandOne ==
  ASSUME IInv, FindCommand, NEW f, calls = <<f>>, Frame(f, registered, sent), Outer(f)
  PROVE  IInv'
<1>1. Top = f /\ Below = <<>> /\ \A g : Set(g) <=> calls' = <<g>>
  BY TopOfOne
<1>2. f.at = "command" /\ Shape(f) /\ line' = line /\ registered' = registered /\ sent' = sent
  BY <1>1 DEF FindCommand, Frame
<1>3. f.id = Identified(line.words).id /\ f.argv = Identified(line.words).argv /\ ran = <<>>
  BY <1>2 DEF Outer
<1>4. f.owns = 0 /\ f.done = 0 /\ Record(f) /\ f.at # "find"
  <2>1. f.at \in {"find", "command"}
    BY <1>2
  <2> QED BY <1>2, <2>1, Zenon DEF Shape
<1>5. heap = 0
  <2>1. Len(calls) = 1 /\ calls[1] = f
    OBVIOUS
  <2> QED BY <1>4, <2>1 DEF IInv, HeapOK
<1>6. PICK r \in Found(By(f.id), Behind(f.id, f.argv)) :
        /\ ran' = <<r.c>>
        /\ FindsNone(r) \/ FindsAction(f, r) \/ \E n \in Allocated : FindsRequest(f, r, n)
  BY <1>1, FindCommandCases, Zenon
<1>7. r.c \in Table \cup {NoCommand}
  <2>1. Behind(f.id, f.argv) \in Seq(AllWords) /\ Behind(f.id, f.argv) # <<>>
    BY <1>2, <1>4, BehindWords
  <2> QED BY <2>1, FoundAre
<1>8. DataOK'
  BY <1>2, <1>6, <1>7, Zenon DEF DataOK, IInv
<1>9. ASSUME NEW e \in {"1", "2"}, Refuse(e) PROVE IInv'
  <2>1. Returns(e) /\ heap' = 0 /\ UNCHANGED argVars
    BY <1>5, <1>9 DEF Refuse
  <2>2. ArgsOK'
    BY <2>1, ArgsStay DEF IInv
  <2>3. e \in Ends \cup {"3"} /\ (e \in {"0", "3"} => NoRequest \/ Kept(sent))
    BY <1>9, EndsAre
  <2> QED BY <1>2, <1>8, <2>1, <2>2, <2>3, MainReturns
<1>10. ASSUME NEW h, calls' = <<h>>, exit' = exit, h.id = f.id, h.argv = f.argv, h.c = r.c,
              h.at \in {"handler", "out"}, \A reg, s : Frame(h, reg, s),
              heap' = (heap + h.owns) - f.owns, ArgsOK'
       PROVE  IInv'
  <2>1. Frame(h, registered', sent') /\ h.at # "calling"
    BY <1>10
  <2>2. Outer(h)'
    BY <1>2, <1>3, <1>6, <1>10 DEF Outer
  <2>3. Listened(f) => Listened(h)
    BY <1>4 DEF Listened
  <2> QED BY <1>2, <1>8, <1>10, <2>1, <2>2, <2>3, TopMovesOne
<1>11. CASE FindsNone(r)
  BY <1>9, <1>11 DEF FindsNone
<1>12. CASE FindsAction(f, r)
  <2>1. PICK h : h = Acting(f, r)
    OBVIOUS
  <2>2. /\ calls' = <<h>> /\ exit' = exit /\ heap' = heap /\ UNCHANGED argVars
        /\ r.c # NoCommand /\ r.c.cmd = "0"
    BY <1>1, <1>12, <2>1, Zenon DEF FindsAction
  <2>3. /\ Record(h) /\ h.id = f.id /\ h.argv = f.argv /\ h.c = r.c /\ h.args = r.args
        /\ h.done = 0 /\ h.at = "handler" /\ h.owns = 0
    BY <1>4, <2>1, ActionFields
  <2>4. h.at \in {"handler", "out"} /\ h.owns \in 0..3 /\ (h.at = "out" => h.err = "2") /\ heap' = heap + h.owns
    BY <1>5, <2>2, <2>3
  <2>5. (\A reg, s : Frame(h, reg, s)) /\ heap' = (heap + h.owns) - f.owns /\ ArgsOK'
    BY <1>2, <2>2, <2>3, <2>4, FoundCall
  <2> QED BY <1>10, <2>2, <2>3, <2>4, <2>5
<1>13. ASSUME NEW n \in Allocated, FindsRequest(f, r, n) PROVE IInv'
  <2>1. n \in 0..3
    BY DEF Allocated
  <2>2. CASE n = 0
    <3>1. Refuse("2")
      BY <1>13, <2>2, Zenon DEF FindsRequest
    <3> QED BY <1>9, <3>1
  <2>3. CASE n # 0
    <3>1. PICK h : h = Requesting(f, r, n)
      OBVIOUS
    <3>2. /\ calls' = <<h>> /\ exit' = exit /\ heap' = heap + n
          /\ r.c # NoCommand /\ r.c.cmd # "0"
          /\ IF Parsed(r.c)
             THEN cmd' = r.c.handler /\ p' = Parser(r.args) /\ at' = 1 /\ steps' = 0
             ELSE UNCHANGED argVars
      BY <1>1, <1>13, <2>3, <3>1, Zenon DEF FindsRequest
    <3>3. n \in 1..3
      BY <2>1, <2>3
    <3>4. /\ Record(h) /\ h.id = f.id /\ h.argv = f.argv /\ h.c = r.c /\ h.args = r.args
          /\ h.done = 0 /\ h.at \in {"handler", "out"} /\ h.owns = n /\ (h.at = "out" => h.err = "2")
      BY <1>4, <3>1, <3>3, RequestFields
    <3>5. h.owns \in 0..3 /\ heap' = heap + h.owns
      BY <2>1, <3>2, <3>4
    <3>6. (\A reg, s : Frame(h, reg, s)) /\ heap' = (heap + h.owns) - f.owns /\ ArgsOK'
      BY <1>2, <3>2, <3>4, <3>5, FoundCall
    <3> QED BY <1>10, <3>2, <3>4, <3>6
  <2> QED BY <2>2, <2>3
<1> QED BY <1>6, <1>11, <1>12, <1>13
\* called by a handler,
LEMMA FindCommandTwo ==
  ASSUME IInv, FindCommand, NEW f, NEW g, calls = <<f, g>>, Frame(f, registered, sent), Outer(f),
         Frame(g, registered, sent), Inner(f, g)
  PROVE  IInv'
<1>1. Top = g /\ Below = <<f>> /\ \A h : Set(h) <=> calls' = <<f, h>>
  BY TopOfTwo
<1>2. /\ g.at = "command" /\ Shape(g) /\ Shape(f)
      /\ line' = line /\ registered' = registered /\ sent' = sent
  BY <1>1 DEF FindCommand, Frame
<1>3. Below # <<>>
  BY <1>1
<1>4. g.owns = 0 /\ g.done = 0 /\ Record(g) /\ g.at # "find"
  <2>1. g.at \in {"find", "command"}
    BY <1>2
  <2> QED BY <1>2, <2>1, Zenon DEF Shape
<1>5. heap \in Int
  BY DEF IInv, HeapOK
<1>6. PICK r \in Found(By(g.id), Behind(g.id, g.argv)) :
        /\ ran' = ran
        /\ FindsNone(r) \/ FindsAction(g, r) \/ \E n \in Allocated : FindsRequest(g, r, n)
  BY <1>1, <1>3, FindCommandCases, Zenon
<1>7. DataOK'
  BY <1>2, <1>6, DataStays DEF IInv
<1>8. f.at = "calling" /\ Calls(f, g) /\ Callee(f.c.handler, f.done) # NoCallee
  BY DEF Inner, Frame, Place
<1>9. IsCallee(r.c, Callee(f.c.handler, f.done))
  <2>1. f.at \notin {"find", "command"}
    BY <1>8
  <2> QED BY <1>2, <1>8, <2>1, CalleeFound
<1>10. ASSUME NEW e \in {"1", "2"}, Refuse(e) PROVE IInv'
  <2>1. Returns(e) /\ heap' = heap - g.owns /\ UNCHANGED argVars
    BY <1>4, <1>5, <1>10 DEF Refuse
  <2>2. ArgsOK'
    BY <2>1, ArgsStay DEF IInv
  <2>3. e \in Ends /\ (e = "0" => Kept(sent))
    BY <1>10, EndsAre
  <2>4. (f.c.handler = "handle_reg_get" /\ e = "EOPNOTSUPP") => registered = "print_reg_handler"
    BY <1>10
  <2> QED BY <1>2, <1>6, <1>7, <2>1, <2>2, <2>3, <2>4, CallReturns
<1>11. ASSUME NEW h, calls' = <<f, h>>, exit' = exit, h.id = g.id, h.argv = g.argv, h.c = r.c,
              \A reg, s : Frame(h, reg, s), heap' = (heap + h.owns) - g.owns, ArgsOK'
       PROVE  IInv'
  <2>1. Frame(h, registered', sent')
    BY <1>11
  <2>2. Inner(f, h)
    BY <1>8, <1>9, <1>11, Zenon DEF Inner, Calls
  <2>3. registered' = "wait_event" => registered = "wait_event"
    BY <1>2
  <2> QED BY <1>2, <1>6, <1>7, <1>11, <2>1, <2>2, <2>3, TopMovesTwo
<1>12. CASE FindsNone(r)
  BY <1>10, <1>12 DEF FindsNone
<1>13. CASE FindsAction(g, r)
  <2>1. PICK h : h = Acting(g, r)
    OBVIOUS
  <2>2. /\ calls' = <<f, h>> /\ exit' = exit /\ heap' = heap /\ UNCHANGED argVars
        /\ r.c # NoCommand /\ r.c.cmd = "0"
    BY <1>1, <1>13, <2>1, Zenon DEF FindsAction
  <2> QED BY <1>9, <2>2 DEF IsCallee
<1>14. ASSUME NEW n \in Allocated, FindsRequest(g, r, n) PROVE IInv'
  <2>1. n \in 0..3
    BY DEF Allocated
  <2>2. CASE n = 0
    <3>1. Refuse("2")
      BY <1>14, <2>2, Zenon DEF FindsRequest
    <3> QED BY <1>10, <3>1
  <2>3. CASE n # 0
    <3>1. PICK h : h = Requesting(g, r, n)
      OBVIOUS
    <3>2. /\ calls' = <<f, h>> /\ exit' = exit /\ heap' = heap + n
          /\ r.c # NoCommand /\ r.c.cmd # "0"
          /\ IF Parsed(r.c)
             THEN cmd' = r.c.handler /\ p' = Parser(r.args) /\ at' = 1 /\ steps' = 0
             ELSE UNCHANGED argVars
      BY <1>1, <1>14, <2>3, <3>1, Zenon DEF FindsRequest
    <3>3. n \in 1..3
      BY <2>1, <2>3
    <3>4. /\ Record(h) /\ h.id = g.id /\ h.argv = g.argv /\ h.c = r.c /\ h.args = r.args
          /\ h.done = 0 /\ h.at \in {"handler", "out"} /\ h.owns = n /\ (h.at = "out" => h.err = "2")
      BY <1>4, <3>1, <3>3, RequestFields
    <3>5. h.owns \in 0..3 /\ heap' = heap + h.owns
      BY <2>1, <3>2, <3>4
    <3>6. (\A reg, s : Frame(h, reg, s)) /\ heap' = (heap + h.owns) - g.owns /\ ArgsOK'
      BY <1>2, <3>2, <3>4, <3>5, FoundCall
    <3> QED BY <1>11, <3>2, <3>4, <3>6
  <2> QED BY <2>2, <2>3
<1> QED BY <1>6, <1>12, <1>13, <1>14

\* or either.
LEMMA FindCommandKeeps ==
  ASSUME IInv, FindCommand
  PROVE  IInv'
<1>1. calls # <<>> /\ CallsOK
  BY DEF FindCommand, IInv
<1>2. ASSUME NEW f, calls = <<f>>, Frame(f, registered, sent), Outer(f)
      PROVE  IInv'
  BY <1>2, FindCommandOne
<1>3. ASSUME NEW f, NEW g, calls = <<f, g>>, Frame(f, registered, sent), Outer(f),
             Frame(g, registered, sent), Inner(f, g)
      PROVE  IInv'
  BY <1>3, FindCommandTwo
<1> QED BY <1>1, <1>2, <1>3, CallsCases, Zenon
-----------------------------------------------------------------------------
\* A handler goes on: what becomes of its call.
NewOf(f) == IF f.c.handler = "handle_cac" /\ f.done = 0 THEN 1 ELSE 0
Handled(f, d) ==
  LET g == [f EXCEPT !.owns = @ + NewOf(f)]
  IN  IF d.do = "call" THEN [g EXCEPT !.at = "calling"]
      ELSE IF d.do = "return" THEN [g EXCEPT !.at = "out", !.err = d.r]
      ELSE [g EXCEPT !.at = d.do]
Handles(f, d) ==
  /\ \/ d.do = "call" /\ calls' = Below \o <<Handled(f, d), CallOf(d.id, d.argv)>>
     \/ d.do \in {"prepare", "listen", "watch", "send", "return"} /\ Set(Handled(f, d))
  /\ registered' = IF d.do = "send" THEN RegisteredBy(f.c) ELSE registered
  /\ heap' = heap + NewOf(f)
  /\ exit' = exit

\* cac without arguments returns; every other handler goes on.
LEMMA HandleCases ==
  ASSUME Handle
  PROVE  \/ /\ CacNeedsArguments(Top)
            /\ Returns("1") /\ heap' = heap + 1 /\ registered' = registered
         \/ /\ ~CacNeedsArguments(Top)
            /\ \E d \in Continued(Top) : Handles(Top, d)
<1>1. CASE CacNeedsArguments(Top)
  BY <1>1, Zenon DEF Handle
<1>2. CASE ~CacNeedsArguments(Top)
  <2>1. PICK d \in Continued(Top) :
          /\ \/ /\ d.do = "call"
                /\ calls' = Below \o <<[[Top EXCEPT !.owns = @ + NewOf(Top)] EXCEPT !.at = "calling"],
                                       CallOf(d.id, d.argv)>>
             \/ /\ d.do \in {"prepare", "listen", "watch", "send"}
                /\ Set([[Top EXCEPT !.owns = @ + NewOf(Top)] EXCEPT !.at = d.do])
             \/ /\ d.do = "return"
                /\ Set([[Top EXCEPT !.owns = @ + NewOf(Top)] EXCEPT !.at = "out", !.err = d.r])
          /\ registered' = IF d.do = "send" THEN RegisteredBy(Top.c) ELSE registered
          /\ heap' = heap + NewOf(Top)
          /\ exit' = exit
    BY <1>2, Zenon DEF Handle, NewOf
  <2>2. CASE d.do = "call"
    <3>1. Handled(Top, d) = [[Top EXCEPT !.owns = @ + NewOf(Top)] EXCEPT !.at = "calling"]
      BY <2>2, Zenon DEF Handled
    <3>2. d.do \notin {"prepare", "listen", "watch", "send"} /\ d.do # "return"
      BY <2>2
    <3> QED BY <1>2, <2>1, <2>2, <3>1, <3>2, Zenon DEF Handles
  <2>3. CASE d.do \in {"prepare", "listen", "watch", "send"}
    <3>1. d.do # "call" /\ d.do # "return" /\ d.do \in {"prepare", "listen", "watch", "send", "return"}
      BY <2>3
    <3>2. Handled(Top, d) = [[Top EXCEPT !.owns = @ + NewOf(Top)] EXCEPT !.at = d.do]
      BY <3>1, Zenon DEF Handled
    <3> QED BY <1>2, <2>1, <3>1, <3>2, Zenon DEF Handles
  <2>4. CASE d.do = "return"
    <3>1. d.do # "call" /\ d.do \notin {"prepare", "listen", "watch", "send"}
          /\ d.do \in {"prepare", "listen", "watch", "send", "return"}
      BY <2>4
    <3>2. Handled(Top, d) = [[Top EXCEPT !.owns = @ + NewOf(Top)] EXCEPT !.at = "out", !.err = d.r]
      BY <2>4, <3>1, Zenon DEF Handled
    <3> QED BY <1>2, <2>1, <3>1, <3>2, Zenon DEF Handles
  <2> QED BY <2>1, <2>2, <2>3, <2>4, Zenon
<1> QED BY <1>1, <1>2

\* The call after its handler.
LEMMA HandledFields ==
  ASSUME NEW f, Record(f), NEW d
  PROVE  LET h == Handled(f, d)
         IN  /\ Record(h) /\ h.id = f.id /\ h.argv = f.argv /\ h.c = f.c /\ h.args = f.args
             /\ h.done = f.done /\ h.owns = f.owns + NewOf(f)
             /\ h.at = (IF d.do = "call" THEN "calling" ELSE IF d.do = "return" THEN "out" ELSE d.do)
             /\ h.err = (IF d.do = "return" THEN d.r ELSE f.err)
<1> DEFINE n == NewOf(f)
           t == d.do
           r == d.r
<1>1. PICK g : g = [f EXCEPT !.owns = @ + n]
  OBVIOUS
<1>2. PICK h : h = Handled(f, d)
  OBVIOUS
<1>3. h = IF t = "call" THEN [g EXCEPT !.at = "calling"]
          ELSE IF t = "return" THEN [g EXCEPT !.at = "out", !.err = r]
          ELSE [g EXCEPT !.at = t]
  BY <1>1, <1>2 DEF Handled
<1> HIDE DEF n, t, r
<1>4. /\ Record(g) /\ g.at = f.at /\ g.id = f.id /\ g.argv = f.argv /\ g.c = f.c
      /\ g.args = f.args /\ g.done = f.done /\ g.err = f.err /\ g.owns = f.owns + n
  BY <1>1, OwnsFields
<1>5. /\ Record(h) /\ h.id = f.id /\ h.argv = f.argv /\ h.c = f.c /\ h.args = f.args
      /\ h.done = f.done /\ h.owns = f.owns + n
      /\ h.at = (IF t = "call" THEN "calling" ELSE IF t = "return" THEN "out" ELSE t)
      /\ h.err = (IF t = "return" THEN r ELSE f.err)
  <2>1. CASE t = "call"
    <3>1. h = [g EXCEPT !.at = "calling"]
      BY <1>3, <2>1
    <3> QED BY <1>4, <2>1, <3>1 DEF Record
  <2>2. CASE t = "return"
    <3>1. h = [g EXCEPT !.at = "out", !.err = r]
      BY <1>3, <2>2
    <3> QED BY <1>4, <2>2, <3>1 DEF Record
  <2>3. CASE t # "call" /\ t # "return"
    <3>1. h = [g EXCEPT !.at = t]
      BY <1>3, <2>3
    <3> QED BY <1>4, <2>3, <3>1 DEF Record
  <2> QED BY <2>1, <2>2, <2>3
<1> QED BY <1>2, <1>5 DEF n, t, r
\* The call of a handler that goes on is in order.
LEMMA HandledFrame ==
  ASSUME NEW f, Frame(f, registered, sent), f.at = "handler", ~CacNeedsArguments(f),
         NEW d, Does(f, d), sent' = sent,
         registered' = IF d.do = "send" THEN RegisteredBy(f.c) ELSE registered,
         d.do = "send" => RegisteredBy(f.c) # "wait_event",
         NEW h, h = Handled(f, d)
  PROVE  /\ Frame(h, registered', sent')
         /\ h.id = f.id /\ h.argv = f.argv /\ h.c = f.c /\ h.done = f.done
         /\ h.owns = f.owns + NewOf(f) /\ f.owns \in 0..3 /\ NewOf(f) \in 0..1
         /\ h.at = (IF d.do = "call" THEN "calling" ELSE IF d.do = "return" THEN "out" ELSE d.do)
<1>1. Shape(f) /\ Place(f, sent) /\ Prints(f, registered) /\ Record(f)
  BY DEF Frame, Shape
<1>2. /\ Record(h) /\ h.id = f.id /\ h.argv = f.argv /\ h.c = f.c /\ h.args = f.args
      /\ h.done = f.done /\ h.owns = f.owns + NewOf(f)
      /\ h.at = (IF d.do = "call" THEN "calling" ELSE IF d.do = "return" THEN "out" ELSE d.do)
      /\ h.err = (IF d.do = "return" THEN d.r ELSE f.err)
  BY <1>1, HandledFields
<1>3. f.owns \in 0..3 /\ f.done \in Nat /\ f.argv \in Seq(AllWords) /\ f.c \in Table
  BY <1>1 DEF Shape
<1>4. f.c.handler = "handle_cac" => h.owns = 1 /\ Len(f.argv) >= 3
  <2> SUFFICES ASSUME f.c.handler = "handle_cac" PROVE h.owns = 1 /\ Len(f.argv) >= 3
    OBVIOUS
  <2>1. ~(Len(f.argv) < 3)
    BY DEF CacNeedsArguments
  <2>2. f.owns = IF f.done = 0 THEN 0 ELSE 1
    BY <1>1 DEF Place
  <2> QED BY <1>2, <1>3, <2>1, <2>2 DEF NewOf
<1>5. h.owns \in 0..3 /\ NewOf(f) \in 0..1
  <2>1. f.c.handler # "handle_cac" => NewOf(f) = 0
    BY DEF NewOf
  <2>2. NewOf(f) \in 0..1
    BY DEF NewOf
  <2> QED BY <1>2, <1>3, <1>4, <2>1, <2>2
<1>6. d.do \in {"call", "prepare", "listen", "watch", "send", "return"}
  BY DEF Does
<1>7. h.at \in {"calling", "prepare", "listen", "watch", "send", "out"}
  BY <1>2, <1>6
<1>8. Shape(h)
  <2>1. h.at \in Places /\ h.at \notin {"find", "command"} /\ f.at \notin {"find", "command"}
    BY <1>7 DEF Places
  <2> QED BY <1>1, <1>2, <1>3, <1>5, <2>1, ShapeStays
<1>9. Place(h, sent)
  <2>1. h.at = "calling" => Callee(h.c.handler, h.done) # NoCallee
    BY <1>2, <1>6, Zenon DEF Does
  <2>2. h.at = "prepare" => h.c.handler \in {"iw_connect", "print_events"} /\ h.done = 0
    <3>1. h.at = "prepare" => d.do = "prepare"
      BY <1>2, <1>6
    <3>2. d.do = "prepare" => f.c.handler \in {"iw_connect", "print_events"} /\ f.done = 0
      BY DEF Does
    <3> QED BY <1>2, <3>1, <3>2
  <2>3. h.at = "listen" => Listening(h) /\ Kept(sent)
    <3>1. h.at = "listen" => d.do = "listen"
      BY <1>2, <1>6
    <3>2. d.do = "listen" => Listening(f) /\ Kept(sent)
      BY DEF Does
    <3>3. Listening(f) <=> Listening(h)
      BY <1>2, Zenon DEF Listening
    <3> QED BY <3>1, <3>2, <3>3
  <2>4. h.at = "watch" => h.c.handler \in {"handle_mgmt_dump", "print_events"}
    <3>1. h.at = "watch" => d.do = "watch"
      BY <1>2, <1>6
    <3>2. d.do = "watch" => f.c.handler \in {"handle_mgmt_dump", "print_events"}
      BY DEF Does
    <3> QED BY <1>2, <3>1, <3>2
  <2>5. h.at \in {"send", "wait"} => h.c.handler \notin Callers \cup {"print_events", "handle_commands"}
    <3>1. h.at \in {"send", "wait"} => d.do = "send"
      BY <1>2, <1>6
    <3>2. d.do = "send" => f.c.handler \notin Callers \cup {"print_events", "handle_commands"}
      BY DEF Does
    <3> QED BY <1>2, <3>1, <3>2
  <2>6. h.at = "out" =>
          /\ h.err \in Ends \cup (IF h.c.handler = "handle_reg_get" THEN {"3"} ELSE {})
          /\ h.err \in {"0", "3"} => Kept(sent)
    <3>1. h.at = "out" => d.do = "return"
      BY <1>2, <1>6
    <3>2. d.do = "return" =>
            /\ d.r \in Ends \cup (IF f.c.handler = "handle_reg_get" THEN {"3"} ELSE {})
            /\ d.r \in {"0", "3"} => Kept(sent)
      BY DEF Does
    <3> QED BY <1>2, <3>1, <3>2
  <2>7. h.at # "handler"
    BY <1>7
  <2>8. h.c.handler = "handle_cac" =>
          IF h.at = "handler" /\ h.done = 0 THEN h.owns = 0 ELSE h.owns = 1 /\ Len(h.argv) >= 3
    BY <1>2, <1>4, <2>7
  <2> QED BY <2>1, <2>2, <2>3, <2>4, <2>5, <2>6, <2>7, <2>8, Zenon DEF Place
<1>10. Prints(h, registered')
  <2>1. CASE d.do = "send"
    <3>1. h.at = "send" /\ registered' = RegisteredBy(f.c) /\ registered' # "wait_event"
      BY <1>2, <2>1
    <3>2. f.c.handler # "handle_commands" /\ (f.c.handler = "handle_reg_get" => f.done = 1 /\ f.err = "EOPNOTSUPP")
      BY <2>1 DEF Does
    <3>3. f.c.handler = "handle_reg_get" => registered = "print_reg_handler"
      BY <1>1, <3>2 DEF Prints
    <3>4. /\ f.c.cmd \in DOMAIN Printers => RegisteredBy(f.c) \in Printers[f.c.cmd]
          /\ f.c.handler = "handle_reg_dump" => RegisteredBy(f.c) = "print_reg_handler"
      BY <1>3, <3>2, <3>3, RegisteredFits
    <3>5. h.at \notin {"handler", "out"}
      BY <3>1
    <3> QED BY <1>2, <3>1, <3>4, <3>5, Zenon DEF Prints
  <2>2. CASE d.do # "send"
    <3>1. h.at \notin {"send", "wait", "handler"}
      BY <1>2, <1>6, <2>2
    <3>2. h.at = "out" => d.do = "return" /\ h.err = d.r
      BY <1>2, <1>6
    <3>3. (d.do = "return" /\ f.c.handler = "handle_reg_dump") => d.r # "EOPNOTSUPP"
      BY DEF Does
    <3> QED BY <1>2, <3>1, <3>2, <3>3, Zenon DEF Prints
  <2> QED BY <2>1, <2>2
<1> QED BY <1>2, <1>3, <1>5, <1>8, <1>9, <1>10 DEF Frame

\* A call that has just been made.
LEMMA NewCall ==
  ASSUME NEW id \in Idents, NEW argv \in Seq(AllWords), argv # <<>>, NEW k, k = CallOf(id, argv)
  PROVE  /\ \A reg, s : Frame(k, reg, s)
         /\ Record(k) /\ k.id = id /\ k.argv = argv /\ k.at = "find" /\ k.owns = 0
<1>1. /\ Record(k) /\ k.id = id /\ k.argv = argv
      /\ k.c = NoCommand /\ k.args = <<>> /\ k.at = "find" /\ k.done = 0 /\ k.owns = 0
  BY DEF CallOf, Record
<1>2. Shape(k)
  <2>1. <<>> \in Seq(AllWords) /\ "find" \in Places
    BY DEF Places
  <2>2. k.c.handler # "handle_ftm_req"
    BY <1>1, NoCommandIs
  <2> QED BY <1>1, <2>1, <2>2 DEF Shape
<1>3. k.c.handler \notin {"handle_cac", "handle_reg_dump", "handle_reg_get"}
  BY <1>1, NoCommandIs
<1>4. \A reg, s : Place(k, s) /\ Prints(k, reg)
  BY <1>1, <1>3 DEF Place, Prints
<1> QED BY <1>1, <1>2, <1>4 DEF Frame
\* A handler is called by __handle_cmd() of main(),
LEMMA HandleOne ==
  ASSUME IInv, Handle, NEW f, calls = <<f>>, Frame(f, registered, sent), Outer(f)
  PROVE  IInv'
<1>1. Top = f /\ Below = <<>> /\ \A g : Set(g) <=> calls' = <<g>>
  BY TopOfOne
<1>2. f.at = "handler" /\ line' = line /\ ran' = ran /\ sent' = sent /\ UNCHANGED argVars
  BY <1>1, Zenon DEF Handle
<1>3. Shape(f) /\ Resumed(f, sent) /\ Place(f, sent) /\ f.owns \in 0..3
  BY <1>2 DEF Frame, Shape, Place
<1>4. f.id = Identified(line.words).id /\ f.argv = Identified(line.words).argv /\ ran = <<f.c>>
  <2>1. f.at \notin {"find", "command"}
    BY <1>2
  <2> QED BY <2>1 DEF Outer
<1>5. heap = f.owns /\ exit = Running
  <2>1. Len(calls) = 1 /\ calls[1] = f /\ calls # <<>>
    OBVIOUS
  <2> QED BY <2>1 DEF IInv, HeapOK, ExitOK
<1>6. ArgsOK' /\ DataOK'
  BY <1>2, ArgsStay, DataStays DEF IInv
<1>7. CASE /\ CacNeedsArguments(f)
           /\ Returns("1") /\ heap' = heap + 1
  <2>1. f.c.handler = "handle_cac" /\ Len(f.argv) < 3
    BY <1>7 DEF CacNeedsArguments
  <2>2. f.owns = 0
    <3>1. ~(Len(f.argv) >= 3)
      BY <1>3, <2>1 DEF Shape
    <3> QED BY <1>3, <2>1, <3>1 DEF Place
  <2>3. heap' = 1
    BY <1>5, <1>7, <2>2
  <2>4. ran' = <<f.c>> /\ Len(Identified(line.words).argv) < 3
    BY <1>2, <1>4, <2>1
  <2>5. "1" \in Ends \cup {"3"} /\ ("1" \in {"0", "3"} => NoRequest \/ Kept(sent))
    BY EndsAre
  <2> QED BY <1>2, <1>6, <1>7, <2>1, <2>3, <2>4, <2>5, MainReturns
<1>8. ASSUME ~CacNeedsArguments(f), NEW d \in Continued(f), Handles(f, d) PROVE IInv'
  <2>1. Does(f, d)
    BY <1>2, <1>3, ContinuedDoes
  <2>2. /\ registered' = IF d.do = "send" THEN RegisteredBy(f.c) ELSE registered
        /\ heap' = heap + NewOf(f)
        /\ exit' = exit
    BY <1>8, Zenon DEF Handles
  <2>3. d.do = "send" => RegisteredBy(f.c) # "wait_event"
    <3> SUFFICES ASSUME d.do = "send", RegisteredBy(f.c) = "wait_event" PROVE FALSE
      OBVIOUS
    <3>1. /\ f.c.handler \notin Callers \cup {"print_events", "handle_commands"}
          /\ f.c.handler = "handle_reg_get" => f.done = 1 /\ f.err = "EOPNOTSUPP"
      BY <2>1 DEF Does
    <3>2. f.c.handler = "handle_reg_get" => registered = "print_reg_handler"
      BY <1>2, <3>1 DEF Frame, Prints
    <3>3. f.c \in Table
      BY <1>2, <1>3 DEF Shape
    <3>4. registered = "wait_event"
      <4>1. f.c.handler # "handle_commands"
        BY <3>1
      <4> QED BY <3>2, <3>3, <4>1, RegisteredFits
    <3>5. Listened(f)
      <4>1. calls # <<>> /\ calls[1] = f
        OBVIOUS
      <4> QED BY <3>4, <4>1 DEF IInv, WaitOK
    <3> QED BY <3>1, <3>5 DEF Listened, Callers
  <2>4. PICK h : h = Handled(f, d)
    OBVIOUS
  <2>5. /\ Frame(h, registered', sent')
        /\ h.id = f.id /\ h.argv = f.argv /\ h.c = f.c /\ h.done = f.done
        /\ h.owns = f.owns + NewOf(f) /\ f.owns \in 0..3 /\ NewOf(f) \in 0..1
        /\ h.at = (IF d.do = "call" THEN "calling" ELSE IF d.do = "return" THEN "out" ELSE d.do)
    BY <1>2, <1>8, <2>1, <2>2, <2>3, <2>4, HandledFrame
  <2>6. heap' = (heap + h.owns) - f.owns /\ heap' = h.owns
    BY <1>5, <2>2, <2>5
  <2>7. Listened(f) => Listened(h)
    BY <2>5, Zenon DEF Listened
  <2>8. (registered' = "wait_event" /\ registered # "wait_event") => Listened(h)
    BY <2>2, <2>3
  <2>9. d.do \in {"call", "prepare", "listen", "watch", "send", "return"}
    BY <2>1 DEF Does
  <2>10. Outer(h)'
    <3>1. h.at \notin {"find", "command"}
      BY <2>5, <2>9
    <3> QED BY <1>2, <1>4, <2>5, <3>1 DEF Outer
  <2>11. CASE d.do # "call"
    <3>1. calls' = <<h>>
      BY <1>1, <1>8, <2>4, <2>11, Zenon DEF Handles
    <3>2. h.at # "calling"
      BY <2>5, <2>9, <2>11
    <3> QED BY <1>2, <1>6, <2>2, <2>5, <2>6, <2>7, <2>8, <2>10, <3>1, <3>2, TopMovesOne
  <2>12. CASE d.do = "call"
    <3>1. /\ d.id \in Idents /\ d.argv \in Seq(AllWords) /\ d.argv # <<>> /\ Calls(f, d)
      BY <2>1, <2>12 DEF Does
    <3>2. PICK k : k = CallOf(d.id, d.argv)
      OBVIOUS
    <3>3. /\ \A reg, s : Frame(k, reg, s)
          /\ Record(k) /\ k.id = d.id /\ k.argv = d.argv /\ k.at = "find" /\ k.owns = 0
      BY <3>1, <3>2, NewCall
    <3>4. calls' = <<h, k>>
      <4>1. calls' = <<>> \o <<h, k>>
        BY <1>1, <1>8, <2>4, <2>12, <3>2 DEF Handles
      <4> QED BY <4>1
    <3>5. Inner(h, k)
      <4>1. Calls(h, k)
        BY <2>5, <3>1, <3>3, Zenon DEF Calls
      <4>2. h.at = "calling"
        BY <2>5, <2>12
      <4> QED BY <3>3, <4>1, <4>2 DEF Inner
    <3>6. CallsOK'
      <4>1. Frame(k, registered', sent')
        BY <3>3
      <4> QED BY <2>5, <2>10, <3>4, <3>5, <4>1, TwoCalls
    <3>7. calls' # <<>> /\ calls'[1] = h /\ calls'[2] = k /\ Len(calls') = 2
      BY <3>4
    <3>8. WaitOK'
      <4>1. calls # <<>> /\ calls[1] = f
        OBVIOUS
      <4>2. registered' = registered
        BY <2>2, <2>12
      <4> QED BY <2>7, <3>7, <4>1, <4>2 DEF WaitOK, IInv
    <3>9. HeapOK'
      <4>1. heap' = h.owns + k.owns /\ heap' \in 0..6 /\ exit' = Running /\ Len(calls') # 1
        BY <1>5, <2>2, <2>5, <2>6, <3>3, <3>7
      <4> QED BY <3>7, <4>1, Zenon DEF HeapOK
    <3>10. ExitOK'
      <4>1. exit' = Running /\ Running # "0"
        BY <1>5, <2>2 DEF Running
      <4> QED BY <3>7, <4>1, Zenon DEF ExitOK
    <3> QED BY <1>6, <3>6, <3>8, <3>9, <3>10 DEF IInv
  <2> QED BY <2>11, <2>12
<1> QED BY <1>1, <1>7, <1>8, HandleCases, Zenon
\* The commands that are called call none themselves.
LEMMA InnerHandler ==
  ASSUME NEW f, Callee(f.c.handler, f.done) # NoCallee,
         NEW g, g.c \in Table, IsCallee(g.c, Callee(f.c.handler, f.done))
  PROVE  /\ g.c.handler \notin Goers
         /\ (f.c.handler = "handle_scan_combined" /\ f.done = 2) => g.c.handler = "handle_scan_dump"
         /\ f.c.handler = "handle_reg_get" => g.c.handler = "handle_reg_dump"
<1> DEFINE h == f.c.handler
           e == Callee(h, f.done)
<1>1. CASE h = "handle_info"
  <2>1. e = <<"features", "-q">>
    BY <1>1, CalleeCases DEF e
  <2>2. e[1] = "features"
    BY <2>1
  <2>3. g.c.parent = "" /\ g.c.name = "features"
    BY <2>2, Zenon DEF IsCallee, e
  <2>4. g.c.handler = "handle_features"
    BY <2>3, CalleesAssumption, Zenon DEF CalleesReachable
  <2> QED BY <1>1, <2>4 DEF Goers, Callers
<1>2. CASE h # "handle_info"
  <2>1. /\ e \in Callees
        /\ h = "handle_reg_get" => e = <<"reg", "dump">>
        /\ h # "handle_reg_get" => /\ h \in Callers
                                   /\ e[1] \notin {"reg", "features"}
                                   /\ e[2] = "dump" => e[1] = "scan"
    BY <1>2, CalleeIn DEF e
  <2>2. (h = "handle_scan_combined" /\ f.done = 2) => e = <<"scan", "dump">>
    BY CalleeCases DEF e
  <2>3. e[1] # "features"
    <3>1. <<"reg", "dump">>[1] # "features"
      OBVIOUS
    <3> QED BY <2>1, <3>1, Zenon
  <2>4. IsCallee(g.c, e)
    BY DEF e
  <2> HIDE DEF e
  <2>5. g.c.parent = e[1] /\ g.c.name = e[2]
    BY <2>3, <2>4, Zenon DEF IsCallee
  <2>6. \A c \in Table : (c.parent = e[1] /\ c.name = e[2]) =>
            /\ c.handler \notin Goers \cup {"NULL"} /\ c.cmd # "0"
            /\ c.args = (e[2] \notin {"get_bss", "dump"} \/ e[1] = "scan")
            /\ c.idby = IF e[1] = "reg" THEN "none" ELSE "dev"
            /\ e = <<"scan", "dump">> => c.handler = "handle_scan_dump"
            /\ e = <<"reg", "dump">> => c.handler = "handle_reg_dump"
    BY <2>1, CalleesAssumption, Zenon DEF CalleesReachable
  <2>7. /\ g.c.handler \notin Goers
        /\ e = <<"scan", "dump">> => g.c.handler = "handle_scan_dump"
        /\ e = <<"reg", "dump">> => g.c.handler = "handle_reg_dump"
    BY <2>5, <2>6, Zenon
  <2> QED BY <2>1, <2>2, <2>7, Zenon
<1> QED BY <1>1, <1>2

\* What was registered when events were waited for is not there for a command
\* that is called, unless it is the dump after a scan.
LEMMA InnerWaits ==
  ASSUME IInv, NEW f, NEW g, calls = <<f, g>>, Inner(f, g), Callee(f.c.handler, f.done) # NoCallee,
         registered = "wait_event"
  PROVE  f.c.handler = "handle_scan_combined" /\ f.done = 2
<1>1. Listened(f)
  <2>1. calls # <<>> /\ calls[1] = f
    OBVIOUS
  <2> QED BY <2>1 DEF IInv, WaitOK
<1>2. \/ f.c.handler = "handle_scan_combined" /\ f.done \in {0, 2}
      \/ f.c.handler = "iw_connect" /\ f.done = 1
      \/ f.c.handler = "handle_ftm_req" /\ f.done = 0
      \/ f.c.handler \notin {"handle_scan_combined", "iw_connect", "handle_ftm_req"}
  BY CalleeCases
<1> QED BY <1>1, <1>2 DEF Listened

\* of another handler,
LEMMA HandleTwo ==
  ASSUME IInv, Handle, NEW f, NEW g, calls = <<f, g>>, Frame(f, registered, sent), Outer(f),
         Frame(g, registered, sent), Inner(f, g)
  PROVE  IInv'
<1>1. Top = g /\ Below = <<f>> /\ \A h : Set(h) <=> calls' = <<f, h>>
  BY TopOfTwo
<1>2. g.at = "handler" /\ line' = line /\ ran' = ran /\ sent' = sent /\ UNCHANGED argVars
  BY <1>1, Zenon DEF Handle
<1>3. Shape(g) /\ Resumed(g, sent) /\ g.c \in Table
  BY <1>2 DEF Frame, Shape, Place
<1>4. f.at = "calling" /\ Calls(f, g) /\ Callee(f.c.handler, f.done) # NoCallee
  BY DEF Inner, Frame, Place
<1>5. IsCallee(g.c, Callee(f.c.handler, f.done))
  BY <1>2 DEF Inner
<1>6. /\ g.c.handler \notin Goers
      /\ (f.c.handler = "handle_scan_combined" /\ f.done = 2) => g.c.handler = "handle_scan_dump"
  BY <1>3, <1>4, <1>5, InnerHandler
<1>7. ArgsOK' /\ DataOK'
  BY <1>2, ArgsStay, DataStays DEF IInv
<1>8. ~CacNeedsArguments(g)
  BY <1>6 DEF CacNeedsArguments, Goers, Callers
<1>9. PICK d \in Continued(g) : Handles(g, d)
  BY <1>1, <1>8, HandleCases, Zenon
<1>10. Does(g, d)
  BY <1>2, <1>3, ContinuedDoes
<1>11. d.do \in {"send", "return"}
  <2>1. d.do = "call" => Callee(g.c.handler, g.done) # NoCallee
    BY <1>10, Zenon DEF Does
  <2>2. Callee(g.c.handler, g.done) = NoCallee
    BY <1>6, CalleeCases DEF Goers, Callers
  <2>3. d.do \in {"call", "send", "return"}
    BY <1>6, <1>10 DEF Does, Listening, Goers, Callers
  <2> QED BY <2>1, <2>2, <2>3
<1>12. /\ registered' = IF d.do = "send" THEN RegisteredBy(g.c) ELSE registered
       /\ heap' = heap + NewOf(g)
       /\ exit' = exit
  BY <1>9, Zenon DEF Handles
<1>13. RegisteredBy(g.c) # "wait_event" \/ d.do # "send"
  <2> SUFFICES ASSUME d.do = "send", RegisteredBy(g.c) = "wait_event" PROVE FALSE
    OBVIOUS
  <2>1. g.c.handler # "handle_commands" /\ g.c.handler # "handle_reg_get"
    BY <1>6, <1>10 DEF Does, Goers
  <2>2. registered = "wait_event" /\ g.c.handler # "handle_scan_dump"
    BY <1>3, <2>1, RegisteredFits
  <2>3. f.c.handler = "handle_scan_combined" /\ f.done = 2
    BY <1>4, <2>2, InnerWaits
  <2> QED BY <1>6, <2>2, <2>3
<1>14. PICK h : h = Handled(g, d)
  OBVIOUS
<1>15. /\ Frame(h, registered', sent')
       /\ h.id = g.id /\ h.argv = g.argv /\ h.c = g.c /\ h.done = g.done
       /\ h.owns = g.owns + NewOf(g) /\ g.owns \in 0..3 /\ NewOf(g) \in 0..1
       /\ h.at = (IF d.do = "call" THEN "calling" ELSE IF d.do = "return" THEN "out" ELSE d.do)
  <2>1. d.do = "send" => RegisteredBy(g.c) # "wait_event"
    BY <1>13
  <2> QED BY <1>2, <1>8, <1>10, <1>12, <1>14, <2>1, HandledFrame
<1>16. calls' = <<f, h>>
  <2>1. d.do # "call"
    BY <1>11
  <2> QED BY <1>1, <1>9, <1>14, <2>1, Zenon DEF Handles
<1>17. Inner(f, h)
  BY <1>4, <1>5, <1>15, Zenon DEF Inner, Calls
<1>18. heap' = (heap + h.owns) - g.owns
  <2>1. heap \in Int
    BY DEF IInv, HeapOK
  <2> QED BY <1>12, <1>15, <2>1
<1>19. registered' = "wait_event" => registered = "wait_event"
  BY <1>12, <1>13
<1> QED BY <1>2, <1>7, <1>12, <1>15, <1>16, <1>17, <1>18, <1>19, TopMovesTwo

\* or of either.
LEMMA HandleKeeps ==
  ASSUME IInv, Handle
  PROVE  IInv'
<1>1. calls # <<>> /\ CallsOK
  BY DEF Handle, IInv
<1>2. ASSUME NEW f, calls = <<f>>, Frame(f, registered, sent), Outer(f)
      PROVE  IInv'
  BY <1>2, HandleOne
<1>3. ASSUME NEW f, NEW g, calls = <<f, g>>, Frame(f, registered, sent), Outer(f),
             Frame(g, registered, sent), Inner(f, g)
      PROVE  IInv'
  BY <1>3, HandleTwo
<1> QED BY <1>1, <1>2, <1>3, CallsCases, Zenon
-----------------------------------------------------------------------------
\* The commands whose arguments a parser reads.
LEMMA ParsedHandler ==
  ASSUME NEW h \in Commands
  PROVE  h \notin Goers \cup {"handle_commands", "handle_reg_dump", "handle_scan_dump", "print_help",
                              "NULL", "none"}
<1>1. Joining(h) \/ Staged(h) \/ OneStage(h)
  BY HandlersAssumption, Zenon
<1> DEFINE others == Goers \cup {"handle_commands", "handle_reg_dump", "handle_scan_dump",
                                 "print_help", "NULL", "none"}
<1>2. \A x \in others : ~Joining(x)
  BY Zenon DEF Goers, Callers, Joining
<1>3. \A x \in others : ~Staged(x)
  BY ZenonT(60) DEF Goers, Callers, Staged
<1>4. \A x \in others : ~OneStage(x)
  BY ZenonT(60) DEF Goers, Callers, OneStage
<1> QED BY <1>1, <1>2, <1>3, <1>4, Zenon

\* A parser reads on.
LEMMA ParseKeeps ==
  ASSUME IInv, Parse, ArgsOK'
  PROVE  IInv'
<1>1. /\ line' = line /\ ran' = ran /\ calls' = calls /\ registered' = registered /\ sent' = sent
      /\ heap' = heap /\ exit' = exit
  BY DEF Parse, callVars
<1>2. CallsOK'
  BY <1>1, Zenon DEF IInv, CallsOK, Outer
<1>3. WaitOK' /\ HeapOK'
  BY <1>1, Zenon DEF IInv, WaitOK, HeapOK
<1>4. ExitOK' /\ DataOK'
  BY <1>1, Zenon DEF IInv, ExitOK, DataOK, NoRequest
<1> QED BY <1>2, <1>3, <1>4 DEF IInv
\* The end of a parser: the message is sent, or its result is returned.
LEMMA ParserEnds ==
  ASSUME ArgsOK, Returned, p.ret # "undefined"
  PROVE  p.ret \in Ends /\ (p.ret = "0" <=> Accepted)
<1>1. p.ret \in Returnable \cup {"undefined"} /\ p.ret # "go"
  BY DEF ArgsOK, Fine, Returned
<1> QED BY <1>1, EndsAre DEF Returnable, Accepted

Ended(f) == [f EXCEPT !.at = IF Accepted THEN "send" ELSE "out", !.err = p.ret]

\* The call after its parser.
LEMMA EndedFields ==
  ASSUME NEW f, Record(f)
  PROVE  LET h == Ended(f)
         IN  /\ Record(h) /\ h.at = (IF Accepted THEN "send" ELSE "out") /\ h.id = f.id
             /\ h.argv = f.argv /\ h.c = f.c /\ h.args = f.args /\ h.done = f.done
             /\ h.err = p.ret /\ h.owns = f.owns
<1>1. PICK t : t = IF Accepted THEN "send" ELSE "out"
  OBVIOUS
<1>2. PICK r : r = p.ret
  OBVIOUS
<1>3. PICK h : h = Ended(f)
  OBVIOUS
<1>4. h = [f EXCEPT !.at = t, !.err = r]
  BY <1>1, <1>2, <1>3 DEF Ended
<1>5. /\ Record(h) /\ h.at = t /\ h.id = f.id /\ h.argv = f.argv /\ h.c = f.c /\ h.args = f.args
      /\ h.done = f.done /\ h.err = r /\ h.owns = f.owns
  BY <1>4 DEF Record
<1> QED BY <1>1, <1>2, <1>3, <1>5

\* The parser has returned: the message is sent, or the result given back.
LEMMA ParserDoneFrame ==
  ASSUME ArgsOK, Returned, p.ret # "undefined", NEW f, Frame(f, registered, sent), f.at = "handler",
         Parsed(f.c), sent' = sent,
         registered' = IF Accepted THEN RegisteredBy(f.c) ELSE registered,
         registered = "wait_event" => f.c.handler = "handle_scan_dump" \/ f.c.handler \in Goers,
         NEW h, h = Ended(f)
  PROVE  /\ Frame(h, registered', sent')
         /\ h.id = f.id /\ h.argv = f.argv /\ h.c = f.c /\ h.done = f.done /\ h.owns = f.owns
         /\ f.owns \in 0..3 /\ h.at \in {"send", "out"}
         /\ registered' = "wait_event" => registered = "wait_event"
<1>1. Shape(f) /\ Record(f) /\ Place(f, sent)
  BY DEF Frame, Shape
<1>2. /\ Record(h) /\ h.at = (IF Accepted THEN "send" ELSE "out") /\ h.id = f.id /\ h.argv = f.argv
      /\ h.c = f.c /\ h.args = f.args /\ h.done = f.done /\ h.err = p.ret /\ h.owns = f.owns
  BY <1>1, EndedFields
<1>3. p.ret \in Ends /\ (p.ret = "0" <=> Accepted) /\ p.ret # "3"
  BY ParserEnds, EndsAre
<1>4. f.c.handler \notin Goers \cup {"handle_commands", "handle_reg_dump", "handle_scan_dump"}
  BY ParsedHandler DEF Parsed
<1>5. f.owns \in 0..3 /\ f.done \in Nat /\ f.c \in Table
  BY <1>1 DEF Shape
<1>6. h.at \in {"send", "out"} /\ h.at \in Places /\ (h.at = "send" <=> Accepted)
  BY <1>2 DEF Places
<1>7. Shape(h)
  <2>1. h.at \notin {"find", "command"} /\ f.at \notin {"find", "command"}
    BY <1>6
  <2> QED BY <1>1, <1>2, <1>5, <1>6, <2>1, ShapeStays
<1>8. f.c.handler \notin Callers \cup {"print_events", "handle_commands"} /\ f.c.handler # "handle_cac"
      /\ f.c.handler \notin {"handle_reg_get", "handle_reg_dump"}
  BY <1>4 DEF Goers, Callers
<1>9. Place(h, sent)
  BY <1>2, <1>3, <1>6, <1>8 DEF Place
<1>10. /\ f.c.cmd \in DOMAIN Printers => RegisteredBy(f.c) \in Printers[f.c.cmd]
       /\ RegisteredBy(f.c) = "wait_event" => registered = "wait_event" /\ f.c.handler # "handle_scan_dump"
  <2>1. f.c.handler # "handle_commands" /\ f.c.handler # "handle_reg_get"
    BY <1>8
  <2> QED BY <1>5, <2>1, RegisteredFits
<1>11. RegisteredBy(f.c) # "wait_event"
  BY <1>4, <1>10
<1>12. Prints(h, registered')
  <2>1. CASE Accepted
    <3>1. registered' = RegisteredBy(f.c) /\ h.at = "send"
      BY <1>2, <2>1
    <3> QED BY <1>2, <1>8, <1>10, <1>11, <3>1 DEF Prints
  <2>2. CASE ~Accepted
    <3>1. h.at = "out"
      BY <1>2, <2>2
    <3> QED BY <1>2, <1>8, <3>1 DEF Prints
  <2> QED BY <2>1, <2>2
<1> QED BY <1>2, <1>5, <1>6, <1>7, <1>9, <1>11, <1>12 DEF Frame

\* For the command of the command line,
LEMMA ParserDoneOne ==
  ASSUME IInv, ParserDone, p.ret # "undefined",
         NEW f, calls = <<f>>, Frame(f, registered, sent), Outer(f)
  PROVE  IInv'
<1>1. Top = f /\ Below = <<>> /\ \A g : Set(g) <=> calls' = <<g>>
  BY TopOfOne
<1>2. PICK h : h = Ended(f)
  OBVIOUS
<1>3. /\ f.at = "handler" /\ Parsed(f.c) /\ Returned /\ calls' = <<h>> /\ exit' = exit
      /\ registered' = IF Accepted THEN RegisteredBy(f.c) ELSE registered
      /\ line' = line /\ ran' = ran /\ sent' = sent /\ heap' = heap /\ UNCHANGED argVars
  BY <1>1, <1>2, Zenon DEF ParserDone, Ended
<1>4. calls # <<>> /\ calls[1] = f
  OBVIOUS
<1>5. registered = "wait_event" => f.c.handler = "handle_scan_dump" \/ f.c.handler \in Goers
  <2>1. registered = "wait_event" => Listened(f)
    BY <1>4 DEF IInv, WaitOK
  <2> QED BY <2>1 DEF Listened, Goers, Callers
<1>6. ArgsOK
  BY DEF IInv
<1>7. /\ Frame(h, registered', sent')
      /\ h.id = f.id /\ h.argv = f.argv /\ h.c = f.c /\ h.done = f.done /\ h.owns = f.owns
      /\ f.owns \in 0..3 /\ h.at \in {"send", "out"}
      /\ registered' = "wait_event" => registered = "wait_event"
  BY <1>2, <1>3, <1>5, <1>6, ParserDoneFrame
<1>8. ArgsOK' /\ DataOK'
  BY <1>3, ArgsStay, DataStays DEF IInv
<1>9. Outer(h)'
  <2>1. h.at \notin {"find", "command"} /\ f.at \notin {"find", "command"}
    BY <1>3, <1>7
  <2> QED BY <1>3, <1>7, <2>1, Zenon DEF Outer
<1>10. heap' = (heap + h.owns) - f.owns
  <2>1. heap \in Int
    BY DEF IInv, HeapOK
  <2> QED BY <1>3, <1>7, <2>1
<1>11. (Listened(f) => Listened(h)) /\ h.at # "calling"
  BY <1>7 DEF Listened
<1>12. (registered' = "wait_event" /\ registered # "wait_event") => Listened(h)
  BY <1>7
<1> QED BY <1>3, <1>7, <1>8, <1>9, <1>10, <1>11, <1>12, TopMovesOne

\* for a called one,
LEMMA ParserDoneTwo ==
  ASSUME IInv, ParserDone, p.ret # "undefined",
         NEW f, NEW g, calls = <<f, g>>, Frame(f, registered, sent), Outer(f),
         Frame(g, registered, sent), Inner(f, g)
  PROVE  IInv'
<1>1. Top = g /\ Below = <<f>> /\ \A h : Set(h) <=> calls' = <<f, h>>
  BY TopOfTwo
<1>2. PICK h : h = Ended(g)
  OBVIOUS
<1>3. /\ g.at = "handler" /\ Parsed(g.c) /\ Returned /\ calls' = <<f, h>> /\ exit' = exit
      /\ registered' = IF Accepted THEN RegisteredBy(g.c) ELSE registered
      /\ line' = line /\ ran' = ran /\ sent' = sent /\ heap' = heap /\ UNCHANGED argVars
  BY <1>1, <1>2, Zenon DEF ParserDone, Ended
<1>4. f.at = "calling" /\ Calls(f, g) /\ Callee(f.c.handler, f.done) # NoCallee
  BY DEF Inner, Frame, Place
<1>5. IsCallee(g.c, Callee(f.c.handler, f.done)) /\ g.c \in Table
  BY <1>3 DEF Inner, Frame, Shape
<1>6. registered = "wait_event" => g.c.handler = "handle_scan_dump" \/ g.c.handler \in Goers
  BY <1>4, <1>5, InnerWaits, InnerHandler
<1>7. ArgsOK
  BY DEF IInv
<1>8. /\ Frame(h, registered', sent')
      /\ h.id = g.id /\ h.argv = g.argv /\ h.c = g.c /\ h.done = g.done /\ h.owns = g.owns
      /\ g.owns \in 0..3 /\ h.at \in {"send", "out"}
      /\ registered' = "wait_event" => registered = "wait_event"
  BY <1>2, <1>3, <1>6, <1>7, ParserDoneFrame
<1>9. ArgsOK' /\ DataOK'
  BY <1>3, ArgsStay, DataStays DEF IInv
<1>10. Inner(f, h)
  BY <1>4, <1>5, <1>8, Zenon DEF Inner, Calls
<1>11. heap' = (heap + h.owns) - g.owns
  <2>1. heap \in Int
    BY DEF IInv, HeapOK
  <2> QED BY <1>3, <1>8, <2>1
<1> QED BY <1>3, <1>8, <1>9, <1>10, <1>11, TopMovesTwo

\* and for either; it may be that the result was never set.
LEMMA ParserDoneKeeps ==
  ASSUME IInv, ParserDone
  PROVE  IInv'
<1>1. calls # <<>> /\ CallsOK
  BY DEF ParserDone, IInv
<1>2. CASE p.ret = "undefined"
  <2>1. /\ calls' = <<>> /\ exit' = "undefined" /\ heap' = heap /\ line' = line /\ ran' = ran /\ sent' = sent
        /\ UNCHANGED argVars
    BY <1>2, Zenon DEF ParserDone
  <2>2. ArgsOK' /\ DataOK'
    BY <2>1, ArgsStay, DataStays DEF IInv
  <2>3. CallsOK' /\ WaitOK'
    BY <2>1, Zenon DEF CallsOK, WaitOK
  <2>4. HeapOK'
    <3>1. Len(calls') = 0 /\ heap \in 0..6
      BY <2>1 DEF IInv, HeapOK
    <3> QED BY <2>1, <3>1 DEF HeapOK
  <2>5. ExitOK'
    BY <2>1 DEF ExitOK, Running
  <2> QED BY <2>2, <2>3, <2>4, <2>5 DEF IInv
<1>3. CASE p.ret # "undefined"
  <2>1. ASSUME NEW f, calls = <<f>>, Frame(f, registered, sent), Outer(f)
        PROVE  IInv'
    BY <1>3, <2>1, ParserDoneOne
  <2>2. ASSUME NEW f, NEW g, calls = <<f, g>>, Frame(f, registered, sent), Outer(f),
               Frame(g, registered, sent), Inner(f, g)
        PROVE  IInv'
    BY <1>3, <2>2, ParserDoneTwo
  <2> QED BY <1>1, <2>1, <2>2, CallsCases, Zenon
<1> QED BY <1>2, <1>3
-----------------------------------------------------------------------------
GoesOn(f, r) == [f EXCEPT !.at = "handler", !.err = r, !.done = @ + 1]

\* A handler that has waited goes on.
LEMMA GoesOnFields ==
  ASSUME NEW f, Record(f), NEW r, NEW h, h = GoesOn(f, r)
  PROVE  /\ Record(h) /\ h.at = "handler" /\ h.id = f.id /\ h.argv = f.argv /\ h.c = f.c
         /\ h.args = f.args /\ h.done = f.done + 1 /\ h.err = r /\ h.owns = f.owns
<1>1. h = [f EXCEPT !.at = "handler", !.err = r, !.done = @ + 1]
  BY DEF GoesOn
<1> QED BY <1>1 DEF Record

\* A handler that has joined the groups, or has heard an event, goes on.
LEMMA HeardFrame ==
  ASSUME NEW f, Frame(f, registered, sent), f.at \in {"prepare", "listen"},
         f.c.handler \in Callers \cup {"print_events"},
         NEW r, NEW h, h = GoesOn(f, r),
         r \in Ends \/ (Kept(sent) /\ (r = "heard" \/ (r = "aborted" /\ f.c.handler = "handle_scan_combined"))),
         f.at = "prepare" => r \in Ends,
         f.at = "listen" => r \notin Ends
  PROVE  /\ \A reg : Frame(h, reg, sent)
         /\ h.id = f.id /\ h.argv = f.argv /\ h.c = f.c /\ h.done = f.done + 1
         /\ h.owns = f.owns /\ h.at = "handler" /\ f.owns \in 0..3
<1>1. Shape(f) /\ Record(f) /\ Place(f, sent)
  BY DEF Frame, Shape
<1>2. /\ Record(h) /\ h.at = "handler" /\ h.id = f.id /\ h.argv = f.argv /\ h.c = f.c
      /\ h.args = f.args /\ h.done = f.done + 1 /\ h.err = r /\ h.owns = f.owns
  BY <1>1, GoesOnFields
<1>3. f.owns \in 0..3 /\ f.done \in Nat
  BY <1>1 DEF Shape
<1>4. Shape(h)
  <2>1. h.at \notin {"find", "command"} /\ f.at \notin {"find", "command"} /\ h.at \in Places
    BY <1>2 DEF Places
  <2>2. h.done \in Nat /\ h.owns \in 0..3
    BY <1>2, <1>3
  <2> QED BY <1>1, <1>2, <2>1, <2>2, ShapeStays
<1>5. Resumed(h, sent)
  <2>1. CASE f.at = "prepare"
    <3>1. f.c.handler \in {"iw_connect", "print_events"} /\ f.done = 0
      BY <1>1, <2>1 DEF Place
    <3> QED BY <1>2, <2>1, <3>1 DEF Resumed
  <2>2. CASE f.at = "listen"
    <3>1. Listening(f) /\ Kept(sent)
      BY <1>1, <2>2 DEF Place
    <3>2. r = "heard" \/ (r = "aborted" /\ f.c.handler = "handle_scan_combined")
      BY <2>2
    <3> QED BY <1>2, <3>1, <3>2 DEF Resumed, Listening, Heards
  <2> QED BY <2>1, <2>2
<1>6. f.c.handler = "handle_cac" => f.owns = 1 /\ Len(f.argv) >= 3
  <2>1. f.at # "handler"
    OBVIOUS
  <2> QED BY <1>1, <2>1 DEF Place
<1>7. Place(h, sent)
  <2>1. h.done # 0
    BY <1>2, <1>3
  <2> QED BY <1>2, <1>5, <1>6, <2>1 DEF Place
<1>8. \A reg : Prints(h, reg)
  <2>1. f.c.handler # "handle_reg_get"
    BY DEF Callers
  <2> QED BY <1>2, <2>1 DEF Prints
<1> QED BY <1>2, <1>3, <1>4, <1>7, <1>8 DEF Frame

\* Only a handler of the command on the command line gets there.
LEMMA OnlyOuter ==
  ASSUME NEW f, NEW g, Frame(f, registered, sent), Frame(g, registered, sent), Inner(f, g),
         g.at \in {"prepare", "listen", "watch"}
  PROVE  FALSE
<1>1. Callee(f.c.handler, f.done) # NoCallee
  BY DEF Inner, Frame, Place
<1>2. g.c \in Table /\ IsCallee(g.c, Callee(f.c.handler, f.done))
  BY DEF Inner, Frame, Shape
<1>3. g.c.handler \notin Goers
  BY <1>1, <1>2, InnerHandler
<1> QED BY <1>3 DEF Frame, Place, Listening, Goers, Callers

\* The first call goes on after it has joined the groups or heard an event.
LEMMA HeardOne ==
  ASSUME IInv, NEW f, calls = <<f>>, Frame(f, registered, sent), Outer(f), f.at \in {"prepare", "listen"},
         f.c.handler \in Callers \cup {"print_events"},
         NEW r, Set(GoesOn(f, r)),
         r \in Ends \/ (Kept(sent) /\ (r = "heard" \/ (r = "aborted" /\ f.c.handler = "handle_scan_combined"))),
         f.at = "prepare" => r \in Ends,
         f.at = "listen" => r \notin Ends,
         line' = line, ran' = ran, sent' = sent, heap' = heap, exit' = exit, UNCHANGED argVars,
         \/ registered' = registered
         \/ registered' = "wait_event" /\ f.at = "listen" /\ f.c.handler \notin {"handle_cac", "handle_mgmt_dump"}
  PROVE  IInv'
<1>1. PICK h : h = GoesOn(f, r)
  OBVIOUS
<1>2. calls' = <<h>>
  BY <1>1, TopOfOne
<1>3. /\ \A reg : Frame(h, reg, sent)
      /\ h.id = f.id /\ h.argv = f.argv /\ h.c = f.c /\ h.done = f.done + 1
      /\ h.owns = f.owns /\ h.at = "handler" /\ f.owns \in 0..3
  BY <1>1, HeardFrame
<1>4. Frame(h, registered', sent') /\ h.at # "calling"
  BY <1>3
<1>5. Outer(h)'
  <2>1. h.at \notin {"find", "command"} /\ f.at \notin {"find", "command"}
    BY <1>3
  <2> QED BY <1>3, <2>1, Zenon DEF Outer
<1>6. ArgsOK' /\ DataOK'
  BY ArgsStay, DataStays DEF IInv
<1>7. heap' = (heap + h.owns) - f.owns
  <2>1. heap \in Int
    BY DEF IInv, HeapOK
  <2> QED BY <1>3, <2>1
<1>8. f.done \in Nat
  BY DEF Frame, Shape
<1>9. Listened(f) => Listened(h)
  BY <1>3, <1>8 DEF Listened
<1>10. (registered' = "wait_event" /\ registered # "wait_event") => Listened(h)
  <2>1. f.at = "listen" => Listening(f)
    BY DEF Frame, Place
  <2> QED BY <1>3, <1>8, <2>1 DEF Listened, Listening
<1> QED BY <1>2, <1>4, <1>5, <1>6, <1>7, <1>9, <1>10, TopMovesOne

\* __prepare_listen_events()
LEMMA PrepareKeeps ==
  ASSUME IInv, Prepare
  PROVE  IInv'
<1>1. calls # <<>> /\ CallsOK
  BY DEF Prepare, IInv
<1>2. ASSUME NEW f, calls = <<f>>, Frame(f, registered, sent), Outer(f)
      PROVE  IInv'
  <2>1. Top = f
    BY <1>2, TopOfOne
  <2>2. /\ f.at = "prepare" /\ line' = line /\ ran' = ran /\ registered' = registered /\ sent' = sent
        /\ heap' = heap /\ exit' = exit /\ UNCHANGED argVars
    BY <2>1, Zenon DEF Prepare
  <2>3. f.c.handler \in Callers \cup {"print_events"}
    <3>1. f.c.handler \in {"iw_connect", "print_events"}
      BY <1>2, <2>2 DEF Frame, Place
    <3> QED BY <3>1 DEF Callers
  <2>4. PICK r \in {"0", "error"} : Set(GoesOn(f, r))
    BY <2>1 DEF Prepare, GoesOn
  <2>5. r \in Ends
    BY EndsAre
  <2>6. f.at \in {"prepare", "listen"} /\ f.at # "listen"
    BY <2>2
  <2> QED BY <1>2, <2>2, <2>3, <2>4, <2>5, <2>6, HeardOne
<1>3. ASSUME NEW f, NEW g, calls = <<f, g>>, Frame(f, registered, sent), Outer(f),
             Frame(g, registered, sent), Inner(f, g)
      PROVE  IInv'
  <2>1. Top = g
    BY <1>3, TopOfTwo
  <2>2. g.at \in {"prepare", "listen", "watch"}
    BY <2>1 DEF Prepare
  <2> QED BY <1>3, <2>2, OnlyOuter
<1> QED BY <1>1, <1>2, <1>3, CallsCases, Zenon

\* __do_listen_events(), which replaces the callback.
LEMMA ListenKeeps ==
  ASSUME IInv, Listen
  PROVE  IInv'
<1>1. calls # <<>> /\ CallsOK
  BY DEF Listen, IInv
<1>2. ASSUME NEW f, calls = <<f>>, Frame(f, registered, sent), Outer(f)
      PROVE  IInv'
  <2>1. Top = f
    BY <1>2, TopOfOne
  <2>2. /\ f.at = "listen" /\ line' = line /\ ran' = ran /\ sent' = sent
        /\ heap' = heap /\ exit' = exit /\ UNCHANGED argVars
    BY <2>1, Zenon DEF Listen
  <2>3. Listening(f) /\ Kept(sent)
    BY <1>2, <2>2 DEF Frame, Place
  <2>4. f.c.handler \in Callers \cup {"print_events"}
    BY <2>3 DEF Listening, Callers
  <2>5. PICK r \in {"heard"} \cup {"aborted" : h \in {f.c.handler} \cap {"handle_scan_combined"}} :
          Set(GoesOn(f, r))
    BY <2>1 DEF Listen, GoesOn
  <2>6. r = "heard" \/ (r = "aborted" /\ f.c.handler = "handle_scan_combined")
    OBVIOUS
  <2>7. r \notin Ends
    BY <2>6, EndsAre
  <2>8. \/ registered' = registered
        \/ registered' = "wait_event" /\ f.at = "listen" /\ f.c.handler \notin {"handle_cac", "handle_mgmt_dump"}
    BY <2>1, <2>2, Zenon DEF Listen
  <2>9. f.at \in {"prepare", "listen"} /\ f.at # "prepare"
    BY <2>2
  <2> QED BY <1>2, <2>2, <2>3, <2>4, <2>5, <2>6, <2>7, <2>8, <2>9, HeardOne
<1>3. ASSUME NEW f, NEW g, calls = <<f, g>>, Frame(f, registered, sent), Outer(f),
             Frame(g, registered, sent), Inner(f, g)
      PROVE  IInv'
  <2>1. Top = g
    BY <1>3, TopOfTwo
  <2>2. g.at \in {"prepare", "listen", "watch"}
    BY <2>1 DEF Listen
  <2> QED BY <1>3, <2>2, OnlyOuter
<1> QED BY <1>1, <1>2, <1>3, CallsCases, Zenon
-----------------------------------------------------------------------------
\* A message is sent, and answered.
Sending(f) == [f EXCEPT !.at = "wait"]
Ending(f, r) == [f EXCEPT !.at = "out", !.err = r]

\* The call after the request was sent and after its answer.
LEMMA SendFrame ==
  ASSUME NEW f, Frame(f, registered, sent), f.at \in {"send", "wait"},
         NEW r, NEW s, NEW h,
         \/ h = Sending(f) /\ s = sent
         \/ h = Ending(f, r) /\ r \in {"0", "EOPNOTSUPP", "error"} /\ (r = "0" => Kept(s))
  PROVE  /\ Frame(h, registered, s)
         /\ h.id = f.id /\ h.argv = f.argv /\ h.c = f.c /\ h.done = f.done
         /\ h.owns = f.owns /\ h.at \in {"wait", "out"} /\ f.owns \in 0..3
<1>1. Shape(f) /\ Record(f) /\ Place(f, sent) /\ Prints(f, registered)
  BY DEF Frame, Shape
<1>2. CASE h = Sending(f) /\ s = sent
  <2>1. /\ Record(h) /\ h.at = "wait" /\ h.id = f.id /\ h.argv = f.argv /\ h.c = f.c
        /\ h.args = f.args /\ h.done = f.done /\ h.err = f.err /\ h.owns = f.owns
    BY <1>1, <1>2 DEF Sending, Record
  <2>2. Shape(h) /\ f.owns \in 0..3
    <3>1. h.at \notin {"find", "command"} /\ f.at \notin {"find", "command"} /\ h.at \in Places
      BY <2>1 DEF Places
    <3>2. h.done \in Nat /\ h.owns \in 0..3 /\ f.owns \in 0..3
      BY <1>1, <2>1 DEF Shape
    <3> QED BY <1>1, <2>1, <3>1, <3>2, ShapeStays
  <2>3. Place(h, s)
    BY <1>1, <2>1 DEF Place
  <2>4. Prints(h, registered)
    <3>1. f.at \notin {"handler", "out"} /\ h.at \notin {"handler", "out"}
      BY <2>1
    <3> QED BY <1>1, <2>1, <3>1, Zenon DEF Prints
  <2> QED BY <2>1, <2>2, <2>3, <2>4 DEF Frame
<1>3. CASE h = Ending(f, r) /\ r \in {"0", "EOPNOTSUPP", "error"} /\ (r = "0" => Kept(s))
  <2>1. /\ Record(h) /\ h.at = "out" /\ h.id = f.id /\ h.argv = f.argv /\ h.c = f.c
        /\ h.args = f.args /\ h.done = f.done /\ h.err = r /\ h.owns = f.owns
    BY <1>1, <1>3 DEF Ending, Record
  <2>2. Shape(h) /\ f.owns \in 0..3
    <3>1. h.at \notin {"find", "command"} /\ f.at \notin {"find", "command"} /\ h.at \in Places
      BY <2>1 DEF Places
    <3>2. h.done \in Nat /\ h.owns \in 0..3 /\ f.owns \in 0..3
      BY <1>1, <2>1 DEF Shape
    <3> QED BY <1>1, <2>1, <3>1, <3>2, ShapeStays
  <2>3. Place(h, s)
    <3>1. r \in Ends /\ r # "3"
      BY <1>3, EndsAre
    <3> QED BY <1>1, <1>3, <2>1, <3>1 DEF Place
  <2>4. Prints(h, registered)
    <3>1. h.at \notin {"send", "wait", "handler"}
      BY <2>1
    <3> QED BY <1>1, <2>1, <3>1, Zenon DEF Prints
  <2> QED BY <2>1, <2>2, <2>3, <2>4 DEF Frame
<1> QED BY <1>2, <1>3

\* The answer is for the command of the command line,
LEMMA SendOne ==
  ASSUME IInv, NEW f, calls = <<f>>, Frame(f, registered, sent), Outer(f), f.at \in {"send", "wait"},
         NEW r, NEW h, Set(h),
         \/ h = Sending(f) /\ sent' = sent
         \/ h = Ending(f, r) /\ r \in {"0", "EOPNOTSUPP", "error"} /\ (r = "0" => Kept(sent')),
         line' = line, ran' = ran, registered' = registered, heap' = heap, exit' = exit, ArgsOK', DataOK'
  PROVE  IInv'
<1>1. calls' = <<h>>
  BY TopOfOne
<1>2. /\ Frame(h, registered, sent')
      /\ h.id = f.id /\ h.argv = f.argv /\ h.c = f.c /\ h.done = f.done
      /\ h.owns = f.owns /\ h.at \in {"wait", "out"} /\ f.owns \in 0..3
  BY SendFrame
<1>3. Frame(h, registered', sent') /\ h.at # "calling"
  BY <1>2
<1>4. Outer(h)'
  <2>1. h.at \notin {"find", "command"} /\ f.at \notin {"find", "command"}
    BY <1>2
  <2> QED BY <1>2, <2>1, Zenon DEF Outer
<1>5. heap' = (heap + h.owns) - f.owns
  <2>1. heap \in Int
    BY DEF IInv, HeapOK
  <2> QED BY <1>2, <2>1
<1>6. Listened(f) => Listened(h)
  BY <1>2 DEF Listened
<1> QED BY <1>1, <1>3, <1>4, <1>5, <1>6, TopMovesOne

\* or for a called one.
LEMMA SendTwo ==
  ASSUME IInv, NEW f, NEW g, calls = <<f, g>>, Frame(f, registered, sent), Outer(f),
         Frame(g, registered, sent), Inner(f, g), g.at \in {"send", "wait"},
         NEW r, NEW h, Set(h),
         \/ h = Sending(g) /\ sent' = sent
         \/ h = Ending(g, r) /\ r \in {"0", "EOPNOTSUPP", "error"} /\ (r = "0" => Kept(sent')),
         line' = line, ran' = ran, registered' = registered, heap' = heap, exit' = exit, ArgsOK', DataOK'
  PROVE  IInv'
<1>1. calls' = <<f, h>>
  BY TopOfTwo
<1>2. /\ Frame(h, registered, sent')
      /\ h.id = g.id /\ h.argv = g.argv /\ h.c = g.c /\ h.done = g.done
      /\ h.owns = g.owns /\ h.at \in {"wait", "out"} /\ g.owns \in 0..3
  BY SendFrame
<1>3. Frame(h, registered', sent')
  BY <1>2
<1>4. Inner(f, h)
  <2>1. h.at \notin {"find", "command"} /\ g.at \notin {"find", "command"}
    BY <1>2
  <2> QED BY <1>2, <2>1, Zenon DEF Inner, Calls
<1>5. heap' = (heap + h.owns) - g.owns
  <2>1. heap \in Int
    BY DEF IInv, HeapOK
  <2> QED BY <1>2, <2>1
<1> QED BY <1>1, <1>3, <1>4, <1>5, TopMovesTwo

\* nl_send_auto_complete()
LEMMA SendKeeps ==
  ASSUME IInv, Send
  PROVE  IInv'
<1>1. /\ calls # <<>> /\ CallsOK /\ Top.at = "send"
      /\ line' = line /\ ran' = ran /\ registered' = registered /\ sent' = sent
      /\ heap' = heap /\ exit' = exit /\ UNCHANGED argVars
  BY Zenon DEF Send, IInv
<1>2. ArgsOK' /\ DataOK'
  BY <1>1, ArgsStay, DataStays DEF IInv
<1>3. PICK h : Set(h) /\ (h = Sending(Top) \/ h = Ending(Top, "error"))
  BY Zenon DEF Send, Sending, Ending
<1>4. "error" \in {"0", "EOPNOTSUPP", "error"} /\ ("error" = "0" => Kept(sent'))
  OBVIOUS
<1>5. ASSUME NEW f, calls = <<f>>, Frame(f, registered, sent), Outer(f)
      PROVE  IInv'
  <2>1. Top = f
    BY <1>5, TopOfOne
  <2>2. f.at \in {"send", "wait"}
    BY <1>1, <2>1
  <2>3. \/ h = Sending(f) /\ sent' = sent
        \/ h = Ending(f, "error") /\ "error" \in {"0", "EOPNOTSUPP", "error"} /\ ("error" = "0" => Kept(sent'))
    BY <1>1, <1>3, <1>4, <2>1, Zenon
  <2> QED BY <1>1, <1>2, <1>3, <1>5, <2>2, <2>3, SendOne
<1>6. ASSUME NEW f, NEW g, calls = <<f, g>>, Frame(f, registered, sent), Outer(f),
             Frame(g, registered, sent), Inner(f, g)
      PROVE  IInv'
  <2>1. Top = g
    BY <1>6, TopOfTwo
  <2>2. g.at \in {"send", "wait"}
    BY <1>1, <2>1
  <2>3. \/ h = Sending(g) /\ sent' = sent
        \/ h = Ending(g, "error") /\ "error" \in {"0", "EOPNOTSUPP", "error"} /\ ("error" = "0" => Kept(sent'))
    BY <1>1, <1>3, <1>4, <2>1, Zenon
  <2> QED BY <1>1, <1>2, <1>3, <1>6, <2>2, <2>3, SendTwo
<1> QED BY <1>1, <1>5, <1>6, CallsCases, Zenon

\* nl_recvmsgs() until err is no longer 1.
LEMMA AnsweredKeeps ==
  ASSUME IInv, Answered
  PROVE  IInv'
<1>1. /\ calls # <<>> /\ CallsOK /\ Top.at = "wait"
      /\ line' = line /\ ran' = ran /\ registered' = registered
      /\ heap' = heap /\ exit' = exit /\ UNCHANGED argVars
  BY Zenon DEF Answered, IInv
<1>2. PICK r \in {"0", "EOPNOTSUPP", "error"} :
        sent' = Append(sent, [cmd |-> Top.c.cmd, r |-> r]) /\ Set(Ending(Top, r))
  BY DEF Answered, Ending
<1>3. Top.c \in Table
  <2>1. ASSUME NEW f, calls = <<f>>, Frame(f, registered, sent), Outer(f)
        PROVE  Top.c \in Table
    <3>1. Top = f
      BY <2>1, TopOfOne
    <3> QED BY <1>1, <2>1, <3>1 DEF Frame, Shape
  <2>2. ASSUME NEW f, NEW g, calls = <<f, g>>, Frame(f, registered, sent), Outer(f),
               Frame(g, registered, sent), Inner(f, g)
        PROVE  Top.c \in Table
    <3>1. Top = g
      BY <2>2, TopOfTwo
    <3> QED BY <1>1, <2>2, <3>1 DEF Frame, Shape
  <2> QED BY <1>1, <2>1, <2>2, CallsCases, Zenon
<1>4. LET S == [cmd : {c.cmd : c \in Table}, r : {"0", "error", "EOPNOTSUPP"}]
          e == [cmd |-> Top.c.cmd, r |-> r]
      IN  sent \in Seq(S) /\ e \in S /\ e.r = r
  <2>1. Top.c.cmd \in {c.cmd : c \in Table}
    BY <1>3
  <2> QED BY <2>1 DEF IInv, DataOK
<1>5. /\ sent' \in Seq([cmd : {c.cmd : c \in Table}, r : {"0", "error", "EOPNOTSUPP"}])
      /\ sent' # <<>> /\ sent'[Len(sent')].r = r
  <2>1. PICK S : S = [cmd : {c.cmd : c \in Table}, r : {"0", "error", "EOPNOTSUPP"}]
    OBVIOUS
  <2>2. PICK e : e = [cmd |-> Top.c.cmd, r |-> r]
    OBVIOUS
  <2>3. sent \in Seq(S) /\ e \in S /\ e.r = r /\ sent' = Append(sent, e)
    BY <1>2, <1>4, <2>1, <2>2
  <2>4. sent' \in Seq(S) /\ sent' # <<>> /\ sent'[Len(sent')] = e
    BY <2>3
  <2> QED BY <2>1, <2>3, <2>4
<1>6. r = "0" => Kept(sent')
  BY <1>5 DEF Kept
<1>7. ArgsOK'
  BY <1>1, ArgsStay DEF IInv
<1>8. DataOK'
  BY <1>1, <1>5, Zenon DEF IInv, DataOK
<1>9. ASSUME NEW f, calls = <<f>>, Frame(f, registered, sent), Outer(f)
      PROVE  IInv'
  <2>1. Top = f
    BY <1>9, TopOfOne
  <2>2. f.at \in {"send", "wait"}
    BY <1>1, <2>1
  <2>3. PICK h : h = Ending(f, r)
    OBVIOUS
  <2>4. Set(h)
    BY <1>2, <2>1, <2>3
  <2> QED BY <1>1, <1>6, <1>7, <1>8, <1>9, <2>2, <2>3, <2>4, SendOne
<1>10. ASSUME NEW f, NEW g, calls = <<f, g>>, Frame(f, registered, sent), Outer(f),
             Frame(g, registered, sent), Inner(f, g)
      PROVE  IInv'
  <2>1. Top = g
    BY <1>10, TopOfTwo
  <2>2. g.at \in {"send", "wait"}
    BY <1>1, <2>1
  <2>3. PICK h : h = Ending(g, r)
    OBVIOUS
  <2>4. Set(h)
    BY <1>2, <2>1, <2>3
  <2> QED BY <1>1, <1>6, <1>7, <1>8, <1>10, <2>2, <2>3, <2>4, SendTwo
<1> QED BY <1>1, <1>9, <1>10, CallsCases, Zenon-----------------------------------------------------------------------------
\* The label out: what the call has allocated is given back.
LEMMA OutKeeps ==
  ASSUME IInv, Out
  PROVE  IInv'
<1>1. /\ calls # <<>> /\ CallsOK /\ Top.at = "out" /\ Returns(Top.err)
      /\ heap' = heap - Top.owns
      /\ line' = line /\ ran' = ran /\ registered' = registered /\ sent' = sent /\ UNCHANGED argVars
  BY Zenon DEF Out, IInv
<1>2. ArgsOK' /\ DataOK'
  BY <1>1, ArgsStay, DataStays DEF IInv
<1>3. ASSUME NEW f, calls = <<f>>, Frame(f, registered, sent), Outer(f)
      PROVE  IInv'
  <2>1. Top = f
    BY <1>3, TopOfOne
  <2>2. f.at = "out" /\ Returns(f.err)
    BY <1>1, <2>1
  <2>3. /\ f.err \in Ends \cup {"3"}
        /\ f.err \in {"0", "3"} => NoRequest \/ Kept(sent)
    BY <1>3, <2>2 DEF Frame, Place
  <2>4. heap' = 0
    <3>1. Len(calls) = 1 /\ calls[1] = f
      BY <1>3
    <3>2. heap = f.owns /\ heap \in 0..6
      BY <3>1 DEF IInv, HeapOK
    <3> QED BY <1>1, <2>1, <3>2
  <2> QED BY <1>1, <1>2, <1>3, <2>2, <2>3, <2>4, MainReturns
<1>4. ASSUME NEW f, NEW g, calls = <<f, g>>, Frame(f, registered, sent), Outer(f),
             Frame(g, registered, sent), Inner(f, g)
      PROVE  IInv'
  <2>1. Top = g
    BY <1>4, TopOfTwo
  <2>2. g.at = "out" /\ Returns(g.err) /\ heap' = heap - g.owns
    BY <1>1, <2>1
  <2>3. Callee(f.c.handler, f.done) # NoCallee
    BY <1>4 DEF Inner, Frame, Place
  <2>4. IsCallee(g.c, Callee(f.c.handler, f.done)) /\ g.c \in Table
    BY <1>4, <2>2 DEF Inner, Frame, Shape
  <2>5. g.c.handler \notin Goers /\ (f.c.handler = "handle_reg_get" => g.c.handler = "handle_reg_dump")
    BY <2>3, <2>4, InnerHandler
  <2>6. g.err \in Ends /\ (g.err = "0" => Kept(sent))
    <3>1. g.c.handler # "handle_reg_get"
      BY <2>5 DEF Goers
    <3> QED BY <1>4, <2>2, <3>1 DEF Frame, Place
  <2>7. (f.c.handler = "handle_reg_get" /\ g.err = "EOPNOTSUPP") => registered = "print_reg_handler"
    BY <1>4, <2>2, <2>5 DEF Frame, Prints
  <2> QED BY <1>1, <1>2, <1>4, <2>2, <2>6, <2>7, CallReturns
<1> QED BY <1>1, <1>3, <1>4, CallsCases, Zenon-----------------------------------------------------------------------------
\* A parser runs for a command that has one.
CmdOK == (calls # <<>> /\ Parsed(Top.c)) => cmd \in Commands

\* A command that sends nothing has no parser.
LEMMA NothingParsed ==
  /\ ~Parsed(NoCommand)
  /\ \A c \in Table : c.cmd = "0" => ~Parsed(c)
<1>1. "NULL" \notin Commands
  BY ParsedHandler
<1>2. ASSUME NEW c \in Table, c.cmd = "0"
      PROVE  ~Parsed(c)
  <2>1. c.handler \in Callers \cup {"print_events", "print_help", "NULL"}
    BY <1>2, CalleesAssumption, Zenon DEF CalleesReachable
  <2>2. c.handler \in Goers \cup {"print_help", "NULL"}
    BY <2>1, Zenon DEF Goers
  <2> QED BY <2>2, ParsedHandler, Zenon DEF Parsed
<1> QED BY <1>1, <1>2, NoCommandIs DEF Parsed

\* The call that runs moves: the parser is still the one of its command.
LEMMA SetKeepsCmd ==
  ASSUME CallsOK, calls # <<>>, CmdOK, NEW h, Set(h), h.c = Top.c \/ ~Parsed(h.c), cmd' = cmd
  PROVE  CmdOK'
<1>1. calls' # <<>> => Top' = h
  <2>1. ASSUME NEW f, calls = <<f>>
        PROVE  Top' = h
    <3>1. calls' = <<h>>
      BY <2>1, TopOfOne
    <3> QED BY <3>1 DEF Top
  <2>2. ASSUME NEW f, NEW g, calls = <<f, g>>
        PROVE  Top' = h
    <3>1. calls' = <<f, h>>
      BY <2>2, TopOfTwo
    <3> QED BY <3>1 DEF Top
  <2> QED BY <2>1, <2>2, CallsCases, Zenon
<1> QED BY <1>1 DEF CmdOK, Parsed

\* It returns: the one below it has none.
LEMMA ReturnsKeepsCmd ==
  ASSUME CallsOK, calls # <<>>, NEW r, Returns(r)
  PROVE  CmdOK'
<1>1. ASSUME NEW f, calls = <<f>>
      PROVE  CmdOK'
  <2>1. calls' = <<>>
    BY <1>1, TopOfOne, Zenon DEF Returns
  <2> QED BY <2>1, Zenon DEF CmdOK
<1>2. ASSUME NEW f, NEW g, calls = <<f, g>>, Frame(f, registered, sent), Inner(f, g)
      PROVE  CmdOK'
  <2>1. PICK f2 : f2 = [f EXCEPT !.at = "handler", !.err = r, !.done = @ + 1]
    OBVIOUS
  <2>2. Below = <<f>>
    BY <1>2, TopOfTwo
  <2>3. calls' = <<f2>>
    <3>1. Len(<<f>>) = 1 /\ <<f>> # <<>>
      OBVIOUS
    <3>2. calls' = [<<f>> EXCEPT ![1].at = "handler", ![1].err = r, ![1].done = @ + 1]
      BY <2>2, <3>1 DEF Returns
    <3> QED BY <2>1, <3>2
  <2>4. f2.c = f.c
    BY <1>2, <2>1 DEF Frame, Shape, Record
  <2>5. f.c.handler \in Goers
    <3>1. Callee(f.c.handler, f.done) # NoCallee
      BY <1>2 DEF Inner, Frame, Place
    <3> QED BY <3>1, CalleeCases DEF Goers, Callers
  <2>6. Top' = f2
    BY <2>3 DEF Top
  <2> QED BY <2>4, <2>5, <2>6, ParsedHandler, Zenon DEF CmdOK, Parsed
<1> QED BY <1>1, <1>2, CallsCases, Zenon

\* A call that begins has no command.
LEMMA CallBegins ==
  ASSUME NEW x, NEW id, NEW argv, \/ calls' = <<CallOf(id, argv)>>
                                  \/ calls' = Below \o <<x, CallOf(id, argv)>>,
         CallsOK
  PROVE  CmdOK'
<1>1. PICK h : h = CallOf(id, argv)
  OBVIOUS
<1>2. h.c = NoCommand
  BY <1>1 DEF CallOf
<1>3. CASE calls' = <<h>>
  <2>1. Top' = h
    BY <1>3 DEF Top
  <2> QED BY <1>2, <2>1, NothingParsed DEF CmdOK
<1>4. CASE calls' = Below \o <<x, h>>
  <2>1. CASE Below = <<>>
    <3>1. calls' = <<x, h>>
      BY <1>4, <2>1
    <3>2. Top' = h
      BY <3>1 DEF Top
    <3> QED BY <1>2, <3>2, NothingParsed DEF CmdOK
  <2>2. ASSUME NEW f, Below = <<f>>
        PROVE  CmdOK'
    <3>1. calls' = <<f>> \o <<x, h>>
      BY <1>4, <2>2
    <3>2. <<f>> \in Seq({f, x, h}) /\ <<x, h>> \in Seq({f, x, h})
      OBVIOUS
    <3>3. Len(calls') = 3 /\ calls'[3] = <<x, h>>[2]
      BY <3>1, <3>2, ConcatProperties
    <3>4. Top' = h
      BY <3>3 DEF Top
    <3> QED BY <1>2, <3>4, NothingParsed DEF CmdOK
  <2>3. CASE calls = <<>>
    <3>1. Below = <<>>
      BY <2>3 DEF Below
    <3> QED BY <2>1, <3>1
  <2>4. CASE calls # <<>>
    BY <2>1, <2>2, <2>4, CallsCases, TopOfOne, TopOfTwo, Zenon
  <2> QED BY <2>3, <2>4
<1> QED BY <1>1, <1>3, <1>4
\* The call that runs is a record.
LEMMA TopRecord ==
  ASSUME CallsOK, calls # <<>>
  PROVE  Record(Top)
<1>1. ASSUME NEW f, calls = <<f>>, Frame(f, registered, sent)
      PROVE  Record(Top)
  <2>1. Top = f
    BY <1>1, TopOfOne
  <2> QED BY <1>1, <2>1 DEF Frame, Shape
<1>2. ASSUME NEW f, NEW g, calls = <<f, g>>, Frame(g, registered, sent)
      PROVE  Record(Top)
  <2>1. Top = g
    BY <1>2, TopOfTwo
  <2> QED BY <1>2, <2>1 DEF Frame, Shape
<1> QED BY <1>1, <1>2, CallsCases, Zenon

\* Handling a command does not change it.
LEMMA HandledCmd ==
  ASSUME NEW f, Record(f), NEW d
  PROVE  Handled(f, d).c = f.c
<1>1. PICK g : g = [f EXCEPT !.owns = @ + NewOf(f)]
  OBVIOUS
<1>2. Record(g) /\ g.c = f.c
  BY <1>1 DEF Record
<1>3. PICK h : h = Handled(f, d)
  OBVIOUS
<1>4. h = IF d.do = "call" THEN [g EXCEPT !.at = "calling"]
          ELSE IF d.do = "return" THEN [g EXCEPT !.at = "out", !.err = d.r]
          ELSE [g EXCEPT !.at = d.do]
  BY <1>1, <1>3 DEF Handled
<1>5. [g EXCEPT !.at = "calling"].c = g.c
  BY <1>2 DEF Record
<1>6. ASSUME NEW r PROVE [g EXCEPT !.at = "out", !.err = r].c = g.c
  BY <1>2 DEF Record
<1>7. ASSUME NEW r PROVE [g EXCEPT !.at = r].c = g.c
  BY <1>2 DEF Record
<1>8. h.c = g.c
  BY <1>4, <1>5, <1>6, <1>7, Zenon
<1> QED BY <1>2, <1>3, <1>8

\* The command that was found names its parser.
LEMMA FindCommandKeepsCmd ==
  ASSUME CallsOK, CmdOK, FindCommand
  PROVE  CmdOK'
<1>1. calls # <<>> /\ Top.at = "command"
  BY DEF FindCommand
<1>2. PICK r \in Found(By(Top.id), Behind(Top.id, Top.argv)) :
        FindsNone(r) \/ FindsAction(Top, r) \/ \E n \in Allocated : FindsRequest(Top, r, n)
  BY FindCommandCases, Zenon
<1>3. /\ Record(Top) /\ Top.done = 0 /\ Top.owns = 0
      /\ Behind(Top.id, Top.argv) \in Seq(AllWords) /\ Behind(Top.id, Top.argv) # <<>>
  <2>1. ASSUME NEW f, Shape(f), f.at = "command"
        PROVE  /\ Record(f) /\ f.done = 0 /\ f.owns = 0
               /\ Behind(f.id, f.argv) \in Seq(AllWords) /\ Behind(f.id, f.argv) # <<>>
    <3>1. f.at # "find" /\ f.at \in {"find", "command"}
      BY <2>1
    <3>2. Behind(f.id, f.argv) \in Seq(AllWords) /\ Behind(f.id, f.argv) # <<>>
      BY <2>1, <3>1, BehindWords
    <3> QED BY <2>1, <3>1, <3>2, Zenon DEF Shape
  <2>2. Shape(Top)
    <3>1. ASSUME NEW f, calls = <<f>>, Frame(f, registered, sent)
          PROVE  Shape(Top)
      BY <3>1, TopOfOne DEF Frame
    <3>2. ASSUME NEW f, NEW g, calls = <<f, g>>, Frame(g, registered, sent)
          PROVE  Shape(Top)
      BY <3>2, TopOfTwo DEF Frame
    <3> QED BY <1>1, <3>1, <3>2, CallsCases, Zenon
  <2> QED BY <1>1, <2>1, <2>2, Zenon
<1>4. ASSUME NEW x, Refuse(x)
      PROVE  CmdOK'
  BY <1>1, <1>4, ReturnsKeepsCmd DEF Refuse
<1>5. CASE FindsNone(r)
  BY <1>4, <1>5 DEF FindsNone
<1>6. CASE FindsAction(Top, r)
  <2>1. PICK h : h = Acting(Top, r)
    OBVIOUS
  <2>2. h.c = r.c
    BY <1>3, <2>1, ActionFields
  <2>3. r.c \in Table
    BY <1>3, <1>6, FoundAre DEF FindsAction
  <2>4. ~Parsed(h.c)
    BY <1>6, <2>2, <2>3, NothingParsed DEF FindsAction
  <2>5. Set(h) /\ cmd' = cmd
    BY <1>6, <2>1 DEF FindsAction, argVars
  <2> QED BY <1>1, <2>4, <2>5, SetKeepsCmd
<1>7. ASSUME NEW n \in Allocated, FindsRequest(Top, r, n)
      PROVE  CmdOK'
  <2>1. CASE n = 0
    BY <1>4, <1>7, <2>1, Zenon DEF FindsRequest
  <2>2. CASE n # 0
    <3>1. n \in 1..3
      BY <2>2 DEF Allocated
    <3>2. PICK h : h = Requesting(Top, r, n)
      OBVIOUS
    <3>3. h.c = r.c
      BY <1>3, <3>1, <3>2, RequestFields
    <3>4. Set(h) /\ IF Parsed(r.c) THEN cmd' = r.c.handler ELSE UNCHANGED argVars
      BY <1>7, <2>2, <3>2, Zenon DEF FindsRequest
    <3>5. CASE Parsed(r.c)
      BY <3>4, <3>5 DEF CmdOK, Parsed
    <3>6. CASE ~Parsed(r.c)
      <4>1. ~Parsed(h.c) /\ cmd' = cmd
        BY <3>3, <3>4, <3>6 DEF argVars
      <4> QED BY <1>1, <3>4, <4>1, SetKeepsCmd
    <3> QED BY <3>5, <3>6
  <2> QED BY <2>1, <2>2
<1> QED BY <1>2, <1>5, <1>6, <1>7

\* Its handler keeps it.
LEMMA HandleKeepsCmd ==
  ASSUME CallsOK, CmdOK, Handle
  PROVE  CmdOK'
<1>1. calls # <<>> /\ Record(Top) /\ cmd' = cmd
  BY TopRecord DEF Handle, argVars
<1>2. CASE Returns("1")
  BY <1>1, <1>2, ReturnsKeepsCmd
<1>3. ASSUME NEW d, Handles(Top, d)
      PROVE  CmdOK'
  <2>1. PICK h : h = Handled(Top, d)
    OBVIOUS
  <2>2. CASE calls' = Below \o <<h, CallOf(d.id, d.argv)>>
    BY <2>2, CallBegins
  <2>3. CASE Set(h)
    <3>1. h.c = Top.c
      BY <1>1, <2>1, HandledCmd
    <3> QED BY <1>1, <2>3, <3>1, SetKeepsCmd
  <2> QED BY <1>3, <2>1, <2>2, <2>3, Zenon DEF Handles
<1> QED BY <1>2, <1>3, HandleCases, Zenon

\* Every action keeps it.
LEMMA CmdKept ==
  ASSUME CallsOK, CmdOK, Next
  PROVE  CmdOK'
<1>1. calls # <<>> => Record(Top)
  BY TopRecord
<1>2. CASE Start
  <2>1. cmd' = cmd /\ calls = <<>>
    BY <1>2 DEF Start, argVars
  <2>2. CASE calls' = calls
    BY <2>1, <2>2, Zenon DEF CmdOK
  <2>3. CASE calls' = <<CallOf(Identified(line.words).id, Identified(line.words).argv)>>
    BY <2>3, CallBegins
  <2> QED BY <1>2, <2>2, <2>3, Zenon DEF Start
<1>3. CASE FindDevice
  <2>1. calls # <<>>
    BY <1>3 DEF FindDevice
  <2>2. ASSUME NEW x, Refuse(x)
        PROVE  CmdOK'
    BY <2>1, <2>2, ReturnsKeepsCmd DEF Refuse
  <2>3. PICK h : h = [Top EXCEPT !.at = "command"]
    OBVIOUS
  <2>4. CASE Set(h) /\ UNCHANGED argVars
    <3>1. h.c = Top.c /\ cmd' = cmd
      BY <1>1, <2>1, <2>3, <2>4, AtFields DEF argVars
    <3> QED BY <2>1, <2>4, <3>1, SetKeepsCmd
  <2>5. (\E x : Refuse(x)) \/ (Set(h) /\ UNCHANGED argVars)
    BY <1>3, <2>3, Zenon DEF FindDevice
  <2> QED BY <2>2, <2>4, <2>5
<1>4. CASE FindCommand
  BY <1>4, FindCommandKeepsCmd
<1>5. CASE Handle
  BY <1>5, HandleKeepsCmd
<1>6. CASE Parse
  BY <1>6, Zenon DEF Parse, callVars, Step, CmdOK, Top
<1>7. CASE ParserDone
  <2>1. calls # <<>> /\ cmd' = cmd
    BY <1>7 DEF ParserDone, argVars
  <2>2. PICK h : h = Ended(Top)
    OBVIOUS
  <2>3. h.c = Top.c
    BY <1>1, <2>1, <2>2, EndedFields
  <2>4. calls' = <<>> \/ Set(h)
    BY <1>7, <2>2, Zenon DEF ParserDone, Ended
  <2>5. CASE calls' = <<>>
    BY <2>5, Zenon DEF CmdOK
  <2> QED BY <2>1, <2>3, <2>4, <2>5, SetKeepsCmd
<1>8. CASE Prepare \/ Listen
  <2>1. calls # <<>> /\ cmd' = cmd
    BY <1>8 DEF Prepare, Listen, argVars
  <2>2. PICK r : Set(GoesOn(Top, r))
    BY <1>8, Zenon DEF Prepare, Listen, GoesOn
  <2>3. PICK h : h = GoesOn(Top, r)
    OBVIOUS
  <2>4. h.c = Top.c
    BY <1>1, <2>1, <2>3, GoesOnFields
  <2> QED BY <2>1, <2>2, <2>3, <2>4, SetKeepsCmd
<1>9. CASE Send \/ Answered
  <2>1. calls # <<>> /\ cmd' = cmd
    BY <1>9 DEF Send, Answered, argVars
  <2>2. PICK r : Set(Sending(Top)) \/ Set(Ending(Top, r))
    BY <1>9, Zenon DEF Send, Answered, Sending, Ending
  <2>3. PICK h : (h = Sending(Top) \/ h = Ending(Top, r)) /\ Set(h)
    BY <2>2, Zenon
  <2>4. h.c = Top.c
    BY <1>1, <2>1, <2>3 DEF Sending, Ending, Record
  <2> QED BY <2>1, <2>3, <2>4, SetKeepsCmd
<1>10. CASE Out
  BY <1>10, ReturnsKeepsCmd DEF Out
<1> QED BY <1>2, <1>3, <1>4, <1>5, <1>6, <1>7, <1>8, <1>9, <1>10 DEF Next-----------------------------------------------------------------------------
\* Everything holds at the beginning.
LEMMA InitHolds ==
  ASSUME Init
  PROVE  IInv /\ CmdOK
<1>1. calls = <<>> /\ ran = <<>> /\ registered = "none" /\ sent = <<>> /\ heap = 0 /\ exit = Running
  BY DEF Init
<1>2. CallsOK /\ WaitOK /\ CmdOK
  BY <1>1, Zenon DEF CallsOK, WaitOK, CmdOK
<1>3. Len(calls) = 0
  BY <1>1
<1>4. HeapOK
  BY <1>1, <1>3 DEF HeapOK
<1>5. Running # "0" /\ Running \in {Running} \cup Ends \cup {"undefined"}
  BY DEF Running
<1>6. ExitOK
  BY <1>1, <1>5, Zenon DEF ExitOK
<1>7. DataOK
  <2>1. sent \in Seq([cmd : {c.cmd : c \in Table}, r : {"0", "error", "EOPNOTSUPP"}])
    BY <1>1
  <2> QED BY <1>1, <2>1, Zenon DEF Init, DataOK
<1>8. ArgsOK
  <2>1. p = Parser(<<>>) /\ cmd = "none" /\ at = 1 /\ steps = 0
    BY DEF Init
  <2>2. <<>> \in Seq({})
    OBVIOUS
  <2>3. Fine(p) /\ p.ret = "go" /\ "go" # "undefined"
    BY <2>1, <2>2, ParserSound
  <2>4. at \in Nat \ {0} /\ steps \in 0..MaxSteps
    BY <2>1, MaxStepsAssumption
  <2>5. Known(cmd, at, p)
    BY <2>1 DEF Known
  <2> QED BY <2>1, <2>3, <2>4, <2>5, Zenon DEF ArgsOK
<1> QED BY <1>2, <1>4, <1>6, <1>7, <1>8 DEF IInv

\* A step that changes nothing keeps everything.
LEMMA StutterKeeps ==
  ASSUME IInv, CmdOK, UNCHANGED vars
  PROVE  IInv' /\ CmdOK'
<1>1. /\ line' = line /\ ran' = ran /\ calls' = calls /\ registered' = registered /\ sent' = sent
      /\ heap' = heap /\ exit' = exit /\ UNCHANGED argVars
  BY DEF vars, callVars
<1>2. CallsOK'
  BY <1>1, Zenon DEF IInv, CallsOK, Outer
<1>3. WaitOK' /\ HeapOK'
  BY <1>1, Zenon DEF IInv, WaitOK, HeapOK
<1>4. ExitOK' /\ DataOK'
  BY <1>1, Zenon DEF IInv, ExitOK, DataOK, NoRequest
<1>5. ArgsOK'
  BY <1>1, ArgsStay DEF IInv
<1>6. cmd' = cmd
  BY <1>1 DEF argVars
<1>7. CmdOK'
  BY <1>1, <1>6, Zenon DEF CmdOK, Top
<1> QED BY <1>2, <1>3, <1>4, <1>5, <1>7 DEF IInv

\* Every step keeps it; what a parser keeps is StepArgs.
LEMMA NextKeeps ==
  ASSUME IInv, CmdOK, Next
  PROVE  IInv' /\ CmdOK'
<1>1. CmdOK'
  BY CmdKept DEF IInv
<1>2. ASSUME Parse
      PROVE  IInv'
  <2>1. cmd \in Commands /\ Step
    BY <1>2 DEF Parse, CmdOK
  <2>2. ArgsOK'
    BY <2>1, StepArgs DEF IInv
  <2> QED BY <1>2, <2>2, ParseKeeps
<1> QED BY <1>1, <1>2, StartKeeps, FindDeviceKeeps, FindCommandKeeps, HandleKeeps, ParserDoneKeeps,
           PrepareKeeps, ListenKeeps, SendKeeps, AnsweredKeeps, OutKeeps DEF Next

\* IInv is an invariant of iw.
THEOREM Invariance == Spec => [](IInv /\ CmdOK)
<1>1. Init => IInv /\ CmdOK
  BY InitHolds
<1>2. IInv /\ CmdOK /\ [Next]_vars => (IInv /\ CmdOK)'
  BY NextKeeps, StutterKeeps
<1> QED BY <1>1, <1>2, PTL DEF Spec

-----------------------------------------------------------------------------
\* The calls in progress are records as they should be.
LEMMA CallsShape ==
  ASSUME CallsOK
  PROVE  /\ Len(calls) \in 0..2
         /\ \A i \in DOMAIN calls : Shape(calls[i])
         /\ calls # <<>> => Frame(Top, registered, sent)
<1>1. CASE calls = <<>>
  <2>1. Len(calls) = 0 /\ DOMAIN calls = {}
    BY <1>1
  <2> QED BY <1>1, <2>1
<1>2. ASSUME NEW f, calls = <<f>>, Frame(f, registered, sent)
      PROVE  /\ Len(calls) \in 0..2 /\ \A i \in DOMAIN calls : Shape(calls[i])
             /\ Frame(Top, registered, sent)
  <2>1. Len(calls) = 1 /\ Top = f
    BY <1>2, TopOfOne
  <2>2. DOMAIN calls = {1} /\ calls[1] = f
    BY <1>2
  <2> QED BY <1>2, <2>1, <2>2 DEF Frame
<1>3. ASSUME NEW f, NEW g, calls = <<f, g>>, Frame(f, registered, sent), Frame(g, registered, sent)
      PROVE  /\ Len(calls) \in 0..2 /\ \A i \in DOMAIN calls : Shape(calls[i])
             /\ Frame(Top, registered, sent)
  <2>1. Len(calls) = 2 /\ Top = g
    BY <1>3, TopOfTwo
  <2>2. DOMAIN calls = {1, 2} /\ calls[1] = f /\ calls[2] = g
    BY <1>3
  <2> QED BY <1>3, <2>1, <2>2 DEF Frame
<1> QED BY <1>1, <1>2, <1>3, CallsCases, Zenon

\* The state is what it should be, whatever the command line: no call goes
\* deeper than a handler's own, no parser reads behind the words that it has
\* (unless its result is "undefined"), and iw exits once.
THEOREM TypeCorrect == Spec => []TypeOK
<1>1. IInv => TypeOK
  <2> SUFFICES ASSUME IInv
               PROVE  TypeOK
    OBVIOUS
  <2>1. ParserOK
    BY DEF IInv, ArgsOK, ParserOK, Fine, Shaped, Returnable, Results
  <2>2. ran = <<>> \/ (Len(ran) = 1 /\ ran[1] \in Table \cup {NoCommand})
    <3>1. ASSUME NEW c \in Table \cup {NoCommand}, ran = <<c>>
          PROVE  Len(ran) = 1 /\ ran[1] \in Table \cup {NoCommand}
      BY <3>1
    <3> QED BY <3>1 DEF IInv, DataOK
  <2>3. Len(calls) \in 0..2 /\ \A i \in DOMAIN calls : calls[i].owns \in 0..3
    BY CallsShape DEF IInv, Shape
  <2>4. heap \in 0..6
    BY DEF IInv, HeapOK
  <2>5. exit \in {Running, "0", "error", "EOPNOTSUPP"} \cup Results
    BY DEF IInv, ExitOK, Ends, Results
  <2>6. exit # Running => calls = <<>>
    BY DEF IInv, ExitOK
  <2> QED BY <2>1, <2>2, <2>3, <2>4, <2>5, <2>6 DEF TypeOK
<1> QED BY <1>1, Invariance, PTL

\* iw exits with zero only if the kernel has accepted the last request, or if
\* there was nothing to request; a failure of any step of a combined command,
\* of an allocation or of the parser never becomes a zero.
THEOREM ZeroIsEarned == Spec => []ZeroMeansDone
<1>1. IInv => ZeroMeansDone
  BY Zenon DEF IInv, ExitOK, ZeroMeansDone, Kept
<1> QED BY <1>1, Invariance, PTL

\* Each message and callback set is freed by the time iw exits, whichever of
\* the nested calls fails, but for the one of "cac" without arguments.
THEOREM MemoryIsGivenBack == Spec => []NothingKept
<1>1. IInv => NothingKept
  BY Zenon DEF IInv, HeapOK, NothingKept
<1> QED BY <1>1, Invariance, PTL

\* Whatever handlers were registered by the commands before, the one that meets
\* an answer prints what that request was about.
THEOREM AnswersMeetTheirPrinter == Spec => []OwnPrinter
<1>1. IInv => OwnPrinter
  <2> SUFFICES ASSUME IInv, calls # <<>>, Top.at = "wait"
               PROVE  /\ registered # "wait_event"
                      /\ Top.c.cmd \in DOMAIN Printers => registered \in Printers[Top.c.cmd]
    BY DEF OwnPrinter
  <2>1. Prints(Top, registered)
    BY CallsShape DEF IInv, Frame
  <2> QED BY <2>1 DEF Prints
<1> QED BY <1>1, Invariance, PTL

\* A command that a handler calls is found, however the linker ordered the
\* table, for every device that the handler's own command was given.
THEOREM CalledCommandsAreFound == Spec => []CallsReach
<1>1. IInv => CallsReach
  <2> SUFFICES ASSUME IInv, NEW i \in DOMAIN calls, i > 1, calls[i].at = "command",
                      NEW r \in Found(By(calls[i].id), Behind(calls[i].id, calls[i].argv))
               PROVE  r.c # NoCommand
    BY DEF CallsReach
  <2>1. calls # <<>>
    OBVIOUS
  <2>2. ASSUME NEW f, calls = <<f>>
        PROVE  FALSE
    BY <2>2
  <2>3. ASSUME NEW f, NEW g, calls = <<f, g>>, Frame(f, registered, sent),
               Frame(g, registered, sent), Inner(f, g)
        PROVE  r.c # NoCommand
    <3>1. i = 2 /\ calls[i] = g
      BY <2>3
    <3>2. Shape(f) /\ Shape(g) /\ Calls(f, g) /\ f.at = "calling" /\ g.at = "command"
      BY <2>3, <3>1 DEF Frame, Inner
    <3>3. Callee(f.c.handler, f.done) # NoCallee
      BY <2>3, <3>2 DEF Frame, Place
    <3>4. r.c \in Table /\ IsCallee(r.c, Callee(f.c.handler, f.done))
      BY <3>1, <3>2, <3>3, CalleeFound
    <3>5. r.c.cmd # "0" /\ NoCommand.cmd = "0"
      BY <3>4 DEF IsCallee, NoCommand, Section, Hidden, Bare, Toplevel, Command
    <3> QED BY <3>5
  <2> QED BY <2>1, <2>2, <2>3, CallsCases, Zenon DEF IInv
<1> QED BY <1>1, Invariance, PTL

\* Whatever the words, only the four commands of ReadsBeyond read an argument
\* that is not there; every other parser looks at argc first, or at argv[argc],
\* which is null.
THEOREM OthersReadTheirArguments == Spec => []ReadsOnlyArguments
<1>1. IInv => ReadsOnlyArguments
  BY Zenon DEF IInv, ArgsOK, ReadsOnlyArguments
<1> QED BY <1>1, Invariance, PTL
=============================================================================
