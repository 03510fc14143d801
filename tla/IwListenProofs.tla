--------------------------- MODULE IwListenProofs ---------------------------
(***************************************************************************)
(* IwListen for any groups, families, payloads, number of events and size  *)
(* of the receive buffer.  Events arrive between the messages of an        *)
(* answer, make nl_recvmsgs() return early, and take the room of answers;  *)
(* an abandoned dump of families goes on while its successor is waited     *)
(* for.  What still holds is that the messages of one answer arrive in     *)
(* order and that nothing follows its end (Ordered), and what the messages *)
(* of each number can be at each stage of the program (Expected).          *)
(***************************************************************************)
EXTENDS IwListen, NlSocketProofs

Stages == {"start", "init", "next", "group", "resolve", "lookup", "command",
           "listen", "dump", "done", "failed"}

\* Where nl_recvmsgs() may be running.
Calling == {"init", "resolve", "lookup", "command", "listen", "dump"}

\* The steps still to be done of the scan's script.
ScanScripts == {<<"command", "prepare", "listen", "dump">>,
                <<"prepare", "listen", "dump">>, <<"listen", "dump">>,
                <<"dump">>, <<>>}

IwTypeOK ==
  /\ SockTypeOK
  /\ command \in Commands
  /\ pc \in Stages
  /\ rx.at # "out" => pc \in Calling
  /\ cache \subseteq FamilySet
  /\ ctrlid \in BOOLEAN
  /\ err \in {"none", "ok", "fail"}
  /\ truth \in {"none", "ok", "fail"}
  /\ printed \in Seq(Items)
  /\ heard \in {"nothing", "result", "aborted"}
  /\ result \in {"none", "due", "sent", "missed"}
  /\ events \in Nat

\* The message that answers the latest request, or the one before.
Latest(m) == m.seq = seqNext - 1
Ending(m) ==
  \/ m.type = "ERR" /\ truth = "fail"
  \/ m.type \in {"ACK", "DONE"} /\ truth = "ok"

\* What message m can be, at each stage.  Nothing but the dump of families
\* that it has just asked for can come when nl_get_multicast_id() resolves
\* "nlctrl"; the rest of this dump can come when it waits for nl80211.
Expected(m) ==
  m.seq # 0 =>
    /\ pc \in {"init", "resolve"} => m.type = "DONE" \/ (m.type = "DATA" /\ m.multi)
    /\ pc = "lookup" =>
         /\ Latest(m) => m.type = "DATA" \/ (m.type # "DONE" /\ Ending(m))
         /\ ~Latest(m) => m.type \in {"DATA", "DONE"}
         /\ truth = "ok" /\ m.type = "DATA" => m.item = "nl80211"
    /\ pc \in {"command", "dump"} => m.type = "DATA" \/ Ending(m)

AllExpected == \A i \in Places : \A k \in 1..Len(Line(i)) : Expected(Line(i)[k])

\* Between requests the socket is in step.
Stage ==
  /\ AllExpected
  /\ pc \in {"start", "next", "group", "listen", "done"} => seqExpect = seqNext
  /\ pc \in {"init", "resolve"} =>
       /\ seqExpect >= seqNext - 1
       /\ rx.at = "parse" /\ seqExpect # seqNext => rx.multi \/ rx.buf # <<>>
       /\ rx.at = "out" /\ rx.ret = "ok" => seqExpect = seqNext
  /\ pc = "resolve" => grp = NoGroup
  /\ pc = "lookup" =>
       /\ seqExpect >= seqNext - 2
       /\ dump.seq # 0 => dump.seq # seqNext - 1
       /\ truth = "ok" => /\ seqExpect >= seqNext - 1
                          /\ grp # NoGroup => grp[1] = "nl80211"
  /\ pc \in {"command", "dump"} =>
       /\ seqExpect >= seqNext - 1
       /\ dump.seq # 0 => truth = "ok"
  /\ pc \in Waiting /\ err # "none" => err = truth /\ seqExpect = seqNext

\* What has been printed of a scan dump, and what is still to come.
Printing ==
  /\ Len(printed) <= Len(Bss)
  /\ \A k \in 1..Len(printed) : printed[k] = Bss[k]
  /\ seqExpect # seqNext => Flow(seqNext - 1, Bss, Len(printed))
  /\ err = "ok" => Len(printed) = Len(Bss)

DumpFlow == pc = "dump" /\ truth = "ok" => Printing

Scripted ==
  command = "scan" =>
    /\ script \in ScanScripts
    /\ script = <<>> => pc \in {"dump", "next", "done", "failed"}
    /\ pc \in {"group", "resolve", "lookup"} => script = <<"listen", "dump">>
    /\ pc = "dump" => script = <<>>
    /\ pc = "next" /\ script = <<>> => printed = Bss
    /\ pc = "done" => printed = Bss \/ heard = "aborted"

ListenInv ==
  /\ IwTypeOK /\ Ordered /\ Stage /\ DumpFlow /\ Scripted
  /\ JoinsOwnGroups

-----------------------------------------------------------------------------
(* What the steps of the program do to the socket.                         *)

\* The socket's variables when a request is sent.
LEMMA RequestFacts ==
  ASSUME NEW at, Request(at)
  PROVE  /\ TakeSeq /\ rx' = Called /\ seqExpect' = seqExpect
         /\ pc' = at /\ err' = "none" /\ seqNext' = seqNext + 1
         /\ rx'.at = "read" /\ rx'.buf = <<>> /\ rx'.multi = FALSE /\ rx'.ret = "none"
  BY DEF Request, TakeSeq, Called

LEMMA FamiliesRequested ==
  ASSUME SockTypeOK, NEW at, RequestFamilies(at)
  PROVE  /\ SockTypeOK' /\ (Ordered => Ordered') /\ Request(at) /\ cache' = {}
         /\ \/ StartDump(seqNext, Families) /\ truth' = "ok"
            \/ ~CanStartDump /\ Refuse(seqNext) /\ truth' = "fail"
  BY FamiliesAssumption, RequestFacts, SendKeepsType, SendKeepsOrdered DEF RequestFamilies

\* Where nl_recvmsgs() runs, and with which handlers.
LEMMA PlainCallbacks ==
  ASSUME IwTypeOK, rx.at = "parse", pc # "listen", NEW item
  PROVE  LET cb == CbAt(item)[pc]
         IN  /\ pc \in {"init", "resolve", "lookup", "command", "dump"}
             /\ Plainly(cb)
             /\ pc \in {"init", "resolve"} => cb = PickupCb(item)
             /\ pc = "lookup" => cb = MulticastIdCb
             /\ pc \in {"command", "dump"} => cb = HandleCmdCb
<1>1. pc \in {"init", "resolve", "lookup", "command", "dump"}
  BY DEF IwTypeOK, Calling
<1>2. /\ pc \in {"init", "resolve"} => CbAt(item)[pc] = PickupCb(item)
      /\ pc = "lookup" => CbAt(item)[pc] = MulticastIdCb
      /\ pc \in {"command", "dump"} => CbAt(item)[pc] = HandleCmdCb
  BY DEF CbAt
<1> QED
  BY <1>1, <1>2 DEF Plainly, PickupCb, MulticastIdCb, HandleCmdCb

\* __do_listen_events(): events go by, one by one.
LEMMA ListenParse ==
  ASSUME IwTypeOK, Ordered, Stage, pc = "listen", Parsing
  PROVE  /\ rx.at = "parse" /\ rx.buf # <<>>
         /\ seqExpect' = seqExpect /\ UNCHANGED <<seqNext, queue, dump>>
         /\ rx'.at = "parse" /\ rx'.buf = Tail(rx.buf)
         /\ err' = err /\ cache' = cache /\ grp' = grp /\ printed' = printed
         /\ heard' \in {heard, "result", "aborted"}
<1> DEFINE m == Head(rx.buf)
<1>1. Parse(ListenCb) /\ CbAt(m.item)[pc] = ListenCb
  BY DEF Parsing, CbAt
<1>2. rx.at = "parse" /\ rx.buf # <<>> /\ UNCHANGED <<seqNext, queue, dump>>
  BY <1>1 DEF Parse
<1>3. m = rx.buf[1] /\ 1 \in 1..Len(rx.buf) /\ SockTypeOK /\ m \in Messages
  BY <1>2, HeadOfBuf DEF IwTypeOK
<1>4. m.type = "DATA" /\ ~m.ack
  <2>1. 0 \in Places /\ Line(0) = rx.buf
    BY <1>3, LinesAreDatagrams DEF Places, Line
  <2>2. seqExpect = seqNext
    BY DEF Stage
  <2> QED
    BY <1>3, <2>1, <2>2, InStepOnlyEvents DEF Ordered, Uniform
<1>5. /\ Screened(ListenCb, seqExpect, m) = "OK" /\ Acknowledged(ListenCb, m) = "OK"
      /\ Dispatched(ListenCb, m) = "SKIP"
  <2>1. DOMAIN ListenCb = {"SEQ_CHECK", "VALID"} /\ ListenCb["SEQ_CHECK"] = "OK"
        /\ ListenCb["VALID"] = "SKIP"
    BY DEF ListenCb
  <2> HIDE DEF m
  <2> QED
    BY <1>4, <2>1 DEF Screened, Then, CallOr, Acknowledged, Dispatched, SlotOf, CodeOf
<1>6. Verdict(ListenCb, seqExpect, m) = "SKIP"
  BY <1>5 DEF Verdict, Then
<1>7. seqExpect' = seqExpect
  BY <1>1, <1>4 DEF Parse, ExpectAfter, Terminators
<1>8. rx' = [rx EXCEPT !.buf = Tail(rx.buf),
                       !.multi = MultiAfter(ListenCb, seqExpect, rx.multi, m)]
  BY <1>1, <1>6 DEF Parse
<1>9. rx'.at = "parse" /\ rx'.buf = Tail(rx.buf)
  <2> DEFINE new == MultiAfter(ListenCb, seqExpect, rx.multi, m)
  <2>1. rx \in RxStates
    BY <1>3 DEF SockTypeOK
  <2>2. rx' = [rx EXCEPT !.buf = Tail(rx.buf), !.multi = new]
    BY <1>8
  <2> HIDE DEF new
  <2> QED
    BY <1>2, <2>1, <2>2 DEF RxStates
<1>10. ~Handles(ListenCb, "ACK") /\ ~Handles(ListenCb, "FINISH") /\ ~Handles(ListenCb, "ERR")
  BY <1>4 DEF Handles, SlotOf
<1>11. err' = err /\ cache' = cache /\ grp' = grp /\ printed' = printed
       /\ heard' \in {heard, "result", "aborted"}
  BY <1>1, <1>10 DEF Parsing
<1> QED
  BY <1>2, <1>7, <1>9, <1>11

\* The socket's types and the order on it are kept by every step.
LEMMA SocketStep ==
  ASSUME IwTypeOK, Ordered, Stage, Next
  PROVE  SockTypeOK' /\ Ordered'
<1>0. SockTypeOK
  BY DEF IwTypeOK
<1>1. ASSUME UNCHANGED sockVars
      PROVE  SockTypeOK' /\ Ordered'
  <2>1. /\ seqNext' = seqNext /\ seqExpect' = seqExpect /\ queue' = queue
        /\ overrun' = overrun /\ dump' = dump /\ rx' = rx
    BY <1>1 DEF sockVars
  <2> QED
    BY <1>0, <2>1 DEF SockTypeOK, Ordered, Uniform, Current, Closes, Line, Places
<1>2. ASSUME Call \/ ReadOverrun \/ EndOfDatagram
      PROVE  SockTypeOK' /\ Ordered'
  <2>1. rx'.buf = <<>> /\ UNCHANGED <<seqNext, seqExpect, queue, dump>>
    <3>1. CASE Call
      BY <3>1 DEF Call, Called
    <3>2. CASE ReadOverrun
      BY <3>2, ReturnedFields DEF ReadOverrun
    <3>3. CASE EndOfDatagram
      BY <1>0, <3>3, ReturnedFields DEF EndOfDatagram, SockTypeOK, RxStates
    <3> QED
      BY <1>2, <3>1, <3>2, <3>3
  <2> QED
    BY <1>0, <1>2, <2>1, OthersKeepType, IdleKeepsOrdered
<1>3. ASSUME NEW item \in Items, Event(item)
      PROVE  SockTypeOK' /\ Ordered'
  BY <1>0, <1>3, EventKeepsType, EventKeepsOrdered
<1>4. ASSUME NEW at, Request(at),
             \/ Refuse(seqNext)
             \/ \E items \in Seq(Items) : Answer(seqNext, items) \/ StartDump(seqNext, items)
      PROVE  SockTypeOK' /\ Ordered'
  BY <1>0, <1>4, RequestFacts, SendKeepsType, SendKeepsOrdered
<1>5. CASE Start \/ LookUp
  BY <1>0, <1>5, FamiliesRequested DEF Start, LookUp
<1>6. CASE NextStep
  <2>1. <<>> \in Seq(Items) /\ Bss \in Seq(Items)
    BY BssAssumption
  <2> QED
    BY <1>1, <1>2, <1>4, <1>6, <2>1 DEF NextStep, sockVars
<1>7. CASE AskFamily
  <2>1. <<"nl80211">> \in Seq(Items)
    <3>1. "nl80211" \in Items
      BY FamiliesAssumption, ElementOfSeq DEF FamilySet
    <3> QED
      BY <3>1
  <2> QED
    BY <1>4, <1>7, <2>1 DEF AskFamily
<1>8. CASE Initialised \/ Finished \/ Join \/ Prepared \/ NotListening
          \/ Commanded \/ Heard
  BY <1>1, <1>8 DEF Initialised, Finished, Join, PrepareFails, Prepared, NotListening,
       Commanded, Heard
<1>9. CASE Again
  BY <1>2, <1>9 DEF Again
<1>10. CASE Reading
  BY <1>0, <1>2, <1>10, ReadKeepsType, ReadKeepsOrdered DEF Reading
<1>11. CASE Parsing
  <2> DEFINE cb == CbAt(Head(rx.buf).item)[pc]
  <2>1. Parse(cb) /\ rx.at = "parse" /\ rx.buf # <<>>
    BY <1>11 DEF Parsing
  <2>2. SockTypeOK'
    BY <1>0, <2>1, ParseKeepsType
  <2>3. CASE pc # "listen"
    BY <1>0, <2>1, <2>2, <2>3, PlainCallbacks, PlainParseKeepsOrdered
  <2>4. CASE pc = "listen"
    BY <1>0, <1>11, <2>2, <2>4, ListenParse, ParseKeepsOrdered
  <2> QED
    BY <2>3, <2>4
<1>12. CASE Announce \/ Noise
  <2>1. "result" \in Items /\ "aborted" \in Items /\ "noise" \in Items
    BY FamiliesAssumption
  <2> QED
    BY <1>1, <1>3, <1>12, <2>1 DEF Announce, Noise
<1> QED
  BY <1>5, <1>6, <1>7, <1>8, <1>9, <1>10, <1>11, <1>12 DEF Next, Program

-----------------------------------------------------------------------------
(* What a message does to the program.                                     *)

\* A message that is not the expected one: nl_recvmsgs() fails, no handler
\* has run.
LEMMA ParsingStray ==
  ASSUME IwTypeOK, Ordered, Parsing, pc # "listen", rx.buf[1].seq # seqExpect
  PROVE  /\ rx.at = "parse" /\ rx.buf # <<>> /\ rx' = Returned("fail")
         /\ rx'.at = "out" /\ rx'.buf = <<>> /\ rx'.ret = "fail"
         /\ UNCHANGED <<seqNext, seqExpect, queue, dump>>
         /\ UNCHANGED <<pc, err, cache, grp, heard, printed>>
<1> DEFINE m == rx.buf[1]
           cb == CbAt(m.item)[pc]
<1>1. rx.at = "parse" /\ rx.buf # <<>> /\ SockTypeOK
  BY DEF Parsing, IwTypeOK
<1>2. Head(rx.buf) = m
  BY <1>1, HeadOfBuf
<1>3. Parse(cb) /\ Plainly(cb)
  BY <1>1, <1>2, PlainCallbacks DEF Parsing
<1> HIDE DEF cb
<1>4. /\ rx' = Returned("fail") /\ UNCHANGED <<seqNext, seqExpect, queue, dump>>
      /\ \A slot \in Slots : ~Handles(cb, slot)
  BY <1>1, <1>3, ParseFacts
<1>5. {"ACK", "FINISH", "ERR", "VALID"} \subseteq Slots
  BY DEF Slots
<1>6. UNCHANGED <<pc, err, cache, grp, heard, printed>>
  BY <1>2, <1>4, <1>5 DEF Parsing, cb
<1> QED
  BY <1>1, <1>4, <1>6, ReturnedFields

\* The expected message, by its type.
LEMMA ParsingExpected ==
  ASSUME IwTypeOK, Ordered, Parsing, pc # "listen", NEW m, m = rx.buf[1],
         m.seq = seqExpect
  PROVE  /\ rx.at = "parse" /\ rx.buf # <<>> /\ m.seq < seqNext /\ m.seq # 0
         /\ m.type \in {"DATA", "DONE", "ACK", "ERR"} /\ m \in Messages
         /\ UNCHANGED <<seqNext, queue, dump>> /\ pc' = pc /\ heard' = heard
         /\ seqExpect' = IF m.type = "DATA" THEN seqExpect ELSE seqExpect + 1
         /\ rx'.buf = <<>> \/ rx'.buf = Tail(rx.buf)
         /\ m.type = "DATA" =>
              /\ m.item \in Items /\ err' = err
              /\ grp' = grp \/ (pc = "lookup" /\ grp' = <<m.item, Head(todo)>>)
              /\ printed' = IF pc = "dump" THEN Append(printed, m.item) ELSE printed
              /\ cache' \subseteq FamilySet
              /\ \/ /\ rx'.at = "parse" /\ rx'.buf = Tail(rx.buf) /\ rx'.ret = rx.ret
                    /\ rx'.multi = (rx.multi \/ m.multi)
                 \/ pc \in {"init", "resolve"} /\ rx' = Returned("fail")
         /\ m.type # "DATA" =>
              grp' = grp /\ printed' = printed /\ cache' = cache
         /\ m.type = "DONE" =>
              /\ err' = IF pc \in {"command", "dump"} THEN "ok" ELSE err
              /\ rx'.at = "parse" /\ rx'.buf = Tail(rx.buf) /\ rx'.ret = rx.ret
              /\ rx'.multi = FALSE
         /\ m.type \in {"ACK", "ERR"} /\ pc \in Waiting =>
              /\ err' = IF m.type = "ACK" THEN "ok" ELSE "fail"
              /\ rx' = Returned(err')
<1> DEFINE cb == CbAt(m.item)[pc]
<1>1. rx.at = "parse" /\ rx.buf # <<>> /\ SockTypeOK
  BY DEF Parsing, IwTypeOK
<1>2. Head(rx.buf) = m
  BY <1>1, HeadOfBuf
<1>3. /\ Parse(cb) /\ Plainly(cb)
      /\ pc \in {"init", "resolve", "lookup", "command", "dump"}
      /\ pc \in {"init", "resolve"} => cb = PickupCb(m.item)
      /\ pc = "lookup" => cb = MulticastIdCb
      /\ pc \in {"command", "dump"} => cb = HandleCmdCb
  BY <1>1, <1>2, PlainCallbacks DEF Parsing
<1>4. /\ pc' = pc
      /\ err' = IF Handles(cb, "ACK") \/ Handles(cb, "FINISH") THEN "ok"
                ELSE IF Handles(cb, "ERR") THEN "fail" ELSE err
      /\ cache' = IF Handles(cb, "VALID") /\ pc \in {"init", "resolve"}
                  THEN cache \union ({m.item} \intersect FamilySet) ELSE cache
      /\ grp' = IF /\ Handles(cb, "VALID") /\ pc = "lookup"
                   /\ m.item \in FamilySet
                   /\ Head(todo) \in GroupsOf[m.item]
                THEN <<m.item, Head(todo)>> ELSE grp
      /\ heard' = IF /\ Handles(cb, "VALID") /\ pc = "listen"
                     /\ m.item \in {"result", "aborted"} /\ command # "event"
                  THEN m.item ELSE heard
      /\ printed' = IF Handles(cb, "VALID") /\ pc = "dump"
                    THEN Append(printed, m.item) ELSE printed
  BY <1>2 DEF Parsing
<1> HIDE DEF cb
<1>5. /\ m \in Messages /\ UNCHANGED <<seqNext, queue, dump>>
      /\ m.type \in {"DATA", "DONE", "ACK", "ERR"}
      /\ m.type = "DATA" => m.item \in Items
      /\ m.seq = 0 \/ m.seq < seqNext
      /\ seqExpect' = IF m.type = "DATA" THEN seqExpect ELSE seqExpect + 1
      /\ \A slot \in Slots :
                   Handles(cb, slot) <=> slot \in DOMAIN cb /\ SlotOf[m.type] = slot
      /\ \/ Dispatched(cb, m) = "FAIL" /\ rx' = Returned("fail")
         \/ Dispatched(cb, m) = "STOP" /\ rx' = Returned("ok")
         \/ /\ Dispatched(cb, m) \notin {"FAIL", "STOP"}
            /\ rx'.at = "parse" /\ rx'.buf = Tail(rx.buf) /\ rx'.ret = rx.ret
            /\ rx'.multi = IF m.type = "DONE" THEN FALSE ELSE rx.multi \/ m.multi
  BY <1>1, <1>3, ParseFacts
<1>6. seqExpect # 0
  BY <1>1 DEF SockTypeOK
<1>7. /\ Handles(cb, "VALID") <=> "VALID" \in DOMAIN cb /\ m.type = "DATA"
      /\ Handles(cb, "FINISH") <=> "FINISH" \in DOMAIN cb /\ m.type = "DONE"
      /\ Handles(cb, "ACK") <=> "ACK" \in DOMAIN cb /\ m.type = "ACK"
      /\ Handles(cb, "ERR") <=> "ERR" \in DOMAIN cb /\ m.type = "ERR"
  <2>1. {"ACK", "FINISH", "ERR", "VALID"} \subseteq Slots
    BY DEF Slots
  <2> QED
    BY <1>5, <2>1 DEF SlotOf
<1>8. CASE pc \in {"init", "resolve"}
  <2>1. DOMAIN cb = {"VALID"} /\ cb["VALID"] \in {"OK", "FAIL"}
    BY <1>3, <1>8 DEF PickupCb
  <2>2. /\ m.type = "DATA" => Dispatched(cb, m) \in {"OK", "FAIL"}
        /\ m.type = "DONE" => Dispatched(cb, m) = "OK"
    BY <2>1 DEF Dispatched, CallOr, SlotOf, CodeOf
  <2>3. cache' \subseteq FamilySet
    BY <1>4 DEF IwTypeOK
  <2>4. rx'.buf = <<>> \/ rx'.buf = Tail(rx.buf)
    BY <1>1, <1>3, ParseBuf
  <2>5. m.type = "DATA" =>
              /\ m.item \in Items /\ err' = err /\ grp' = grp /\ printed' = printed
              /\ \/ /\ rx'.at = "parse" /\ rx'.buf = Tail(rx.buf) /\ rx'.ret = rx.ret
                    /\ rx'.multi = (rx.multi \/ m.multi)
                 \/ rx' = Returned("fail")
    BY <1>4, <1>5, <1>7, <1>8, <2>1, <2>2
  <2>6. m.type # "DATA" => grp' = grp /\ printed' = printed /\ cache' = cache
    BY <1>4, <1>7
  <2>7. m.type = "DONE" =>
              /\ err' = err
              /\ rx'.at = "parse" /\ rx'.buf = Tail(rx.buf) /\ rx'.ret = rx.ret
              /\ rx'.multi = FALSE
    BY <1>4, <1>5, <1>7, <2>1, <2>2
  <2>8. heard' = heard /\ pc \notin Waiting /\ pc \notin {"command", "dump"} /\ pc # "dump"
    BY <1>4, <1>8 DEF Waiting
  <2>9. m.seq < seqNext /\ m.seq # 0
    BY <1>5, <1>6
  <2> QED
    BY <1>1, <1>4, <1>5, <1>8, <2>3, <2>4, <2>5, <2>6, <2>7, <2>8, <2>9
<1>9. CASE pc \in Waiting
  <2>1. /\ "VALID" \in DOMAIN cb /\ cb["VALID"] = "SKIP"
        /\ "ACK" \in DOMAIN cb /\ cb["ACK"] = "STOP"
        /\ "ERR" \in DOMAIN cb /\ cb["ERR"] = "STOP"
        /\ "FINISH" \in DOMAIN cb <=> pc \in {"command", "dump"}
        /\ "FINISH" \in DOMAIN cb => cb["FINISH"] = "SKIP"
    BY <1>3, <1>9 DEF MulticastIdCb, HandleCmdCb, Waiting
  <2>2. /\ m.type = "DATA" => Dispatched(cb, m) = "SKIP"
        /\ m.type = "DONE" => Dispatched(cb, m) \in {"OK", "SKIP"}
        /\ m.type = "ACK" => Dispatched(cb, m) = "STOP"
        /\ m.type = "ERR" => Dispatched(cb, m) = "FAIL"
    BY <2>1 DEF Dispatched, CallOr, SlotOf, CodeOf
  <2>3. pc \notin {"init", "resolve"} /\ cache' \subseteq FamilySet
    BY <1>4, <1>9 DEF Waiting, IwTypeOK
  <2>4. rx'.buf = <<>> \/ rx'.buf = Tail(rx.buf)
    BY <1>1, <1>3, ParseBuf
  <2>5. m.type = "DATA" =>
              /\ m.item \in Items /\ err' = err
              /\ grp' = grp \/ (pc = "lookup" /\ grp' = <<m.item, Head(todo)>>)
              /\ printed' = IF pc = "dump" THEN Append(printed, m.item) ELSE printed
              /\ rx'.at = "parse" /\ rx'.buf = Tail(rx.buf) /\ rx'.ret = rx.ret
              /\ rx'.multi = (rx.multi \/ m.multi)
    BY <1>4, <1>5, <1>7, <2>1, <2>2
  <2>6. m.type # "DATA" => grp' = grp /\ printed' = printed /\ cache' = cache
    BY <1>4, <1>7
  <2>7. m.type = "DONE" =>
              /\ err' = IF pc \in {"command", "dump"} THEN "ok" ELSE err
              /\ rx'.at = "parse" /\ rx'.buf = Tail(rx.buf) /\ rx'.ret = rx.ret
              /\ rx'.multi = FALSE
    BY <1>4, <1>5, <1>7, <2>1, <2>2
  <2>8. m.type \in {"ACK", "ERR"} =>
              /\ err' = IF m.type = "ACK" THEN "ok" ELSE "fail"
              /\ rx' = Returned(err')
    BY <1>4, <1>5, <1>7, <2>1, <2>2
  <2> QED
    BY <1>1, <1>4, <1>5, <1>6, <1>9, <2>3, <2>4, <2>5, <2>6, <2>7, <2>8 DEF Waiting
<1> QED
  BY <1>3, <1>8, <1>9 DEF Waiting

-----------------------------------------------------------------------------
(* Types.                                                                  *)

LEMMA InitInv == Init => ListenInv
<1> SUFFICES ASSUME Init PROVE ListenInv
  OBVIOUS
<1>1. /\ seqNext = 1 /\ seqExpect = 1 /\ queue = <<>> /\ overrun = FALSE /\ dump = NoDump
      /\ rx = NotCalled /\ rx.at = "out" /\ rx.buf = <<>>
  BY DEF Init, SockInit, NotCalled, Called
<1>2. SockTypeOK
  <2>1. <<>> \in Datagrams /\ <<>> \in Seq(Datagrams)
    BY EmptySeq DEF Datagrams
  <2>2. Called \in RxStates
    BY <2>1 DEF Called, RxStates
  <2>3. NotCalled \in RxStates
    BY <2>2 DEF NotCalled, RxStates
  <2>4. seqNext \in Nat \ {0} /\ seqExpect \in Nat \ {0}
    <3>1. seqNext = 1 /\ seqExpect = 1
      BY <1>1
    <3> QED
      BY <3>1
  <2>7. overrun \in BOOLEAN
    <3>1. overrun = FALSE
      BY <1>1
    <3> QED
      BY <3>1
  <2>5. queue \in Seq(Datagrams) /\ rx \in RxStates
    BY <1>1, <2>1, <2>3
  <2>6. dump \in [seq : Nat, rest : Seq(Items)]
    BY <1>1, NoDumpIsDump DEF Dumps
  <2> QED
    BY <2>4, <2>5, <2>6, <2>7 DEF SockTypeOK
<1>3. Len(queue) = 0 /\ Places = {0} /\ Line(0) = <<>> /\ dump.seq = 0
  BY <1>1 DEF Places, Line, NoDump
<1>4. Ordered
  BY <1>1, <1>3, EmptyLine DEF Ordered
<1>5. AllExpected
  BY <1>3 DEF AllExpected
<1>6. /\ command \in Commands /\ pc = "start" /\ script = ScriptOf[command] /\ cache = {}
      /\ ctrlid = FALSE /\ joined = {} /\ err = "none" /\ printed = <<>>
      /\ heard = "nothing" /\ result = "none" /\ truth = "none" /\ events = 0
  BY DEF Init
<1>7. IwTypeOK
  <2>1. <<>> \in Seq(Items)
    BY EmptySeq
  <2> QED
    BY <1>1, <1>2, <1>6, <2>1 DEF IwTypeOK, Stages
<1>8. Stage /\ DumpFlow /\ JoinsOwnGroups
  BY <1>1, <1>5, <1>6 DEF Stage, DumpFlow, JoinsOwnGroups, Waiting
<1>9. Scripted
  <2>1. command = "scan" => script = <<"command", "prepare", "listen", "dump">>
    BY <1>6 DEF ScriptOf
  <2>2. <<"command", "prepare", "listen", "dump">> # <<>>
    OBVIOUS
  <2> QED
    BY <1>6, <2>1, <2>2 DEF Scripted, ScanScripts
<1> QED
  BY <1>4, <1>7, <1>8, <1>9 DEF ListenInv

LEMMA TypeStep ==
  ASSUME IwTypeOK, Ordered, Stage, Next
  PROVE  IwTypeOK'
<1>1. SockTypeOK'
  BY SocketStep
<1>3. CASE Start \/ LookUp
  <2>1. /\ pc' \in {"init", "resolve"} /\ cache' = {} /\ err' = "none" /\ truth' \in {"ok", "fail"}
    BY <1>3, RequestFacts DEF Start, LookUp, RequestFamilies
  <2>2. UNCHANGED <<command, ctrlid, printed, heard, result, events>>
    BY <1>3 DEF Start, LookUp
  <2> QED
    BY <1>1, <2>1, <2>2 DEF IwTypeOK, Stages, Calling
<1>4. CASE AskFamily
  <2>1. /\ pc' = "lookup" /\ err' = "none" /\ ctrlid' \in BOOLEAN
        /\ truth' \in {"ok", "fail"}
    BY <1>4, RequestFacts DEF AskFamily
  <2>2. UNCHANGED <<command, cache, printed, heard, result, events>>
    BY <1>4 DEF AskFamily
  <2> QED
    BY <1>1, <2>1, <2>2 DEF IwTypeOK, Stages, Calling
<1>5. CASE NextStep
  <2>1. /\ pc' \in {"group", "listen", "command", "dump"}
        /\ pc' = "group" => rx' = rx
        /\ err' \in {"none", "ok", "fail"} /\ truth' \in {"none", "ok", "fail"}
        /\ printed' \in {printed, <<>>} /\ heard' \in {heard, "nothing"}
        /\ result' \in {result, "due"}
        /\ UNCHANGED <<command, cache, ctrlid, events>>
    <3>1. ASSUME NEW at \in {"command", "dump"}, Request(at)
          PROVE  pc' = at /\ err' = "none"
      BY <3>1, RequestFacts
    <3>2. /\ UNCHANGED <<command, cache, ctrlid, events>> /\ pc = "next"
          /\ err \in {"none", "ok", "fail"} /\ truth \in {"none", "ok", "fail"}
      BY <1>5 DEF NextStep, IwTypeOK
    <3>3. CASE Head(script) = "prepare"
      BY <1>5, <3>2, <3>3 DEF NextStep, sockVars
    <3>4. CASE Head(script) = "listen"
      BY <1>5, <3>2, <3>4 DEF NextStep
    <3>5. CASE Head(script) = "command"
      BY <1>5, <3>1, <3>2, <3>5 DEF NextStep
    <3>6. CASE Head(script) = "dump"
      BY <1>5, <3>1, <3>2, <3>6 DEF NextStep
    <3> QED
      BY <1>5, <3>3, <3>4, <3>5, <3>6 DEF NextStep
  <2>2. printed' \in Seq(Items)
    BY <2>1, EmptySeq DEF IwTypeOK
  <2>3. pc = "next"
    BY <1>5 DEF NextStep
  <2>4. rx'.at # "out" => pc' \in Calling
    BY <2>1, <2>3 DEF IwTypeOK, Calling
  <2> QED
    BY <1>1, <2>1, <2>2, <2>4 DEF IwTypeOK, Stages
<1>6. CASE Initialised \/ Finished \/ Join \/ Prepared \/ NotListening
          \/ Commanded \/ Heard
  <2>1. /\ pc' \in {"next", "failed", "done", "group"}
        /\ rx.at = "out" \/ pc \in {"next", "group"}
        /\ UNCHANGED <<command, cache, ctrlid, err, truth, printed, heard, result, events, rx>>
    BY <1>6 DEF Initialised, Finished, Join, PrepareFails, Prepared, NotListening,
       Commanded, Heard, sockVars
  <2>2. rx'.at = "out"
    BY <2>1 DEF IwTypeOK, Calling
  <2> QED
    BY <1>1, <2>1, <2>2 DEF IwTypeOK, Stages
<1>7. CASE Again \/ Reading
  <2>1. UNCHANGED progVars /\ pc \in Calling
    <3>1. CASE Again
      BY <3>1 DEF Again, Waiting, Calling
    <3>2. CASE Reading
      BY <3>2 DEF Reading, Read, ReadOverrun, EndOfDatagram, IwTypeOK
    <3> QED
      BY <1>7, <3>1, <3>2
  <2> QED
    BY <1>1, <2>1 DEF IwTypeOK, progVars
<1>8. CASE Parsing
  <2>1. /\ UNCHANGED <<command, pc, ctrlid, result, truth, events>>
        /\ rx.at = "parse" /\ rx.buf # <<>>
    BY <1>8 DEF Parsing
  <2>2. pc \in Calling
    BY <2>1 DEF IwTypeOK
  <2>3. /\ cache' \subseteq FamilySet /\ err' \in {"none", "ok", "fail"}
        /\ printed' \in Seq(Items) /\ heard' \in {"nothing", "result", "aborted"}
    <3> DEFINE m == rx.buf[1]
    <3>1. CASE pc = "listen"
      BY <1>8, <3>1, ListenParse DEF IwTypeOK
    <3>2. CASE pc # "listen" /\ m.seq # seqExpect
      BY <1>8, <3>2, ParsingStray DEF IwTypeOK
    <3>3. CASE pc # "listen" /\ m.seq = seqExpect
      <4>1. /\ m.type = "DATA" => /\ m.item \in Items /\ err' = err /\ cache' \subseteq FamilySet
                                  /\ printed' = IF pc = "dump" THEN Append(printed, m.item)
                                                ELSE printed
            /\ m.type # "DATA" => printed' = printed /\ cache' = cache
            /\ heard' = heard
        BY <1>8, <3>3, ParsingExpected
      <4>2. err' \in {"none", "ok", "fail"}
        BY <1>8 DEF Parsing, IwTypeOK
      <4>3. printed \in Seq(Items) /\ cache \subseteq FamilySet
        BY DEF IwTypeOK
      <4>4. printed' \in Seq(Items)
        BY <4>1, <4>3, AppendProperties
      <4> QED
        BY <4>1, <4>2, <4>3, <4>4 DEF IwTypeOK
    <3> QED
      BY <3>1, <3>2, <3>3
  <2> QED
    BY <1>1, <2>1, <2>2, <2>3 DEF IwTypeOK
<1>9. CASE Announce \/ Noise
  <2>1. /\ UNCHANGED <<command, pc, cache, ctrlid, err, truth, printed, heard, rx>>
        /\ result' \in {result, "sent", "missed"} /\ events' \in Nat
    BY <1>9 DEF Announce, Noise, Event, sockVars, IwTypeOK
  <2> QED
    BY <1>1, <2>1 DEF IwTypeOK
<1> QED
  BY <1>3, <1>4, <1>5, <1>6, <1>7, <1>8, <1>9 DEF Next, Program

-----------------------------------------------------------------------------
(* What the messages on their way can be.                                  *)

LEMMA AllInLine ==
  /\ AllExpected => \A x : InLine(x) => Expected(x)
  /\ (\A x : InLine(x) => Expected(x)) => AllExpected
  BY DEF AllExpected, InLine

LEMMA AllInLineNext ==
  ASSUME \A x : InLine(x)' => Expected(x)'
  PROVE  AllExpected'
  BY DEF AllExpected, InLine

\* Messages are taken away and the stage stays, or becomes one where anything
\* may come.
LEMMA TakingKeepsExpected ==
  ASSUME SockTypeOK, AllExpected, UNCHANGED <<queue, seqNext, truth>>,
         rx'.buf = <<>> \/ rx'.buf = rx.buf \/ (rx.buf # <<>> /\ rx'.buf = Tail(rx.buf)),
         pc' = pc \/ pc' \in {"next", "group", "listen", "done", "failed"}
  PROVE  AllExpected'
<1>1. ASSUME NEW x, InLine(x)'
      PROVE  Expected(x)'
  <2>1. Expected(x)
    BY <1>1, ParseLine, AllInLine
  <2> QED
    BY <2>1 DEF Expected, Latest, Ending
<1> QED
  BY <1>1, AllInLineNext

LEMMA ReadingKeepsExpected ==
  ASSUME SockTypeOK, Ordered, Stage, Read, UNCHANGED <<pc, truth>>
  PROVE  AllExpected'
<1>1. seqNext' = seqNext
  BY DEF Read
<1>2. dump.seq \in Nat /\ seqNext \in Nat /\ seqExpect \in Nat
  BY DEF SockTypeOK
<1>3. ASSUME NEW x, InLine(x)'
      PROVE  Expected(x)'
  <2>1. CASE InLine(x)
    <3>1. Expected(x)
      BY <2>1, AllInLine DEF Stage
    <3> QED
      BY <1>1, <3>1 DEF Expected, Latest, Ending
  <2>2. CASE /\ dump.seq # 0 /\ x.seq = dump.seq /\ x.type \in {"DATA", "DONE"}
             /\ x.multi
    <3>1. seqExpect <= dump.seq /\ dump.seq < seqNext
      BY <2>2 DEF Ordered
    <3>2. CASE pc = "lookup"
      <4>1. truth # "ok" /\ dump.seq # seqNext - 1
        BY <1>2, <2>2, <3>1, <3>2 DEF Stage
      <4> QED
        BY <1>1, <2>2, <3>2, <4>1 DEF Expected, Latest
    <3>3. CASE pc \in {"command", "dump"}
      <4>1. truth = "ok"
        BY <2>2, <3>3 DEF Stage
      <4> QED
        BY <2>2, <3>3, <4>1 DEF Expected, Ending
    <3>4. CASE pc \notin {"lookup", "command", "dump"}
      BY <2>2, <3>4 DEF Expected
    <3> QED
      BY <3>2, <3>3, <3>4
  <2> QED
    BY <1>3, <2>1, <2>2, ReadLine
<1> QED
  BY <1>3, AllInLineNext

LEMMA EventsAreExpected ==
  ASSUME SockTypeOK, AllExpected, NEW item \in Items, Event(item), UNCHANGED <<pc, truth>>
  PROVE  AllExpected'
<1>1. seqNext' = seqNext /\ rx' = rx
  BY DEF Event
<1>2. PICK ds \in Seq(Datagrams) : \E n \in 0..Len(ds) :
              /\ Fresh(ds, 0) /\ Grows(ds, n)
              /\ Len(ds) = 1 /\ Len(ds[1]) = 1
              /\ ds[1][1] = Msg("DATA", 0, FALSE, item)
  BY EventGrows
<1>3. PICK n \in 0..Len(ds) : Grows(ds, n)
  BY <1>2
<1>4. ASSUME NEW x, InLine(x)'
      PROVE  Expected(x)'
  <2>1. InLine(x) \/ \E j \in 1..n : \E k \in 1..Len(ds[j]) : x = ds[j][k]
    BY <1>1, <1>3, <1>4, GrowthLine
  <2>2. CASE InLine(x)
    <3>1. Expected(x)
      BY <2>2, AllInLine
    <3> QED
      BY <1>1, <3>1 DEF Expected, Latest, Ending
  <2>3. CASE \E j \in 1..n : \E k \in 1..Len(ds[j]) : x = ds[j][k]
    <3>3. PICK j \in 1..n : \E k \in 1..Len(ds[j]) : x = ds[j][k]
      BY <2>3
    <3>4. Len(ds) = 1 /\ Len(ds[1]) = 1 /\ ds[1][1] = Msg("DATA", 0, FALSE, item)
      BY <1>2
    <3>5. n \in 0..1
      BY <3>4
    <3>6. j = 1
      BY <3>5
    <3>7. PICK k \in 1..Len(ds[1]) : x = ds[1][k]
      BY <3>3, <3>6
    <3>8. k = 1
      BY <3>4, <3>7
    <3>1. x = ds[1][1]
      BY <3>7, <3>8
    <3>2. x.seq = 0
      BY <1>2, <3>1 DEF Msg
    <3> QED
      BY <3>2 DEF Expected
  <2> QED
    BY <2>1, <2>2, <2>3
<1> QED
  BY <1>4, AllInLineNext

\* A request is made on a socket whose messages are out of step with it no
\* more than they may be.
LEMMA SendingExpected ==
  ASSUME SockTypeOK, rx'.buf = <<>>, NEW ds, NEW n \in Nat, Grows(ds, n),
         \A x : InLine(x) => Expected(x)',
         \A j \in 1..n : \A k \in 1..Len(ds[j]) : Expected(ds[j][k])'
  PROVE  AllExpected'
<1>1. ASSUME NEW x, InLine(x)'
      PROVE  Expected(x)'
  <2>1. InLine(x) \/ \E j \in 1..n : \E k \in 1..Len(ds[j]) : x = ds[j][k]
    BY <1>1, GrowthLine
  <2>2. CASE \E j \in 1..n : \E k \in 1..Len(ds[j]) : x = ds[j][k]
    <3>1. PICK j \in 1..n : \E k \in 1..Len(ds[j]) : x = ds[j][k]
      BY <2>2
    <3>2. PICK k \in 1..Len(ds[j]) : x = ds[j][k]
      BY <3>1
    <3> QED
      BY <3>2
  <2> QED
    BY <2>1, <2>2
<1> QED
  BY <1>1, AllInLineNext

\* In step with nothing but events on their way.
LEMMA InStepAnythingGoes ==
  ASSUME SockTypeOK, Ordered, seqExpect = seqNext
  PROVE  /\ \A x : InLine(x) => Expected(x)'
         /\ \A i \in 1..Len(queue) : queue[i] = <<>> \/ queue[i][1].seq # seqNext
         /\ dump = NoDump /\ dump.seq = 0
<1>1. seqNext \in Nat \ {0} /\ Len(queue) \in Nat
  BY LinesAreDatagrams DEF SockTypeOK
<1>2. ASSUME NEW x, InLine(x) PROVE x.seq = 0
  BY <1>2, InStepOnlyEvents DEF InLine
<1>3. \A x : InLine(x) => Expected(x)'
  BY <1>2 DEF Expected
<1>4. ASSUME NEW i \in 1..Len(queue), queue[i] # <<>>
      PROVE  queue[i][1].seq # seqNext
  <2>1. i \in Places /\ Line(i) = queue[i] /\ queue[i] \in Seq(Messages)
    BY <1>1, LinesAreDatagrams DEF Places, Line
  <2>2. 1 \in 1..Len(queue[i])
    BY <1>4, <2>1, EmptySeq
  <2>3. queue[i][1].seq = 0
    BY <2>1, <2>2, InStepOnlyEvents
  <2> QED
    BY <1>1, <2>3
<1> QED
  BY <1>3, <1>4, InStepOnlyEvents DEF NoDump

LEMMA DumpAsked ==
  ASSUME SockTypeOK, Ordered, seqExpect = seqNext, rx'.buf = <<>>, TakeSeq,
         NEW items \in Seq(Items), StartDump(seqNext, items), truth' = "ok",
         pc' \in {"init", "resolve", "dump"}
  PROVE  AllExpected' /\ dump'.seq \in {0, seqNext}
<1>1. seqNext \in Nat \ {0}
  BY DEF SockTypeOK
<1>2. PICK b \in Batches([seq |-> seqNext, rest |-> items]) :
              /\ dump' = b.dump /\ dump'.seq \in {0, seqNext}
              /\ Grows(<<b.datagram>>, 1)
  BY <1>1, StartDumpGrows
<1>3. ASSUME NEW j \in 1..1, NEW k \in 1..Len(<<b.datagram>>[j])
      PROVE  Expected(<<b.datagram>>[j][k])'
  <2>1. <<b.datagram>>[j] = b.datagram
    BY <1>3
  <2> DEFINE m == b.datagram[k]
  <2>2. m.type \in {"DATA", "DONE"} /\ m.multi
    BY <1>1, <1>3, <2>1, BatchMessages
  <2> HIDE DEF m
  <2>3. Expected(m)'
    BY <2>2 DEF Expected, Ending
  <2> QED
    BY <2>1, <2>3 DEF m
<1> QED
  BY <1>2, <1>3, InStepAnythingGoes, SendingExpected

LEMMA RefusalExpected ==
  ASSUME SockTypeOK, Ordered, rx'.buf = <<>>, TakeSeq, Refuse(seqNext),
         \A x : InLine(x) => Expected(x)',
         \/ QueueLimit <= Len(queue)
         \/ truth' = "fail" /\ pc' \in {"lookup", "command", "dump"}
  PROVE  AllExpected' /\ dump' = dump
<1>1. seqNext \in Nat \ {0} /\ seqNext' = seqNext + 1 /\ dump.seq # seqNext
  BY DEF SockTypeOK, TakeSeq, Ordered
<1>2. dump' = dump
  BY DEF Refuse
<1>3. PICK ds \in Seq(Datagrams) : \E n \in 0..Len(ds) :
              /\ Fresh(ds, seqNext) /\ Grows(ds, n)
              /\ \A j \in 1..Len(ds) : \A k \in 1..Len(ds[j]) : ds[j][k].type = "ERR"
              /\ QueueLimit <= Len(queue) => n = 0
  BY <1>1, RefuseGrows
<1>4. PICK n \in 0..Len(ds) : Grows(ds, n) /\ (QueueLimit <= Len(queue) => n = 0)
  BY <1>3
<1>5. n \in Nat /\ 1..n \subseteq 1..Len(ds)
  OBVIOUS
<1>6. ASSUME NEW j \in 1..n, NEW k \in 1..Len(ds[j])
      PROVE  Expected(ds[j][k])'
  <2>1. j \in 1..Len(ds)
    BY <1>5
  <2> DEFINE m == ds[j][k]
  <2>2. m.type = "ERR" /\ m.seq = seqNext
    BY <1>3, <2>1 DEF Fresh, Uniform
  <2>3. truth' = "fail" /\ pc' \in {"lookup", "command", "dump"}
    BY <1>4
  <2> HIDE DEF m
  <2>4. Expected(m)'
    BY <1>1, <2>2, <2>3 DEF Expected, Ending, Latest
  <2> QED
    BY <2>4 DEF m
<1> QED
  BY <1>2, <1>4, <1>5, <1>6, SendingExpected

LEMMA AnswerExpected ==
  ASSUME SockTypeOK, Ordered, rx'.buf = <<>>, TakeSeq,
         NEW items \in Seq(Items), Answer(seqNext, items),
         \A x : InLine(x) => Expected(x)',
         truth' = "ok", pc' \in {"lookup", "command"},
         pc' = "lookup" => \A j \in 1..Len(items) : items[j] = "nl80211"
  PROVE  AllExpected' /\ dump' = dump
<1>1. seqNext \in Nat \ {0} /\ seqNext' = seqNext + 1 /\ dump.seq # seqNext
  BY DEF SockTypeOK, TakeSeq, Ordered
<1>2. PICK ds \in Seq(Datagrams) :
      /\ dump' = dump /\ Len(items) \in Nat
      /\ \E n \in 0..Len(items) + 1 : Grows(ds, n)
      /\ \A j \in 1..Len(items) :
              /\ Len(ds[j]) = 1
              /\ ds[j][1] = Msg("DATA", seqNext, FALSE, items[j])
      /\ Len(ds[Len(items) + 1]) = 1
      /\ ds[Len(items) + 1][1] = Msg("ACK", seqNext, FALSE, NoItem)
  BY <1>1, AnswerGrows, AnswerIsDatagrams
<1>3. PICK n \in 0..Len(items) + 1 : Grows(ds, n)
  BY <1>2
<1>4. n \in Nat
  BY <1>2
<1>5. ASSUME NEW j \in 1..n, NEW k \in 1..Len(ds[j])
      PROVE  Expected(ds[j][k])'
  <2> DEFINE m == ds[j][k]
  <2>1. CASE j \in 1..Len(items)
    <3>0. Len(ds[j]) = 1
      BY <1>2, <2>1
    <3>1. k = 1
      BY <1>5, <3>0
    <3>2. m = Msg("DATA", seqNext, FALSE, items[j])
      BY <1>2, <2>1, <3>1
    <3>3. m.type = "DATA" /\ m.seq = seqNext /\ m.item = items[j]
      BY <3>2 DEF Msg
    <3> HIDE DEF m
    <3>4. Expected(m)'
      BY <1>1, <2>1, <3>3 DEF Expected, Latest
    <3> QED
      BY <3>4 DEF m
  <2>2. CASE j = Len(items) + 1
    <3>0. Len(ds[j]) = 1
      BY <1>2, <2>2
    <3>1. k = 1
      BY <1>5, <3>0
    <3>2. m = Msg("ACK", seqNext, FALSE, NoItem)
      BY <1>2, <2>2, <3>1
    <3>3. m.type = "ACK" /\ m.seq = seqNext
      BY <3>2 DEF Msg
    <3> HIDE DEF m
    <3>4. Expected(m)'
      BY <1>1, <3>3 DEF Expected, Latest, Ending
    <3> QED
      BY <3>4 DEF m
  <2>3. j \in 1..Len(items) \/ j = Len(items) + 1
    BY <1>2, <1>3, <1>5
  <2> QED
    BY <2>1, <2>2, <2>3
<1> QED
  BY <1>2, <1>3, <1>4, <1>5, SendingExpected

-----------------------------------------------------------------------------
(* The stages.                                                             *)

\* A dump of families is requested by a socket in step.
LEMMA FamiliesStage ==
  ASSUME IwTypeOK, Ordered, Stage, Start \/ LookUp
  PROVE  Stage'
<1>1. SockTypeOK /\ seqExpect = seqNext /\ seqNext \in Nat \ {0}
  BY DEF IwTypeOK, Stage, SockTypeOK, Start, LookUp
<1>2. PICK at \in {"init", "resolve"} :
        RequestFamilies(at) /\ (at = "resolve" => grp' = NoGroup)
  BY DEF Start, LookUp
<1>3. /\ TakeSeq /\ seqExpect' = seqExpect /\ pc' = at /\ err' = "none"
      /\ seqNext' = seqNext + 1 /\ rx'.at = "read" /\ rx'.buf = <<>>
      /\ \/ StartDump(seqNext, Families) /\ truth' = "ok"
         \/ ~CanStartDump /\ Refuse(seqNext)
  BY <1>1, <1>2, FamiliesRequested, RequestFacts
<1>4. AllExpected'
  <2>1. CASE StartDump(seqNext, Families) /\ truth' = "ok"
    BY <1>1, <1>2, <1>3, <2>1, DumpAsked, FamiliesAssumption
  <2>2. CASE ~CanStartDump /\ Refuse(seqNext)
    <3>1. QueueLimit <= Len(queue)
      <4>1. dump.seq = 0 /\ Len(queue) \in Nat
        BY <1>1, InStepAnythingGoes, LinesAreDatagrams
      <4> QED
        BY <2>2, <4>1, QueueLimitAssumption DEF CanStartDump
    <3> QED
      BY <1>1, <1>3, <2>2, <3>1, RefusalExpected, InStepAnythingGoes
  <2> QED
    BY <1>3, <2>1, <2>2
<1>5. seqExpect' >= seqNext' - 1 /\ pc' \in {"init", "resolve"}
  BY <1>1, <1>2, <1>3
<1> QED
  BY <1>2, <1>3, <1>4, <1>5 DEF Stage, Waiting

\* The command is given, or the scan dump requested, by a socket in step.
LEMMA CommandStage ==
  ASSUME IwTypeOK, Ordered, Stage, NextStep, pc' \in {"command", "dump"}
  PROVE  Stage'
<1>1. SockTypeOK /\ seqExpect = seqNext /\ seqNext \in Nat \ {0} /\ <<>> \in Seq(Items)
  BY EmptySeq DEF IwTypeOK, Stage, SockTypeOK, NextStep
<1>2. /\ Request(pc')
      /\ \/ pc' = "command" /\ Answer(seqNext, <<>>) /\ truth' = "ok"
         \/ pc' = "dump" /\ StartDump(seqNext, Bss) /\ truth' = "ok"
         \/ Refuse(seqNext) /\ truth' = "fail"
  BY DEF NextStep, Request
<1>3. /\ TakeSeq /\ seqExpect' = seqExpect /\ err' = "none"
      /\ seqNext' = seqNext + 1 /\ rx'.at = "read" /\ rx'.buf = <<>>
  BY <1>2, RequestFacts
<1>4. AllExpected' /\ (dump'.seq # 0 => truth' = "ok")
  <2>1. CASE pc' = "command" /\ Answer(seqNext, <<>>) /\ truth' = "ok"
    BY <1>1, <1>3, <2>1, AnswerExpected, InStepAnythingGoes
  <2>2. CASE pc' = "dump" /\ StartDump(seqNext, Bss) /\ truth' = "ok"
    BY <1>1, <1>3, <2>2, DumpAsked, BssAssumption
  <2>3. CASE Refuse(seqNext) /\ truth' = "fail"
    <3>1. AllExpected' /\ dump' = dump
      BY <1>1, <1>3, <2>3, RefusalExpected, InStepAnythingGoes
    <3> QED
      BY <1>1, <3>1, InStepAnythingGoes
  <2> QED
    BY <1>2, <2>1, <2>2, <2>3
<1>5. seqExpect' >= seqNext' - 1
  BY <1>1, <1>3
<1> QED
  BY <1>3, <1>4, <1>5 DEF Stage, Waiting

\* nl80211 is asked for; of the dump of families the rest may be on its way.
LEMMA LookupStage ==
  ASSUME IwTypeOK, Ordered, Stage, AskFamily
  PROVE  Stage'
<1>1. /\ SockTypeOK /\ seqNext \in Nat \ {0} /\ seqExpect \in Nat /\ seqExpect >= seqNext - 1
      /\ pc = "resolve" /\ rx.at = "out" /\ grp = NoGroup
  BY DEF IwTypeOK, Stage, SockTypeOK, AskFamily
<1>2. /\ TakeSeq /\ seqExpect' = seqExpect /\ pc' = "lookup" /\ err' = "none"
      /\ seqNext' = seqNext + 1 /\ rx'.at = "read" /\ rx'.buf = <<>> /\ grp' = grp
  BY RequestFacts DEF AskFamily
<1>3. \/ seqExpect = seqNext /\ truth' = "ok" /\ Answer(seqNext, <<"nl80211">>)
      \/ truth' = "fail" /\ Refuse(seqNext)
  <2>1. CASE ctrlid'
    <3>1. rx.ret = "ok" /\ truth' = "ok" /\ Answer(seqNext, <<"nl80211">>)
      BY <2>1 DEF AskFamily
    <3>2. seqExpect = seqNext
      BY <1>1, <3>1 DEF Stage
    <3> QED
      BY <3>1, <3>2
  <2>2. CASE ~ctrlid'
    BY <2>2 DEF AskFamily
  <2> QED
    BY <2>1, <2>2
<1>4. AllExpected' /\ dump' = dump
  <2>1. CASE seqExpect = seqNext /\ truth' = "ok" /\ Answer(seqNext, <<"nl80211">>)
    <3>1. "nl80211" \in Items
      BY FamiliesAssumption, ElementOfSeq DEF FamilySet
    <3>5. <<"nl80211">> \in Seq(Items)
      BY <3>1, SingletonSeq
    <3>2. PICK items \in Seq(Items) : items = <<"nl80211">>
      BY <3>5
    <3>3. \A j \in 1..Len(items) : items[j] = "nl80211"
      BY <3>2
    <3>4. Answer(seqNext, items)
      BY <2>1, <3>2
    <3> QED
      BY <1>1, <1>2, <2>1, <3>3, <3>4, AnswerExpected, InStepAnythingGoes
  <2>2. CASE truth' = "fail" /\ Refuse(seqNext)
    <3>1. ASSUME NEW x, InLine(x) PROVE Expected(x)'
      <4>1. Expected(x) /\ (x.seq = 0 \/ x.seq < seqNext) /\ x.seq \in Nat
        BY <1>1, <3>1, LineMessages, AllInLine DEF Stage
      <4>2. x.seq # 0 => x.type \in {"DATA", "DONE"} /\ x.seq # seqNext
        BY <1>1, <4>1 DEF Expected
      <4> QED
        BY <1>1, <1>2, <2>2, <4>2 DEF Expected, Latest
    <3> QED
      BY <1>1, <1>2, <2>2, <3>1, RefusalExpected
  <2> QED
    BY <1>3, <2>1, <2>2
<1>5. dump'.seq # seqNext
  BY <1>1, <1>4 DEF Ordered
<1>6. /\ seqExpect' >= seqNext' - 2 /\ seqNext' - 1 = seqNext
      /\ truth' = "ok" => seqExpect' >= seqNext' - 1
  BY <1>1, <1>2, <1>3
<1>7. grp' = NoGroup
  BY <1>1, <1>2
<1> QED
  BY <1>2, <1>4, <1>5, <1>6, <1>7 DEF Stage, Waiting

\* The program goes on to where no answer is waited for.
LEMMA MoveStage ==
  ASSUME IwTypeOK, Ordered, Stage,
         UNCHANGED <<queue, seqNext, seqExpect, dump, truth>>,
         rx'.buf = <<>> \/ rx'.buf = rx.buf,
         pc' \in {"next", "group", "listen", "done", "failed"},
         \/ pc \in {"start", "next", "group", "listen", "done"}
         \/ pc \in {"init", "resolve"} /\ rx.at = "out" /\ rx.ret = "ok"
         \/ pc \in Waiting /\ err # "none"
         \/ pc' = "failed"
  PROVE  Stage'
<1>1. AllExpected'
  BY TakingKeepsExpected DEF IwTypeOK, Stage
<1>2. pc' # "failed" => seqExpect = seqNext
  BY DEF Stage
<1> QED
  BY <1>1, <1>2 DEF Stage, Waiting

\* nl_recvmsgs() is called again, or returns, or goes on to read.
LEMMA IdleStage ==
  ASSUME IwTypeOK, Ordered, Stage, Again \/ (ReadOverrun /\ UNCHANGED progVars)
                                         \/ (EndOfDatagram /\ UNCHANGED progVars)
  PROVE  Stage'
<1>0. UNCHANGED progVars
  BY DEF Again
<1>1. UNCHANGED <<pc, truth, err, grp, todo>>
  BY <1>0 DEF progVars
<1>2. /\ UNCHANGED <<queue, seqNext, seqExpect, dump>> /\ rx'.buf = <<>>
      /\ rx'.at # "parse"
      /\ pc \in {"init", "resolve"} /\ rx'.at = "out" /\ rx'.ret = "ok" => seqExpect = seqNext
  <2>1. CASE Again
    <3>1. rx'.at = "read" /\ rx'.buf = <<>>
      BY <2>1 DEF Again, Call, Called
    <3> QED
      BY <2>1, <3>1 DEF Again, Call
  <2>2. CASE ReadOverrun
    BY <2>2, ReturnedFields DEF ReadOverrun
  <2>3. CASE EndOfDatagram
    <3>1. rx.at = "parse" /\ rx.buf = <<>> /\ rx \in RxStates
      BY <2>3 DEF EndOfDatagram, IwTypeOK, SockTypeOK
    <3>2. CASE rx.multi
      <4>1. rx'.at = "read" /\ rx'.buf = <<>>
        BY <2>3, <3>1, <3>2 DEF EndOfDatagram, RxStates
      <4> QED
        BY <2>3, <4>1 DEF EndOfDatagram
    <3>3. CASE ~rx.multi
      <4>1. rx' = Returned("ok")
        BY <2>3, <3>3 DEF EndOfDatagram
      <4>2. pc \in {"init", "resolve"} => seqExpect = seqNext
        BY <3>1, <3>3 DEF Stage
      <4> QED
        BY <2>3, <4>1, <4>2, ReturnedFields DEF EndOfDatagram
    <3> QED
      BY <3>2, <3>3
  <2> QED
    BY <2>1, <2>2, <2>3
<1>3. AllExpected'
  BY <1>1, <1>2, TakingKeepsExpected DEF IwTypeOK, Stage
<1> QED
  BY <1>1, <1>2, <1>3 DEF Stage, Waiting

LEMMA ReadStage ==
  ASSUME IwTypeOK, Ordered, Stage, Read, UNCHANGED progVars
  PROVE  Stage'
<1>1. UNCHANGED <<pc, truth, err, grp, todo>> /\ SockTypeOK
  BY DEF progVars, IwTypeOK
<1>2. UNCHANGED <<seqNext, seqExpect>>
  BY DEF Read
<1>3. AllExpected'
  BY <1>1, ReadingKeepsExpected
<1>4. /\ rx'.at = "parse" /\ rx'.buf = queue[1] /\ 1 \in 1..Len(queue)
      /\ dump' = dump \/ \E b \in Batches(dump) : dump.seq # 0 /\ dump' = b.dump
  BY <1>1, ReadQueue
<1>5. dump'.seq \in {0, dump.seq}
  <2>1. ASSUME NEW b \in Batches(dump), dump.seq # 0, dump' = b.dump
        PROVE  dump'.seq \in {0, dump.seq}
    BY <1>1, <2>1, BatchIsUniform DEF SockTypeOK, Dumps
  <2> QED
    BY <1>4, <2>1
<1>6. rx'.buf # <<>>
  BY <1>4 DEF Ordered
<1> QED
  BY <1>1, <1>2, <1>3, <1>4, <1>5, <1>6 DEF Stage, Waiting

LEMMA EventStage ==
  ASSUME IwTypeOK, Ordered, Stage, NEW item \in Items, Event(item),
         UNCHANGED <<pc, truth, err, grp>>
  PROVE  Stage'
<1>1. UNCHANGED <<seqNext, seqExpect, dump, rx>>
  BY DEF Event
<1>2. AllExpected'
  BY EventsAreExpected DEF IwTypeOK, Stage
<1> QED
  BY <1>1, <1>2 DEF Stage, Waiting

\* A message is parsed where an answer is waited for.
LEMMA ParseStage ==
  ASSUME IwTypeOK, Ordered, Stage, Parsing
  PROVE  Stage'
<1> DEFINE m == rx.buf[1]
<1>1. /\ UNCHANGED <<pc, truth, todo>> /\ rx.at = "parse" /\ rx.buf # <<>> /\ SockTypeOK
  BY DEF Parsing, IwTypeOK
<1>2. seqNext \in Nat \ {0} /\ seqExpect \in Nat \ {0} /\ InLine(m)
  BY <1>1, HeadInLine DEF SockTypeOK
<1>3. Expected(m)
  BY <1>2, AllInLine DEF Stage
<1>4. UNCHANGED <<queue, seqNext, dump>> /\ (rx'.buf = <<>> \/ rx'.buf = Tail(rx.buf))
  BY <1>1, ParseBuf DEF Parsing, Parse
<1>5. AllExpected'
  BY <1>1, <1>4, TakingKeepsExpected DEF Stage
<1> HIDE DEF m
<1>6. CASE pc = "listen"
  <2>1. seqExpect' = seqExpect
    BY <1>6, ListenParse
  <2> QED
    BY <1>1, <1>4, <1>5, <1>6, <2>1 DEF Stage, Waiting
<1>7. CASE pc # "listen" /\ m.seq # seqExpect
  <2>1. UNCHANGED <<seqExpect, err, grp>> /\ rx'.at = "out" /\ rx'.ret = "fail"
    BY <1>7, ParsingStray DEF m
  <2> QED
    BY <1>1, <1>4, <1>5, <2>1 DEF Stage
<1>8. CASE pc # "listen" /\ m.seq = seqExpect
  <2>1. /\ m.seq < seqNext /\ m.seq # 0
        /\ m.type \in {"DATA", "DONE", "ACK", "ERR"} /\ m \in Messages
        /\ seqExpect' = IF m.type = "DATA" THEN seqExpect ELSE seqExpect + 1
        /\ m.type = "DATA" =>
              /\ err' = err
              /\ grp' = grp \/ (pc = "lookup" /\ grp' = <<m.item, Head(todo)>>)
              /\ \/ rx'.at = "parse" /\ rx'.multi = (rx.multi \/ m.multi)
                 \/ pc \in {"init", "resolve"} /\ rx' = Returned("fail")
        /\ m.type # "DATA" => grp' = grp
        /\ m.type = "DONE" =>
              /\ err' = IF pc \in {"command", "dump"} THEN "ok" ELSE err
              /\ rx'.at = "parse"
        /\ m.type \in {"ACK", "ERR"} /\ pc \in Waiting =>
              err' = IF m.type = "ACK" THEN "ok" ELSE "fail"
    BY <1>8, ParsingExpected DEF m
  <2>2. pc \in {"init", "resolve"} \union Waiting
    BY <1>1, <1>8 DEF IwTypeOK, Calling, Waiting
  <2>3. CASE pc \in {"init", "resolve"}
    <3>5. m.type = "DONE" \/ (m.type = "DATA" /\ m.multi)
      BY <1>3, <2>1, <2>3 DEF Expected
    <3>6. seqExpect >= seqNext - 1 /\ seqExpect < seqNext
      BY <1>8, <2>1, <2>3 DEF Stage
    <3>1. seqExpect = seqNext - 1
      BY <1>2, <3>6
    <3>2. grp' = grp
      BY <2>1, <2>3
    <3>3. CASE m.type = "DONE"
      <4>1. seqExpect' = seqNext /\ rx'.at = "parse"
        BY <1>2, <2>1, <3>1, <3>3
      <4> QED
        BY <1>1, <1>2, <1>4, <1>5, <2>3, <3>2, <4>1 DEF Stage, Waiting
    <3>4. CASE m.type = "DATA" /\ m.multi
      <4>1. seqExpect' = seqExpect
        BY <2>1, <3>4
      <4>3. rx' = Returned("fail") => rx'.at = "out" /\ rx'.ret = "fail"
        BY ReturnedFields
      <4>2. \/ rx'.at = "parse" /\ rx'.multi
            \/ rx'.at = "out" /\ rx'.ret = "fail"
        BY <2>1, <3>4, <4>3
      <4> QED
        BY <1>1, <1>2, <1>4, <1>5, <2>3, <3>1, <3>2, <4>1, <4>2 DEF Stage, Waiting
    <3> QED
      BY <3>3, <3>4, <3>5
  <2>4. CASE pc = "lookup"
    <3>1. err = "none"
      BY <1>2, <1>8, <2>1, <2>4 DEF Stage, Waiting, IwTypeOK
    <3>2. truth = "ok" => (grp' # NoGroup => grp'[1] = "nl80211")
      BY <1>3, <1>8, <2>1, <2>4 DEF Stage, Expected
    <3>3. seqExpect' >= seqExpect
      BY <1>2, <2>1
    <3>4. err' # "none" => err' = truth /\ seqExpect' = seqNext
      <4>1. m.type \notin {"DATA", "DONE"} => Latest(m) /\ Ending(m)
        BY <1>3, <2>1, <2>4 DEF Expected
      <4>2. m.type \in {"DATA", "DONE"} => err' = "none"
        BY <2>1, <2>4, <3>1
      <4>3. CASE m.type \in {"ACK", "ERR"}
        <5>1. seqExpect' = seqNext
          BY <1>2, <1>8, <2>1, <4>1, <4>3 DEF Latest
        <5>2. err' = truth
          BY <2>1, <2>4, <4>1, <4>3 DEF Ending, Waiting
        <5> QED
          BY <5>1, <5>2
      <4> QED
        BY <2>1, <4>2, <4>3
    <3>5. /\ seqExpect >= seqNext - 2 /\ (dump.seq # 0 => dump.seq # seqNext - 1)
          /\ truth = "ok" => seqExpect >= seqNext - 1
      BY <2>4 DEF Stage
    <3>6. seqExpect' >= seqNext - 2 /\ (truth = "ok" => seqExpect' >= seqNext - 1)
      <4>1. seqExpect' \in Nat
        BY <1>2, <2>1
      <4> QED
        BY <1>2, <3>3, <3>5, <4>1
    <3> QED
      BY <1>1, <1>4, <1>5, <2>4, <3>2, <3>4, <3>5, <3>6 DEF Stage
  <2>5. CASE pc \in {"command", "dump"}
    <3>1. err = "none" /\ seqExpect = seqNext - 1
      BY <1>2, <1>8, <2>1, <2>5 DEF Stage, Waiting, IwTypeOK
    <3>2. CASE m.type = "DATA"
      <4>1. seqExpect' = seqExpect /\ err' = "none"
        BY <2>1, <3>1, <3>2
      <4> QED
        BY <1>1, <1>4, <1>5, <2>5, <4>1 DEF Stage
    <3>3. CASE m.type # "DATA"
      <4>1. seqExpect' = seqNext
        BY <1>2, <2>1, <3>1, <3>3
      <4>2. Ending(m)
        BY <1>3, <2>1, <2>5, <3>3 DEF Expected
      <4>3. err' = truth
        BY <2>1, <2>5, <3>3, <4>2 DEF Ending, Waiting
      <4>4. seqExpect' >= seqNext - 1
        BY <1>2, <4>1
      <4> QED
        BY <1>1, <1>4, <1>5, <2>5, <4>1, <4>3, <4>4 DEF Stage
    <3> QED
      BY <3>2, <3>3
  <2> QED
    BY <2>2, <2>3, <2>4, <2>5 DEF Waiting
<1> QED
  BY <1>6, <1>7, <1>8

LEMMA StageStep ==
  ASSUME IwTypeOK, Ordered, Stage, Next
  PROVE  Stage'
<1>1. CASE Start \/ LookUp
  BY <1>1, FamiliesStage
<1>2. CASE NextStep
  <2>1. CASE pc' \in {"command", "dump"}
    BY <1>2, <2>1, CommandStage
  <2>2. CASE pc' \notin {"command", "dump"}
    <3>1. /\ pc = "next" /\ pc' \in {"group", "listen"}
          /\ UNCHANGED <<queue, seqNext, seqExpect, dump, truth>>
          /\ rx' = rx \/ rx' = Called
      BY <1>2, <2>2 DEF NextStep, Call, Request, sockVars
    <3>2. rx'.buf = <<>> \/ rx'.buf = rx.buf
      BY <3>1 DEF Called
    <3> QED
      BY <3>1, <3>2, MoveStage
  <2> QED
    BY <2>1, <2>2
<1>3. CASE AskFamily
  BY <1>3, LookupStage
<1>4. CASE Initialised \/ Finished \/ Join \/ Prepared \/ NotListening
          \/ Commanded \/ Heard
  <2>1. /\ UNCHANGED <<queue, seqNext, seqExpect, dump, truth, rx>>
        /\ pc' \in {"next", "group", "done", "failed"}
    BY <1>4 DEF Initialised, Finished, Join, PrepareFails, Prepared, NotListening,
       Commanded, Heard, sockVars
  <2>2. \/ pc \in {"next", "group", "listen"}
        \/ pc \in {"init", "resolve"} /\ rx.at = "out" /\ rx.ret = "ok"
        \/ pc \in Waiting /\ err # "none"
        \/ pc' = "failed"
    BY <1>4 DEF Initialised, Finished, Join, PrepareFails, Prepared, NotListening,
       Commanded, Heard, Waiting
  <2> QED
    BY <2>1, <2>2, MoveStage
<1>5. CASE Again
  BY <1>5, IdleStage
<1>6. CASE Reading
  BY <1>6, IdleStage, ReadStage DEF Reading
<1>7. CASE Parsing
  BY <1>7, ParseStage
<1>8. CASE Announce \/ Noise
  <2>1. UNCHANGED <<pc, truth, err, grp>>
    BY <1>8 DEF Announce, Noise
  <2>2. (\E item \in Items : Event(item)) \/ UNCHANGED sockVars
    BY <1>8, FamiliesAssumption DEF Announce, Noise
  <2>3. CASE UNCHANGED sockVars
    <3>1. UNCHANGED <<queue, seqNext, seqExpect, dump, rx>>
      BY <2>3 DEF sockVars
    <3>2. AllExpected'
      BY <2>1, <3>1, TakingKeepsExpected DEF IwTypeOK, Stage
    <3> QED
      BY <2>1, <3>1, <3>2 DEF Stage
  <2> QED
    BY <2>1, <2>2, <2>3, EventStage
<1> QED
  BY <1>1, <1>2, <1>3, <1>4, <1>5, <1>6, <1>7, <1>8 DEF Next, Program

-----------------------------------------------------------------------------
(* The scan dump.                                                          *)

LEMMA FlowAt ==
  \A s, g : Flow(s, Bss, g)' /\ s = seqNext' - 1 /\ g = Len(printed')
                 => Flow(seqNext - 1, Bss, Len(printed))'
  BY DEF Flow

LEMMA DumpStarts ==
  ASSUME IwTypeOK, Ordered, Stage, NextStep, pc' = "dump", truth' = "ok"
  PROVE  DumpFlow'
<1>1. /\ SockTypeOK /\ seqExpect = seqNext /\ seqNext \in Nat \ {0}
  BY DEF IwTypeOK, Stage, SockTypeOK, NextStep
<1>2. Request("dump") /\ printed' = <<>> /\ (StartDump(seqNext, Bss) \/ truth' = "fail")
  BY DEF NextStep, Request
<1>3. /\ seqExpect' = seqExpect /\ seqNext' = seqNext + 1 /\ rx'.buf = <<>> /\ err' = "none"
  BY <1>2, RequestFacts
<1>4. PICK s \in Nat \ {0} : s = seqNext
  BY <1>1
<1>5. Flow(s, Bss, 0)'
  <2>1. \A i \in 1..Len(queue) : queue[i] = <<>> \/ queue[i][1].seq # s
    BY <1>1, <1>4, InStepAnythingGoes
  <2>2. StartDump(s, Bss)
    BY <1>2, <1>4
  <2> QED
    BY <1>1, <1>3, <2>1, <2>2, FlowStarts, BssAssumption
<1>6. Len(printed') = 0 /\ s = seqNext' - 1 /\ Len(Bss) \in Nat
  BY <1>1, <1>2, <1>3, <1>4, BssAssumption
<1>7. Flow(seqNext - 1, Bss, Len(printed))'
  BY <1>5, <1>6, FlowAt
<1> QED
  BY <1>3, <1>6, <1>7 DEF DumpFlow, Printing

\* The loop goes on, or the kernel sends, while the dump is waited for.
LEMMA DumpGoesOn ==
  ASSUME IwTypeOK, Ordered, DumpFlow, UNCHANGED <<pc, truth, err, printed>>,
         UNCHANGED <<seqNext, seqExpect>>,
         \A s \in Nat \ {0} : \A g : Flow(s, Bss, g) => Flow(s, Bss, g)'
  PROVE  DumpFlow'
<1>1. SUFFICES ASSUME pc = "dump", truth = "ok" PROVE Printing'
  BY DEF DumpFlow
<1>2. Printing
  BY <1>1 DEF DumpFlow
<1>3. ASSUME seqExpect # seqNext PROVE Flow(seqNext - 1, Bss, Len(printed))'
  <2>1. seqExpect \in Nat \ {0} /\ seqNext \in Nat \ {0} /\ seqExpect <= seqNext
    BY DEF IwTypeOK, SockTypeOK, Ordered
  <2>2. seqNext - 1 \in Nat \ {0}
    BY <1>3, <2>1
  <2>3. PICK s \in Nat \ {0} : s = seqNext - 1
    BY <2>2
  <2>4. PICK g : g = Len(printed)
    OBVIOUS
  <2>5. Flow(s, Bss, g)
    BY <1>2, <1>3, <2>3, <2>4 DEF Printing
  <2>6. Flow(s, Bss, g)'
    BY <2>5
  <2>7. s = seqNext' - 1 /\ g = Len(printed')
    BY <2>3, <2>4
  <2> QED
    BY <2>6, <2>7, FlowAt
<1> QED
  BY <1>2, <1>3 DEF Printing

\* A message of the dump is parsed, or one that is not expected.
LEMMA DumpParse ==
  ASSUME IwTypeOK, Ordered, Stage, DumpFlow, Parsing, pc = "dump", truth = "ok"
  PROVE  DumpFlow'
<1> DEFINE m == rx.buf[1]
<1>1. /\ SockTypeOK /\ seqNext \in Nat \ {0} /\ seqExpect \in Nat \ {0}
      /\ seqExpect >= seqNext - 1 /\ seqExpect <= seqNext
      /\ err # "none" => err = "ok" /\ seqExpect = seqNext
      /\ printed \in Seq(Items) /\ Len(printed) \in Nat /\ Len(Bss) \in Nat
  BY BssAssumption DEF IwTypeOK, SockTypeOK, Ordered, Stage, Waiting
<1>2. Printing /\ pc' = pc /\ truth' = truth /\ rx.buf # <<>>
  BY DEF DumpFlow, Parsing
<1>3. CASE m.seq # seqExpect
  <2>1. /\ UNCHANGED <<seqNext, seqExpect, queue, dump, err, printed>>
        /\ rx'.buf = <<>>
    BY <1>3, ParsingStray
  <2>2. ASSUME seqExpect # seqNext PROVE Flow(seqNext - 1, Bss, Len(printed))'
    <3>1. PICK s : s = seqNext - 1
      OBVIOUS
    <3>2. PICK g : g = Len(printed)
      OBVIOUS
    <3>3. s = seqExpect
      BY <1>1, <2>2, <3>1
    <3>4. Flow(s, Bss, g)
      BY <1>2, <2>2, <3>1, <3>2 DEF Printing
    <3>5. Flow(s, Bss, g)'
      BY <1>1, <1>2, <1>3, <2>1, <3>3, <3>4, FlowPasses, BssAssumption
    <3> QED
      BY <2>1, <3>1, <3>2, <3>5, FlowAt
  <2> QED
    BY <1>2, <2>1, <2>2 DEF DumpFlow, Printing
<1>4. CASE m.seq = seqExpect
  <2>1. /\ m.seq < seqNext /\ UNCHANGED <<seqNext, queue, dump>>
        /\ seqExpect' = IF m.type = "DATA" THEN seqExpect ELSE seqExpect + 1
        /\ m.type = "DATA" =>
              /\ err' = err /\ printed' = Append(printed, m.item)
              /\ rx'.buf = Tail(rx.buf)
        /\ m.type # "DATA" => printed' = printed
    BY <1>2, <1>4, ParsingExpected
  <2>2. PICK s : s = seqNext - 1
    OBVIOUS
  <2>3. PICK g : g = Len(printed)
    OBVIOUS
  <2>4. seqExpect # seqNext /\ s = seqExpect /\ err = "none"
    BY <1>1, <1>4, <2>1, <2>2
  <2>5. Flow(s, Bss, g)
    BY <1>2, <2>2, <2>3, <2>4 DEF Printing
  <2>6. /\ m.type # "DATA" => g = Len(Bss)
        /\ m.type = "DATA" =>
             /\ g + 1 \in 1..Len(Bss) /\ m.item = Bss[g + 1]
             /\ rx'.buf = Tail(rx.buf) => Flow(s, Bss, g + 1)'
    BY <1>1, <1>2, <1>4, <2>1, <2>4, <2>5, FlowTakes, BssAssumption
  <2> HIDE DEF m
  <2>7. CASE m.type = "DATA"
    <3>1. printed' = Append(printed, m.item) /\ err' = "none"
      BY <2>1, <2>4, <2>7
    <3>2. /\ Len(printed') = g + 1 /\ printed'[g + 1] = m.item
          /\ \A k \in 1..g : printed'[k] = printed[k]
      BY <1>1, <2>3, <3>1
    <3>3. Flow(s, Bss, g + 1)'
      BY <2>1, <2>6, <2>7
    <3>4. Flow(seqNext - 1, Bss, Len(printed))'
      <4>1. PICK h : h = g + 1
        OBVIOUS
      <4>2. Flow(s, Bss, h)' /\ s = seqNext' - 1 /\ h = Len(printed')
        BY <2>1, <2>2, <3>2, <3>3, <4>1
      <4> QED
        BY <4>2, FlowAt
    <3>5. Len(printed') <= Len(Bss)
      BY <1>1, <2>6, <2>7, <3>2
    <3>6. ASSUME NEW k \in 1..Len(printed') PROVE printed'[k] = Bss[k]
      <4>1. CASE k = g + 1
        BY <2>6, <2>7, <3>2, <4>1
      <4>2. CASE k # g + 1
        <5>1. k \in 1..g
          BY <1>1, <2>3, <3>2, <4>2
        <5>2. printed[k] = Bss[k]
          BY <1>2, <2>3, <5>1 DEF Printing
        <5> QED
          BY <3>2, <5>1, <5>2
      <4> QED
        BY <4>1, <4>2
    <3> QED
      BY <3>1, <3>4, <3>5, <3>6 DEF DumpFlow, Printing
  <2>8. CASE m.type # "DATA"
    <3>1. printed' = printed /\ seqExpect' = seqNext' /\ Len(printed) = Len(Bss)
      BY <1>1, <2>1, <2>2, <2>3, <2>4, <2>6, <2>8
    <3> QED
      BY <1>1, <1>2, <3>1 DEF DumpFlow, Printing
  <2> QED
    BY <2>7, <2>8
<1> QED
  BY <1>3, <1>4

LEMMA DumpStep ==
  ASSUME IwTypeOK, Ordered, Stage, DumpFlow, Next
  PROVE  DumpFlow'
<1>1. CASE pc' # "dump" \/ truth' # "ok"
  BY <1>1 DEF DumpFlow
<1>2. CASE pc' = "dump" /\ truth' = "ok" /\ pc # "dump"
  <2>1. NextStep
    <3>1. CASE Start \/ LookUp \/ AskFamily
      <4>1. pc' \in {"init", "resolve", "lookup"}
        BY <3>1 DEF Start, LookUp, AskFamily, RequestFamilies, Request
      <4> QED
        BY <1>2, <4>1
    <3>2. CASE Initialised \/ Finished \/ Join \/ Prepared \/ NotListening
          \/ Commanded \/ Heard
      <4>1. pc' \in {"next", "group", "done", "failed"}
        BY <3>2 DEF Initialised, Finished, Join, PrepareFails, Prepared, NotListening,
       Commanded, Heard
      <4> QED
        BY <1>2, <4>1
    <3>3. CASE Again \/ Reading \/ Parsing \/ Announce \/ Noise
      <4>1. pc' = pc
        BY <3>3 DEF Again, Reading, Parsing, Announce, Noise, progVars
      <4> QED
        BY <1>2, <4>1
    <3> QED
      BY <3>1, <3>2, <3>3 DEF Next, Program
  <2> QED
    BY <1>2, <2>1, DumpStarts
<1>3. CASE pc' = "dump" /\ truth' = "ok" /\ pc = "dump"
  <2>0. SockTypeOK /\ (rx.at # "parse" => rx.buf = <<>>)
    BY DEF IwTypeOK, Ordered
  <2>1. Again \/ Reading \/ Parsing \/ Announce \/ Noise
    BY <1>3 DEF Next, Program, Start, LookUp, AskFamily, NextStep,
       Initialised, Finished, Join, PrepareFails, Prepared, NotListening,
       Commanded, Heard
  <2>2. CASE Again \/ (Reading /\ ~Read)
    <3>1. /\ UNCHANGED progVars /\ UNCHANGED <<seqNext, seqExpect, queue, dump>>
          /\ rx'.buf = <<>> /\ rx.buf = <<>>
      <4>1. CASE Again
        BY <2>0, <4>1 DEF Again, Call, Called
      <4>2. CASE ReadOverrun /\ UNCHANGED progVars
        BY <2>0, <4>2, ReturnedFields DEF ReadOverrun
      <4>3. CASE EndOfDatagram /\ UNCHANGED progVars
        BY <2>0, <4>3, ReturnedFields DEF EndOfDatagram, SockTypeOK, RxStates
      <4> QED
        BY <2>2, <4>1, <4>2, <4>3 DEF Reading
    <3>2. UNCHANGED <<pc, truth, err, printed>>
      BY <3>1 DEF progVars
    <3>3. \A s, g : Flow(s, Bss, g) => Flow(s, Bss, g)'
      BY <3>1, FlowStays
    <3> QED
      BY <3>1, <3>2, <3>3, DumpGoesOn
  <2>3. CASE Reading /\ Read
    <3>1. UNCHANGED <<pc, truth, err, printed>> /\ UNCHANGED <<seqNext, seqExpect>>
      BY <2>3 DEF Reading, progVars, Read
    <3>2. \A s \in Nat \ {0} : \A g : Flow(s, Bss, g) => Flow(s, Bss, g)'
      BY <2>0, <2>3, FlowRead, BssAssumption
    <3> QED
      BY <3>1, <3>2, DumpGoesOn
  <2>4. CASE Parsing
    <3>1. truth = "ok"
      BY <1>3, <2>4 DEF Parsing
    <3> QED
      BY <1>3, <2>4, <3>1, DumpParse
  <2>5. CASE Announce \/ Noise
    <3>1. UNCHANGED <<pc, truth, err, printed>>
      BY <2>5 DEF Announce, Noise
    <3>2. (\E item \in Items : Event(item)) \/ UNCHANGED sockVars
      BY <2>5, FamiliesAssumption DEF Announce, Noise
    <3>3. CASE UNCHANGED sockVars
      <4>1. UNCHANGED <<seqNext, seqExpect, queue, dump, rx>>
        BY <3>3 DEF sockVars
      <4>2. \A s, g : Flow(s, Bss, g) => Flow(s, Bss, g)'
        BY <4>1, FlowStays
      <4> QED
        BY <3>1, <4>1, <4>2, DumpGoesOn
    <3>4. CASE \E item \in Items : Event(item)
      <4>1. PICK item \in Items : Event(item)
        BY <3>4
      <4>2. UNCHANGED <<seqNext, seqExpect, dump, rx>>
        BY <4>1 DEF Event
      <4>3. PICK ds \in Seq(Datagrams) : \E n \in 0..Len(ds) : Fresh(ds, 0) /\ Grows(ds, n)
        BY <2>0, <4>1, EventGrows
      <4>4. PICK n \in 0..Len(ds) : Grows(ds, n)
        BY <4>3
      <4>5. \A s \in Nat \ {0} : \A g : Flow(s, Bss, g) => Flow(s, Bss, g)'
        <5> SUFFICES ASSUME NEW s \in Nat \ {0}, NEW g, Flow(s, Bss, g)
                     PROVE  Flow(s, Bss, g)'
          OBVIOUS
        <5>1. 0 # s /\ rx'.buf = rx.buf /\ dump' = dump
          BY <4>2
        <5> QED
          BY <2>0, <4>3, <4>4, <5>1, FlowGrows, BssAssumption
      <4> QED
        BY <3>1, <4>2, <4>5, DumpGoesOn
    <3> QED
      BY <3>2, <3>3, <3>4
  <2> QED
    BY <2>1, <2>2, <2>3, <2>4, <2>5
<1> QED
  BY <1>1, <1>2, <1>3

-----------------------------------------------------------------------------
(* The script, and the groups.                                             *)

\* A scan's script, step by step.
LEMMA ScriptSteps ==
  ASSUME NEW s \in ScanScripts, s # <<>>
  PROVE  /\ Tail(s) \in ScanScripts
         /\ Head(s) \in {"command", "prepare", "listen", "dump"}
         /\ Tail(s) = <<>> <=> Head(s) = "dump"
         /\ Head(s) = "prepare" => Tail(s) = <<"listen", "dump">>
<1>1. CASE s = <<"command", "prepare", "listen", "dump">>
  BY <1>1 DEF ScanScripts
<1>2. CASE s = <<"prepare", "listen", "dump">>
  BY <1>2 DEF ScanScripts
<1>3. CASE s = <<"listen", "dump">>
  BY <1>3 DEF ScanScripts
<1>4. CASE s = <<"dump">>
  BY <1>4 DEF ScanScripts
<1> QED
  BY <1>1, <1>2, <1>3, <1>4 DEF ScanScripts

\* When the dump has been read the program has printed what the kernel had.
LEMMA AllPrinted ==
  ASSUME IwTypeOK, Stage, DumpFlow, pc = "dump", err = "ok"
  PROVE  printed = Bss
<1>1. Printing
  BY DEF Stage, DumpFlow, Waiting
<1>2. printed \in Seq(Items) /\ Bss \in Seq(Items) /\ Len(printed) = Len(Bss)
  BY <1>1, BssAssumption DEF IwTypeOK, Printing
<1> QED
  BY <1>1, <1>2, SeqEqual DEF Printing

LEMMA ScriptStep ==
  ASSUME IwTypeOK, Ordered, Stage, DumpFlow, Scripted, Next
  PROVE  Scripted'
<1>1. command' = command
  BY DEF Next, Program, Start, Initialised, NextStep, Finished, LookUp, AskFamily, Join,
     Prepared, NotListening, Commanded, Heard, Again, Reading, Parsing, Announce, Noise, progVars
<1>2. SUFFICES ASSUME command = "scan" PROVE Scripted'
  BY <1>1 DEF Scripted
<1>3. /\ script \in ScanScripts
      /\ script = <<>> => pc \in {"dump", "next", "done", "failed"}
      /\ pc \in {"group", "resolve", "lookup"} => script = <<"listen", "dump">>
      /\ pc = "dump" => script = <<>>
      /\ pc = "next" /\ script = <<>> => printed = Bss
      /\ pc = "done" => printed = Bss \/ heard = "aborted"
  BY <1>2 DEF Scripted
<1>4. CASE Start \/ LookUp \/ AskFamily
  <2>1. /\ UNCHANGED <<script, printed, heard>>
        /\ \/ pc = "start" /\ pc' = "init"
           \/ pc = "group" /\ pc' = "resolve"
           \/ pc = "resolve" /\ pc' = "lookup"
    BY <1>4 DEF Start, LookUp, AskFamily, RequestFamilies, Request
  <2> QED
    BY <1>3, <2>1 DEF Scripted
<1>5. CASE NextStep
  <2>1. pc = "next" /\ script # <<>> /\ script' = Tail(script)
    BY <1>5 DEF NextStep
  <2>2. /\ Head(script) = "prepare" => pc' = "group"
        /\ Head(script) = "listen" => pc' = "listen"
        /\ Head(script) = "command" => pc' = "command"
        /\ Head(script) = "dump" => pc' = "dump"
    BY <1>5 DEF NextStep, Request
  <2>3. /\ script' \in ScanScripts /\ (script' = <<>> <=> Head(script) = "dump")
        /\ Head(script) \in {"command", "prepare", "listen", "dump"}
        /\ Head(script) = "prepare" => script' = <<"listen", "dump">>
    BY <1>3, <2>1, ScriptSteps
  <2> QED
    BY <2>2, <2>3 DEF Scripted
<1>6. CASE Initialised \/ Prepared
  <2>1. /\ UNCHANGED <<script, printed, heard>> /\ pc \in {"init", "group"}
        /\ pc' \in {"next", "failed"}
    BY <1>6 DEF Initialised, Prepared
  <2> QED
    BY <1>3, <2>1 DEF Scripted
<1>12. CASE Join
  <2>1. UNCHANGED <<printed, heard>> /\ pc = "lookup"
    BY <1>12 DEF Join
  <2>2. \/ pc' = "group" /\ script' = script
        \/ pc' = "next" /\ script' = Tail(script)
    BY <1>2, <1>12 DEF Join, PrepareFails
  <2>3. script = <<"listen", "dump">>
    BY <1>3, <2>1
  <2>4. Tail(script) = <<"dump">> /\ <<"dump">> # <<>>
    BY <2>3
  <2> QED
    BY <1>3, <2>1, <2>2, <2>3, <2>4 DEF Scripted, ScanScripts
<1>13. CASE NotListening
  <2>1. /\ UNCHANGED <<printed, heard>> /\ script # <<>> /\ Head(script) = "listen"
        /\ script' = Tail(script) /\ pc' \in {"next", "failed"}
    BY <1>13 DEF NotListening
  <2>2. script' \in ScanScripts /\ script' # <<>>
    BY <1>3, <2>1, ScriptSteps
  <2> QED
    BY <2>1, <2>2 DEF Scripted
<1>7. CASE Finished
  <2>1. UNCHANGED <<script, printed, heard>> /\ pc = "next" /\ script = <<>> /\ pc' = "done"
    BY <1>7 DEF Finished
  <2> QED
    BY <1>3, <2>1 DEF Scripted
<1>8. CASE Commanded
  <2>1. /\ UNCHANGED <<script, printed, heard>> /\ pc \in {"command", "dump"}
        /\ pc' \in {"next", "failed"} /\ (pc' = "next" => err = "ok")
    BY <1>8 DEF Commanded
  <2>2. pc = "dump" /\ err = "ok" => printed = Bss
    BY AllPrinted
  <2> QED
    BY <1>3, <2>1, <2>2 DEF Scripted
<1>9. CASE Heard
  <2>1. /\ UNCHANGED <<script, printed, heard>> /\ pc = "listen"
        /\ pc' = IF heard = "aborted" THEN "done" ELSE "next"
    BY <1>9 DEF Heard
  <2> QED
    BY <1>3, <2>1 DEF Scripted
<1>10. CASE Again \/ Reading \/ Announce \/ Noise
  <2>1. UNCHANGED <<script, printed, heard, pc>>
    BY <1>10 DEF Again, Reading, Announce, Noise, progVars
  <2> QED
    BY <1>1, <1>3, <2>1 DEF Scripted
<1>11. CASE Parsing
  <2>1. UNCHANGED <<script, pc>> /\ rx.at = "parse"
    BY <1>11 DEF Parsing
  <2>2. pc \notin {"next", "done"}
    BY <2>1 DEF IwTypeOK, Calling
  <2> QED
    BY <1>3, <2>1, <2>2 DEF Scripted
<1> QED
  BY <1>4, <1>5, <1>6, <1>7, <1>8, <1>9, <1>10, <1>11, <1>12, <1>13
  DEF Next, Program

LEMMA GroupsStep ==
  ASSUME IwTypeOK, Stage, JoinsOwnGroups, Next
  PROVE  JoinsOwnGroups'
<1>1. CASE Join
  <2>1. joined' = joined \/ (joined' = joined \union {grp} /\ err = "ok" /\ grp # NoGroup)
    BY <1>1 DEF Join, PrepareFails
  <2>2. err = "ok" /\ grp # NoGroup => grp[1] = "nl80211"
    BY <1>1 DEF Join, Stage, Waiting
  <2> QED
    BY <2>1, <2>2 DEF JoinsOwnGroups
<1>2. CASE ~Join
  <2>1. joined' = joined
    BY <1>2 DEF Next, Program, Start, Initialised, NextStep, Finished, LookUp, AskFamily,
       Prepared, NotListening, Commanded, Heard, Again, Reading, Parsing, Announce, Noise, progVars
  <2> QED
    BY <2>1 DEF JoinsOwnGroups
<1> QED
  BY <1>1, <1>2

-----------------------------------------------------------------------------
(* The theorems.                                                           *)

LEMMA Stutters ==
  ASSUME ListenInv, UNCHANGED vars
  PROVE  ListenInv'
<1>1. /\ UNCHANGED <<seqNext, seqExpect, queue, overrun, dump, rx>>
      /\ UNCHANGED progVars
  BY DEF vars, sockVars
<1>2. UNCHANGED <<command, pc, script, todo, cache, ctrlid, grp, joined, err, printed,
              heard, result, truth, events>>
  BY <1>1 DEF progVars
<1>3. \A i : Line(i)' = Line(i)
  BY <1>1 DEF Line
<1>4. Places' = Places
  BY <1>1 DEF Places
<1>5. IwTypeOK' /\ Ordered'
  <2>1. SockTypeOK'
    BY <1>1 DEF ListenInv, IwTypeOK, SockTypeOK
  <2>2. IwTypeOK'
    BY <1>1, <1>2, <2>1 DEF ListenInv, IwTypeOK
  <2>3. Ordered'
    BY <1>1, <1>3, <1>4 DEF ListenInv, Ordered, Uniform, Current, Closes
  <2> QED
    BY <2>2, <2>3
<1>6. AllExpected'
  BY <1>1, <1>2, TakingKeepsExpected DEF ListenInv, IwTypeOK, Stage
<1>7. Stage' /\ Scripted' /\ JoinsOwnGroups'
  BY <1>1, <1>2, <1>6 DEF ListenInv, Stage, Scripted, JoinsOwnGroups
<1>8. DumpFlow'
  <2>1. \A s, g : Flow(s, Bss, g) => Flow(s, Bss, g)'
    BY <1>1, FlowStays
  <2> QED
    BY <1>1, <1>2, <2>1, DumpGoesOn DEF ListenInv
<1> QED
  BY <1>5, <1>7, <1>8 DEF ListenInv

LEMMA ListenStep == ListenInv /\ [Next]_vars => ListenInv'
<1> SUFFICES ASSUME ListenInv, [Next]_vars PROVE ListenInv'
  OBVIOUS
<1>1. CASE Next
  <2>1. IwTypeOK /\ Ordered /\ Stage /\ DumpFlow /\ Scripted /\ JoinsOwnGroups
    BY DEF ListenInv
  <2>2. IwTypeOK' /\ Ordered' /\ Stage'
    BY <1>1, <2>1, TypeStep, SocketStep, StageStep
  <2>3. DumpFlow' /\ Scripted' /\ JoinsOwnGroups'
    BY <1>1, <2>1, DumpStep, ScriptStep, GroupsStep
  <2> QED
    BY <2>2, <2>3 DEF ListenInv
<1>2. CASE UNCHANGED vars
  BY <1>2, Stutters
<1> QED
  BY <1>1, <1>2

\* The inductive invariant: what messages can be on their way at each stage,
\* and where a scan dump has come to.
THEOREM ListenInvariant == Spec => []ListenInv
  BY InitInv, ListenStep, PTL DEF Spec

\* The types of the socket, of the program and of what it remembers.
THEOREM ListenTypes == Spec => []IwTypeOK
<1>1. ListenInv => IwTypeOK
  BY DEF ListenInv
<1> QED
  BY <1>1, ListenInvariant, PTL

\* A wait that ends has been ended by the answer to its own request, and
\* nothing is left of the answers to the requests before it, whatever events
\* came between them and whatever the receive buffer had no room for.
THEOREM WaitsEndInStep == Spec => []EndsInStep
<1>1. ListenInv => EndsInStep
  <2> SUFFICES ASSUME ListenInv, Concluded
               PROVE  /\ err = truth
                      /\ seqExpect = seqNext
                      /\ dump = NoDump
                      /\ \A i \in 1..Len(queue) : \A j \in 1..Len(queue[i]) :
                           queue[i][j].seq = 0
    BY DEF EndsInStep
  <2>1. err = truth /\ seqExpect = seqNext /\ SockTypeOK /\ Ordered
    BY DEF Concluded, ListenInv, Stage, IwTypeOK
  <2>2. dump = NoDump
    BY <2>1, InStepOnlyEvents
  <2>3. ASSUME NEW i \in 1..Len(queue), NEW j \in 1..Len(queue[i])
        PROVE  queue[i][j].seq = 0
    <3>1. i \in Places /\ Line(i) = queue[i]
      BY <2>1, LinesAreDatagrams DEF Places, Line
    <3> QED
      BY <2>1, <3>1, InStepOnlyEvents
  <2> QED
    BY <2>1, <2>2, <2>3
<1> QED
  BY <1>1, ListenInvariant, PTL

\* No group of another family is ever joined, although family_handler() also
\* sees what is left of an abandoned dump of families.
THEOREM OwnGroupsJoined == Spec => []JoinsOwnGroups
<1>1. ListenInv => JoinsOwnGroups
  BY DEF ListenInv
<1> QED
  BY <1>1, ListenInvariant, PTL

\* A scan that ends well has shown all the kernel had, each once and in order.
THEOREM ScanDumpComplete == Spec => []DumpIsComplete
<1>1. ListenInv => DumpIsComplete
  BY DEF ListenInv, Scripted, DumpIsComplete
<1> QED
  BY <1>1, ListenInvariant, PTL
=============================================================================
