-------------------------- MODULE NlRequestProofs ---------------------------
(***************************************************************************)
(* NlRequest for every set of callers, requests, answers and every size of *)
(* the receive buffer: types, the sequence numbers never run ahead, a      *)
(* request leaves nothing behind, a failed send silences the socket.       *)
(* Where every request is sent and its answer fits the receive buffer, a   *)
(* step of NlRequest is a step of Request or none.                         *)
(***************************************************************************)
EXTENDS NlRequestInv, NlSocketProofs

\* What the library's loop does with the callback sets of the callers.
LEMMA CallbacksOfCallers ==
  ASSUME NEW c \in Callers
  PROVE  /\ DOMAIN CbOf[c] \subseteq {"VALID", "FINISH", "ACK", "ERR"}
         /\ "VALID" \in DOMAIN CbOf[c] => CbOf[c]["VALID"] \in {"OK", "SKIP"}
         /\ "FINISH" \in DOMAIN CbOf[c] => CbOf[c]["FINISH"] = "SKIP"
<1>1. c \in {"nl_cache_refill", "nl_get_multicast_id", "handle_cmd",
             "unl_request", "nl_wait_for_ack"}
  BY CallersAssumption DEF CbOf
<1>2. CbOf[c] \in {PickupCb, MulticastIdCb, HandleCmdCb, UnlRequestCb,
                   WaitForAckCb}
  BY <1>1 DEF CbOf
<1> QED
  BY <1>2 DEF PickupCb, MulticastIdCb, HandleCmdCb, UnlRequestCb, WaitForAckCb

\* Nobody replaces the check of the sequence number.
LEMMA ScreenedBySeq ==
  ASSUME NEW c \in Callers, NEW expect, NEW m
  PROVE  Screened(CbOf[c], expect, m)
           = IF m.seq = expect THEN "OK" ELSE "FAIL"
  BY CallbacksOfCallers DEF Screened, Then, CallOr

-----------------------------------------------------------------------------
(* Types and sequence numbers.                                             *)

\* A datagram of the answer to request s.
Answers(d, s) ==
  /\ d # <<>>
  /\ \A i \in 1..Len(d) : /\ d[i].seq = s
                          /\ d[i].type = "DATA" => d[i].item \in Items

LEMMA SoundLater ==
  ASSUME NEW d \in Datagrams, NEW n \in Nat, SoundDatagram(d, n)
  PROVE  SoundDatagram(d, n + 1)
<1>1. \A i \in 1..Len(d) : d[i] \in Messages
  BY ElementOfSeq DEF Datagrams
<1> QED
  BY <1>1 DEF SoundDatagram, Sound, Messages

LEMMA AnswersSound ==
  ASSUME NEW d, NEW s, NEW n, s < n, Answers(d, s)
  PROVE  SoundDatagram(d, n)
  BY DEF Answers, SoundDatagram, Sound

LEMMA MsgAnswers ==
  ASSUME NEW type \in Types, NEW s \in Nat, NEW multi \in BOOLEAN,
         NEW item \in Items \union {NoItem},
         type = "DATA" => item \in Items
  PROVE  /\ <<Msg(type, s, multi, item)>> \in Datagrams
         /\ Answers(<<Msg(type, s, multi, item)>>, s)
<1> DEFINE m == Msg(type, s, multi, item)
<1>1. m.seq = s /\ (m.type = "DATA" => m.item \in Items)
  BY DEF Msg
<1>0. <<m>> \in Datagrams
  BY MsgIsMessage, Singletons
<1>2. <<m>> # <<>> /\ Len(<<m>>) = 1 /\ <<m>>[1] = m
  OBVIOUS
<1> HIDE DEF m
<1>3. Answers(<<m>>, s)
  BY <1>1, <1>2 DEF Answers
<1> QED
  BY <1>0, <1>3 DEF m

\* The next datagram of a dump of request d.seq.
LEMMA BatchesAnswer ==
  ASSUME NEW d \in Dumps, NEW b \in Batches(d)
  PROVE  Answers(b.datagram, d.seq) /\ b.dump.seq \in {0, d.seq}
<1>1. CASE b.dump = NoDump
           /\ b.datagram = <<Msg("DONE", d.seq, TRUE, NoItem)>>
  <2>1. b.dump.seq = 0
    BY <1>1 DEF NoDump
  <2>2. Answers(<<Msg("DONE", d.seq, TRUE, NoItem)>>, d.seq)
    BY MsgAnswers DEF Dumps, Types
  <2> QED
    BY <1>1, <2>1, <2>2
<1>2. CASE /\ b.dump.seq = d.seq
           /\ \A i \in 1..Len(b.datagram) :
                \E item \in Items :
                  b.datagram[i] = Msg("DATA", d.seq, TRUE, item)
  <2>1. \A i \in 1..Len(b.datagram) :
          b.datagram[i].seq = d.seq /\ b.datagram[i].item \in Items
    <3> SUFFICES ASSUME NEW i \in 1..Len(b.datagram)
                 PROVE  b.datagram[i].seq = d.seq /\ b.datagram[i].item \in Items
      OBVIOUS
    <3>1. PICK item \in Items : b.datagram[i] = Msg("DATA", d.seq, TRUE, item)
      BY <1>2
    <3> QED
      BY <3>1 DEF Msg
  <2> QED
    BY <1>2, <2>1, BatchesAreDatagrams DEF Answers
<1> QED
  BY <1>1, <1>2, BatchesAreDatagrams

LEMMA AnswerToAnswers ==
  ASSUME NEW s \in Nat, NEW items \in Seq(Items)
  PROVE  \A i \in 1..Len(AnswerTo(s, items)) : Answers(AnswerTo(s, items)[i], s)
<1>0. Len(items) \in Nat
  OBVIOUS
<1> SUFFICES ASSUME NEW i \in 1..Len(items) + 1
             PROVE  Answers(AnswerTo(s, items)[i], s)
  BY AnswerToElements
<1>1. CASE i = Len(items) + 1
  <2>1. AnswerTo(s, items)[i] = <<Msg("ACK", s, FALSE, NoItem)>>
    BY <1>1, AnswerToElements
  <2> QED
    BY <2>1, MsgAnswers DEF Types
<1>2. CASE i \in 1..Len(items)
  <2>1. AnswerTo(s, items)[i] = <<Msg("DATA", s, FALSE, items[i])>>
    BY <1>2, AnswerToElements
  <2>2. items[i] \in Items
    BY <1>2, ElementOfSeq
  <2> QED
    BY <2>1, <2>2, MsgAnswers DEF Types
<1> QED
  BY <1>0, <1>1, <1>2

\* Whatever the kernel decides, it sends datagrams that answer the request
\* being made, and runs no dump but that request's.
Decided ==
  /\ \E ds \in Seq(Datagrams) :
       /\ Enqueue(ds)
       /\ \A i \in 1..Len(ds) : Answers(ds[i], seqNext)
  /\ dump' \in Dumps
  /\ dump' = dump \/ dump'.seq \in {0, seqNext}
  /\ truth' \in [outcome : {"ok", "fail"}, items : Seq(Items)]

LEMMA DecideAnswers ==
  ASSUME SockTypeOK, NEW kind, Decide(kind)
  PROVE  Decided
<1>0. seqNext \in Nat /\ dump \in Dumps
  BY DEF SockTypeOK, Dumps
<1>5. <<>> \in Seq(Items)
  OBVIOUS
<1>1. CASE /\ Refuse(seqNext)
           /\ truth' = [outcome |-> "fail", items |-> <<>>]
  <2> DEFINE d == <<Msg("ERR", seqNext, FALSE, NoItem)>>
  <2>1. d \in Datagrams /\ Answers(d, seqNext)
    BY <1>0, MsgAnswers DEF Types
  <2>2. Enqueue(<<d>>) /\ dump' = dump
    BY <1>1 DEF Refuse
  <2> HIDE DEF d
  <2>3. <<d>> \in Seq(Datagrams) /\ Len(<<d>>) = 1 /\ <<d>>[1] = d
    BY <2>1, SingletonSeq
  <2> QED
    <3>1. \A i \in 1..Len(<<d>>) : Answers(<<d>>[i], seqNext)
      BY <2>1, <2>3
    <3>2. dump' \in Dumps
      BY <1>0, <2>2
    <3>3. truth' \in [outcome : {"ok", "fail"}, items : Seq(Items)]
      BY <1>1, <1>5
    <3> QED
      BY <2>2, <2>3, <3>1, <3>2, <3>3 DEF Decided
<1>2. ASSUME NEW items \in Seq(Items), Answer(seqNext, items),
             truth' = [outcome |-> "ok", items |-> items]
      PROVE  Decided
  <2>1. Enqueue(AnswerTo(seqNext, items)) /\ dump' = dump
    BY <1>2 DEF Answer, AnswerTo
  <2> QED
    BY <1>0, <1>2, <2>1, AnswerIsDatagrams, AnswerToAnswers DEF Decided
<1>3. ASSUME NEW items \in Replies, StartDump(seqNext, items),
             truth' = [outcome |-> "ok", items |-> items]
      PROVE  Decided
  <2>0. items \in Seq(Items)
    BY RepliesAssumption
  <2> DEFINE d == [seq |-> seqNext, rest |-> items]
  <2>1. d \in Dumps /\ d.seq = seqNext
    BY <1>0, <2>0 DEF Dumps
  <2>2. PICK b \in Batches(d) : Enqueue(<<b.datagram>>) /\ dump' = b.dump
    BY <1>3 DEF StartDump
  <2> HIDE DEF d
  <2>3. b.datagram \in Datagrams /\ b.dump \in Dumps
        /\ Answers(b.datagram, seqNext) /\ b.dump.seq \in {0, seqNext}
    BY <2>1, BatchesAreDatagrams, BatchesAnswer
  <2>4. /\ <<b.datagram>> \in Seq(Datagrams)
        /\ Len(<<b.datagram>>) = 1 /\ <<b.datagram>>[1] = b.datagram
    BY <2>3, SingletonSeq
  <2> QED
    <3>1. \A i \in 1..Len(<<b.datagram>>) : Answers(<<b.datagram>>[i], seqNext)
      BY <2>3, <2>4
    <3>2. truth' \in [outcome : {"ok", "fail"}, items : Seq(Items)]
      BY <1>3, <2>0
    <3> QED
      BY <2>2, <2>3, <2>4, <3>1, <3>2 DEF Decided
<1>4. ASSUME NEW item \in Items
      PROVE  <<item>> \in Seq(Items)
  OBVIOUS
<1> QED
  BY <1>1, <1>2, <1>3, <1>4, <1>5 DEF Decide

\* The messages in the socket stay sound when the next number is taken.
LEMMA SoundOnTakeSeq ==
  ASSUME SeqInv, NEW ds \in Seq(Datagrams), Enqueue(ds),
         \A i \in 1..Len(ds) : Answers(ds[i], seqNext)
  PROVE  \A i \in 1..Len(queue') : SoundDatagram(queue'[i], seqNext + 1)
<1>0. SockTypeOK /\ seqNext \in Nat /\ queue \in Seq(Datagrams)
  BY DEF SeqInv, TypeOK, SockTypeOK
<1>1. \A i \in 1..Len(queue) : SoundDatagram(queue[i], seqNext + 1)
  BY <1>0, SoundLater, ElementOfSeq DEF SeqInv
<1>2. seqNext < seqNext + 1
  BY <1>0
<1>3. \A i \in 1..Len(ds) : SoundDatagram(ds[i], seqNext + 1)
  BY <1>2, AnswersSound
<1> QED
  BY <1>0, <1>1, <1>3, EnqueueKeepsType

LEMMA AskKeepsSeqInv ==
  ASSUME SeqInv, NEW c \in Callers, Ask(c)
  PROVE  SeqInv'
<1>0. TypeOK /\ SockTypeOK /\ seqNext \in Nat \ {0} /\ dump \in Dumps
      /\ seqExpect \in Nat \ {0} /\ seqExpect <= seqNext /\ dump.seq < seqNext
      /\ dump.seq \in Nat
  BY DEF SeqInv, TypeOK, SockTypeOK, Dumps
<1>1. Decided
  BY <1>0, DecideAnswers DEF Ask
<1>2. PICK ds \in Seq(Datagrams) :
        Enqueue(ds) /\ \A i \in 1..Len(ds) : Answers(ds[i], seqNext)
  BY <1>1 DEF Decided
<1>3. seqNext' = seqNext + 1 /\ seqExpect' = seqExpect
      /\ rx' = Called /\ pc' = "waiting" /\ caller' = c /\ answer' = "none"
      /\ got' = <<>> /\ lost' = lost
  BY DEF Ask, TakeSeq
<1>4. queue' \in Seq(Datagrams) /\ overrun' \in BOOLEAN
  BY <1>0, <1>2, EnqueueKeepsType
<1>5. Called \in RxStates /\ Called.buf = <<>>
  BY DEF Called, RxStates, Datagrams
<1>6. TypeOK'
  <2>1. SockTypeOK'
    BY <1>0, <1>1, <1>3, <1>4, <1>5 DEF SockTypeOK, Decided, Dumps
  <2>2. truth' \in [outcome : {"ok", "fail"}, items : Seq(Items)]
    BY <1>1 DEF Decided
  <2>3. <<>> \in Seq(Items)
    OBVIOUS
  <2> QED
    BY <1>0, <1>3, <2>1, <2>2, <2>3 DEF TypeOK
<1>7. \A i \in 1..Len(queue') : SoundDatagram(queue'[i], seqNext')
  BY <1>2, <1>3, SoundOnTakeSeq
<1>8. dump'.seq < seqNext'
  BY <1>0, <1>1, <1>3 DEF Decided
<1>9. \A i \in 1..Len(rx'.buf) : Sound(rx'.buf[i], seqNext')
  BY <1>3, <1>5
<1> QED
  BY <1>0, <1>3, <1>6, <1>7, <1>8, <1>9 DEF SeqInv

LEMMA AskFailsKeepsSeqInv ==
  ASSUME SeqInv, NEW c \in Callers, AskFails(c)
  PROVE  SeqInv'
<1>0. TypeOK /\ SockTypeOK /\ seqNext \in Nat \ {0} /\ dump \in Dumps
      /\ seqExpect \in Nat \ {0} /\ seqExpect <= seqNext /\ dump.seq < seqNext
      /\ dump.seq \in Nat /\ queue \in Seq(Datagrams) /\ rx \in RxStates
  BY DEF SeqInv, TypeOK, SockTypeOK, Dumps
<1>1. seqNext' = seqNext + 1 /\ UNCHANGED <<seqExpect, queue, overrun, dump, rx>>
      /\ caller' = c /\ answer' = "fail" /\ got' = <<>> /\ lost' = TRUE
      /\ UNCHANGED <<pc, truth>>
  BY DEF AskFails, SendFailed, TakeSeq
<1>2. TypeOK'
  <2>1. SockTypeOK'
    BY <1>0, <1>1 DEF SockTypeOK
  <2>2. <<>> \in Seq(Items)
    OBVIOUS
  <2> QED
    BY <1>0, <1>1, <2>1, <2>2 DEF TypeOK
<1>3. \A i \in 1..Len(queue) : SoundDatagram(queue[i], seqNext + 1)
  BY <1>0, SoundLater, ElementOfSeq DEF SeqInv
<1>4. \A i \in 1..Len(rx.buf) : Sound(rx.buf[i], seqNext + 1)
  <2>1. rx.buf \in Seq(Messages)
    BY <1>0 DEF RxStates, Datagrams
  <2>2. \A i \in 1..Len(rx.buf) : rx.buf[i].seq \in Nat
    <3>1. \A i \in 1..Len(rx.buf) : rx.buf[i] \in Messages
      BY <2>1, ElementOfSeq
    <3> QED
      BY <3>1 DEF Messages
  <2> QED
    BY <1>0, <2>2 DEF SeqInv, Sound
<1> QED
  BY <1>0, <1>1, <1>2, <1>3, <1>4 DEF SeqInv

LEMMA ReadingKeepsSeqInv ==
  ASSUME SeqInv, Reading
  PROVE  SeqInv'
<1>0. TypeOK /\ SockTypeOK /\ seqNext \in Nat \ {0} /\ dump \in Dumps
      /\ dump.seq < seqNext /\ queue \in Seq(Datagrams) /\ rx \in RxStates
      /\ dump.seq \in Nat
  BY DEF SeqInv, TypeOK, SockTypeOK, Dumps
<1>1. TypeOK'
  <2>1. SockTypeOK'
    BY <1>0, ReadKeepsType, OthersKeepType DEF Reading
  <2> QED
    BY <1>0, <2>1 DEF Reading, TypeOK
<1>2. CASE Read
  <2>1. rx' = [rx EXCEPT !.at = "parse", !.buf = Head(queue)]
        /\ queue # <<>> /\ seqNext' = seqNext /\ seqExpect' = seqExpect
    BY <1>2 DEF Read
  <2>2. rx'.buf = Head(queue) /\ Head(queue) = queue[1] /\ 1 \in 1..Len(queue)
    BY <1>0, <2>1, HeadTailProperties DEF RxStates
  <2>3. \A i \in 1..Len(rx'.buf) : Sound(rx'.buf[i], seqNext)
    BY <2>2 DEF SeqInv, SoundDatagram
  <2>4. /\ Tail(queue) \in Seq(Datagrams) /\ Len(Tail(queue)) = Len(queue) - 1
        /\ \A i \in 1..Len(Tail(queue)) : Tail(queue)[i] = queue[i + 1]
    BY <1>0, <2>1, HeadTailProperties
  <2>5. \A i \in 1..Len(Tail(queue)) : SoundDatagram(Tail(queue)[i], seqNext)
    BY <1>0, <2>4 DEF SeqInv
  <2>6. /\ \A i \in 1..Len(queue') : SoundDatagram(queue'[i], seqNext)
        /\ dump'.seq < seqNext
    <3>1. CASE queue' = Tail(queue) /\ dump' = dump
      BY <1>0, <2>5, <3>1
    <3>2. CASE \E b \in Batches(dump) :
                 queue' = Append(Tail(queue), b.datagram) /\ dump' = b.dump
      <4>1. PICK b \in Batches(dump) :
              queue' = Append(Tail(queue), b.datagram) /\ dump' = b.dump
        BY <3>2
      <4>2. SoundDatagram(b.datagram, seqNext) /\ b.dump.seq < seqNext
            /\ b.datagram \in Datagrams
        <5>1. Answers(b.datagram, dump.seq) /\ b.dump.seq \in {0, dump.seq}
              /\ b.datagram \in Datagrams
          BY <1>0, BatchesAnswer, BatchesAreDatagrams
        <5>2. SoundDatagram(b.datagram, seqNext)
          BY <1>0, <5>1, AnswersSound
        <5> QED
          BY <1>0, <5>1, <5>2
      <4>3. /\ Len(Append(Tail(queue), b.datagram)) = Len(Tail(queue)) + 1
            /\ \A i \in 1..Len(Tail(queue)) :
                 Append(Tail(queue), b.datagram)[i] = Tail(queue)[i]
            /\ Append(Tail(queue), b.datagram)[Len(Tail(queue)) + 1] = b.datagram
        BY <2>4, <4>2, AppendProperties
      <4>4. Len(Tail(queue)) \in Nat
        BY <2>4
      <4>5. ASSUME NEW i \in 1..Len(Tail(queue)) + 1
            PROVE  i \in 1..Len(Tail(queue)) \/ i = Len(Tail(queue)) + 1
        BY <4>4
      <4> QED
        BY <2>5, <4>1, <4>2, <4>3, <4>5
    <3> QED
      BY <1>2, <3>1, <3>2 DEF Read
  <2> QED
    BY <1>1, <2>1, <2>3, <2>6 DEF SeqInv
<1>3. CASE ReadOverrun
  <2>1. rx'.buf = <<>> /\ UNCHANGED <<seqNext, seqExpect, queue, dump>>
    BY <1>3 DEF ReadOverrun, Returned, NotCalled, Called
  <2> QED
    BY <1>1, <2>1 DEF SeqInv
<1>4. CASE EndOfDatagram
  <2>1. rx'.buf = <<>> /\ UNCHANGED <<seqNext, seqExpect, queue, dump>>
    BY <1>0, <1>4 DEF EndOfDatagram, Returned, NotCalled, Called, RxStates
  <2> QED
    BY <1>1, <2>1 DEF SeqInv
<1> QED
  BY <1>2, <1>3, <1>4 DEF Reading

\* s_seq_expect moves on only past an answer to the request it stands for.
LEMMA ParseExpect ==
  ASSUME SockTypeOK, NEW c \in Callers, Parse(CbOf[c])
  PROVE  \/ seqExpect' = seqExpect
         \/ seqExpect' = seqExpect + 1 /\ Head(rx.buf).seq = seqExpect
  BY ScreenedBySeq DEF Parse, ExpectAfter

LEMMA ParsingKeepsSeqInv ==
  ASSUME SeqInv, Parsing
  PROVE  SeqInv'
<1> DEFINE m == Head(rx.buf)
<1>0. /\ TypeOK /\ SockTypeOK /\ seqNext \in Nat /\ seqExpect \in Nat
      /\ caller \in Callers /\ rx.buf # <<>> /\ Parse(CbOf[caller])
      /\ UNCHANGED <<seqNext, queue, dump>>
  BY DEF SeqInv, TypeOK, SockTypeOK, Parsing, Parse
<1>1. m \in Messages /\ Sound(m, seqNext)
  BY <1>0, HeadOfBuf DEF SeqInv
<1>2. seqExpect' <= seqNext'
  <2>1. CASE seqExpect' = seqExpect
    BY <1>0, <2>1 DEF SeqInv
  <2>2. CASE seqExpect' = seqExpect + 1 /\ m.seq = seqExpect
    BY <1>0, <1>1, <2>2 DEF Sound
  <2> QED
    BY <1>0, <2>1, <2>2, ParseExpect
<1>3. \A i \in 1..Len(rx'.buf) : Sound(rx'.buf[i], seqNext')
  <2>1. CASE rx'.buf = <<>>
    BY <2>1
  <2>2. CASE rx'.buf = Tail(rx.buf)
    BY <1>0, <2>2, HeadOfBuf DEF SeqInv
  <2> QED
    BY <1>0, <2>1, <2>2, ParseBuf
<1>4. got' \in Seq(Items)
  <2>1. CASE Handles(CbOf[caller], "VALID")
    <3>1. m.type = "DATA"
      BY <1>1, <2>1 DEF Handles, SlotOf, Messages, Types
    <3>2. m.item \in Items /\ got' = Append(got, m.item) /\ got \in Seq(Items)
      BY <1>0, <1>1, <2>1, <3>1 DEF Sound, Parsing, TypeOK
    <3> QED
      BY <3>2, AppendProperties
  <2>2. CASE ~Handles(CbOf[caller], "VALID")
    BY <1>0, <2>2 DEF Parsing, TypeOK
  <2> QED
    BY <2>1, <2>2
<1>5. answer' \in {"none", "ok", "fail"}
  BY <1>0 DEF Parsing, TypeOK
<1>6. SockTypeOK'
  BY <1>0, ParseKeepsType
<1>7. TypeOK'
  BY <1>0, <1>4, <1>5, <1>6 DEF TypeOK, Parsing
<1> QED
  BY <1>0, <1>2, <1>3, <1>7 DEF SeqInv

LEMMA AgainKeepsSeqInv ==
  ASSUME SeqInv, Again
  PROVE  SeqInv'
<1>1. SockTypeOK'
  BY OthersKeepType DEF SeqInv, TypeOK, Again
<1>2. rx'.buf = <<>> /\ UNCHANGED <<seqNext, seqExpect, queue, dump>>
  BY DEF Again, Call, Called
<1> QED
  BY <1>1, <1>2 DEF SeqInv, TypeOK, Again

LEMMA DoneKeepsSeqInv ==
  ASSUME SeqInv, Done
  PROVE  SeqInv'
<1>1. NotCalled \in RxStates /\ NotCalled.buf = <<>>
  <2>1. <<>> \in Datagrams
    BY DEF Datagrams
  <2> QED
    BY <2>1 DEF NotCalled, Called, RxStates
<1>2. rx' = NotCalled /\ UNCHANGED <<seqNext, seqExpect, queue, overrun, dump,
                                     caller, got, truth, lost>>
      /\ pc' = "idle" /\ answer' \in {answer, rx.ret}
  BY DEF Done
<1>3. TypeOK'
  BY <1>1, <1>2 DEF SeqInv, TypeOK, SockTypeOK, RxStates
<1> QED
  BY <1>1, <1>2, <1>3 DEF SeqInv

LEMMA InitSeqInv == Init => SeqInv
<1> SUFFICES ASSUME Init PROVE SeqInv
  OBVIOUS
<1>1. <<>> \in Datagrams /\ <<>> \in Seq(Datagrams) /\ <<>> \in Seq(Items)
  BY DEF Datagrams
<1>2. NotCalled \in RxStates /\ NotCalled.buf = <<>>
  BY <1>1 DEF NotCalled, Called, RxStates
<1>3. NoDump \in Dumps /\ NoDump.seq = 0
  BY NoDumpIsDump DEF NoDump
<1>4. SockTypeOK
  <2>1. seqNext = 1 /\ seqExpect = 1 /\ queue = <<>> /\ overrun = FALSE
        /\ dump = NoDump /\ rx = NotCalled
    BY DEF Init, SockInit
  <2>2. dump \in [seq : Nat, rest : Seq(Items)]
    BY <1>3, <2>1 DEF Dumps
  <2>3. queue \in Seq(Datagrams) /\ rx \in RxStates
    BY <1>1, <1>2, <2>1
  <2>4. seqNext \in Nat \ {0} /\ seqExpect \in Nat \ {0}
    BY <2>1
  <2>5. overrun \in BOOLEAN
    BY <2>1
  <2> QED
    BY <2>2, <2>3, <2>4, <2>5 DEF SockTypeOK
<1>5. TypeOK
  BY <1>1, <1>4 DEF Init, TypeOK
<1> QED
  BY <1>2, <1>3, <1>5 DEF Init, SockInit, SeqInv

LEMMA NextKeepsSeqInv == SeqInv /\ [Next]_vars => SeqInv'
<1> SUFFICES ASSUME SeqInv, [Next]_vars PROVE SeqInv'
  OBVIOUS
<1>1. ASSUME NEW c \in Callers, Ask(c) PROVE SeqInv'
  BY <1>1, AskKeepsSeqInv
<1>2. ASSUME NEW c \in Callers, AskFails(c) PROVE SeqInv'
  BY <1>2, AskFailsKeepsSeqInv
<1>3. CASE Reading
  BY <1>3, ReadingKeepsSeqInv
<1>4. CASE Parsing
  BY <1>4, ParsingKeepsSeqInv
<1>5. CASE Again
  BY <1>5, AgainKeepsSeqInv
<1>6. CASE Done
  BY <1>6, DoneKeepsSeqInv
<1>7. CASE UNCHANGED vars
  BY <1>7 DEF vars, sockVars, SeqInv, TypeOK, SockTypeOK
<1> QED
  BY <1>1, <1>2, <1>3, <1>4, <1>5, <1>6, <1>7 DEF Next, Receive

\* Every variable keeps its type, whatever is asked, answered, dropped or
\* refused.
THEOREM TypeCorrect == Spec => []TypeOK
<1>1. SeqInv => TypeOK
  BY DEF SeqInv
<1> QED
  BY <1>1, InitSeqInv, NextKeepsSeqInv, PTL DEF Spec

\* s_seq_expect never runs ahead of s_seq_next (nl.c).
THEOREM ExpectNeverAhead == Spec => []NeverAhead
<1>1. SeqInv => NeverAhead
  BY DEF SeqInv, NeverAhead
<1> QED
  BY <1>1, InitSeqInv, NextKeepsSeqInv, PTL DEF Spec

-----------------------------------------------------------------------------
(* A request leaves nothing behind in the socket, and a failed send makes  *)
(* it deaf: the inductive invariant AnswerInv.                             *)

\* What the requests of the repository have in common: the receive buffer
\* holds an item and an acknowledgement, and nobody who calls nl_recvmsgs()
\* only once asks for an item that comes in a datagram of its own.
Fits ==
  /\ QueueLimit >= 2
  /\ \A c \in Callers \ Loops : "get" \notin Kinds[c]

\* An item of the answer is taken and the loop goes on.
LEMMA DataGoesOn ==
  ASSUME NEW c \in Callers, NEW m \in Messages, NEW expect, NEW multi \in BOOLEAN,
         m.type = "DATA", m.seq = expect, ~m.ack
  PROVE  /\ Verdict(CbOf[c], expect, m) \notin {"FAIL", "STOP"}
         /\ ExpectAfter(CbOf[c], expect, m) = expect
         /\ MultiAfter(CbOf[c], expect, multi, m) = (multi \/ m.multi)
         /\ SlotOf[m.type] = "VALID"
<1>1. Screened(CbOf[c], expect, m) = "OK"
  BY ScreenedBySeq
<1>2. Acknowledged(CbOf[c], m) = "OK"
  BY DEF Acknowledged
<1>3. SlotOf[m.type] = "VALID" /\ CodeOf[m.type] = "OK"
  BY DEF SlotOf, CodeOf
<1>4. Dispatched(CbOf[c], m) \in {"OK", "SKIP"}
  BY <1>3, CallbacksOfCallers DEF Dispatched, CallOr
<1>5. Verdict(CbOf[c], expect, m) \notin {"FAIL", "STOP"}
  BY <1>1, <1>2, <1>4 DEF Verdict, Then
<1>6. ExpectAfter(CbOf[c], expect, m) = expect
  BY DEF ExpectAfter, Terminators
<1>7. MultiAfter(CbOf[c], expect, multi, m) = (multi \/ m.multi)
  BY <1>1 DEF MultiAfter
<1> QED
  BY <1>3, <1>5, <1>6, <1>7

\* The message that ends the answer moves s_seq_expect on, whatever the
\* handlers say.
LEMMA FinalMovesOn ==
  ASSUME NEW c \in Callers, NEW m, NEW expect,
         m.type \in {"DONE", "ACK", "ERR"}, m.seq = expect
  PROVE  ExpectAfter(CbOf[c], expect, m) = expect + 1
  BY ScreenedBySeq DEF ExpectAfter, Terminators, Types

\* A message with another number is dropped, and no handler sees it.
LEMMA OutOfStepFails ==
  ASSUME NEW c \in Callers, NEW m, NEW expect, m.seq # expect
  PROVE  /\ Verdict(CbOf[c], expect, m) = "FAIL"
         /\ ExpectAfter(CbOf[c], expect, m) = expect
         /\ ~Runs(CbOf[c], expect, m)
<1>1. Screened(CbOf[c], expect, m) = "FAIL"
  BY ScreenedBySeq
<1> QED
  BY <1>1 DEF Verdict, Then, ExpectAfter, Runs

\* The next datagram of a dump is plain, or the final one.
LEMMA BatchShape ==
  ASSUME NEW c, NEW d \in Dumps, NEW b \in Batches(d)
  PROVE  \/ b.dump = NoDump /\ Final(b.datagram, d.seq)
         \/ b.dump.seq = d.seq /\ Plain(c, b.datagram, d.seq)
<1>1. CASE b.dump = NoDump
           /\ b.datagram = <<Msg("DONE", d.seq, TRUE, NoItem)>>
  BY <1>1 DEF Final, Msg
<1>2. CASE /\ b.dump.seq = d.seq
           /\ \A i \in 1..Len(b.datagram) :
                \E item \in Items :
                  b.datagram[i] = Msg("DATA", d.seq, TRUE, item)
  <2>1. \A i \in 1..Len(b.datagram) :
          /\ b.datagram[i].type = "DATA" /\ b.datagram[i].seq = d.seq
          /\ b.datagram[i].ack = FALSE /\ b.datagram[i].multi = TRUE
    <3> SUFFICES ASSUME NEW i \in 1..Len(b.datagram)
                 PROVE  /\ b.datagram[i].type = "DATA"
                        /\ b.datagram[i].seq = d.seq
                        /\ b.datagram[i].ack = FALSE
                        /\ b.datagram[i].multi = TRUE
      OBVIOUS
    <3>1. PICK item \in Items : b.datagram[i] = Msg("DATA", d.seq, TRUE, item)
      BY <1>2
    <3> QED
      BY <3>1 DEF Msg
  <2> QED
    BY <1>2, <2>1 DEF Plain
<1> QED
  BY <1>1, <1>2, BatchesAreDatagrams

-----------------------------------------------------------------------------
(* While every send succeeds.                                              *)

\* The kernel's decision puts the whole answer into an empty socket.
Comes(c) ==
  /\ overrun' = overrun
  /\ \/ dump'.seq = seqNext /\ Len(queue') = 1 /\ Plain(c, queue'[1], seqNext)
     \/ dump' = NoDump /\ Len(queue') = 1 /\ Final(queue'[1], seqNext)
     \/ /\ dump' = NoDump /\ Len(queue') = 2
        /\ Plain(c, queue'[1], seqNext) /\ Final(queue'[2], seqNext)

LEMMA EnqueueOne ==
  ASSUME SockTypeOK, queue = <<>>, NEW d \in Datagrams, Enqueue(<<d>>)
  PROVE  overrun' = overrun /\ Len(queue') = 1 /\ queue'[1] = d
<1> DEFINE ds == <<d>>
<1>1. ds \in Seq(Datagrams) /\ Len(ds) = 1 /\ ds[1] = d
  BY SingletonSeq
<1>2. Enqueue(ds)
  OBVIOUS
<1> HIDE DEF ds
<1>3. Len(ds) <= QueueLimit
  BY <1>1, QueueLimitAssumption
<1>4. queue' = ds /\ overrun' = overrun
  BY <1>1, <1>2, <1>3, EnqueueFits
<1> QED
  BY <1>1, <1>4

\* The answer that has one item: two datagrams.
LEMMA AnswerToOne ==
  ASSUME NEW s \in Nat, NEW items \in Seq(Items), Len(items) = 1
  PROVE  /\ Len(AnswerTo(s, items)) = 2
         /\ AnswerTo(s, items)[1] = <<Msg("DATA", s, FALSE, items[1])>>
         /\ AnswerTo(s, items)[2] = <<Msg("ACK", s, FALSE, NoItem)>>
<1>1. 1 \in 1..Len(items) /\ Len(items) + 1 = 2
  OBVIOUS
<1>2. AnswerTo(s, items)[1] = <<Msg("DATA", s, FALSE, items[1])>>
  BY <1>1, AnswerToElements
<1>3. AnswerTo(s, items)[Len(items) + 1] = <<Msg("ACK", s, FALSE, NoItem)>>
  BY AnswerToElements
<1>4. Len(AnswerTo(s, items)) = Len(items) + 1
  BY AnswerToElements
<1> QED
  BY <1>1, <1>2, <1>3, <1>4

LEMMA AnswerToNone ==
  ASSUME NEW s \in Nat, NEW items \in Seq(Items), Len(items) = 0
  PROVE  /\ Len(AnswerTo(s, items)) = 1
         /\ AnswerTo(s, items)[1] = <<Msg("ACK", s, FALSE, NoItem)>>
<1>1. Len(items) + 1 = 1
  OBVIOUS
<1>2. /\ AnswerTo(s, items)[Len(items) + 1] = <<Msg("ACK", s, FALSE, NoItem)>>
      /\ Len(AnswerTo(s, items)) = Len(items) + 1
  BY AnswerToElements
<1> QED
  BY <1>1, <1>2

LEMMA DecideComes ==
  ASSUME Fits, SockTypeOK, queue = <<>>, dump = NoDump,
         NEW c \in Callers, NEW kind \in Kinds[c], Decide(kind)
  PROVE  Comes(c)
<1>0. seqNext \in Nat /\ QueueLimit \in Nat /\ QueueLimit >= 2
  BY QueueLimitAssumption DEF SockTypeOK, Fits
<1>1. ASSUME NEW m \in Messages, m.type \in {"DONE", "ACK", "ERR"},
             m.seq = seqNext, ~m.ack
      PROVE  Final(<<m>>, seqNext)
  <2>1. Len(<<m>>) = 1 /\ <<m>>[1] = m
    BY SingletonSeq
  <2> QED
    BY <1>1, <2>1 DEF Final
<1>2. CASE Refuse(seqNext)
  <2> DEFINE m == Msg("ERR", seqNext, FALSE, NoItem)
  <2>1. m \in Messages
    BY <1>0, MsgIsMessage DEF Types
  <2>2. m.type = "ERR" /\ m.seq = seqNext /\ ~m.ack
    BY DEF Msg
  <2>3. Enqueue(<< <<m>> >>) /\ dump' = dump
    BY <1>2 DEF Refuse
  <2> HIDE DEF m
  <2> DEFINE d == <<m>>
  <2>4. d \in Datagrams /\ Final(d, seqNext)
    BY <1>1, <2>1, <2>2, Singletons
  <2>5. Enqueue(<<d>>)
    BY <2>3
  <2> HIDE DEF d
  <2> QED
    BY <2>3, <2>4, <2>5, EnqueueOne DEF Comes
<1>3. ASSUME NEW items \in Seq(Items), Answer(seqNext, items),
             Len(items) = 0 \/ (Len(items) = 1 /\ c \in Loops)
      PROVE  Comes(c)
  <2>1. Enqueue(AnswerTo(seqNext, items)) /\ dump' = dump
    BY <1>3 DEF Answer, AnswerTo
  <2>2. AnswerTo(seqNext, items) \in Seq(Datagrams)
        /\ Len(AnswerTo(seqNext, items)) \in {1, 2}
    BY <1>0, <1>3, AnswerIsDatagrams, AnswerToNone, AnswerToOne
  <2>3. queue' = AnswerTo(seqNext, items) /\ overrun' = overrun
    <3> DEFINE ds == AnswerTo(seqNext, items)
    <3> HIDE DEF ds
    <3>1. ds \in Seq(Datagrams) /\ Enqueue(ds) /\ Len(ds) \in {1, 2}
      BY <2>1, <2>2 DEF ds
    <3>2. Len(ds) <= QueueLimit
      <4>1. Len(ds) = 1 \/ Len(ds) = 2
        BY <3>1
      <4>2. 1 <= QueueLimit /\ 2 <= QueueLimit
        BY <1>0
      <4> QED
        BY <4>1, <4>2
    <3> QED
      BY <3>1, <3>2, EnqueueFits DEF ds
  <2>4. Final(<<Msg("ACK", seqNext, FALSE, NoItem)>>, seqNext)
    <3> DEFINE m == Msg("ACK", seqNext, FALSE, NoItem)
    <3>1. m \in Messages
      BY <1>0, MsgIsMessage DEF Types
    <3>2. m.type = "ACK" /\ m.seq = seqNext /\ ~m.ack
      BY DEF Msg
    <3> HIDE DEF m
    <3>3. Final(<<m>>, seqNext)
      BY <1>1, <3>1, <3>2
    <3> QED
      BY <3>3 DEF m
  <2>5. CASE Len(items) = 0
    <3>1. /\ Len(AnswerTo(seqNext, items)) = 1
          /\ AnswerTo(seqNext, items)[1] = <<Msg("ACK", seqNext, FALSE, NoItem)>>
      BY <1>0, <2>5, AnswerToNone
    <3>2. Len(queue') = 1 /\ Final(queue'[1], seqNext)
      BY <2>3, <2>4, <3>1
    <3> QED
      BY <2>1, <2>3, <3>2 DEF Comes
  <2>6. CASE Len(items) = 1
    <3> DEFINE m == Msg("DATA", seqNext, FALSE, items[1])
    <3>1. /\ Len(AnswerTo(seqNext, items)) = 2
          /\ AnswerTo(seqNext, items)[1] = <<m>>
          /\ AnswerTo(seqNext, items)[2] = <<Msg("ACK", seqNext, FALSE, NoItem)>>
      BY <1>0, <2>6, AnswerToOne
    <3>2. m.type = "DATA" /\ m.seq = seqNext /\ ~m.ack
      BY DEF Msg
    <3> HIDE DEF m
    <3>3. Len(<<m>>) = 1 /\ <<m>>[1] = m
      OBVIOUS
    <3>4. c \in Loops
      BY <1>3, <2>6
    <3>5. Plain(c, <<m>>, seqNext)
      BY <3>2, <3>3, <3>4 DEF Plain
    <3>6. /\ Len(queue') = 2 /\ Plain(c, queue'[1], seqNext)
          /\ Final(queue'[2], seqNext)
      BY <2>3, <2>4, <3>1, <3>5
    <3> QED
      BY <2>1, <2>3, <3>6 DEF Comes
  <2> QED
    BY <1>3, <2>5, <2>6
<1>4. ASSUME NEW items \in Replies, StartDump(seqNext, items)
      PROVE  Comes(c)
  <2> DEFINE d == [seq |-> seqNext, rest |-> items]
  <2>1. d \in Dumps /\ d.seq = seqNext
    BY <1>0, RepliesAssumption DEF Dumps
  <2>2. PICK b \in Batches(d) : Enqueue(<<b.datagram>>) /\ dump' = b.dump
    BY <1>4 DEF StartDump
  <2> HIDE DEF d
  <2>3. b.datagram \in Datagrams
        /\ \/ b.dump = NoDump /\ Final(b.datagram, seqNext)
           \/ b.dump.seq = seqNext /\ Plain(c, b.datagram, seqNext)
    BY <2>1, BatchesAreDatagrams, BatchShape
  <2>4. overrun' = overrun /\ Len(queue') = 1 /\ queue'[1] = b.datagram
    BY <2>2, <2>3, EnqueueOne
  <2> QED
    BY <2>2, <2>3, <2>4 DEF Comes
<1>5. kind = "get" => c \in Loops
  BY DEF Fits
<1>6. ASSUME kind = "get", NEW item \in Items, Answer(seqNext, <<item>>)
      PROVE  Comes(c)
  <2> DEFINE items == <<item>>
  <2>1. items \in Seq(Items) /\ Len(items) = 1 /\ Answer(seqNext, items)
    BY <1>6, SingletonSeq
  <2> HIDE DEF items
  <2> QED
    BY <1>3, <1>5, <1>6, <2>1
<1>7. ASSUME Answer(seqNext, <<>>)
      PROVE  Comes(c)
  <2> DEFINE items == <<>>
  <2>1. items \in Seq(Items) /\ Len(items) = 0 /\ Answer(seqNext, items)
        /\ items = <<>>
    BY <1>7
  <2> HIDE DEF items
  <2> QED
    BY <1>3, <2>1
<1> QED
  BY <1>2, <1>4, <1>6, <1>7 DEF Decide

LEMMA AskKeepsAnswerInv ==
  ASSUME Fits, AnswerInv, NEW c \in Callers, Ask(c)
  PROVE  StepInv' /\ Deaf'
<1>0. /\ SeqInv /\ TypeOK /\ SockTypeOK /\ seqNext \in Nat \ {0}
      /\ seqExpect \in Nat \ {0} /\ dump \in Dumps /\ dump.seq \in Nat
      /\ queue \in Seq(Datagrams) /\ lost \in BOOLEAN
  BY DEF AnswerInv, SeqInv, TypeOK, SockTypeOK, Dumps
<1>1. /\ pc = "idle" /\ pc' = "waiting" /\ caller' = c /\ answer' = "none"
      /\ got' = <<>> /\ seqNext' = seqNext + 1 /\ rx' = Called
      /\ seqExpect' = seqExpect /\ lost' = lost
  BY DEF Ask, TakeSeq
<1>2. rx'.at = "read" /\ rx'.buf = <<>> /\ rx'.ret = "none" /\ Len(rx'.buf) = 0
  BY <1>1 DEF Called
<1>3. PICK kind \in Kinds[c] : Decide(kind)
  BY DEF Ask
<1>4. CASE ~lost
  <2>1. Settled /\ ~overrun
    BY <1>1, <1>4 DEF AnswerInv, StepInv, Outstanding
  <2>2. Comes(c)
    BY <1>0, <1>3, <2>1, DecideComes DEF Settled
  <2>3. seqNext' - 1 = seqNext /\ seqExpect' = seqNext
    BY <1>0, <1>1, <2>1 DEF Settled
  <2>4. Plain(c, rx'.buf, seqNext)
    BY <1>2 DEF Plain
  <2>5. Outstanding'
    BY <1>1, <1>2, <2>2, <2>3, <2>4 DEF Outstanding, Comes
  <2>6. ~overrun'
    BY <2>1, <2>2 DEF Comes
  <2> QED
    BY <1>1, <1>4, <2>5, <2>6 DEF StepInv, Deaf
<1>5. CASE lost
  <2>1. Decided
    BY <1>0, <1>3, DecideAnswers
  <2>2. PICK ds \in Seq(Datagrams) :
          Enqueue(ds) /\ \A i \in 1..Len(ds) : Answers(ds[i], seqNext)
    BY <2>1 DEF Decided
  <2>3. seqExpect < seqNext /\ seqExpect < seqNext'
    BY <1>0, <1>1, <1>5 DEF AnswerInv, Deaf
  <2>4. \A i \in 1..Len(queue') : \A j \in 1..Len(queue'[i]) :
          queue'[i][j].seq # seqExpect
    <3> SUFFICES ASSUME NEW i \in 1..Len(queue'), NEW j \in 1..Len(queue'[i])
                 PROVE  queue'[i][j].seq # seqExpect
      OBVIOUS
    <3>1. \/ \E k \in 1..Len(queue) : queue'[i] = queue[k]
          \/ \E k \in 1..Len(ds) : queue'[i] = ds[k]
      BY <1>0, <2>2, EnqueueKeepsType
    <3>2. CASE \E k \in 1..Len(queue) : queue'[i] = queue[k]
      BY <1>5, <3>2 DEF AnswerInv, Deaf
    <3>3. CASE \E k \in 1..Len(ds) : queue'[i] = ds[k]
      BY <1>0, <2>2, <2>3, <3>3 DEF Answers
    <3> QED
      BY <3>1, <3>2, <3>3
  <2>5. dump'.seq # seqExpect
    BY <1>0, <1>5, <2>1, <2>3 DEF Decided, AnswerInv, Deaf
  <2> QED
    BY <1>1, <1>2, <1>5, <2>3, <2>4, <2>5 DEF StepInv, Deaf
<1> QED
  BY <1>4, <1>5

LEMMA AskFailsKeepsAnswerInv ==
  ASSUME AnswerInv, NEW c \in Callers, AskFails(c)
  PROVE  StepInv' /\ Deaf'
<1>0. /\ seqNext \in Nat \ {0} /\ seqExpect \in Nat \ {0} /\ lost \in BOOLEAN
  BY DEF AnswerInv, SeqInv, TypeOK, SockTypeOK
<1>1. /\ pc = "idle" /\ answer' = "fail" /\ got' = <<>> /\ lost' = TRUE
      /\ seqNext' = seqNext + 1
      /\ UNCHANGED <<seqExpect, queue, overrun, dump, rx>>
  BY DEF AskFails, SendFailed, TakeSeq
<1>2. CASE ~lost
  <2>1. Settled /\ rx = NotCalled
    BY <1>1, <1>2 DEF AnswerInv, StepInv, Outstanding
  <2>2. rx.at = "out" /\ rx.ret = "none" /\ dump.seq = 0 /\ Len(queue) = 0
        /\ Len(rx.buf) = 0
    BY <2>1 DEF Settled, NotCalled, Called, NoDump
  <2> QED
    BY <1>0, <1>1, <2>1, <2>2 DEF StepInv, Deaf, Settled
<1>3. CASE lost
  BY <1>0, <1>1, <1>3 DEF AnswerInv, StepInv, Deaf
<1> QED
  BY <1>2, <1>3

LEMMA ReadKeepsOutstanding ==
  ASSUME SeqInv, Outstanding, Read, UNCHANGED <<pc, caller, answer>>
  PROVE  Outstanding'
<1> DEFINE s == seqNext - 1
<1>0. /\ SockTypeOK /\ seqNext \in Nat \ {0} /\ seqExpect \in Nat \ {0}
      /\ dump \in Dumps /\ QueueLimit \in Nat \ {0}
  BY QueueLimitAssumption DEF SeqInv, TypeOK, SockTypeOK, Dumps
<1>1. UNCHANGED <<seqNext, seqExpect>> /\ rx.at = "read"
  BY DEF Read
<1>2. s # 0 /\ pc = "waiting" /\ seqExpect = s
  BY <1>0 DEF Outstanding
<1>3. rx'.at = "parse" /\ rx'.buf = queue[1] /\ rx'.buf # <<>>
  BY <1>0, ReadQueue DEF SeqInv, SoundDatagram
<1>4. IF caller' \in Loops THEN answer' = "none"
      ELSE /\ rx'.at # "out"
           /\ rx'.at = "parse" => rx'.multi \/ rx'.buf # <<>>
  BY <1>3 DEF Outstanding
<1> DEFINE Shape ==
             \/ /\ Plain(caller', rx'.buf, s)
                /\ \/ /\ dump'.seq = s /\ Len(queue') = 1
                      /\ Plain(caller', queue'[1], s)
                   \/ dump' = NoDump /\ Len(queue') = 1 /\ Final(queue'[1], s)
                   \/ /\ dump' = NoDump /\ Len(queue') = 2
                      /\ Plain(caller', queue'[1], s) /\ Final(queue'[2], s)
             \/ /\ Final(rx'.buf, s) /\ rx'.at = "parse"
                /\ dump' = NoDump /\ queue' = <<>>
<1>5. NoDump.seq = 0
  BY DEF NoDump
<1>6. CASE dump.seq = s /\ Len(queue) = 1 /\ Plain(caller, queue[1], s)
  <2>1. 2 * (Len(queue) - 1) <= QueueLimit /\ dump.seq # 0
    BY <1>0, <1>2, <1>6
  <2>2. PICK b \in Batches(dump) :
          dump' = b.dump /\ Len(queue') = 1 /\ queue'[1] = b.datagram
    BY <1>0, <1>6, <2>1, ReadQueue
  <2>3. \/ b.dump = NoDump /\ Final(b.datagram, s)
        \/ b.dump.seq = s /\ Plain(caller, b.datagram, s)
    BY <1>0, <1>6, BatchShape
  <2>4. Shape
    BY <1>3, <1>6, <2>2, <2>3
  <2> QED
    BY <1>1, <1>2, <1>4, <2>4 DEF Outstanding
<1>7. CASE dump = NoDump /\ Len(queue) = 1 /\ Final(queue[1], s)
  <2>1. dump' = NoDump /\ Len(queue') = 0
    BY <1>0, <1>5, <1>7, ReadQueue
  <2>2. queue' \in Seq(Datagrams)
    BY <1>0, ReadKeepsType DEF SockTypeOK
  <2>3. queue' = <<>>
    BY <2>1, <2>2, EmptySeq
  <2>4. Shape
    BY <1>3, <1>7, <2>1, <2>3
  <2> QED
    BY <1>1, <1>2, <1>4, <2>4 DEF Outstanding
<1>8. CASE /\ dump = NoDump /\ Len(queue) = 2
           /\ Plain(caller, queue[1], s) /\ Final(queue[2], s)
  <2>1. dump' = NoDump /\ Len(queue') = 1 /\ queue'[1] = queue[2]
    BY <1>0, <1>5, <1>8, ReadQueue
  <2>2. Shape
    BY <1>3, <1>8, <2>1
  <2> QED
    BY <1>1, <1>2, <1>4, <2>2 DEF Outstanding
<1> QED
  BY <1>1, <1>6, <1>7, <1>8 DEF Outstanding

LEMMA ReadKeepsDeaf ==
  ASSUME SeqInv, Deaf, lost, Read, UNCHANGED <<answer, got, lost>>
  PROVE  Deaf'
<1>0. SockTypeOK /\ dump \in Dumps
  BY DEF SeqInv, TypeOK, SockTypeOK, Dumps
<1>1. UNCHANGED <<seqNext, seqExpect>>
  BY DEF Read
<1>2. rx'.buf = queue[1] /\ 1 \in 1..Len(queue) /\ rx'.ret = rx.ret
  BY <1>0, ReadQueue
<1>3. rx'.buf # <<>> /\ \A i \in 1..Len(rx'.buf) : rx'.buf[i].seq # seqExpect
  BY <1>2 DEF SeqInv, SoundDatagram, Deaf
<1>4. Len(queue) \in Nat /\ seqExpect # 0
  BY <1>0 DEF SockTypeOK
<1> DEFINE Unheard == \A i \in 1..Len(queue') : \A j \in 1..Len(queue'[i]) :
                        queue'[i][j].seq # seqExpect
<1>5. dump'.seq # seqExpect /\ Unheard
  <2>1. CASE /\ dump' = dump /\ Len(queue') = Len(queue) - 1
             /\ \A i \in 1..Len(queue) - 1 : queue'[i] = queue[i + 1]
    <3>1. \A i \in 1..Len(queue) - 1 : i + 1 \in 1..Len(queue)
      BY <1>4
    <3> QED
      BY <2>1, <3>1 DEF Deaf
  <2>2. CASE \E b \in Batches(dump) :
               /\ dump' = b.dump /\ Len(queue') = Len(queue)
               /\ \A i \in 1..Len(queue) - 1 : queue'[i] = queue[i + 1]
               /\ queue'[Len(queue)] = b.datagram
    <3>1. PICK b \in Batches(dump) :
            /\ dump' = b.dump /\ Len(queue') = Len(queue)
            /\ \A i \in 1..Len(queue) - 1 : queue'[i] = queue[i + 1]
            /\ queue'[Len(queue)] = b.datagram
      BY <2>2
    <3>2. Answers(b.datagram, dump.seq) /\ b.dump.seq \in {0, dump.seq}
      BY <1>0, BatchesAnswer
    <3>3. dump.seq # seqExpect
      BY DEF Deaf
    <3>4. dump'.seq # seqExpect
      BY <1>4, <3>1, <3>2, <3>3
    <3>5. \A j \in 1..Len(b.datagram) : b.datagram[j].seq # seqExpect
      BY <3>2, <3>3 DEF Answers
    <3>6. Unheard
      <4> SUFFICES ASSUME NEW i \in 1..Len(queue'), NEW j \in 1..Len(queue'[i])
                   PROVE  queue'[i][j].seq # seqExpect
        OBVIOUS
      <4>1. CASE i = Len(queue)
        BY <3>1, <3>5, <4>1
      <4>2. CASE i # Len(queue)
        <5>1. i \in 1..Len(queue) - 1 /\ i + 1 \in 1..Len(queue)
          BY <1>4, <3>1, <4>2
        <5>2. queue'[i] = queue[i + 1]
          BY <3>1, <5>1
        <5> QED
          BY <5>1, <5>2 DEF Deaf
      <4> QED
        BY <4>1, <4>2
    <3> QED
      BY <3>4, <3>6
  <2> QED
    BY <1>0, <2>1, <2>2, ReadQueue
<1> QED
  BY <1>1, <1>2, <1>3, <1>5 DEF Deaf

LEMMA ReadingKeepsAnswerInv ==
  ASSUME AnswerInv, Reading
  PROVE  StepInv' /\ Deaf'
<1>0. /\ SeqInv /\ SockTypeOK /\ lost \in BOOLEAN /\ rx \in RxStates
      /\ UNCHANGED <<pc, caller, answer, got, truth, lost>>
  BY DEF AnswerInv, SeqInv, TypeOK, SockTypeOK, Reading
<1>1. CASE Read
  <2>1. CASE ~lost
    <3>1. queue # <<>> /\ ~overrun /\ overrun' = overrun
      BY <1>1, <2>1 DEF Read, AnswerInv, StepInv
    <3>2. Outstanding
      BY <2>1, <3>1 DEF AnswerInv, StepInv, Settled
    <3>3. Outstanding'
      BY <1>0, <1>1, <3>2, ReadKeepsOutstanding
    <3> QED
      BY <1>0, <2>1, <3>1, <3>3 DEF StepInv, Deaf
  <2>2. CASE lost
    BY <1>0, <1>1, <2>2, ReadKeepsDeaf DEF AnswerInv, StepInv
  <2> QED
    BY <1>0, <2>1, <2>2
<1>2. CASE ReadOverrun
  <2>1. lost
    BY <1>2 DEF ReadOverrun, AnswerInv, StepInv
  <2>2. rx'.at = "out" /\ rx'.ret = "fail" /\ Len(rx'.buf) = 0
    BY <1>2 DEF ReadOverrun, Returned, NotCalled, Called
  <2>3. UNCHANGED <<seqNext, seqExpect, queue, dump>>
    BY <1>2 DEF ReadOverrun
  <2> QED
    BY <1>0, <2>1, <2>2, <2>3 DEF AnswerInv, StepInv, Deaf
<1>3. CASE EndOfDatagram
  <2>1. /\ rx.at = "parse" /\ rx.buf = <<>> /\ Len(rx.buf) = 0
        /\ UNCHANGED <<seqNext, seqExpect, queue, overrun, dump>>
    BY <1>3 DEF EndOfDatagram
  <2>2. ~lost
    BY <2>1 DEF AnswerInv, Deaf
  <2>3. rx'.buf = <<>> /\ (rx.multi => rx'.at = "read")
    BY <1>0, <1>3 DEF EndOfDatagram, RxStates, Returned, NotCalled, Called
  <2>4. CASE Settled /\ (pc = "idle" => rx = NotCalled)
    <3>1. pc # "idle"
      BY <2>1, <2>4 DEF NotCalled, Called
    <3>2. Settled'
      BY <2>1, <2>3, <2>4 DEF Settled
    <3> QED
      BY <1>0, <2>1, <2>2, <3>1, <3>2 DEF AnswerInv, StepInv, Deaf
  <2>5. CASE Outstanding
    <3>1. ~Final(rx.buf, seqNext - 1)
      BY <2>1 DEF Final
    <3>2. Plain(caller, <<>>, seqNext - 1)
      BY DEF Plain
    <3>3. caller \notin Loops => rx'.at = "read"
      BY <2>1, <2>3, <2>5 DEF Outstanding
    <3>4. Outstanding'
      BY <1>0, <2>1, <2>3, <2>5, <3>1, <3>2, <3>3 DEF Outstanding
    <3> QED
      BY <1>0, <2>1, <2>2, <3>4 DEF AnswerInv, StepInv, Deaf
  <2> QED
    BY <2>2, <2>4, <2>5 DEF AnswerInv, StepInv
<1> QED
  BY <1>1, <1>2, <1>3 DEF Reading

LEMMA ParsingKeepsAnswerInv ==
  ASSUME AnswerInv, Parsing
  PROVE  StepInv' /\ Deaf'
<1> DEFINE m == Head(rx.buf)
           s == seqNext - 1
<1>0. /\ SeqInv /\ SockTypeOK /\ lost \in BOOLEAN /\ rx \in RxStates
      /\ caller \in Callers /\ rx.at = "parse" /\ rx.buf # <<>>
      /\ Parse(CbOf[caller])
      /\ UNCHANGED <<seqNext, queue, overrun, dump, pc, caller, truth, lost>>
      /\ seqNext \in Nat \ {0} /\ seqExpect \in Nat \ {0}
  BY DEF AnswerInv, SeqInv, TypeOK, SockTypeOK, Parsing, Parse
<1>1. m \in Messages /\ m = rx.buf[1] /\ 1 \in 1..Len(rx.buf)
  BY <1>0, HeadOfBuf
<1>2. seqExpect' = ExpectAfter(CbOf[caller], seqExpect, m)
  BY <1>0 DEF Parse
<1>3. CASE ~lost
  <2>1. Outstanding /\ ~overrun
    BY <1>0, <1>3 DEF AnswerInv, StepInv, Settled
  <2>2. CASE Plain(caller, rx.buf, s)
    <3>1. m.type = "DATA" /\ m.seq = seqExpect /\ ~m.ack
          /\ (caller \in Loops \/ m.multi)
      BY <1>1, <2>1, <2>2 DEF Plain, Outstanding
    <3>2. rx.multi \in BOOLEAN
      BY <1>0 DEF RxStates
    <3>3. /\ Verdict(CbOf[caller], seqExpect, m) \notin {"FAIL", "STOP"}
          /\ seqExpect' = seqExpect /\ SlotOf[m.type] = "VALID"
          /\ MultiAfter(CbOf[caller], seqExpect, rx.multi, m)
               = (rx.multi \/ m.multi)
      BY <1>0, <1>1, <1>2, <3>1, <3>2, DataGoesOn
    <3>4. rx' = [rx EXCEPT !.buf = Tail(rx.buf),
                   !.multi = MultiAfter(CbOf[caller], seqExpect, rx.multi, m)]
      BY <1>0, <3>3 DEF Parse
    <3>5. rx'.at = "parse" /\ rx'.buf = Tail(rx.buf)
          /\ rx'.multi = (rx.multi \/ m.multi)
      BY <1>0, <3>3, <3>4 DEF RxStates
    <3>6. Plain(caller, rx'.buf, s)
      BY <1>0, <2>2, <3>5, HeadOfBuf DEF Plain
    <3>7. answer' = answer
      BY <3>3 DEF Parsing, Handles
    <3>8. ~Final(rx.buf, s)
      BY <1>1, <3>1 DEF Final
    <3>9. caller \notin Loops => rx'.at # "out" /\ rx'.multi
      BY <3>1, <3>5
    <3>10. Outstanding'
      BY <1>0, <2>1, <3>3, <3>6, <3>7, <3>8, <3>9 DEF Outstanding
    <3> QED
      BY <1>0, <1>3, <2>1, <3>10 DEF StepInv, Deaf
  <2>3. CASE Final(rx.buf, s) /\ dump = NoDump /\ queue = <<>>
    <3>1. m.type \in {"DONE", "ACK", "ERR"} /\ m.seq = seqExpect
      BY <1>1, <2>1, <2>3 DEF Final, Outstanding
    <3>2. seqExpect' = seqExpect + 1
      BY <1>0, <1>2, <3>1, FinalMovesOn
    <3>3. seqExpect' = seqNext'
      BY <1>0, <2>1, <3>2 DEF Outstanding
    <3>4. rx'.buf = <<>>
      <4>1. Len(Tail(rx.buf)) = 0 /\ Tail(rx.buf) \in Seq(Messages)
        BY <1>0, <2>3, HeadOfBuf DEF Final
      <4>2. Tail(rx.buf) = <<>>
        BY <4>1, EmptySeq
      <4> QED
        BY <1>0, <4>2, ParseBuf
    <3>5. Settled' /\ pc' # "idle"
      BY <1>0, <2>1, <2>3, <3>3, <3>4 DEF Settled, Outstanding
    <3> QED
      BY <1>0, <1>3, <2>1, <3>5 DEF StepInv, Deaf
  <2> QED
    BY <2>1, <2>2, <2>3 DEF Outstanding
<1>4. CASE lost
  <2>1. m.seq # seqExpect
    BY <1>1, <1>4 DEF AnswerInv, Deaf
  <2>2. /\ Verdict(CbOf[caller], seqExpect, m) = "FAIL"
        /\ seqExpect' = seqExpect
        /\ ~Runs(CbOf[caller], seqExpect, m)
    BY <1>0, <1>2, <2>1, OutOfStepFails
  <2>3. rx' = Returned("fail")
    BY <1>0, <2>2 DEF Parse
  <2>4. rx'.at = "out" /\ rx'.ret = "fail" /\ Len(rx'.buf) = 0
    BY <2>3 DEF Returned, NotCalled, Called
  <2>5. answer' = answer /\ got' = got
    BY <2>2 DEF Parsing, Handles
  <2> QED
    BY <1>0, <1>4, <2>2, <2>4, <2>5 DEF AnswerInv, StepInv, Deaf
<1> QED
  BY <1>0, <1>3, <1>4

LEMMA AgainKeepsAnswerInv ==
  ASSUME AnswerInv, Again
  PROVE  StepInv' /\ Deaf'
<1>0. /\ lost \in BOOLEAN /\ pc = "waiting" /\ caller \in Loops
      /\ answer = "none" /\ rx.at = "out" /\ rx' = Called
      /\ UNCHANGED <<seqNext, seqExpect, queue, overrun, dump>>
      /\ UNCHANGED <<pc, caller, answer, got, truth, lost>>
  BY DEF AnswerInv, SeqInv, TypeOK, Again, Call
<1>1. rx'.at = "read" /\ rx'.buf = <<>> /\ Len(rx'.buf) = 0 /\ rx'.ret = "none"
  BY <1>0 DEF Called
<1>2. CASE ~lost
  <2>1. CASE Settled
    BY <1>0, <1>1, <1>2, <2>1 DEF AnswerInv, StepInv, Settled, Deaf
  <2>2. CASE Outstanding
    <3>1. Plain(caller, rx'.buf, seqNext - 1)
      BY <1>1 DEF Plain
    <3>2. Outstanding'
      BY <1>0, <1>1, <2>2, <3>1 DEF Outstanding
    <3> QED
      BY <1>0, <1>2, <3>2 DEF AnswerInv, StepInv, Deaf
  <2> QED
    BY <1>2, <2>1, <2>2 DEF AnswerInv, StepInv
<1>3. CASE lost
  BY <1>0, <1>1, <1>3 DEF AnswerInv, StepInv, Deaf
<1> QED
  BY <1>0, <1>2, <1>3

LEMMA DoneKeepsAnswerInv ==
  ASSUME AnswerInv, Done
  PROVE  StepInv' /\ Deaf'
<1>0. /\ lost \in BOOLEAN /\ pc = "waiting" /\ rx.at = "out"
      /\ caller \in Loops => answer # "none"
      /\ rx' = NotCalled /\ pc' = "idle"
      /\ answer' \in {answer, rx.ret}
      /\ UNCHANGED <<seqNext, seqExpect, queue, overrun, dump, caller, got,
                     truth, lost>>
  BY DEF AnswerInv, SeqInv, TypeOK, Done
<1>1. rx'.at = "out" /\ rx'.buf = <<>> /\ Len(rx'.buf) = 0 /\ rx'.ret = "none"
  BY <1>0 DEF NotCalled, Called
<1>2. CASE ~lost
  <2>1. ~Outstanding
    BY <1>0 DEF Outstanding
  <2>2. Settled /\ ~overrun
    BY <1>2, <2>1 DEF AnswerInv, StepInv
  <2>3. Settled'
    BY <1>0, <1>1, <2>2 DEF Settled
  <2> QED
    BY <1>0, <1>2, <2>2, <2>3 DEF StepInv, Deaf
<1>3. CASE lost
  BY <1>0, <1>1, <1>3 DEF AnswerInv, StepInv, Deaf
<1> QED
  BY <1>0, <1>2, <1>3

-----------------------------------------------------------------------------
LEMMA InitAnswerInv == Init => AnswerInv
<1> SUFFICES ASSUME Init PROVE AnswerInv
  OBVIOUS
<1>1. NotCalled.buf = <<>>
  BY DEF NotCalled, Called
<1>2. Settled /\ rx = NotCalled
  BY <1>1 DEF Init, SockInit, Settled
<1> QED
  BY <1>2, InitSeqInv DEF Init, SockInit, AnswerInv, StepInv, Deaf

LEMMA NextKeepsAnswerInv ==
  ASSUME Fits
  PROVE  AnswerInv /\ [Next]_vars => AnswerInv'
<1> SUFFICES ASSUME AnswerInv, [Next]_vars PROVE StepInv' /\ Deaf'
  BY NextKeepsSeqInv DEF AnswerInv
<1>1. ASSUME NEW c \in Callers, Ask(c) PROVE StepInv' /\ Deaf'
  BY <1>1, AskKeepsAnswerInv
<1>2. ASSUME NEW c \in Callers, AskFails(c) PROVE StepInv' /\ Deaf'
  BY <1>2, AskFailsKeepsAnswerInv
<1>3. CASE Reading
  BY <1>3, ReadingKeepsAnswerInv
<1>4. CASE Parsing
  BY <1>4, ParsingKeepsAnswerInv
<1>5. CASE Again
  BY <1>5, AgainKeepsAnswerInv
<1>6. CASE Done
  BY <1>6, DoneKeepsAnswerInv
<1>7. CASE UNCHANGED vars
  BY <1>7 DEF vars, sockVars, AnswerInv, StepInv, Deaf, Outstanding, Settled
<1> QED
  BY <1>1, <1>2, <1>3, <1>4, <1>5, <1>6, <1>7 DEF Next, Receive

\* The answer to one request is in the socket at a time, and none is listened
\* to once a send has failed (nl_send_auto_complete and recvmsgs in nl.c).
THEOREM OneAnswerAtATime == ASSUME Fits PROVE Spec => []AnswerInv
<1>1. AnswerInv /\ [Next]_vars => AnswerInv'
  BY NextKeepsAnswerInv
<1> QED
  BY <1>1, InitAnswerInv, PTL DEF Spec

\* A request leaves nothing in the socket, for every caller, payload, answer
\* and size of the receive buffer.
THEOREM RequestsInStep == ASSUME Fits PROVE Spec => []InStep
<1>1. AnswerInv => InStep
  BY DEF AnswerInv, StepInv, Outstanding, Settled, InStep
<1>2. Spec => []AnswerInv
  BY OneAnswerAtATime
<1> QED
  BY <1>1, <1>2, PTL

\* After one failed send no request on the socket is answered.
THEOREM FailedSendSilences == ASSUME Fits PROVE Spec => []FailedSendIsFatal
<1>1. AnswerInv => FailedSendIsFatal
  BY DEF AnswerInv, Deaf, FailedSendIsFatal
<1>2. Spec => []AnswerInv
  BY OneAnswerAtATime
<1> QED
  BY <1>1, <1>2, PTL

-----------------------------------------------------------------------------
(* The refinement of Request, but for its fairness: the items given to the *)
(* caller so far are the first of those the kernel decided on, and the     *)
(* rest are on their way, with the message that tells the outcome.         *)

\* Who has no handler of NL_CB_VALID asks for no items.
Takes == \A c \in Callers : "VALID" \notin DOMAIN CbOf[c] => Kinds[c] \subseteq {"set"}

\* What nl_recvmsgs() has returned is known when it is back in its caller.
Calling ==
  /\ rx.at # "out" => rx.ret = "none" /\ pc = "waiting"
  /\ rx.at = "out" /\ pc = "waiting" => rx.ret # "none"

\* NLMSG_ERROR is on its way exactly when the kernel has refused.
Told == \A i \in Places : \A k \in 1..Len(Line(i)) :
          Line(i)[k].type = "ERR" <=> truth.outcome = "fail"

Answering ==
  pc = "waiting" /\ ~lost =>
    /\ "VALID" \notin DOMAIN CbOf[caller] => truth.items = <<>>
    /\ seqExpect # seqNext =>
         /\ Flow(seqNext - 1, truth.items, Len(got))
         /\ \A i \in 1..Len(got) : got[i] = truth.items[i]
         /\ Told
         /\ dump.seq # 0 => truth.outcome = "ok"
    /\ seqExpect = seqNext /\ caller \notin Loops /\ rx.at # "out" =>
         got = truth.items /\ truth.outcome = "ok"

GivesInv == AnswerInv /\ Ordered /\ Calling /\ Answering

LEMMA CallersArePlain ==
  ASSUME NEW c \in Callers
  PROVE  Plainly(CbOf[c])
  BY CallbacksOfCallers DEF Plainly

LEMMA ToldInLine ==
  /\ Told <=> \A x : InLine(x) => (x.type = "ERR" <=> truth.outcome = "fail")
  /\ Told' <=> \A x : InLine(x)' => (x.type = "ERR" <=> truth'.outcome = "fail")
  BY DEF Told, InLine

\* An answer without items is on its way.
LEMMA FlowOfNone ==
  ASSUME NEW s, NEW items, items = <<>>, Len(queue') = 1,
         queue'[1] # <<>>, queue'[1][1].seq = s, queue'[1][1].type # "DATA",
         rx'.buf = <<>>, dump'.seq # s
  PROVE  Flow(s, items, 0)'
<1> DEFINE off == [i \in 0..2 |-> 0]
<1>1. off \in [0..Len(queue') + 1 -> 0..Len(items)] /\ off[0] = 0
  OBVIOUS
<1>2. Places' = {0, 1} /\ Line(0)' = <<>> /\ Line(1)' = queue'[1]
  BY DEF Places, Line
<1>3. Advances(Line(0)', s, items, off[0], off[0 + 1])
  BY <1>2 DEF Advances
<1>4. Advances(Line(1)', s, items, off[1], off[1 + 1])
  BY <1>2 DEF Advances
<1>5. \A i \in Places' : Advances(Line(i)', s, items, off[i], off[i + 1])
  BY <1>2, <1>3, <1>4
<1> HIDE DEF off
<1> QED
  BY <1>1, <1>5 DEF Flow

\* An answer with one item.
LEMMA FlowOfOne ==
  ASSUME NEW s, NEW item, NEW items, items = <<item>>, Len(queue') = 2,
         queue'[1] = <<Msg("DATA", s, FALSE, item)>>,
         queue'[2] = <<Msg("ACK", s, FALSE, NoItem)>>,
         rx'.buf = <<>>, dump'.seq # s
  PROVE  Flow(s, items, 0)'
<1> DEFINE off == [i \in 0..3 |-> IF i < 2 THEN 0 ELSE 1]
<1>1. off \in [0..Len(queue') + 1 -> 0..Len(items)] /\ off[0] = 0
      /\ off[1] = 0 /\ off[2] = 1 /\ off[3] = 1
  OBVIOUS
<1>2. Places' = {0, 1, 2} /\ Line(0)' = <<>> /\ Line(1)' = queue'[1]
      /\ Line(2)' = queue'[2]
  BY DEF Places, Line
<1>3. Advances(Line(0)', s, items, off[0], off[0 + 1])
  BY <1>1, <1>2 DEF Advances
<1>4. Advances(Line(1)', s, items, off[1], off[1 + 1])
  BY <1>1, <1>2 DEF Advances, Msg
<1>5. Advances(Line(2)', s, items, off[2], off[2 + 1])
  BY <1>1, <1>2 DEF Advances, Msg
<1> HIDE DEF off
<1>6. \A i \in Places' : Advances(Line(i)', s, items, off[i], off[i + 1])
  BY <1>2, <1>3, <1>4, <1>5
<1> QED
  BY <1>1, <1>6 DEF Flow

\* The kernel's decision: the whole answer is on its way.
LEMMA DecideStarts ==
  ASSUME Fits, SockTypeOK, queue = <<>>, dump = NoDump, rx'.buf = <<>>,
         NEW c \in Callers, NEW kind \in Kinds[c], Decide(kind),
         NEW s, s = seqNext
  PROVE  /\ \E items \in Seq(Items) : truth'.items = items /\ Flow(s, items, 0)'
         /\ \A i \in 1..Len(queue') : \A k \in 1..Len(queue'[i]) :
              queue'[i][k].type = "ERR" <=> truth'.outcome = "fail"
         /\ dump'.seq # 0 => truth'.outcome = "ok"
         /\ truth'.outcome \in {"ok", "fail"}
         /\ truth'.outcome = "fail" => truth'.items = <<>>
         /\ kind = "set" => truth'.items = <<>>
<1>0. /\ s \in Nat \ {0} /\ QueueLimit >= 2 /\ QueueLimit \in Nat /\ NoDump.seq = 0
      /\ queue \in Seq(Datagrams) /\ Len(queue) = 0 /\ <<>> \in Seq(Items)
      /\ kind = "get" => c \in Loops
  BY QueueLimitAssumption, EmptySeq DEF SockTypeOK, Fits, NoDump
<1>1. ASSUME Refuse(seqNext), truth' = [outcome |-> "fail", items |-> <<>>]
      PROVE  /\ Flow(s, <<>>, 0)' /\ dump'.seq = 0
             /\ \A i \in 1..Len(queue') : \A k \in 1..Len(queue'[i]) :
                  queue'[i][k].type = "ERR"
  <2> DEFINE m == Msg("ERR", s, FALSE, NoItem)
             d == <<m>>
  <2>1. m.type = "ERR" /\ m.seq = s /\ m \in Messages
    BY <1>0, MsgIsMessage DEF Msg, Types
  <2>2. Enqueue(<<d>>) /\ dump' = dump
    BY <1>1 DEF Refuse
  <2> HIDE DEF m
  <2>3. d \in Datagrams /\ Len(d) = 1 /\ d[1] = m
    BY <2>1, Singletons
  <2>8. d # <<>>
    OBVIOUS
  <2> HIDE DEF d
  <2>4. Len(queue') = 1 /\ queue'[1] = d
    BY <2>2, <2>3, EnqueueOne
  <2>5. dump'.seq = 0 /\ dump'.seq # s
    BY <1>0, <2>2
  <2>6. queue'[1] # <<>>
    BY <2>4, <2>8
  <2>7. queue'[1][1].seq = s /\ queue'[1][1].type = "ERR" /\ Len(queue'[1]) = 1
    BY <2>1, <2>3, <2>4
  <2> QED
    BY <2>4, <2>5, <2>6, <2>7, FlowOfNone
<1>2. ASSUME Answer(seqNext, <<>>)
      PROVE  /\ Flow(s, <<>>, 0)' /\ dump'.seq = 0
             /\ \A i \in 1..Len(queue') : \A k \in 1..Len(queue'[i]) :
                  queue'[i][k].type # "ERR"
  <2>1. PICK items \in Seq(Items) : items = <<>> /\ Answer(s, items) /\ Len(items) = 0
    BY <1>0, <1>2
  <2>2. /\ dump' = dump /\ Len(AnswerTo(s, items)) = 1
        /\ AnswerTo(s, items)[1] = <<Msg("ACK", s, FALSE, NoItem)>>
        /\ Enqueue(AnswerTo(s, items)) /\ AnswerTo(s, items) \in Seq(Datagrams)
    BY <1>0, <2>1, AnswerToNone, AnswerIsDatagrams DEF Answer, AnswerTo
  <2>3. PICK ds \in Seq(Datagrams) : ds = AnswerTo(s, items)
    BY <2>2
  <2>4. PICK m : m = Msg("ACK", s, FALSE, NoItem)
    OBVIOUS
  <2>5. m.type = "ACK" /\ m.seq = s
    BY <2>4 DEF Msg
  <2>6. Len(ds) = 1 /\ ds[1] = <<m>> /\ Enqueue(ds)
    BY <2>2, <2>3, <2>4
  <2>7. Len(ds) <= QueueLimit
    BY <1>0, <2>6
  <2>8. queue' = ds
    BY <1>0, <2>6, <2>7, EnqueueFits
  <2>9. Len(queue') = 1 /\ Len(queue'[1]) = 1 /\ queue'[1][1] = m
    BY <2>6, <2>8
  <2>10. queue'[1] # <<>>
    BY <2>9
  <2>11. dump'.seq = 0 /\ dump'.seq # s
    BY <1>0, <2>2
  <2>12. Flow(s, items, 0)'
    BY <2>1, <2>5, <2>9, <2>10, <2>11, FlowOfNone
  <2> QED
    BY <2>1, <2>5, <2>9, <2>11, <2>12
<1>3. ASSUME NEW item \in Items, Answer(seqNext, <<item>>)
      PROVE  /\ Flow(s, <<item>>, 0)' /\ dump'.seq = 0
             /\ \A i \in 1..Len(queue') : \A k \in 1..Len(queue'[i]) :
                  queue'[i][k].type # "ERR"
  <2>1. PICK items \in Seq(Items) : items = <<item>> /\ Answer(s, items) /\ Len(items) = 1
    BY <1>0, <1>3, SingletonSeq
  <2>2. /\ dump' = dump /\ Len(AnswerTo(s, items)) = 2
        /\ AnswerTo(s, items)[1] = <<Msg("DATA", s, FALSE, items[1])>>
        /\ AnswerTo(s, items)[2] = <<Msg("ACK", s, FALSE, NoItem)>>
        /\ Enqueue(AnswerTo(s, items)) /\ AnswerTo(s, items) \in Seq(Datagrams)
    BY <1>0, <2>1, AnswerToOne, AnswerIsDatagrams DEF Answer, AnswerTo
  <2>3. PICK ds \in Seq(Datagrams) : ds = AnswerTo(s, items)
    BY <2>2
  <2>4. queue' = ds
    BY <1>0, <2>2, <2>3, EnqueueFits
  <2>5. /\ Len(queue') = 2 /\ queue'[1] = <<Msg("DATA", s, FALSE, item)>>
        /\ queue'[2] = <<Msg("ACK", s, FALSE, NoItem)>>
    BY <2>1, <2>2, <2>3, <2>4
  <2>6. dump'.seq = 0 /\ dump'.seq # s
    BY <1>0, <2>2
  <2>7. \A i \in 1..Len(queue') : \A k \in 1..Len(queue'[i]) :
          queue'[i][k].type # "ERR"
    BY <2>5 DEF Msg
  <2> QED
    BY <2>1, <2>5, <2>6, <2>7, FlowOfOne
<1>4. ASSUME NEW items \in Replies, StartDump(seqNext, items)
      PROVE  /\ items \in Seq(Items) /\ Flow(s, items, 0)'
             /\ \A i \in 1..Len(queue') : \A k \in 1..Len(queue'[i]) :
                  queue'[i][k].type # "ERR"
  <2>1. items \in Seq(Items) /\ StartDump(s, items)
    BY <1>4, RepliesAssumption
  <2>2. Flow(s, items, 0)'
    BY <1>0, <2>1, FlowStarts
  <2>3. PICK b \in Batches([seq |-> s, rest |-> items]) : Grows(<<b.datagram>>, 1)
    BY <1>0, <2>1, StartDumpGrows
  <2>4. PICK d : d = b.datagram
    OBVIOUS
  <2>5. Len(queue') = 1 /\ queue'[1] = d
    <3>1. /\ Len(queue') = 0 + 1
          /\ \A j \in 1..1 : queue'[0 + j] = <<d>>[j]
      BY <1>0, <2>3, <2>4 DEF Grows
    <3>2. 1 \in 1..1 /\ <<d>>[1] = d
      OBVIOUS
    <3> QED
      BY <3>1, <3>2
  <2>6. \A k \in 1..Len(d) : d[k].type \in {"DATA", "DONE"}
    BY <1>0, <2>1, <2>4, BatchMessages
  <2> QED
    BY <2>1, <2>2, <2>5, <2>6
<1>5. /\ [outcome |-> "fail", items |-> <<>>].outcome = "fail"
      /\ [outcome |-> "fail", items |-> <<>>].items = <<>>
  OBVIOUS
<1>6. ASSUME NEW items
      PROVE  /\ [outcome |-> "ok", items |-> items].outcome = "ok"
             /\ [outcome |-> "ok", items |-> items].items = items
  OBVIOUS
<1>7. CASE Refuse(seqNext) /\ truth' = [outcome |-> "fail", items |-> <<>>]
  BY <1>0, <1>1, <1>5, <1>7
<1>8. CASE /\ kind = "get"
           /\ \E item \in Items : /\ Answer(seqNext, <<item>>)
                                  /\ truth' = [outcome |-> "ok", items |-> <<item>>]
  <2>1. PICK item \in Items : /\ Answer(seqNext, <<item>>)
                              /\ truth' = [outcome |-> "ok", items |-> <<item>>]
    BY <1>8
  <2>2. <<item>> \in Seq(Items) /\ truth'.outcome = "ok" /\ truth'.items = <<item>>
    BY <1>6, <2>1, SingletonSeq
  <2> QED
    BY <1>3, <1>8, <2>1, <2>2
<1>9. CASE Answer(seqNext, <<>>) /\ truth' = [outcome |-> "ok", items |-> <<>>]
  BY <1>0, <1>2, <1>6, <1>9
<1>10. CASE /\ kind = "dump"
            /\ \E items \in Replies : /\ StartDump(seqNext, items)
                                      /\ truth' = [outcome |-> "ok", items |-> items]
  BY <1>4, <1>6, <1>10
<1> QED
  BY <1>7, <1>8, <1>9, <1>10 DEF Decide

LEMMA DecideTruth ==
  ASSUME NEW kind, Decide(kind)
  PROVE  /\ truth'.outcome \in {"ok", "fail"} /\ truth'.items \in Seq(Items)
         /\ truth'.outcome = "fail" => truth'.items = <<>>
<1>1. <<>> \in Seq(Items) /\ \A item \in Items : <<item>> \in Seq(Items)
  OBVIOUS
<1>2. \A items \in Replies : items \in Seq(Items)
  BY RepliesAssumption
<1>3. ASSUME NEW items \in Seq(Items), NEW o \in {"ok", "fail"}, o = "fail" => items = <<>>,
             truth' = [outcome |-> o, items |-> items]
      PROVE  /\ truth'.outcome \in {"ok", "fail"} /\ truth'.items \in Seq(Items)
             /\ truth'.outcome = "fail" => truth'.items = <<>>
  BY <1>3
<1>4. \E items \in Seq(Items) : \E o \in {"ok", "fail"} :
        (o = "fail" => items = <<>>) /\ truth' = [outcome |-> o, items |-> items]
  BY <1>1, <1>2 DEF Decide
<1> QED
  BY <1>3, <1>4

LEMMA FlowIs ==
  ASSUME NEW s, NEW items, NEW n, Flow(s, items, n)',
         s = seqNext' - 1, items = truth'.items, n = Len(got')
  PROVE  Flow(seqNext - 1, truth.items, Len(got))'
  OBVIOUS

\* A request is made while every send has succeeded.
LEMMA AskAnswers ==
  ASSUME Fits, Takes, GivesInv, NEW c \in Callers, Ask(c)
  PROVE  /\ Answering' /\ truth'.outcome \in {"ok", "fail"}
         /\ truth'.items \in Seq(Items)
         /\ truth'.outcome = "fail" => truth'.items = <<>>
<1>0. /\ SockTypeOK /\ seqNext \in Nat \ {0} /\ AnswerInv /\ lost \in BOOLEAN
  BY DEF GivesInv, AnswerInv, SeqInv, TypeOK, SockTypeOK
<1>1. /\ pc = "idle" /\ pc' = "waiting" /\ caller' = c /\ got' = <<>>
      /\ seqNext' = seqNext + 1 /\ rx' = Called /\ lost' = lost
      /\ seqExpect' = seqExpect
  BY DEF Ask, TakeSeq
<1>2. rx'.buf = <<>>
  BY <1>1 DEF Called
<1>3. PICK kind \in Kinds[c] : Decide(kind)
  BY DEF Ask
<1>4. /\ truth'.outcome \in {"ok", "fail"} /\ truth'.items \in Seq(Items)
      /\ truth'.outcome = "fail" => truth'.items = <<>>
  BY <1>0, <1>3, DecideTruth
<1>5. CASE ~lost
  <2>1. Settled
    BY <1>0, <1>1, <1>5 DEF AnswerInv, StepInv, Outstanding
  <2>2. PICK s : s = seqNext
    OBVIOUS
  <2>3. /\ \E items \in Seq(Items) : truth'.items = items /\ Flow(s, items, 0)'
        /\ \A i \in 1..Len(queue') : \A k \in 1..Len(queue'[i]) :
             queue'[i][k].type = "ERR" <=> truth'.outcome = "fail"
        /\ dump'.seq # 0 => truth'.outcome = "ok"
        /\ kind = "set" => truth'.items = <<>>
    BY <1>0, <1>2, <1>3, <2>1, <2>2, DecideStarts DEF Settled
  <2>4. PICK items \in Seq(Items) : truth'.items = items /\ Flow(s, items, 0)'
    BY <2>3
  <2>5. Told'
    <3>1. \A i \in Places' : i = 0 \/ i \in 1..Len(queue')
      BY DEF Places
    <3>2. Line(0)' = <<>> /\ \A i \in 1..Len(queue') : Line(i)' = queue'[i]
      BY <1>2 DEF Line
    <3> QED
      BY <2>3, <3>1, <3>2 DEF Told
  <2>6. s = seqNext' - 1 /\ Len(got') = 0 /\ seqExpect' # seqNext'
    BY <1>0, <1>1, <2>1, <2>2 DEF Settled
  <2>7. Flow(seqNext - 1, truth.items, Len(got))'
    <3>1. PICK n : n = 0
      OBVIOUS
    <3>2. Flow(s, items, n)' /\ n = Len(got') /\ items = truth'.items
      BY <2>4, <2>6, <3>1
    <3> QED
      BY <2>6, <3>2, FlowIs
  <2>8. "VALID" \notin DOMAIN CbOf[c] => truth'.items = <<>>
    BY <1>3, <2>3 DEF Takes
  <2> QED
    BY <1>1, <1>4, <2>3, <2>5, <2>6, <2>7, <2>8 DEF Answering
<1>6. CASE lost
  BY <1>1, <1>4, <1>6 DEF Answering
<1> QED
  BY <1>0, <1>5, <1>6

\* The two functions that call nl_recvmsgs() once: a refusal makes it fail, an
\* acknowledgement does not.
LEMMA OnceCallers ==
  ASSUME NEW c \in Callers \ Loops, NEW m, m.type \in {"DONE", "ACK", "ERR"}
  PROVE  Dispatched(CbOf[c], m) = "FAIL" <=> m.type = "ERR"
<1>1. c \in {"nl_cache_refill", "nl_wait_for_ack"}
  BY CallersAssumption DEF Loops, CbOf
<1>2. CbOf[c] \in {PickupCb, WaitForAckCb}
  BY <1>1 DEF CbOf
<1>3. /\ "ERR" \notin DOMAIN CbOf[c] /\ "FINISH" \notin DOMAIN CbOf[c]
      /\ "ACK" \in DOMAIN CbOf[c] => CbOf[c]["ACK"] = "STOP"
  BY <1>2 DEF PickupCb, WaitForAckCb
<1>4. CASE m.type = "ERR"
  BY <1>3, <1>4 DEF Dispatched, CallOr, SlotOf, CodeOf
<1>5. CASE m.type = "DONE"
  BY <1>3, <1>5 DEF Dispatched, CallOr, SlotOf, CodeOf
<1>6. CASE m.type = "ACK"
  BY <1>3, <1>6 DEF Dispatched, CallOr, SlotOf, CodeOf
<1> QED
  BY <1>4, <1>5, <1>6

\* What the abstract request shows as its result.
Shows == IF pc = "waiting" /\ caller \notin Loops THEN rx.ret ELSE answer

LEMMA Same ==
  ASSUME UNCHANGED <<pc, truth, got, lost>>, Shows' = Shows
  PROVE  UNCHANGED Abstract!vars
  BY DEF Abstract!vars, Shows

LEMMA GivesUp ==
  ASSUME UNCHANGED <<pc, truth, got, lost>>, pc = "waiting", lost,
         Shows = "none", Shows' = "fail"
  PROVE  Abstract!Next
  BY DEF Abstract!Next, Abstract!GiveUp, Shows

LEMMA Concludes ==
  ASSUME UNCHANGED <<pc, truth, got, lost>>, pc = "waiting", ~lost,
         Shows = "none", got = truth.items, Shows' = truth.outcome
  PROVE  Abstract!Next
  BY DEF Abstract!Next, Abstract!Conclude, Shows

Maps == [Abstract!Next]_(Abstract!vars)

LEMMA ReadingGives ==
  ASSUME GivesInv, Reading
  PROVE  Ordered' /\ Calling' /\ Answering' /\ Maps
<1>0. /\ SockTypeOK /\ AnswerInv /\ Ordered /\ Calling /\ Answering
      /\ seqNext \in Nat \ {0} /\ seqExpect \in Nat \ {0}
      /\ truth.items \in Seq(Items) /\ lost \in BOOLEAN
      /\ UNCHANGED <<pc, caller, answer, got, truth, lost>>
  BY DEF GivesInv, AnswerInv, SeqInv, TypeOK, SockTypeOK, Reading
<1>1. CASE Read
  <2>1. /\ rx.at = "read" /\ rx'.at = "parse" /\ rx'.ret = rx.ret
        /\ UNCHANGED <<seqNext, seqExpect>>
        /\ dump' = dump \/ dump.seq # 0
    BY <1>0, <1>1, ReadQueue DEF Read
  <2>2. Ordered' /\ Calling'
    BY <1>0, <1>1, <2>1, ReadKeepsOrdered DEF Calling
  <2>3. Shows' = Shows
    BY <1>0, <2>1 DEF Shows
  <2>4. ASSUME pc = "waiting", ~lost, seqExpect # seqNext
        PROVE  /\ Flow(seqNext - 1, truth.items, Len(got))' /\ Told'
               /\ dump'.seq # 0 => truth.outcome = "ok"
    <3>1. /\ Flow(seqNext - 1, truth.items, Len(got)) /\ Told
          /\ dump.seq # 0 => truth.outcome = "ok"
      BY <1>0, <2>4 DEF Answering
    <3>2. seqExpect = seqNext - 1
      BY <1>0, <2>4 DEF AnswerInv, StepInv, Outstanding, Settled
    <3>3. PICK s \in Nat \ {0} : s = seqNext - 1
      BY <1>0, <3>2
    <3>4. PICK items \in Seq(Items) : items = truth.items
      BY <1>0
    <3>5. PICK g : g = Len(got)
      OBVIOUS
    <3>6. Flow(s, items, g)
      BY <3>1, <3>3, <3>4, <3>5
    <3>7. Flow(s, items, g)'
      BY <1>0, <1>1, <3>6, FlowRead
    <3>8. s = seqNext' - 1 /\ items = truth'.items /\ g = Len(got')
      BY <1>0, <2>1, <3>3, <3>4, <3>5
    <3>9. Flow(seqNext - 1, truth.items, Len(got))'
      BY <3>7, <3>8, FlowIs
    <3>10. Told'
      <4>1. ASSUME NEW x, InLine(x)'
            PROVE  x.type = "ERR" <=> truth'.outcome = "fail"
        <5>1. CASE InLine(x)
          BY <1>0, <3>1, <5>1, ToldInLine
        <5>2. CASE dump.seq # 0 /\ x.type \in {"DATA", "DONE"}
          BY <1>0, <3>1, <5>2
        <5> QED
          BY <1>0, <1>1, <4>1, <5>1, <5>2, ReadLine
      <4> QED
        BY <4>1, ToldInLine
    <3> QED
      BY <2>1, <3>1, <3>9, <3>10
  <2>5. Answering'
    BY <1>0, <2>1, <2>4 DEF Answering
  <2> QED
    BY <1>0, <2>2, <2>3, <2>5, Same DEF Maps
<1>2. CASE ReadOverrun
  <2>1. /\ lost /\ rx.at = "read" /\ rx' = Returned("fail")
        /\ UNCHANGED <<seqNext, seqExpect, queue, dump>>
    BY <1>0, <1>2 DEF ReadOverrun, AnswerInv, StepInv
  <2>2. rx'.at = "out" /\ rx'.ret = "fail" /\ rx'.buf = <<>>
    BY <2>1, ReturnedFields
  <2>3. pc = "waiting" /\ rx.ret = "none"
    BY <1>0, <2>1 DEF Calling
  <2>4. Ordered' /\ Calling' /\ Answering'
    BY <1>0, <2>1, <2>2, IdleKeepsOrdered DEF Calling, Answering
  <2>5. CASE caller \in Loops
    <3>1. Shows' = Shows
      BY <1>0, <2>5 DEF Shows
    <3> QED
      BY <1>0, <2>4, <3>1, Same DEF Maps
  <2>6. CASE caller \notin Loops
    <3>1. Shows = "none" /\ Shows' = "fail"
      BY <1>0, <2>2, <2>3, <2>6 DEF Shows
    <3> QED
      BY <1>0, <2>1, <2>3, <2>4, <3>1, GivesUp DEF Maps
  <2> QED
    BY <2>5, <2>6
<1>3. CASE EndOfDatagram
  <2>1. /\ rx.at = "parse" /\ rx.buf = <<>> /\ rx \in RxStates
        /\ rx' = IF rx.multi THEN [rx EXCEPT !.at = "read"] ELSE Returned("ok")
        /\ UNCHANGED <<seqNext, seqExpect, queue, dump>>
    BY <1>0, <1>3 DEF EndOfDatagram, SockTypeOK
  <2>2. ~lost
    BY <1>0, <2>1 DEF AnswerInv, Deaf
  <2>3. pc = "waiting" /\ rx.ret = "none"
    BY <1>0, <2>1 DEF Calling
  <2>4. rx.multi => rx'.at = "read" /\ rx'.buf = <<>> /\ rx'.ret = "none"
    BY <2>1, <2>3 DEF RxStates
  <2>5. ~rx.multi => rx'.at = "out" /\ rx'.buf = <<>> /\ rx'.ret = "ok"
    BY <2>1, ReturnedFields
  <2>6. Ordered' /\ Calling'
    BY <1>0, <2>1, <2>3, <2>4, <2>5, IdleKeepsOrdered DEF Calling
  <2>7. seqExpect # seqNext => Flow(seqNext - 1, truth.items, Len(got))' /\ Told'
    <3> SUFFICES ASSUME seqExpect # seqNext
                 PROVE  Flow(seqNext - 1, truth.items, Len(got))' /\ Told'
      OBVIOUS
    <3>1. Flow(seqNext - 1, truth.items, Len(got)) /\ Told
      BY <1>0, <2>2, <2>3 DEF Answering
    <3>2. rx'.buf = rx.buf
      BY <2>1, <2>4, <2>5
    <3>3. Flow(seqNext - 1, truth.items, Len(got))'
      <4>1. PICK s : s = seqNext - 1
        OBVIOUS
      <4>2. PICK items : items = truth.items
        OBVIOUS
      <4>3. PICK g : g = Len(got)
        OBVIOUS
      <4>4. Flow(s, items, g)'
        BY <2>1, <3>1, <3>2, <4>1, <4>2, <4>3, FlowStays
      <4> QED
        BY <1>0, <2>1, <4>1, <4>2, <4>3, <4>4, FlowIs
    <3>4. Told'
      BY <1>0, <2>1, <3>1, <3>2, ParseLine, ToldInLine
    <3> QED
      BY <3>3, <3>4
  <2>8. Answering'
    BY <1>0, <2>1, <2>7 DEF Answering
  <2>9. CASE caller \in Loops \/ rx.multi
    <3>1. Shows' = Shows
      BY <1>0, <2>3, <2>4, <2>9 DEF Shows
    <3> QED
      BY <1>0, <2>6, <2>8, <3>1, Same DEF Maps
  <2>10. CASE caller \notin Loops /\ ~rx.multi
    <3>1. seqExpect = seqNext
      BY <1>0, <2>1, <2>2, <2>10 DEF AnswerInv, StepInv, Outstanding, Settled
    <3>2. got = truth.items /\ truth.outcome = "ok"
      BY <1>0, <2>1, <2>2, <2>3, <2>10, <3>1 DEF Answering
    <3>3. Shows = "none" /\ Shows' = "ok"
      BY <1>0, <2>3, <2>5, <2>10 DEF Shows
    <3> QED
      BY <1>0, <2>2, <2>3, <2>6, <2>8, <3>2, <3>3, Concludes DEF Maps
  <2> QED
    BY <2>9, <2>10
<1> QED
  BY <1>1, <1>2, <1>3 DEF Reading

\* A message that is not expected: its handler does not run.
LEMMA ParsingStrayGives ==
  ASSUME GivesInv, Parsing, rx.buf[1].seq # seqExpect
  PROVE  Ordered' /\ Calling' /\ Answering' /\ Maps
<1>0. /\ SockTypeOK /\ AnswerInv /\ Ordered /\ Calling
      /\ caller \in Callers /\ lost \in BOOLEAN /\ Parse(CbOf[caller])
      /\ rx.at = "parse" /\ rx.buf # <<>>
      /\ UNCHANGED <<pc, caller, truth, lost>>
  BY DEF GivesInv, AnswerInv, SeqInv, TypeOK, Parsing, Parse
<1>1. Ordered'
  BY <1>0, CallersArePlain, PlainParseKeepsOrdered
<1>2. PICK m : m = rx.buf[1]
  OBVIOUS
<1>3. PICK cb : cb = CbOf[caller]
  OBVIOUS
<1>4. rx' = Returned("fail") /\ \A slot \in Slots : ~Handles(cb, slot)
  <2>1. Plainly(cb) /\ Parse(cb) /\ m.seq # seqExpect
    BY <1>0, <1>2, <1>3, CallersArePlain
  <2>2. rx' = Returned("fail")
    BY <1>0, <1>2, <2>1, ParseFacts
  <2>3. \A slot \in Slots : ~Handles(cb, slot)
    BY <1>0, <1>2, <2>1, ParseFacts
  <2> QED
    BY <2>2, <2>3
<1>5. rx'.at = "out" /\ rx'.ret = "fail"
  BY <1>4, ReturnedFields
<1>6. UNCHANGED <<answer, got>>
  BY <1>3, <1>4 DEF Parsing, Slots
<1>7. lost
  <2> SUFFICES ASSUME ~lost PROVE FALSE
    OBVIOUS
  <2>1. Outstanding /\ 1 \in 1..Len(rx.buf)
    BY <1>0, HeadOfBuf DEF AnswerInv, StepInv, Settled
  <2> QED
    BY <2>1 DEF Outstanding, Plain, Final
<1>8. pc = "waiting" /\ rx.ret = "none"
  BY <1>0 DEF Calling
<1>9. Calling' /\ Answering'
  BY <1>0, <1>5, <1>7 DEF Calling, Answering
<1>10. CASE caller \in Loops
  <2>1. Shows' = Shows
    BY <1>0, <1>6, <1>10 DEF Shows
  <2> QED
    BY <1>0, <1>1, <1>6, <1>9, <2>1, Same DEF Maps
<1>11. CASE caller \notin Loops
  <2>1. Shows = "none" /\ Shows' = "fail"
    BY <1>0, <1>5, <1>8, <1>11 DEF Shows
  <2> QED
    BY <1>0, <1>1, <1>6, <1>7, <1>8, <1>9, <2>1, GivesUp DEF Maps
<1> QED
  BY <1>10, <1>11

\* A message of the answer is parsed.
LEMMA ParsingAnswer ==
  ASSUME GivesInv, Parsing, NEW m, m = rx.buf[1], m.seq = seqExpect
  PROVE  /\ ~lost /\ pc = "waiting" /\ seqNext \in Nat \ {0} /\ seqExpect = seqNext - 1
         /\ Shows = "none" /\ rx.ret = "none" /\ InLine(m)
         /\ m.type \in {"DATA", "DONE", "ACK", "ERR"}
         /\ Flow(seqNext - 1, truth.items, Len(got)) /\ Told
         /\ \A i \in 1..Len(got) : got[i] = truth.items[i]
         /\ dump.seq # 0 => truth.outcome = "ok"
         /\ caller \in Loops => answer = "none"
<1>0. /\ SockTypeOK /\ AnswerInv /\ Ordered /\ Calling /\ Answering
      /\ caller \in Callers /\ lost \in BOOLEAN /\ Parse(CbOf[caller])
      /\ rx.at = "parse" /\ rx.buf # <<>>
      /\ seqNext \in Nat \ {0}
  BY DEF GivesInv, AnswerInv, SeqInv, TypeOK, SockTypeOK, Parsing, Parse
<1>1. 1 \in 1..Len(rx.buf) /\ InLine(m) /\ m \in Messages
  BY <1>0, HeadOfBuf, HeadInLine
<1>2. ~lost
  BY <1>0, <1>1 DEF AnswerInv, Deaf
<1>3. Outstanding
  BY <1>0, <1>2 DEF AnswerInv, StepInv, Settled
<1>4. /\ pc = "waiting" /\ seqExpect = seqNext - 1 /\ seqExpect # seqNext
      /\ caller \in Loops => answer = "none"
  BY <1>0, <1>3 DEF Outstanding
<1>5. rx.ret = "none"
  BY <1>0 DEF Calling
<1>6. Shows = "none"
  BY <1>4, <1>5 DEF Shows
<1>7. m.type \in {"DATA", "DONE", "ACK", "ERR"}
  BY <1>0, <1>1, LineMessages
<1> QED
  BY <1>0, <1>1, <1>2, <1>4, <1>5, <1>6, <1>7 DEF Answering

LEMMA ParsingDataGives ==
  ASSUME GivesInv, Parsing, NEW m, m = rx.buf[1], m.seq = seqExpect, m.type = "DATA"
  PROVE  Ordered' /\ Calling' /\ Answering' /\ Maps
<1>0. /\ SockTypeOK /\ Ordered /\ Calling /\ Answering
      /\ caller \in Callers /\ Parse(CbOf[caller])
      /\ rx.at = "parse" /\ rx.buf # <<>>
      /\ got \in Seq(Items) /\ truth.items \in Seq(Items)
      /\ UNCHANGED <<pc, caller, truth, lost>>
  BY DEF GivesInv, AnswerInv, SeqInv, TypeOK, Parsing, Parse
<1>1. Ordered'
  BY <1>0, CallersArePlain, PlainParseKeepsOrdered
<1>2. /\ ~lost /\ pc = "waiting" /\ seqNext \in Nat \ {0} /\ seqExpect = seqNext - 1
      /\ Shows = "none" /\ rx.ret = "none"
      /\ Flow(seqNext - 1, truth.items, Len(got)) /\ Told
      /\ \A i \in 1..Len(got) : got[i] = truth.items[i]
      /\ dump.seq # 0 => truth.outcome = "ok"
  BY ParsingAnswer
<1>3. PICK cb : cb = CbOf[caller]
  OBVIOUS
<1>4. /\ UNCHANGED <<seqNext, queue, dump>> /\ seqExpect' = seqExpect
      /\ Head(rx.buf) = m /\ m.item \in Items
      /\ \A slot \in Slots :
           Handles(cb, slot) <=> slot \in DOMAIN cb /\ SlotOf[m.type] = slot
  <2>1. Plainly(cb) /\ Parse(cb)
    BY <1>0, <1>3, CallersArePlain
  <2>2. UNCHANGED <<seqNext, queue, dump>> /\ seqExpect' = seqExpect
    BY <1>0, <2>1, ParseFacts
  <2>3. Head(rx.buf) = m /\ m.item \in Items
    BY <1>0, <2>1, ParseFacts
  <2>4. \A slot \in Slots :
          Handles(cb, slot) <=> slot \in DOMAIN cb /\ SlotOf[m.type] = slot
    BY <1>0, <2>1, ParseFacts
  <2> QED
    BY <2>2, <2>3, <2>4
<1>5. rx'.at = "parse" /\ rx'.buf = Tail(rx.buf) /\ rx'.ret = rx.ret
  <2>1. \/ Dispatched(cb, m) = "FAIL"
        \/ Dispatched(cb, m) = "STOP"
        \/ rx'.at = "parse" /\ rx'.buf = Tail(rx.buf) /\ rx'.ret = rx.ret
    BY <1>0, <1>3, CallersArePlain, ParseFacts
  <2>2. Dispatched(cb, m) \in {"OK", "SKIP"}
    BY <1>0, <1>3, CallbacksOfCallers DEF Dispatched, CallOr, SlotOf, CodeOf
  <2> QED
    BY <2>1, <2>2
<1>6. PICK s : s = seqNext - 1
  OBVIOUS
<1>7. PICK items \in Seq(Items) : items = truth.items
  BY <1>0
<1>8. PICK g \in Nat : g = Len(got)
  BY <1>0
<1>9. g + 1 \in 1..Len(items) /\ m.item = items[g + 1] /\ Flow(s, items, g + 1)'
  <2>1. Flow(s, items, g)
    BY <1>2, <1>6, <1>7, <1>8
  <2> QED
    BY <1>0, <1>2, <1>4, <1>5, <1>6, <2>1, FlowTakes
<1>10. "VALID" \in DOMAIN cb
  <2>1. items # <<>>
    BY <1>9
  <2> QED
    BY <1>0, <1>2, <1>3, <1>7, <2>1 DEF Answering
<1>11. got' = Append(got, m.item) /\ answer' = answer
  <2>1. Handles(cb, "VALID") /\ ~Handles(cb, "ACK") /\ ~Handles(cb, "FINISH")
        /\ ~Handles(cb, "ERR")
    BY <1>4, <1>10 DEF Slots, SlotOf
  <2> QED
    BY <1>3, <1>4, <2>1 DEF Parsing
<1>12. /\ Len(got') = g + 1 /\ got'[g + 1] = m.item
       /\ \A i \in 1..g : got'[i] = got[i]
  BY <1>0, <1>4, <1>8, <1>11, AppendProperties
<1>13. \A i \in 1..Len(got') : got'[i] = truth'.items[i]
  <2> SUFFICES ASSUME NEW i \in 1..Len(got') PROVE got'[i] = items[i]
    BY <1>0, <1>7
  <2>1. i \in 1..g \/ i = g + 1
    BY <1>12
  <2> QED
    BY <1>2, <1>7, <1>8, <1>9, <1>12, <2>1
<1>14. Flow(seqNext - 1, truth.items, Len(got))'
  <2>1. PICK h : h = g + 1
    OBVIOUS
  <2>2. Flow(s, items, h)'
    BY <1>9, <2>1
  <2>3. s = seqNext' - 1 /\ items = truth'.items /\ h = Len(got')
    BY <1>0, <1>4, <1>6, <1>7, <1>12, <2>1
  <2> QED
    BY <2>2, <2>3, FlowIs
<1>15. Told'
  BY <1>0, <1>2, <1>4, <1>5, ParseLine, ToldInLine
<1>16. Calling'
  BY <1>0, <1>2, <1>5 DEF Calling
<1>17. Answering'
  <2>1. seqExpect' # seqNext'
    BY <1>2, <1>4
  <2>2. "VALID" \in DOMAIN CbOf[caller']
    BY <1>0, <1>3, <1>10
  <2>3. dump'.seq # 0 => truth'.outcome = "ok"
    BY <1>0, <1>2, <1>4
  <2> QED
    BY <1>13, <1>14, <1>15, <2>1, <2>2, <2>3 DEF Answering
<1>18. Abstract!Receive
  <2>1. Shows' = Shows
    BY <1>0, <1>5, <1>11 DEF Shows
  <2>2. Len(got) < Len(truth.items) /\ got' = Append(got, truth.items[Len(got) + 1])
    BY <1>7, <1>8, <1>9, <1>11
  <2> QED
    BY <1>0, <1>2, <2>1, <2>2 DEF Abstract!Receive, Shows
<1> QED
  BY <1>1, <1>16, <1>17, <1>18 DEF Maps, Abstract!Next

LEMMA ParsingFinalGives ==
  ASSUME GivesInv, Parsing, NEW m, m = rx.buf[1], m.seq = seqExpect, m.type # "DATA"
  PROVE  Ordered' /\ Calling' /\ Answering' /\ Maps
<1>0. /\ SockTypeOK /\ Ordered /\ Calling /\ Answering
      /\ caller \in Callers /\ Parse(CbOf[caller])
      /\ rx.at = "parse" /\ rx.buf # <<>>
      /\ got \in Seq(Items) /\ truth.items \in Seq(Items)
      /\ truth.outcome \in {"ok", "fail"}
      /\ UNCHANGED <<pc, caller, truth, lost>>
  BY DEF GivesInv, AnswerInv, SeqInv, TypeOK, Parsing, Parse
<1>1. Ordered'
  BY <1>0, CallersArePlain, PlainParseKeepsOrdered
<1>2. /\ ~lost /\ pc = "waiting" /\ seqNext \in Nat \ {0} /\ seqExpect = seqNext - 1
      /\ Shows = "none" /\ rx.ret = "none" /\ InLine(m)
      /\ m.type \in {"DONE", "ACK", "ERR"}
      /\ Flow(seqNext - 1, truth.items, Len(got)) /\ Told
      /\ \A i \in 1..Len(got) : got[i] = truth.items[i]
      /\ caller \in Loops => answer = "none"
  BY ParsingAnswer
<1>3. m.type = "ERR" <=> truth.outcome = "fail"
  BY <1>2, ToldInLine
<1>4. PICK cb : cb = CbOf[caller]
  OBVIOUS
<1>5. /\ UNCHANGED <<seqNext, queue, dump>> /\ seqExpect' = seqExpect + 1
      /\ \A slot \in Slots :
           Handles(cb, slot) <=> slot \in DOMAIN cb /\ SlotOf[m.type] = slot
      /\ \/ Dispatched(cb, m) = "FAIL" /\ rx' = Returned("fail")
         \/ Dispatched(cb, m) = "STOP" /\ rx' = Returned("ok")
         \/ /\ Dispatched(cb, m) \notin {"FAIL", "STOP"}
            /\ rx'.at = "parse" /\ rx'.ret = rx.ret
  <2>1. Plainly(cb) /\ Parse(cb)
    BY <1>0, <1>4, CallersArePlain
  <2>2. UNCHANGED <<seqNext, queue, dump>> /\ seqExpect' = seqExpect + 1
    BY <1>0, <2>1, ParseFacts
  <2>3. \A slot \in Slots :
          Handles(cb, slot) <=> slot \in DOMAIN cb /\ SlotOf[m.type] = slot
    BY <1>0, <2>1, ParseFacts
  <2>4. \/ Dispatched(cb, m) = "FAIL" /\ rx' = Returned("fail")
        \/ Dispatched(cb, m) = "STOP" /\ rx' = Returned("ok")
        \/ /\ Dispatched(cb, m) \notin {"FAIL", "STOP"}
           /\ rx'.at = "parse" /\ rx'.ret = rx.ret
    BY <1>0, <2>1, ParseFacts
  <2> QED
    BY <2>2, <2>3, <2>4
<1>6. /\ Returned("fail").at = "out" /\ Returned("fail").ret = "fail"
      /\ Returned("ok").at = "out" /\ Returned("ok").ret = "ok"
  BY ReturnedFields
<1>7. got = truth.items
  <2>1. PICK s : s = seqNext - 1
    OBVIOUS
  <2>2. PICK items \in Seq(Items) : items = truth.items
    BY <1>0
  <2>3. PICK g : g = Len(got)
    OBVIOUS
  <2>4. Flow(s, items, g)
    BY <1>2, <2>1, <2>2, <2>3
  <2>5. g = Len(items)
    BY <1>0, <1>2, <1>5, <2>1, <2>4, FlowTakes
  <2> QED
    BY <1>0, <1>2, <2>2, <2>3, <2>5, SeqEqual
<1>8. got' = got
  <2>1. ~Handles(cb, "VALID")
    BY <1>2, <1>5 DEF Slots, SlotOf
  <2> QED
    BY <1>4, <2>1 DEF Parsing
<1>9. Calling'
  BY <1>0, <1>2, <1>5, <1>6 DEF Calling
<1>10. seqExpect' = seqNext'
  BY <1>2, <1>5
<1>11. "VALID" \notin DOMAIN CbOf[caller'] => truth'.items = <<>>
  BY <1>0, <1>2 DEF Answering
<1>12. CASE caller \in Loops
  <2>1. Answering'
    BY <1>0, <1>10, <1>11, <1>12 DEF Answering
  <2>2. \/ answer' = answer
        \/ answer' = "ok" /\ m.type \in {"ACK", "DONE"}
        \/ answer' = "fail" /\ m.type = "ERR"
    <3>1. /\ Handles(cb, "ACK") => m.type = "ACK"
          /\ Handles(cb, "FINISH") => m.type = "DONE"
          /\ Handles(cb, "ERR") => m.type = "ERR"
      BY <1>2, <1>5 DEF Slots, SlotOf
    <3> QED
      BY <1>4, <1>12, <3>1 DEF Parsing
  <2>3. CASE answer' = answer
    <3>1. Shows' = Shows
      BY <1>0, <1>12, <2>3 DEF Shows
    <3> QED
      BY <1>0, <1>1, <1>8, <1>9, <2>1, <3>1, Same DEF Maps
  <2>4. CASE answer' = truth.outcome
    <3>1. Shows' = truth.outcome
      BY <1>0, <1>12, <2>4 DEF Shows
    <3> QED
      BY <1>0, <1>1, <1>2, <1>7, <1>8, <1>9, <2>1, <3>1, Concludes DEF Maps
  <2> QED
    BY <1>0, <1>3, <2>2, <2>3, <2>4
<1>13. CASE caller \notin Loops
  <2>1. Dispatched(cb, m) = "FAIL" <=> truth.outcome = "fail"
    BY <1>0, <1>2, <1>3, <1>4, <1>13, OnceCallers
  <2>2. Answering'
    BY <1>0, <1>5, <1>6, <1>7, <1>8, <1>10, <1>11, <2>1 DEF Answering
  <2>3. CASE Dispatched(cb, m) \in {"FAIL", "STOP"}
    <3>1. rx'.ret = truth.outcome
      BY <1>0, <1>5, <1>6, <2>1, <2>3
    <3>2. Shows' = truth.outcome
      BY <1>0, <1>2, <1>13, <3>1 DEF Shows
    <3> QED
      BY <1>0, <1>1, <1>2, <1>7, <1>8, <1>9, <2>2, <3>2, Concludes DEF Maps
  <2>4. CASE Dispatched(cb, m) \notin {"FAIL", "STOP"}
    <3>1. rx'.ret = rx.ret
      BY <1>5, <2>4
    <3>2. Shows' = Shows
      BY <1>0, <1>2, <1>13, <3>1 DEF Shows
    <3> QED
      BY <1>0, <1>1, <1>8, <1>9, <2>2, <3>2, Same DEF Maps
  <2> QED
    BY <2>3, <2>4
<1> QED
  BY <1>12, <1>13

LEMMA AgainGives ==
  ASSUME GivesInv, Again
  PROVE  Ordered' /\ Calling' /\ Answering' /\ Maps
<1>0. /\ SockTypeOK /\ Ordered /\ Calling /\ Answering
      /\ pc = "waiting" /\ caller \in Loops /\ rx.at = "out" /\ rx' = Called
      /\ UNCHANGED <<seqNext, seqExpect, queue, dump>>
      /\ UNCHANGED <<pc, caller, answer, got, truth, lost>>
  BY DEF GivesInv, AnswerInv, SeqInv, TypeOK, Again, Call
<1>1. rx'.at = "read" /\ rx'.buf = <<>> /\ rx'.ret = "none" /\ rx.buf = <<>>
  BY <1>0 DEF Called, Ordered
<1>2. Ordered' /\ Calling'
  BY <1>0, <1>1, IdleKeepsOrdered DEF Calling
<1>3. ASSUME ~lost, seqExpect # seqNext
      PROVE  Flow(seqNext - 1, truth.items, Len(got))' /\ Told'
  <2>1. Flow(seqNext - 1, truth.items, Len(got)) /\ Told
    BY <1>0, <1>3 DEF Answering
  <2>2. PICK s : s = seqNext - 1
    OBVIOUS
  <2>3. PICK items : items = truth.items
    OBVIOUS
  <2>4. PICK g : g = Len(got)
    OBVIOUS
  <2>5. Flow(s, items, g)'
    BY <1>0, <1>1, <2>1, <2>2, <2>3, <2>4, FlowStays
  <2>6. Told'
    BY <1>0, <1>1, <2>1, ParseLine, ToldInLine
  <2> QED
    BY <1>0, <2>2, <2>3, <2>4, <2>5, <2>6, FlowIs
<1>4. Answering'
  BY <1>0, <1>3 DEF Answering
<1>5. Shows' = Shows
  BY <1>0 DEF Shows
<1> QED
  BY <1>0, <1>2, <1>4, <1>5, Same DEF Maps

LEMMA DoneGives ==
  ASSUME GivesInv, Done
  PROVE  Ordered' /\ Calling' /\ Answering' /\ Maps
<1>0. /\ SockTypeOK /\ Ordered /\ Calling
      /\ pc = "waiting" /\ pc' = "idle" /\ rx.at = "out" /\ rx' = NotCalled
      /\ caller \in Loops => answer # "none"
      /\ answer' = IF caller \in Loops THEN answer ELSE rx.ret
      /\ UNCHANGED <<seqNext, seqExpect, queue, dump, caller, got, truth, lost>>
  BY DEF GivesInv, AnswerInv, SeqInv, TypeOK, Done
<1>1. rx'.at = "out" /\ rx'.buf = <<>>
  BY <1>0 DEF NotCalled, Called
<1>2. Ordered' /\ Calling' /\ Answering'
  BY <1>0, <1>1, IdleKeepsOrdered DEF Calling, Answering
<1>3. rx.ret # "none"
  BY <1>0 DEF Calling
<1>4. Shows # "none" /\ Shows' = Shows
  BY <1>0, <1>3 DEF Shows
<1>5. Abstract!Return
  BY <1>0, <1>4 DEF Abstract!Return, Shows
<1> QED
  BY <1>2, <1>5 DEF Maps, Abstract!Next

LEMMA AskGives ==
  ASSUME Fits, Takes, GivesInv, NEW c \in Callers, Ask(c)
  PROVE  Ordered' /\ Calling' /\ Answering' /\ Maps
<1>0. /\ SockTypeOK /\ Ordered /\ pc = "idle" /\ pc' = "waiting" /\ caller' = c
      /\ answer' = "none" /\ got' = <<>> /\ TakeSeq /\ rx' = Called
      /\ UNCHANGED <<seqExpect, lost>>
  BY DEF GivesInv, AnswerInv, SeqInv, TypeOK, Ask
<1>1. rx'.at = "read" /\ rx'.ret = "none"
  BY <1>0 DEF Called
<1>2. /\ Answering' /\ truth'.outcome \in {"ok", "fail"}
      /\ truth'.items \in Seq(Items)
      /\ truth'.outcome = "fail" => truth'.items = <<>>
  BY AskAnswers
<1>3. \/ Refuse(seqNext)
      \/ \E items \in Seq(Items) : Answer(seqNext, items) \/ StartDump(seqNext, items)
  <2>1. <<>> \in Seq(Items) /\ \A item \in Items : <<item>> \in Seq(Items)
    OBVIOUS
  <2>2. \A items \in Replies : items \in Seq(Items)
    BY RepliesAssumption
  <2>3. PICK kind \in Kinds[c] : Decide(kind)
    BY DEF Ask
  <2> QED
    BY <2>1, <2>2, <2>3 DEF Decide
<1>4. Ordered'
  BY <1>0, <1>3, SendKeepsOrdered
<1>5. Calling'
  BY <1>0, <1>1 DEF Calling
<1>6. Shows' = "none"
  BY <1>0, <1>1 DEF Shows
<1>7. Abstract!Ask
  BY <1>0, <1>2, <1>6 DEF Abstract!Ask, Abstract!Outcomes, Shows
<1> QED
  BY <1>2, <1>4, <1>5, <1>7 DEF Maps, Abstract!Next

LEMMA AskFailsGives ==
  ASSUME GivesInv, NEW c \in Callers, AskFails(c)
  PROVE  Ordered' /\ Calling' /\ Answering' /\ Maps
<1>0. /\ SockTypeOK /\ Ordered /\ Calling /\ pc = "idle"
      /\ answer' = "fail" /\ got' = <<>> /\ lost' = TRUE /\ seqNext' = seqNext + 1
      /\ UNCHANGED <<seqExpect, queue, overrun, dump, rx>> /\ UNCHANGED <<pc, truth>>
  BY DEF GivesInv, AnswerInv, SeqInv, TypeOK, AskFails, SendFailed, TakeSeq
<1>1. Ordered'
  <2>1. PICK ds : ds = <<>>
    OBVIOUS
  <2>2. PICK n : n = 0
    OBVIOUS
  <2>3. PICK s : s = seqNext
    OBVIOUS
  <2>4. Len(ds) \in Nat /\ n \in 0..Len(ds) /\ Len(queue) \in Nat
    BY <1>0, <2>1, <2>2, LinesAreDatagrams
  <2>5. Fresh(ds, s)
    BY <2>1 DEF Fresh
  <2>6. Grows(ds, n)
    BY <1>0, <2>2, <2>4 DEF Grows
  <2>7. s \in {0, seqNext} /\ seqNext' = (IF s = 0 THEN seqNext ELSE seqNext + 1)
    BY <1>0, <2>3 DEF SockTypeOK
  <2>8. rx'.buf = rx.buf /\ (rx'.at # "parse" => rx'.buf = <<>>)
    BY <1>0 DEF Ordered
  <2> QED
    BY <1>0, <2>4, <2>5, <2>6, <2>7, <2>8, GrowthKeepsOrdered
<1>2. Calling'
  BY <1>0 DEF Calling
<1>3. Answering'
  BY <1>0 DEF Answering
<1>4. Shows' = "fail"
  BY <1>0 DEF Shows
<1>5. Abstract!NotSent
  BY <1>0, <1>4 DEF Abstract!NotSent, Shows
<1> QED
  BY <1>1, <1>2, <1>3, <1>5 DEF Maps, Abstract!Next

LEMMA InitGives == Init => GivesInv /\ Abstract!Init
<1> SUFFICES ASSUME Init PROVE GivesInv /\ Abstract!Init
  OBVIOUS
<1>1. /\ seqNext = 1 /\ seqExpect = 1 /\ queue = <<>> /\ dump = NoDump
      /\ rx = NotCalled /\ rx.at = "out" /\ rx.buf = <<>>
      /\ pc = "idle" /\ answer = "fail" /\ got = <<>> /\ lost = FALSE
      /\ truth = [outcome |-> "fail", items |-> <<>>]
  BY DEF Init, SockInit, NotCalled, Called
<1>2. Len(queue) = 0 /\ Places = {0} /\ Line(0) = <<>> /\ dump.seq = 0
  BY <1>1 DEF Places, Line, NoDump
<1>3. Ordered
  BY <1>1, <1>2, EmptyLine DEF Ordered
<1>4. Calling /\ Answering
  BY <1>1 DEF Calling, Answering
<1>5. Shows = "fail"
  BY <1>1 DEF Shows
<1>6. Abstract!Init
  <2>1. truth.outcome = "fail" /\ truth.items = <<>>
    BY <1>1
  <2> QED
    BY <1>1, <1>5, <2>1 DEF Abstract!Init, Shows
<1> QED
  BY <1>3, <1>4, <1>6, InitAnswerInv DEF GivesInv

LEMMA NextGives ==
  ASSUME Fits, Takes
  PROVE  GivesInv /\ [Next]_vars => GivesInv' /\ [Abstract!Next]_(Abstract!vars)
<1> SUFFICES ASSUME GivesInv, [Next]_vars
             PROVE  Ordered' /\ Calling' /\ Answering' /\ Maps
  BY NextKeepsAnswerInv DEF GivesInv, Maps
<1>1. ASSUME NEW c \in Callers, Ask(c) PROVE Ordered' /\ Calling' /\ Answering' /\ Maps
  BY <1>1, AskGives
<1>2. ASSUME NEW c \in Callers, AskFails(c)
      PROVE  Ordered' /\ Calling' /\ Answering' /\ Maps
  BY <1>2, AskFailsGives
<1>3. CASE Reading
  BY <1>3, ReadingGives
<1>4. CASE Parsing
  <2>1. PICK m : m = rx.buf[1]
    OBVIOUS
  <2>2. CASE m.seq # seqExpect
    BY <1>4, <2>1, <2>2, ParsingStrayGives
  <2>3. CASE m.seq = seqExpect /\ m.type = "DATA"
    BY <1>4, <2>1, <2>3, ParsingDataGives
  <2>4. CASE m.seq = seqExpect /\ m.type # "DATA"
    BY <1>4, <2>1, <2>4, ParsingFinalGives
  <2> QED
    BY <2>2, <2>3, <2>4
<1>5. CASE Again
  BY <1>5, AgainGives
<1>6. CASE Done
  BY <1>6, DoneGives
<1>7. CASE UNCHANGED vars
  <2>1. /\ SockTypeOK /\ Ordered /\ Calling /\ Answering
        /\ UNCHANGED <<seqNext, seqExpect, queue, overrun, dump, rx>>
        /\ UNCHANGED <<pc, caller, answer, got, truth, lost>>
    BY <1>7 DEF vars, sockVars, GivesInv, AnswerInv, SeqInv, TypeOK
  <2>2. \A i : Line(i)' = Line(i)
    BY <2>1 DEF Line
  <2>3. Places' = Places
    BY <2>1 DEF Places
  <2>4. Ordered'
    BY <2>1, <2>2, <2>3 DEF Ordered, Uniform, Current, Closes
  <2>5. Calling'
    BY <2>1 DEF Calling
  <2>6. Answering'
    <3>1. Told' <=> Told
      BY <2>1, <2>2, <2>3 DEF Told
    <3>2. Flow(seqNext - 1, truth.items, Len(got))'
            <=> Flow(seqNext - 1, truth.items, Len(got))
      BY <2>1, <2>2, <2>3 DEF Flow
    <3> QED
      BY <2>1, <3>1, <3>2 DEF Answering
  <2>7. Shows' = Shows
    BY <2>1 DEF Shows
  <2> QED
    BY <2>1, <2>4, <2>5, <2>6, <2>7, Same DEF Maps
<1> QED
  BY <1>1, <1>2, <1>3, <1>4, <1>5, <1>6, <1>7 DEF Next, Receive

\* Every request gives its caller the items the kernel answers with, in
\* order, and the kernel's outcome, once they are all there; after a failed
\* send it fails: the safety part of Implements.
THEOREM RequestsRefine ==
  ASSUME Fits, Takes
  PROVE  Spec => Abstract!Init /\ [][Abstract!Next]_(Abstract!vars)
<1>1. Init => GivesInv /\ Abstract!Init
  BY InitGives
<1>2. GivesInv /\ [Next]_vars => GivesInv' /\ [Abstract!Next]_(Abstract!vars)
  BY NextGives
<1> QED
  BY <1>1, <1>2, PTL DEF Spec
=============================================================================
