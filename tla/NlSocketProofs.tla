--------------------------- MODULE NlSocketProofs ---------------------------
(* Lemmas about the operations of NlSocket, for every receive buffer size:
   each keeps the types of the socket's variables. *)
EXTENDS NlSocket, SequenceTheorems, TLAPS

Dumps == [seq : Nat, rest : Seq(Items)]

LEMMA MsgIsMessage ==
  ASSUME NEW type \in Types, NEW seq \in Nat, NEW multi \in BOOLEAN,
         NEW item \in Items \union {NoItem}
  PROVE  Msg(type, seq, multi, item) \in Messages
  BY DEF Msg, Messages

LEMMA SingletonSeq ==
  ASSUME NEW S, NEW x \in S
  PROVE  <<x>> \in Seq(S) /\ Len(<<x>>) = 1 /\ <<x>>[1] = x /\ <<x>> # <<>>
  OBVIOUS

\* A datagram with one message, and a queue with one datagram.
LEMMA Singletons ==
  ASSUME NEW m \in Messages
  PROVE  <<m>> \in Datagrams /\ << <<m>> >> \in Seq(Datagrams)
<1>1. <<m>> \in Datagrams
  BY SingletonSeq DEF Datagrams
<1> QED
  BY <1>1, SingletonSeq

LEMMA NoDumpIsDump == NoDump \in Dumps
  BY DEF NoDump, Dumps

\* What the kernel sends next of a dump: a datagram with data, or NLMSG_DONE.
LEMMA BatchesAreDatagrams ==
  ASSUME NEW d \in Dumps, NEW b \in Batches(d)
  PROVE  /\ b.datagram \in Datagrams
         /\ b.datagram # <<>>
         /\ b.dump \in Dumps
         /\ \/ b.dump = NoDump /\ b.datagram = <<Msg("DONE", d.seq, TRUE, NoItem)>>
            \/ /\ b.dump.seq = d.seq
               /\ \A i \in 1..Len(b.datagram) :
                    \E item \in Items :
                      b.datagram[i] = Msg("DATA", d.seq, TRUE, item)
<1>0. d.seq \in Nat /\ d.rest \in Seq(Items)
  BY DEF Dumps
<1>1. CASE d.rest = <<>>
  <2>1. b.datagram = <<Msg("DONE", d.seq, TRUE, NoItem)>> /\ b.dump = NoDump
    <3>1. Batches(d) = {[datagram |-> <<Msg("DONE", d.seq, TRUE, NoItem)>>,
                         dump |-> NoDump]}
      BY <1>1 DEF Batches
    <3>2. b = [datagram |-> <<Msg("DONE", d.seq, TRUE, NoItem)>>,
               dump |-> NoDump]
      BY <3>1
    <3> QED
      BY <3>2
  <2>2. Msg("DONE", d.seq, TRUE, NoItem) \in Messages
    BY <1>0, MsgIsMessage DEF Types
  <2> QED
    BY <2>1, <2>2, Singletons, SingletonSeq, NoDumpIsDump
<1>2. CASE d.rest # <<>>
  <2>1. PICK k \in 1..Len(d.rest) :
          b = [datagram |-> [i \in 1..k |-> Msg("DATA", d.seq, TRUE, d.rest[i])],
               dump |-> [d EXCEPT !.rest = SubSeq(d.rest, k + 1, Len(d.rest))]]
    BY <1>2 DEF Batches
  <2>2. Len(d.rest) \in Nat /\ k \in Nat /\ k >= 1
    BY <1>0
  <2>3. \A i \in 1..k : d.rest[i] \in Items
    BY <1>0, <2>2, ElementOfSeq
  <2>4. \A i \in 1..k : Msg("DATA", d.seq, TRUE, d.rest[i]) \in Messages
    BY <1>0, <2>3, MsgIsMessage DEF Types
  <2>5. b.datagram = [i \in 1..k |-> Msg("DATA", d.seq, TRUE, d.rest[i])]
    BY <2>1
  <2>6. b.datagram \in Seq(Messages) /\ Len(b.datagram) = k
    <3> DEFINE F(i) == Msg("DATA", d.seq, TRUE, d.rest[i])
    <3>1. \A i \in 1..k : F(i) \in Messages
      BY <2>4
    <3> HIDE DEF F
    <3>2. /\ [i \in 1..k |-> F(i)] \in Seq(Messages)
          /\ Len([i \in 1..k |-> F(i)]) = k
      BY <2>2, <3>1
    <3> QED
      BY <2>5, <3>2 DEF F
  <2>7. SubSeq(d.rest, k + 1, Len(d.rest)) \in Seq(Items)
    BY <1>0, <2>2, SubSeqProperties, ElementOfSeq
  <2>8. b.dump \in Dumps /\ b.dump.seq = d.seq
    BY <1>0, <2>1, <2>7 DEF Dumps
  <2>9. \A i \in 1..Len(b.datagram) :
          \E item \in Items : b.datagram[i] = Msg("DATA", d.seq, TRUE, item)
    BY <2>3, <2>5, <2>6
  <2>10. b.datagram # <<>>
    BY <2>2, <2>6
  <2> QED
    BY <2>6, <2>8, <2>9, <2>10 DEF Datagrams
<1> QED
  BY <1>1, <1>2

-----------------------------------------------------------------------------
\* The queue keeps its type, and holds nothing but what it held and what was
\* sent.
LEMMA EnqueueKeepsType ==
  ASSUME SockTypeOK, NEW ds \in Seq(Datagrams), Enqueue(ds)
  PROVE  /\ queue' \in Seq(Datagrams)
         /\ overrun' \in BOOLEAN
         /\ \A i \in 1..Len(queue') :
              \/ \E j \in 1..Len(queue) : queue'[i] = queue[j]
              \/ \E j \in 1..Len(ds) : queue'[i] = ds[j]
<1> DEFINE room == QueueLimit - Len(queue)
           fit == IF Len(ds) <= room THEN Len(ds)
                  ELSE IF room > 0 THEN room ELSE 0
           sent == SubSeq(ds, 1, fit)
<1>1. queue \in Seq(Datagrams) /\ overrun \in BOOLEAN
  BY DEF SockTypeOK
<1>2. fit \in 0..Len(ds)
  BY <1>1, QueueLimitAssumption
<1>3. sent \in Seq(Datagrams) /\ Len(sent) = fit
      /\ \A i \in 1..fit : sent[i] = ds[i]
  <2>1. \A i \in 1..fit : ds[i] \in Datagrams
    BY <1>2, ElementOfSeq
  <2>2. fit \in Int /\ 1 \in Int
    BY <1>2
  <2> HIDE DEF fit
  <2>3. /\ SubSeq(ds, 1, fit) \in Seq(Datagrams)
        /\ Len(SubSeq(ds, 1, fit)) = IF 1 <= fit THEN fit - 1 + 1 ELSE 0
        /\ \A i \in 1..fit-1+1 : SubSeq(ds, 1, fit)[i] = ds[1 + i - 1]
    BY <2>1, <2>2, SubSeqProperties
  <2> QED
    BY <1>2, <2>2, <2>3
<1>4. queue' = queue \o sent /\ overrun' \in BOOLEAN
  BY DEF Enqueue
<1> HIDE DEF sent, fit, room
<1>5. /\ queue \o sent \in Seq(Datagrams)
      /\ Len(queue \o sent) = Len(queue) + Len(sent)
      /\ \A i \in 1..Len(queue) + Len(sent) :
           (queue \o sent)[i] = IF i <= Len(queue) THEN queue[i]
                                ELSE sent[i - Len(queue)]
  BY <1>1, <1>3, ConcatProperties
<1>6. ASSUME NEW i \in 1..Len(queue')
      PROVE  \/ \E j \in 1..Len(queue) : queue'[i] = queue[j]
             \/ \E j \in 1..Len(ds) : queue'[i] = ds[j]
  <2>1. Len(queue) \in Nat /\ Len(ds) \in Nat
    BY <1>1
  <2>2. CASE i <= Len(queue)
    BY <1>4, <1>5, <2>1, <2>2
  <2>3. CASE ~(i <= Len(queue))
    <3>1. i - Len(queue) \in 1..fit
      BY <1>2, <1>3, <1>4, <1>5, <2>1, <2>3
    <3> QED
      BY <1>2, <1>3, <1>4, <1>5, <2>1, <2>3, <3>1
  <2> QED
    BY <2>2, <2>3
<1> QED
  BY <1>4, <1>5, <1>6

\* What fits into an empty queue is all there.
LEMMA EnqueueFits ==
  ASSUME SockTypeOK, NEW ds \in Seq(Datagrams), Enqueue(ds),
         queue = <<>>, Len(ds) <= QueueLimit
  PROVE  queue' = ds /\ overrun' = overrun
<1>1. Len(ds) \in Nat /\ overrun \in BOOLEAN
  BY DEF SockTypeOK
<1>2. QueueLimit - Len(queue) = QueueLimit
  BY QueueLimitAssumption
<1>3. queue' = <<>> \o SubSeq(ds, 1, Len(ds)) /\ overrun' = overrun
  BY <1>1, <1>2, QueueLimitAssumption DEF Enqueue
<1>4. SubSeq(ds, 1, Len(ds)) = ds
  BY SubSeqFull
<1> QED
  BY <1>3, <1>4, ConcatEmptySeq

-----------------------------------------------------------------------------
(* The operations keep the types.                                          *)

LEMMA RefuseKeepsType ==
  ASSUME SockTypeOK, NEW s \in Nat, Refuse(s)
  PROVE  queue' \in Seq(Datagrams) /\ overrun' \in BOOLEAN /\ dump' \in Dumps
<1>1. << <<Msg("ERR", s, FALSE, NoItem)>> >> \in Seq(Datagrams)
  BY MsgIsMessage, Singletons DEF Types
<1> QED
  BY <1>1, EnqueueKeepsType DEF Refuse, SockTypeOK, Dumps

\* The datagrams of an answer: one for each item, then the acknowledgement.
AnswerTo(s, items) ==
  [i \in 1..Len(items) |-> <<Msg("DATA", s, FALSE, items[i])>>]
  \o << <<Msg("ACK", s, FALSE, NoItem)>> >>

LEMMA AnswerIsDatagrams ==
  ASSUME NEW s \in Nat, NEW items \in Seq(Items)
  PROVE  AnswerTo(s, items) \in Seq(Datagrams)
<1>1. \A i \in 1..Len(items) : <<Msg("DATA", s, FALSE, items[i])>> \in Datagrams
  BY MsgIsMessage, Singletons, ElementOfSeq DEF Types
<1>2. [i \in 1..Len(items) |-> <<Msg("DATA", s, FALSE, items[i])>>]
        \in Seq(Datagrams)
  <2> DEFINE F(i) == <<Msg("DATA", s, FALSE, items[i])>>
  <2>1. \A i \in 1..Len(items) : F(i) \in Datagrams
    BY <1>1
  <2> HIDE DEF F
  <2>2. [i \in 1..Len(items) |-> F(i)] \in Seq(Datagrams)
    BY <2>1
  <2> QED
    BY <2>2 DEF F
<1>3. << <<Msg("ACK", s, FALSE, NoItem)>> >> \in Seq(Datagrams)
  BY MsgIsMessage, Singletons DEF Types
<1> QED
  BY <1>2, <1>3, ConcatProperties DEF AnswerTo

\* The datagrams of an answer, one by one.
LEMMA AnswerToElements ==
  ASSUME NEW s \in Nat, NEW items \in Seq(Items)
  PROVE  /\ Len(AnswerTo(s, items)) = Len(items) + 1
         /\ \A i \in 1..Len(items) :
              AnswerTo(s, items)[i] = <<Msg("DATA", s, FALSE, items[i])>>
         /\ AnswerTo(s, items)[Len(items) + 1]
              = <<Msg("ACK", s, FALSE, NoItem)>>
<1> DEFINE F(i) == <<Msg("DATA", s, FALSE, items[i])>>
           data == [i \in 1..Len(items) |-> F(i)]
           last == <<Msg("ACK", s, FALSE, NoItem)>>
<1>1. AnswerTo(s, items) = data \o <<last>>
  BY DEF AnswerTo
<1>2. \A i \in 1..Len(items) : F(i) \in Datagrams
  BY MsgIsMessage, Singletons, ElementOfSeq DEF Types
<1>3. last \in Datagrams
  BY MsgIsMessage, Singletons DEF Types
<1> HIDE DEF F, last
<1>4. data \in Seq(Datagrams) /\ Len(data) = Len(items)
      /\ \A i \in 1..Len(items) : data[i] = F(i)
  BY <1>2
<1>5. <<last>> \in Seq(Datagrams) /\ Len(<<last>>) = 1 /\ <<last>>[1] = last
  BY <1>3, SingletonSeq
<1> HIDE DEF data
<1>6. /\ Len(data \o <<last>>) = Len(items) + 1
      /\ \A i \in 1..Len(items) + 1 :
           (data \o <<last>>)[i] = IF i <= Len(items) THEN data[i]
                                   ELSE <<last>>[i - Len(items)]
  BY <1>4, <1>5, ConcatProperties
<1>7. Len(items) \in Nat
  OBVIOUS
<1>8. \A i \in 1..Len(items) : i \in 1..Len(items) + 1 /\ i <= Len(items)
  BY <1>7
<1>9. \A i \in 1..Len(items) : AnswerTo(s, items)[i] = F(i)
  BY <1>1, <1>4, <1>6, <1>8
<1>10. AnswerTo(s, items)[Len(items) + 1] = last
  <2>1. Len(items) + 1 \in 1..Len(items) + 1 /\ ~(Len(items) + 1 <= Len(items))
        /\ Len(items) + 1 - Len(items) = 1
    BY <1>7
  <2> QED
    BY <1>1, <1>5, <1>6, <2>1
<1>11. Len(AnswerTo(s, items)) = Len(items) + 1
  BY <1>1, <1>6
<1> QED
  BY <1>9, <1>10, <1>11 DEF F, last

LEMMA AnswerKeepsType ==
  ASSUME SockTypeOK, NEW s \in Nat, NEW items \in Seq(Items), Answer(s, items)
  PROVE  queue' \in Seq(Datagrams) /\ overrun' \in BOOLEAN /\ dump' \in Dumps
<1>1. Enqueue(AnswerTo(s, items)) /\ UNCHANGED dump
  BY DEF Answer, AnswerTo
<1> QED
  BY <1>1, AnswerIsDatagrams, EnqueueKeepsType DEF SockTypeOK, Dumps

LEMMA StartDumpKeepsType ==
  ASSUME SockTypeOK, NEW s \in Nat, NEW items \in Seq(Items),
         StartDump(s, items)
  PROVE  queue' \in Seq(Datagrams) /\ overrun' \in BOOLEAN /\ dump' \in Dumps
<1>1. [seq |-> s, rest |-> items] \in Dumps
  BY DEF Dumps
<1>2. PICK b \in Batches([seq |-> s, rest |-> items]) :
        Enqueue(<<b.datagram>>) /\ dump' = b.dump
  BY DEF StartDump
<1>3. <<b.datagram>> \in Seq(Datagrams) /\ b.dump \in Dumps
  <2>1. b.datagram \in Datagrams /\ b.dump \in Dumps
    BY <1>1, <1>2, BatchesAreDatagrams
  <2> QED
    BY <2>1, SingletonSeq
<1> QED
  BY <1>2, <1>3, EnqueueKeepsType

LEMMA ReadKeepsType ==
  ASSUME SockTypeOK, Read
  PROVE  SockTypeOK'
<1>1. Head(queue) \in Datagrams /\ Tail(queue) \in Seq(Datagrams)
  BY HeadTailProperties DEF Read, SockTypeOK
<1>2. rx' \in RxStates
  BY <1>1 DEF Read, SockTypeOK, RxStates
<1>3. queue' \in Seq(Datagrams) /\ dump' \in Dumps
  <2>1. CASE dump.seq # 0 /\ 2 * (Len(queue) - 1) <= QueueLimit
    <3>1. PICK b \in Batches(dump) :
            queue' = Append(Tail(queue), b.datagram) /\ dump' = b.dump
      BY <2>1 DEF Read
    <3>2. b.datagram \in Datagrams /\ b.dump \in Dumps
      BY BatchesAreDatagrams DEF SockTypeOK, Dumps
    <3> QED
      BY <1>1, <3>1, <3>2, AppendProperties
  <2>2. CASE ~(dump.seq # 0 /\ 2 * (Len(queue) - 1) <= QueueLimit)
    BY <1>1, <2>2 DEF Read, SockTypeOK, Dumps
  <2> QED
    BY <2>1, <2>2
<1> QED
  BY <1>2, <1>3 DEF Read, SockTypeOK, Dumps

LEMMA ReturnedIsRxState ==
  ASSUME NEW ret \in {"none", "ok", "fail"}
  PROVE  Returned(ret) \in RxStates
<1>1. <<>> \in Datagrams
  BY DEF Datagrams
<1>2. Called \in RxStates
  BY <1>1 DEF Called, RxStates
<1>3. NotCalled \in RxStates
  BY <1>2 DEF NotCalled, RxStates
<1> QED
  BY <1>3 DEF Returned, RxStates

LEMMA OthersKeepType ==
  ASSUME SockTypeOK, ReadOverrun \/ EndOfDatagram \/ Call
  PROVE  SockTypeOK'
<1>1. Called \in RxStates
  BY DEF Called, RxStates, Datagrams
<1>2. CASE ReadOverrun
  BY <1>2, ReturnedIsRxState DEF ReadOverrun, SockTypeOK
<1>3. CASE EndOfDatagram
  <2>1. rx' \in RxStates
    BY <1>3, ReturnedIsRxState DEF EndOfDatagram, SockTypeOK, RxStates
  <2> QED
    BY <1>3, <2>1 DEF EndOfDatagram, SockTypeOK
<1>4. CASE Call
  BY <1>1, <1>4 DEF Call, SockTypeOK
<1> QED
  BY <1>2, <1>3, <1>4

LEMMA ParseKeepsType ==
  ASSUME SockTypeOK, NEW cb, Parse(cb)
  PROVE  SockTypeOK'
<1> DEFINE m == Head(rx.buf)
<1>1. m \in Messages /\ Tail(rx.buf) \in Datagrams
  BY HeadTailProperties DEF Parse, SockTypeOK, RxStates, Datagrams
<1>2. seqExpect' \in Nat \ {0}
  BY DEF Parse, ExpectAfter, SockTypeOK
<1>3. MultiAfter(cb, seqExpect, rx.multi, m) \in BOOLEAN
  BY <1>1 DEF MultiAfter, Messages, SockTypeOK, RxStates
<1>4. rx' \in RxStates
  <2>1. CASE Verdict(cb, seqExpect, m) \in {"FAIL", "STOP"}
    BY <2>1, ReturnedIsRxState DEF Parse
  <2>2. CASE Verdict(cb, seqExpect, m) \notin {"FAIL", "STOP"}
    <3>1. rx' = [rx EXCEPT !.buf = Tail(rx.buf),
                           !.multi = MultiAfter(cb, seqExpect, rx.multi, m)]
      BY <2>2 DEF Parse
    <3> HIDE DEF m
    <3> QED
      BY <1>1, <1>3, <3>1 DEF SockTypeOK, RxStates
  <2> QED
    BY <2>1, <2>2
<1> QED
  BY <1>2, <1>4 DEF Parse, SockTypeOK

-----------------------------------------------------------------------------
(* What a step of the loop takes, and what it leaves.                      *)

\* What the next message can be, and what of the answer is then left.
LEMMA HeadOfBuf ==
  ASSUME SockTypeOK, rx.buf # <<>>
  PROVE  /\ Head(rx.buf) \in Messages /\ Head(rx.buf) = rx.buf[1]
         /\ 1 \in 1..Len(rx.buf)
         /\ Tail(rx.buf) \in Seq(Messages)
         /\ Len(Tail(rx.buf)) = Len(rx.buf) - 1 /\ Len(rx.buf) \in Nat
         /\ \A i \in 1..Len(Tail(rx.buf)) :
              i + 1 \in 1..Len(rx.buf) /\ Tail(rx.buf)[i] = rx.buf[i + 1]
<1>1. rx.buf \in Seq(Messages)
  BY DEF SockTypeOK, RxStates, Datagrams
<1> QED
  BY <1>1, HeadTailProperties

\* What is left of the datagram, if recvmsgs() goes on with it.
LEMMA ParseBuf ==
  ASSUME SockTypeOK, NEW cb, Parse(cb)
  PROVE  rx'.buf = <<>> \/ rx'.buf = Tail(rx.buf)
<1>1. CASE Verdict(cb, seqExpect, Head(rx.buf)) \in {"FAIL", "STOP"}
  BY <1>1 DEF Parse, Returned, NotCalled, Called
<1>2. CASE Verdict(cb, seqExpect, Head(rx.buf)) \notin {"FAIL", "STOP"}
  BY <1>2 DEF Parse, SockTypeOK, RxStates
<1> QED
  BY <1>1, <1>2

\* A read takes the first datagram; the rest moves up, and a dump may add its
\* next datagram behind it.
LEMMA ReadQueue ==
  ASSUME SockTypeOK, Read
  PROVE  /\ rx.at = "read" /\ rx'.at = "parse" /\ rx'.ret = rx.ret
         /\ rx'.buf = queue[1] /\ 1 \in 1..Len(queue)
         /\ \/ /\ dump' = dump /\ Len(queue') = Len(queue) - 1
               /\ \A i \in 1..Len(queue) - 1 : queue'[i] = queue[i + 1]
               /\ dump.seq = 0 \/ ~(2 * (Len(queue) - 1) <= QueueLimit)
            \/ \E b \in Batches(dump) :
                 /\ dump.seq # 0 /\ dump' = b.dump /\ Len(queue') = Len(queue)
                 /\ \A i \in 1..Len(queue) - 1 : queue'[i] = queue[i + 1]
                 /\ queue'[Len(queue)] = b.datagram
<1>0. queue \in Seq(Datagrams) /\ rx \in RxStates /\ dump \in Dumps /\ queue # <<>>
  BY DEF SockTypeOK, Dumps, Read
<1>1. rx' = [rx EXCEPT !.at = "parse", !.buf = Head(queue)] /\ rx.at = "read"
  BY DEF Read
<1>2. /\ Head(queue) = queue[1] /\ 1 \in 1..Len(queue) /\ Len(queue) \in Nat
      /\ Tail(queue) \in Seq(Datagrams) /\ Len(Tail(queue)) = Len(queue) - 1
      /\ \A i \in 1..Len(queue) - 1 : Tail(queue)[i] = queue[i + 1]
  BY <1>0, HeadTailProperties
<1>3. rx'.at = "parse" /\ rx'.ret = rx.ret /\ rx'.buf = queue[1]
  BY <1>0, <1>1, <1>2 DEF RxStates
<1>4. CASE dump.seq # 0 /\ 2 * (Len(queue) - 1) <= QueueLimit
  <2>1. PICK b \in Batches(dump) :
          queue' = Append(Tail(queue), b.datagram) /\ dump' = b.dump
    BY <1>4 DEF Read
  <2>2. b.datagram \in Datagrams
    BY <1>0, BatchesAreDatagrams
  <2>3. /\ Len(queue') = Len(queue)
        /\ \A i \in 1..Len(queue) - 1 : queue'[i] = Tail(queue)[i]
        /\ queue'[Len(queue)] = b.datagram
    BY <1>2, <2>1, <2>2, AppendProperties
  <2>4. \A i \in 1..Len(queue) - 1 : queue'[i] = queue[i + 1]
    BY <1>2, <2>3
  <2> QED
    BY <1>1, <1>2, <1>3, <1>4, <2>1, <2>3, <2>4
<1>5. CASE ~(dump.seq # 0 /\ 2 * (Len(queue) - 1) <= QueueLimit)
  <2>1. queue' = Tail(queue) /\ dump' = dump
    BY <1>5 DEF Read
  <2> QED
    BY <1>1, <1>2, <1>3, <1>5, <2>1
<1> QED
  BY <1>4, <1>5

-----------------------------------------------------------------------------
(* What is on its way from the kernel to the loop, in the order in which   *)
(* it arrives: what is left of the datagram being parsed comes first, then *)
(* the queue, then what the dump still has to say.                         *)

Line(i) == IF i = 0 THEN rx.buf ELSE queue[i]
Places == 0..Len(queue)

\* A datagram answers one request, or none (0), and the message that ends an
\* answer comes alone; the others carry an item.
Uniform(d) ==
  \A k \in 1..Len(d) :
    /\ ~d[k].ack
    /\ d[k].type \in {"DATA", "DONE", "ACK", "ERR"}
    /\ d[k].type = "DATA" => d[k].item \in Items
    /\ d[k].seq = d[1].seq
    /\ d[k].type # "DATA" => Len(d) = 1 /\ d[1].seq # 0

\* It is an event, or answers a request that was made and whose answer the
\* loop has not seen the end of.
Current(d) ==
  d # <<>> => d[1].seq = 0 \/ (seqExpect <= d[1].seq /\ d[1].seq < seqNext)

Closes(d) == d # <<>> /\ d[1].type # "DATA"

\* Behind the message that ends an answer nothing of this answer comes.
Ordered ==
  /\ seqExpect <= seqNext
  /\ rx.at # "parse" => rx.buf = <<>>
  /\ dump.seq = 0 => dump = NoDump
  /\ dump.seq # 0 => seqExpect <= dump.seq /\ dump.seq < seqNext
  /\ \A i \in Places : Uniform(Line(i)) /\ Current(Line(i))
  /\ \A i \in 1..Len(queue) : queue[i] # <<>>
  /\ \A i \in Places : Closes(Line(i)) =>
       /\ dump.seq # Line(i)[1].seq
       /\ \A j \in 1..Len(queue) : i < j => queue[j][1].seq # Line(i)[1].seq

\* Of the items that answer request s the datagram has those from a + 1 to b;
\* the message that ends the answer is behind the last.
Advances(d, s, items, a, b) ==
  IF d = <<>> \/ d[1].seq # s THEN b = a
  ELSE IF d[1].type = "DATA"
  THEN b = a + Len(d) /\ \A k \in 1..Len(d) : d[k].item = items[a + k]
  ELSE b = a /\ a = Len(items)

\* After the first g of the items that answer request s, the others are on
\* their way, each once and in order, whatever else comes between them.
Flow(s, items, g) ==
  \E off \in [0..Len(queue) + 1 -> 0..Len(items)] :
    /\ off[0] = g
    /\ \A i \in Places : Advances(Line(i), s, items, off[i], off[i + 1])
    /\ dump.seq = s =>
         /\ off[Len(queue) + 1] + Len(dump.rest) = Len(items)
         /\ \A k \in 1..Len(dump.rest) :
              dump.rest[k] = items[off[Len(queue) + 1] + k]

-----------------------------------------------------------------------------
(* The kernel's messages get into line.                                    *)

\* The queue becomes longer by the first n of these datagrams.
Grows(ds, n) ==
  /\ Len(queue') = Len(queue) + n
  /\ \A i \in 1..Len(queue) : queue'[i] = queue[i]
  /\ \A j \in 1..n : queue'[Len(queue) + j] = ds[j]

LEMMA EnqueueGrows ==
  ASSUME SockTypeOK, NEW ds \in Seq(Datagrams), Enqueue(ds)
  PROVE  \E n \in 0..Len(ds) : Grows(ds, n)
<1> DEFINE room == QueueLimit - Len(queue)
           fit == IF Len(ds) <= room THEN Len(ds)
                  ELSE IF room > 0 THEN room ELSE 0
           sent == SubSeq(ds, 1, fit)
<1>1. queue \in Seq(Datagrams) /\ Len(queue) \in Nat /\ Len(ds) \in Nat
  BY DEF SockTypeOK
<1>2. fit \in 0..Len(ds) /\ fit \in Int /\ 1 \in Int
  BY <1>1, QueueLimitAssumption
<1>3. queue' = queue \o sent
  BY DEF Enqueue
<1> HIDE DEF room, fit
<1>4. sent \in Seq(Datagrams) /\ Len(sent) = fit
      /\ \A i \in 1..fit : sent[i] = ds[i]
  <2>1. \A i \in 1..fit : ds[i] \in Datagrams
    BY <1>1, <1>2, ElementOfSeq
  <2>2. /\ SubSeq(ds, 1, fit) \in Seq(Datagrams)
        /\ Len(SubSeq(ds, 1, fit)) = IF 1 <= fit THEN fit - 1 + 1 ELSE 0
        /\ \A i \in 1..fit-1+1 : SubSeq(ds, 1, fit)[i] = ds[1 + i - 1]
    BY <1>2, <2>1, SubSeqProperties
  <2> QED
    BY <1>2, <2>2
<1> HIDE DEF sent
<1>5. /\ Len(queue') = Len(queue) + fit
      /\ \A i \in 1..Len(queue) + fit :
           queue'[i] = IF i <= Len(queue) THEN queue[i] ELSE sent[i - Len(queue)]
  BY <1>1, <1>3, <1>4, ConcatProperties
<1>6. \A i \in 1..Len(queue) : queue'[i] = queue[i]
  BY <1>1, <1>2, <1>5
<1>7. ASSUME NEW j \in 1..fit
      PROVE  queue'[Len(queue) + j] = ds[j]
  <2>1. /\ Len(queue) + j \in 1..Len(queue) + fit /\ ~(Len(queue) + j <= Len(queue))
        /\ Len(queue) + j - Len(queue) = j
    BY <1>1, <1>2
  <2> QED
    BY <1>4, <1>5, <2>1
<1> QED
  BY <1>2, <1>5, <1>6, <1>7 DEF Grows

\* What a datagram of a dump holds, item for item.
LEMMA BatchItems ==
  ASSUME NEW d \in Dumps, NEW b \in Batches(d)
  PROVE  \/ /\ Len(d.rest) = 0 /\ b.dump = NoDump
            /\ Len(b.datagram) = 1
            /\ b.datagram[1] = Msg("DONE", d.seq, TRUE, NoItem)
         \/ \E k \in 1..Len(d.rest) :
              /\ Len(b.datagram) = k
              /\ \A i \in 1..k : b.datagram[i] = Msg("DATA", d.seq, TRUE, d.rest[i])
              /\ b.dump.seq = d.seq
              /\ Len(b.dump.rest) = Len(d.rest) - k
              /\ \A i \in 1..Len(d.rest) - k : b.dump.rest[i] = d.rest[k + i]
<1>0. d.seq \in Nat /\ d.rest \in Seq(Items) /\ Len(d.rest) \in Nat
  BY DEF Dumps
<1>1. CASE d.rest = <<>>
  <2>1. b = [datagram |-> <<Msg("DONE", d.seq, TRUE, NoItem)>>, dump |-> NoDump]
    BY <1>1 DEF Batches
  <2> QED
    BY <1>1, <2>1
<1>2. CASE d.rest # <<>>
  <2>1. PICK k \in 1..Len(d.rest) :
          b = [datagram |-> [i \in 1..k |-> Msg("DATA", d.seq, TRUE, d.rest[i])],
               dump |-> [d EXCEPT !.rest = SubSeq(d.rest, k + 1, Len(d.rest))]]
    BY <1>2 DEF Batches
  <2>2. k \in Nat /\ k + 1 \in Int /\ Len(d.rest) \in Int
    BY <1>0
  <2>3. b.datagram = [i \in 1..k |-> Msg("DATA", d.seq, TRUE, d.rest[i])]
        /\ b.dump = [d EXCEPT !.rest = SubSeq(d.rest, k + 1, Len(d.rest))]
    BY <2>1
  <2>4. Len(b.datagram) = k
        /\ \A i \in 1..k : b.datagram[i] = Msg("DATA", d.seq, TRUE, d.rest[i])
    <3> DEFINE F(i) == Msg("DATA", d.seq, TRUE, d.rest[i])
    <3> HIDE DEF F
    <3>1. Len([i \in 1..k |-> F(i)]) = k /\ \A i \in 1..k : [j \in 1..k |-> F(j)][i] = F(i)
      BY <2>2
    <3> QED
      BY <2>3, <3>1 DEF F
  <2>5. \A i \in k + 1..Len(d.rest) : d.rest[i] \in Items
    BY <1>0, <2>2, ElementOfSeq
  <2>6. /\ Len(SubSeq(d.rest, k + 1, Len(d.rest)))
              = IF k + 1 <= Len(d.rest) THEN Len(d.rest) - (k + 1) + 1 ELSE 0
        /\ \A i \in 1..Len(d.rest) - (k + 1) + 1 :
             SubSeq(d.rest, k + 1, Len(d.rest))[i] = d.rest[k + 1 + i - 1]
    BY <2>2, <2>5, SubSeqProperties
  <2>7. /\ Len(SubSeq(d.rest, k + 1, Len(d.rest))) = Len(d.rest) - k
        /\ \A i \in 1..Len(d.rest) - k :
             SubSeq(d.rest, k + 1, Len(d.rest))[i] = d.rest[k + i]
    BY <1>0, <2>2, <2>6
  <2>8. b.dump.seq = d.seq /\ b.dump.rest = SubSeq(d.rest, k + 1, Len(d.rest))
    BY <2>3 DEF Dumps
  <2> QED
    BY <2>4, <2>7, <2>8
<1> QED
  BY <1>1, <1>2

-----------------------------------------------------------------------------
(* Every operation of the socket keeps what is on its way in order.        *)

LEMMA LinesAreDatagrams ==
  ASSUME SockTypeOK
  PROVE  /\ Len(queue) \in Nat
         /\ \A i \in Places : Line(i) \in Seq(Messages) /\ Len(Line(i)) \in Nat
<1>1. queue \in Seq(Seq(Messages)) /\ rx.buf \in Seq(Messages)
  BY DEF SockTypeOK, RxStates, Datagrams
<1>2. \A i \in 1..Len(queue) : queue[i] \in Seq(Messages)
  BY <1>1, ElementOfSeq
<1>3. Len(queue) \in Nat
  BY <1>1
<1> SUFFICES ASSUME NEW i \in Places
             PROVE  Line(i) \in Seq(Messages)
  BY <1>3, LenProperties
<1>4. i = 0 \/ i \in 1..Len(queue)
  BY <1>3 DEF Places
<1> QED
  BY <1>1, <1>2, <1>4 DEF Line

LEMMA EmptyLine ==
  ASSUME NEW d, d = <<>>
  PROVE  Uniform(d) /\ Current(d) /\ ~Closes(d)
  BY DEF Uniform, Current, Closes

\* What is left of a datagram is of the same request, and does not end it.
LEMMA UniformTail ==
  ASSUME NEW d \in Seq(Messages), d # <<>>, Uniform(d)
  PROVE  /\ Uniform(Tail(d)) /\ ~Closes(Tail(d))
         /\ Tail(d) # <<>> => Tail(d)[1].seq = d[1].seq
         /\ d[1].type # "DATA" => Tail(d) = <<>>
<1>1. /\ Tail(d) \in Seq(Messages) /\ Len(Tail(d)) = Len(d) - 1 /\ Len(d) \in Nat
      /\ 1 \in 1..Len(d)
      /\ \A k \in 1..Len(d) - 1 : k + 1 \in 1..Len(d) /\ Tail(d)[k] = d[k + 1]
  BY HeadTailProperties
<1>2. d[1].type # "DATA" => Tail(d) = <<>>
  BY <1>1 DEF Uniform
<1>3. ASSUME NEW k \in 1..Len(d) - 1
      PROVE  d[k + 1].type = "DATA"
  BY <1>1, <1>3 DEF Uniform
<1>4. Tail(d) # <<>> => 1 \in 1..Len(d) - 1 /\ Tail(d)[1].seq = d[1].seq
                        /\ Tail(d)[1].type = "DATA"
  BY <1>1, <1>3 DEF Uniform
<1>5. ASSUME NEW k \in 1..Len(Tail(d))
      PROVE  /\ ~Tail(d)[k].ack
             /\ Tail(d)[k].type = "DATA" /\ Tail(d)[k].item \in Items
             /\ Tail(d)[k].seq = Tail(d)[1].seq
  BY <1>1, <1>3, <1>4 DEF Uniform
<1>6. Uniform(Tail(d))
  BY <1>5 DEF Uniform
<1> QED
  BY <1>2, <1>4, <1>6 DEF Closes

\* Nothing of the datagram is left: the call returns, or there was nothing.
LEMMA IdleKeepsOrdered ==
  ASSUME SockTypeOK, Ordered, rx'.buf = <<>>,
         UNCHANGED <<seqNext, seqExpect, queue, dump>>
  PROVE  Ordered'
<1>1. Line(0)' = <<>> /\ Places' = Places /\ Len(queue) \in Nat
  BY LinesAreDatagrams DEF Line, Places
<1>2. \A i \in 1..Len(queue) : Line(i)' = Line(i) /\ i \in Places /\ queue'[i] = queue[i]
  BY DEF Line, Places
<1>3. ASSUME NEW i \in Places
      PROVE  /\ Uniform(Line(i))' /\ Current(Line(i))'
             /\ Closes(Line(i))' => i \in 1..Len(queue) /\ Closes(Line(i))
  <2>1. CASE i = 0
    BY <1>1, <2>1 DEF Uniform, Current, Closes
  <2>2. CASE i \in 1..Len(queue)
    BY <1>2, <2>2 DEF Ordered, Uniform, Current, Closes
  <2> QED
    BY <1>1, <2>1, <2>2 DEF Places
<1>4. \A i \in 1..Len(queue) : queue'[i] # <<>>
  BY DEF Ordered
<1>5. ASSUME NEW i \in Places, Closes(Line(i))'
      PROVE  /\ dump'.seq # Line(i)'[1].seq
             /\ \A j \in 1..Len(queue) : i < j => queue'[j][1].seq # Line(i)'[1].seq
  <2>1. i \in 1..Len(queue) /\ Closes(Line(i)) /\ Line(i)' = Line(i)
    BY <1>2, <1>3, <1>5
  <2> QED
    BY <2>1 DEF Ordered
<1> QED
  BY <1>1, <1>3, <1>4, <1>5 DEF Ordered

\* A message is taken; if it ends the answer that is expected, the number of
\* the next is expected.
LEMMA ParseKeepsOrdered ==
  ASSUME SockTypeOK, Ordered, rx.at = "parse", rx.buf # <<>>,
         rx'.buf = <<>> \/ rx'.buf = Tail(rx.buf),
         rx'.at # "parse" => rx'.buf = <<>>,
         UNCHANGED <<seqNext, queue, dump>>,
         \/ seqExpect' = seqExpect
         \/ /\ seqExpect' = seqExpect + 1
            /\ rx.buf[1].seq = seqExpect /\ rx.buf[1].type # "DATA"
  PROVE  Ordered'
<1>0. seqExpect \in Nat \ {0} /\ seqNext \in Nat /\ dump.seq \in Nat
  BY DEF SockTypeOK
<1>1. Places' = Places /\ Len(queue) \in Nat /\ 0 \in Places
  BY LinesAreDatagrams DEF Places
<1>2. \A i \in 1..Len(queue) : Line(i)' = Line(i) /\ i \in Places /\ queue'[i] = queue[i]
                               /\ Line(i) = queue[i] /\ i # 0 /\ 0 < i
  BY <1>1 DEF Line, Places
<1>3. /\ rx.buf \in Seq(Messages) /\ Line(0) = rx.buf /\ Uniform(rx.buf) /\ Current(rx.buf)
      /\ rx.buf[1].seq \in Nat
  <2>1. Line(0) = rx.buf
    BY DEF Line
  <2>2. rx.buf[1] \in Messages
    BY HeadOfBuf
  <2> QED
    BY <1>1, <2>1, <2>2, LinesAreDatagrams DEF Ordered, Messages
<1>4. /\ Uniform(rx'.buf) /\ ~Closes(rx'.buf)
      /\ rx'.buf # <<>> => /\ rx'.buf[1].seq = rx.buf[1].seq
                           /\ rx.buf[1].type = "DATA"
  BY <1>3, UniformTail, EmptyLine
<1>5. CASE seqExpect' = seqExpect
  <2>1. Line(0)' = rx'.buf
    BY DEF Line
  <2>2. \A i \in Places : Uniform(Line(i))' /\ Current(Line(i))'
    <3>1. Current(Line(0))'
      BY <1>3, <1>4, <1>5, <2>1 DEF Current
    <3>2. Uniform(Line(0))'
      BY <1>4, <2>1 DEF Uniform
    <3>3. \A i \in 1..Len(queue) : Uniform(Line(i))' /\ Current(Line(i))'
      BY <1>2, <1>5 DEF Ordered, Uniform, Current
    <3> QED
      BY <1>1, <3>1, <3>2, <3>3 DEF Places
  <2>3. ASSUME NEW i \in Places, Closes(Line(i))'
        PROVE  /\ dump'.seq # Line(i)'[1].seq
               /\ \A j \in 1..Len(queue) : i < j => queue'[j][1].seq # Line(i)'[1].seq
    <3>1. i # 0
      BY <1>4, <2>1, <2>3 DEF Closes
    <3>2. i \in 1..Len(queue)
      BY <1>1, <3>1 DEF Places
    <3>3. Closes(Line(i)) /\ Line(i)' = Line(i) /\ i \in Places
      BY <1>2, <2>3, <3>2 DEF Closes
    <3> QED
      BY <3>3 DEF Ordered
  <2> QED
    BY <1>1, <1>5, <2>2, <2>3 DEF Ordered
<1>6. CASE /\ seqExpect' = seqExpect + 1
           /\ rx.buf[1].seq = seqExpect /\ rx.buf[1].type # "DATA"
  <2>0. rx'.buf = <<>>
    BY <1>4, <1>6
  <2>1. Closes(Line(0)) /\ seqExpect' <= seqNext'
    BY <1>0, <1>3, <1>6 DEF Closes, Current
  <2>2. /\ dump.seq # seqExpect
        /\ \A j \in 1..Len(queue) : queue[j][1].seq # seqExpect
    BY <1>1, <1>2, <1>3, <1>6, <2>1 DEF Ordered
  <2>3. dump'.seq # 0 => seqExpect' <= dump'.seq /\ dump'.seq < seqNext'
    BY <1>0, <1>6, <2>2 DEF Ordered
  <2>4. ASSUME NEW i \in 1..Len(queue)
        PROVE  Uniform(Line(i))' /\ Current(Line(i))'
    <3>1. Line(i)' = queue[i] /\ Uniform(queue[i]) /\ Current(queue[i])
          /\ queue[i] # <<>> /\ queue[i][1].seq # seqExpect
      BY <1>2, <2>2 DEF Ordered
    <3>2. queue[i][1].seq \in Nat
      <4>1. queue[i] \in Seq(Messages)
        BY <1>2, LinesAreDatagrams
      <4>2. queue[i][1] \in Messages
        BY <3>1, <4>1
      <4> QED
        BY <4>2 DEF Messages
    <3> QED
      BY <1>0, <1>6, <3>1, <3>2 DEF Current, Uniform
  <2>5. Line(0)' = <<>>
    BY <2>0 DEF Line
  <2>6. \A i \in Places : Uniform(Line(i))' /\ Current(Line(i))'
    BY <1>1, <2>4, <2>5 DEF Places, Uniform, Current
  <2>7. ASSUME NEW i \in Places, Closes(Line(i))'
        PROVE  /\ dump'.seq # Line(i)'[1].seq
               /\ \A j \in 1..Len(queue) : i < j => queue'[j][1].seq # Line(i)'[1].seq
    <3>1. i # 0
      BY <2>5, <2>7 DEF Closes
    <3>2. i \in 1..Len(queue)
      BY <1>1, <3>1 DEF Places
    <3>3. Closes(Line(i)) /\ Line(i)' = Line(i) /\ i \in Places
      BY <1>2, <2>7, <3>2 DEF Closes
    <3> QED
      BY <3>3 DEF Ordered
  <2> QED
    BY <1>1, <2>1, <2>3, <2>6, <2>7, <2>0 DEF Ordered
<1> QED
  BY <1>5, <1>6

\* The next datagram of a dump, as a place in the line.
LEMMA BatchIsUniform ==
  ASSUME NEW d \in Dumps, d.seq # 0, NEW b \in Batches(d)
  PROVE  /\ b.datagram # <<>> /\ Uniform(b.datagram)
         /\ b.datagram[1].seq = d.seq
         /\ b.dump.seq \in {0, d.seq} /\ (b.dump.seq = 0 => b.dump = NoDump)
         /\ Closes(b.datagram) <=> b.dump.seq = 0
<1>0. d.seq \in Nat
  BY DEF Dumps
<1>1. CASE b.dump = NoDump /\ b.datagram = <<Msg("DONE", d.seq, TRUE, NoItem)>>
  <2> DEFINE m == Msg("DONE", d.seq, TRUE, NoItem)
  <2>1. m.seq = d.seq /\ m.type = "DONE" /\ m.ack = FALSE
    BY DEF Msg
  <2>2. b.datagram = <<m>>
    BY <1>1
  <2> HIDE DEF m
  <2>3. b.datagram # <<>> /\ Len(b.datagram) = 1 /\ b.datagram[1] = m
    BY <2>2
  <2>4. b.dump.seq = 0
    BY <1>1 DEF NoDump
  <2>5. Uniform(b.datagram)
    BY <2>1, <2>3 DEF Uniform
  <2>6. Closes(b.datagram) /\ b.datagram[1].seq = d.seq
    BY <2>1, <2>3 DEF Closes
  <2> QED
    BY <1>1, <2>3, <2>4, <2>5, <2>6
<1>2. CASE /\ b.dump.seq = d.seq
           /\ \A i \in 1..Len(b.datagram) :
                \E item \in Items : b.datagram[i] = Msg("DATA", d.seq, TRUE, item)
  <2>1. ASSUME NEW i \in 1..Len(b.datagram)
        PROVE  /\ b.datagram[i].seq = d.seq /\ b.datagram[i].type = "DATA"
               /\ b.datagram[i].ack = FALSE /\ b.datagram[i].item \in Items
    <3>1. PICK item \in Items : b.datagram[i] = Msg("DATA", d.seq, TRUE, item)
      BY <1>2
    <3> QED
      BY <3>1 DEF Msg
  <2>2. b.datagram # <<>> /\ 1 \in 1..Len(b.datagram)
    <3>1. b.datagram \in Seq(Messages) /\ b.datagram # <<>>
      BY BatchesAreDatagrams DEF Datagrams
    <3> QED
      BY <3>1, HeadTailProperties
  <2>3. Uniform(b.datagram)
    BY <2>1, <2>2 DEF Uniform
  <2>4. ~Closes(b.datagram) /\ b.datagram[1].seq = d.seq
    BY <2>1, <2>2 DEF Closes
  <2>5. b.dump.seq = d.seq /\ b.dump.seq # 0
    BY <1>2
  <2> QED
    BY <2>2, <2>3, <2>4, <2>5
<1> QED
  BY <1>1, <1>2, BatchesAreDatagrams

\* A read takes the first datagram of the queue.
LEMMA ReadKeepsOrdered ==
  ASSUME SockTypeOK, Ordered, Read
  PROVE  Ordered'
<1>0. /\ seqExpect \in Nat \ {0} /\ seqNext \in Nat /\ dump \in Dumps
      /\ dump.seq \in Nat /\ Len(queue) \in Nat
  BY LinesAreDatagrams DEF SockTypeOK, Dumps
<1>1. /\ rx'.at = "parse" /\ rx'.buf = queue[1] /\ 1 \in 1..Len(queue)
      /\ seqNext' = seqNext /\ seqExpect' = seqExpect
  BY ReadQueue DEF Read
<1>2. \A i \in 1..Len(queue) : /\ i \in Places /\ Line(i) = queue[i]
                               /\ Uniform(queue[i]) /\ Current(queue[i])
  BY <1>0 DEF Line, Places, Ordered
<1> DEFINE n == Len(queue) - 1
<1>3. /\ \A i \in 1..n : queue'[i] = queue[i + 1]
      /\ \/ Len(queue') = n /\ dump' = dump
         \/ \E b \in Batches(dump) :
              /\ dump.seq # 0 /\ dump' = b.dump /\ Len(queue') = n + 1
              /\ queue'[n + 1] = b.datagram
  BY <1>0, ReadQueue
<1>4. n \in Nat /\ Len(queue) = n + 1 /\ n <= Len(queue') /\ Len(queue') \in {n, n + 1}
      /\ \A i \in 0..n : i + 1 \in 1..Len(queue)
  BY <1>0, <1>1, <1>3
<1> HIDE DEF n
<1>5. ASSUME NEW i \in 0..n
      PROVE  /\ Line(i)' = queue[i + 1]
             /\ Uniform(queue[i + 1]) /\ Current(queue[i + 1])
  <2>1. CASE i = 0
    BY <1>1, <1>2, <1>4, <2>1 DEF Line
  <2>2. CASE i \in 1..n
    BY <1>2, <1>3, <1>4, <2>2 DEF Line
  <2> QED
    BY <1>4, <2>1, <2>2
<1>6. ASSUME Len(queue') = n + 1
      PROVE  /\ queue'[n + 1] # <<>> /\ Uniform(queue'[n + 1])
             /\ queue'[n + 1][1].seq = dump.seq /\ dump.seq # 0
             /\ dump'.seq \in {0, dump.seq} /\ (dump'.seq = 0 => dump' = NoDump)
             /\ Closes(queue'[n + 1]) <=> dump'.seq = 0
  <2>1. PICK b \in Batches(dump) : /\ dump.seq # 0 /\ dump' = b.dump
                                   /\ queue'[n + 1] = b.datagram
    BY <1>3, <1>4, <1>6
  <2> QED
    BY <1>0, <2>1, BatchIsUniform
<1>7. /\ dump'.seq = 0 => dump' = NoDump
      /\ dump'.seq # 0 => seqExpect' <= dump'.seq /\ dump'.seq < seqNext'
  <2>1. CASE Len(queue') = n + 1
    BY <1>1, <1>6, <2>1 DEF Ordered
  <2>2. CASE Len(queue') = n
    BY <1>1, <1>3, <1>4, <2>2 DEF Ordered
  <2> QED
    BY <1>4, <2>1, <2>2
<1>8. ASSUME NEW i \in Places'
      PROVE  Uniform(Line(i))' /\ Current(Line(i))'
  <2>1. CASE i \in 0..n
    BY <1>1, <1>5, <2>1 DEF Uniform, Current
  <2>2. CASE i = n + 1 /\ Len(queue') = n + 1
    <3>1. Line(i)' = queue'[n + 1]
      BY <1>4, <2>2 DEF Line
    <3> QED
      BY <1>1, <1>6, <2>2, <3>1 DEF Ordered, Uniform, Current
  <2> QED
    BY <1>4, <2>1, <2>2 DEF Places
<1>9. ASSUME NEW i \in 1..Len(queue')
      PROVE  queue'[i] # <<>>
  <2>1. CASE i \in 1..n
    BY <1>3, <1>4, <2>1 DEF Ordered
  <2>2. CASE i = n + 1 /\ Len(queue') = n + 1
    BY <1>6, <2>2
  <2> QED
    BY <1>4, <2>1, <2>2
<1>10. ASSUME NEW i \in Places', Closes(Line(i))'
       PROVE  /\ dump'.seq # Line(i)'[1].seq
              /\ \A j \in 1..Len(queue') : i < j => queue'[j][1].seq # Line(i)'[1].seq
  <2>1. CASE i \in 0..n
    <3>1. /\ Closes(Line(i + 1)) /\ i + 1 \in Places /\ Line(i)' = Line(i + 1)
          /\ Line(i + 1) = queue[i + 1]
      BY <1>2, <1>4, <1>5, <1>10, <2>1 DEF Closes
    <3>2. /\ dump.seq # Line(i)'[1].seq
          /\ \A j \in 1..Len(queue) : i + 1 < j => queue[j][1].seq # Line(i)'[1].seq
      BY <3>1 DEF Ordered
    <3>3. dump'.seq # Line(i)'[1].seq
      <4>1. Line(i)'[1].seq # 0
        BY <1>2, <1>4, <2>1, <3>1 DEF Uniform, Closes
      <4> QED
        BY <1>3, <1>4, <1>6, <3>2, <4>1
    <3>4. ASSUME NEW j \in 1..Len(queue'), i < j
          PROVE  queue'[j][1].seq # Line(i)'[1].seq
      <4>1. CASE j \in 1..n
        <5>1. queue'[j] = queue[j + 1] /\ j + 1 \in 1..Len(queue) /\ i + 1 < j + 1
          BY <1>3, <1>4, <2>1, <3>4, <4>1
        <5> QED
          BY <3>2, <5>1
      <4>2. CASE j = n + 1 /\ Len(queue') = n + 1
        BY <1>6, <3>2, <4>2
      <4> QED
        BY <1>4, <4>1, <4>2
    <3> QED
      BY <3>3, <3>4
  <2>2. CASE i = n + 1 /\ Len(queue') = n + 1
    <3>1. Line(i)' = queue'[n + 1]
      BY <1>4, <2>2 DEF Line
    <3>2. Closes(queue'[n + 1])
      BY <1>10, <3>1 DEF Closes
    <3>3. dump'.seq = 0 /\ queue'[n + 1][1].seq = dump.seq /\ dump.seq # 0
      BY <1>6, <2>2, <3>2
    <3>4. \A j \in 1..Len(queue') : ~(i < j)
      BY <1>4, <2>2
    <3> QED
      BY <3>1, <3>3, <3>4
  <2> QED
    BY <1>4, <2>1, <2>2 DEF Places
<1>11. seqExpect' <= seqNext' /\ (rx'.at # "parse" => rx'.buf = <<>>)
  BY <1>1 DEF Ordered
<1> QED
  BY <1>7, <1>8, <1>9, <1>10, <1>11 DEF Ordered

\* Datagrams of one answer; none comes behind the message that ends it, and
\* the dump has nothing more to say then.
Fresh(ds, s) ==
  \A j \in 1..Len(ds) :
    /\ ds[j] # <<>> /\ Uniform(ds[j]) /\ ds[j][1].seq = s
    /\ Closes(ds[j]) => j = Len(ds) /\ dump'.seq # s

\* An event (number 0), or the answer to the request that is being made.
LEMMA GrowthKeepsOrdered ==
  ASSUME SockTypeOK, Ordered,
         rx'.buf = rx.buf \/ rx'.buf = <<>>,
         rx'.at # "parse" => rx'.buf = <<>>,
         seqExpect' = seqExpect,
         NEW s \in {0, seqNext},
         seqNext' = IF s = 0 THEN seqNext ELSE seqNext + 1,
         dump' = dump \/ dump' = NoDump \/ (s # 0 /\ dump'.seq = s),
         NEW ds, NEW n \in 0..Len(ds), Len(ds) \in Nat, Fresh(ds, s), Grows(ds, n)
  PROVE  Ordered'
<1>0. /\ seqExpect \in Nat \ {0} /\ seqNext \in Nat \ {0} /\ s \in Nat
      /\ dump.seq \in Nat /\ Len(queue) \in Nat /\ n \in Nat /\ n <= Len(ds)
      /\ seqNext <= seqNext' /\ seqNext' \in Nat /\ (s # 0 => s < seqNext')
      /\ seqExpect <= s \/ s = 0
  BY LinesAreDatagrams DEF SockTypeOK, Ordered
<1> DEFINE q == Len(queue)
<1>1. /\ Len(queue') = q + n
      /\ \A i \in 1..q : queue'[i] = queue[i]
      /\ \A j \in 1..n : queue'[q + j] = ds[j] /\ j \in 1..Len(ds)
  BY <1>0 DEF Grows
<1>2. \A i \in 1..q : /\ i \in Places /\ Line(i) = queue[i] /\ Line(i)' = queue[i]
                      /\ Uniform(queue[i]) /\ Current(queue[i]) /\ queue[i] # <<>>
  BY <1>0, <1>1 DEF Line, Places, Ordered
<1>3. /\ Line(0) = rx.buf /\ Line(0)' = rx'.buf /\ 0 \in Places
      /\ Uniform(rx.buf) /\ Current(rx.buf)
  BY <1>0 DEF Line, Places, Ordered
<1>4. \A i \in q + 1..q + n : /\ i - q \in 1..n /\ Line(i)' = ds[i - q] /\ queue'[i] = ds[i - q]
                              /\ i \in 1..Len(queue')
  <2> SUFFICES ASSUME NEW i \in q + 1..q + n
               PROVE  /\ i - q \in 1..n /\ Line(i)' = ds[i - q] /\ queue'[i] = ds[i - q]
                      /\ i \in 1..Len(queue')
    OBVIOUS
  <2>1. i - q \in 1..n /\ q + (i - q) = i /\ i # 0
    BY <1>0
  <2>2. queue'[q + (i - q)] = ds[i - q]
    BY <1>1, <2>1
  <2>3. i \in 1..Len(queue')
    BY <1>0, <1>1
  <2> QED
    BY <2>1, <2>2, <2>3 DEF Line
<1>5. ASSUME NEW i \in Places'
      PROVE  i = 0 \/ i \in 1..q \/ i \in q + 1..q + n
  BY <1>0, <1>1 DEF Places
<1> HIDE DEF q
<1>7. \A i \in 1..q : queue[i][1].seq \in Nat
  <2> SUFFICES ASSUME NEW i \in 1..q
               PROVE  queue[i][1].seq \in Nat
    OBVIOUS
  <2>1. queue[i] \in Seq(Messages) /\ queue[i] # <<>>
    BY <1>2, LinesAreDatagrams
  <2>2. queue[i][1] \in Messages
    BY <2>1
  <2> QED
    BY <2>2 DEF Messages
<1>8. rx.buf # <<>> => rx.buf[1].seq \in Nat
  <2>1. rx.buf \in Seq(Messages)
    BY <1>3, LinesAreDatagrams
  <2>2. rx.buf # <<>> => rx.buf[1] \in Messages
    BY <2>1
  <2> QED
    BY <2>2 DEF Messages
<1>9. ASSUME NEW i \in Places'
      PROVE  Uniform(Line(i))' /\ Current(Line(i))'
  <2>1. CASE i = 0
    <3>1. CASE rx'.buf = <<>>
      BY <1>3, <2>1, <3>1 DEF Uniform, Current
    <3>2. CASE rx'.buf = rx.buf
      <4>1. Current(rx.buf)'
        BY <1>0, <1>3, <1>8 DEF Current
      <4> QED
        BY <1>3, <2>1, <3>2, <4>1 DEF Uniform, Current
    <3> QED
      BY <3>1, <3>2
  <2>2. CASE i \in 1..q
    <3>1. Current(queue[i])'
      BY <1>0, <1>1, <1>2, <1>7, <2>2 DEF Current
    <3>2. Uniform(queue[i]) /\ Line(i)' = queue[i] /\ queue'[i] = queue[i]
      BY <1>1, <1>2, <2>2
    <3>3. Uniform(Line(i))'
      BY <3>2 DEF Uniform
    <3>4. Current(Line(i))'
      BY <3>1, <3>2 DEF Current
    <3> QED
      BY <3>3, <3>4
  <2>3. CASE i \in q + 1..q + n
    <3>1. /\ Line(i)' = ds[i - q] /\ Uniform(ds[i - q]) /\ ds[i - q][1].seq = s
      BY <1>1, <1>4, <2>3 DEF Fresh
    <3> QED
      BY <1>0, <3>1 DEF Uniform, Current
  <2> QED
    BY <1>5, <2>1, <2>2, <2>3
<1>10. ASSUME NEW i \in 1..Len(queue')
       PROVE  queue'[i] # <<>> /\ (queue'[i][1].seq = s \/ i \in 1..q)
  <2>1. i \in 1..q \/ i \in q + 1..q + n
    BY <1>0, <1>1 DEF q
  <2> QED
    BY <1>1, <1>2, <1>4, <2>1 DEF Fresh
<1>11. /\ dump'.seq = 0 => dump' = NoDump
       /\ dump'.seq # 0 => seqExpect' <= dump'.seq /\ dump'.seq < seqNext'
  BY <1>0 DEF Ordered, NoDump
<1>12. ASSUME NEW i \in Places', Closes(Line(i))'
       PROVE  /\ dump'.seq # Line(i)'[1].seq
              /\ \A j \in 1..Len(queue') : i < j => queue'[j][1].seq # Line(i)'[1].seq
  <2>1. CASE i = 0 \/ i \in 1..q
    <3>1. i \in Places /\ Line(i)' = Line(i) /\ Closes(Line(i))
      BY <1>2, <1>3, <1>12, <2>1 DEF Closes
    <3>2. /\ Uniform(Line(i)) /\ Current(Line(i)) /\ dump.seq # Line(i)[1].seq
          /\ \A j \in 1..q : i < j => queue[j][1].seq # Line(i)[1].seq
      BY <3>1 DEF Ordered, q
    <3>3. /\ Line(i) # <<>> /\ Line(i)[1].seq # 0 /\ Line(i)[1].seq < seqNext
      <4>1. Line(i) # <<>> /\ Line(i)[1].type # "DATA" /\ 1 \in 1..Len(Line(i))
        <5>1. Line(i) \in Seq(Messages)
          BY <3>1, LinesAreDatagrams
        <5> QED
          BY <3>1, <5>1 DEF Closes
      <4> QED
        BY <3>2, <4>1 DEF Uniform, Current
    <3>4. Line(i)[1].seq # s
      BY <1>0, <3>3
    <3>5. dump'.seq # Line(i)'[1].seq
      BY <3>1, <3>2, <3>3, <3>4 DEF NoDump
    <3>6. ASSUME NEW j \in 1..Len(queue'), i < j
          PROVE  queue'[j][1].seq # Line(i)'[1].seq
      BY <1>1, <1>10, <3>1, <3>2, <3>4, <3>6
    <3> QED
      BY <3>5, <3>6
  <2>2. CASE i \in q + 1..q + n
    <3>1. /\ Line(i)' = ds[i - q] /\ i - q \in 1..Len(ds) /\ Closes(ds[i - q])
          /\ ds[i - q][1].seq = s
      BY <1>1, <1>4, <1>12, <2>2 DEF Fresh, Closes
    <3>2. i - q = Len(ds) /\ dump'.seq # s
      BY <3>1 DEF Fresh
    <3>3. \A j \in 1..Len(queue') : ~(i < j)
      BY <1>0, <1>1, <2>2, <3>2 DEF q
    <3> QED
      BY <3>1, <3>2, <3>3
  <2> QED
    BY <1>5, <2>1, <2>2
<1>13. seqExpect' <= seqNext'
  BY <1>0 DEF Ordered
<1> QED
  BY <1>9, <1>10, <1>11, <1>12, <1>13 DEF Ordered

LEMMA OneMessage ==
  ASSUME NEW m \in Messages, NEW d, d = <<m>>, m.ack = FALSE,
         m.type \in {"DATA", "DONE", "ACK", "ERR"}, m.type # "DATA" => m.seq # 0,
         m.type = "DATA" => m.item \in Items
  PROVE  /\ d \in Datagrams /\ d # <<>> /\ Len(d) = 1 /\ d[1] = m
         /\ Uniform(d) /\ (Closes(d) => m.type # "DATA")
<1>3. d \in Datagrams /\ d # <<>> /\ Len(d) = 1 /\ d[1] = m
  BY Singletons, SingletonSeq
<1>4. Uniform(d)
  BY <1>3 DEF Uniform
<1>5. Closes(d) => m.type # "DATA"
  BY <1>3 DEF Closes
<1> QED
  BY <1>3, <1>4, <1>5

\* A refusal is one message, or is lost.
LEMMA RefuseGrows ==
  ASSUME SockTypeOK, NEW s \in Nat \ {0}, Refuse(s), dump.seq # s
  PROVE  /\ dump' = dump
         /\ \E ds \in Seq(Datagrams) : \E n \in 0..Len(ds) :
              /\ Fresh(ds, s) /\ Grows(ds, n)
              /\ \A j \in 1..Len(ds) : \A k \in 1..Len(ds[j]) : ds[j][k].type = "ERR"
              /\ QueueLimit <= Len(queue) => n = 0
<1> DEFINE m == Msg("ERR", s, FALSE, NoItem)
           d == <<m>>
<1>0. m \in Messages /\ m.seq = s /\ m.type = "ERR" /\ m.ack = FALSE /\ s # 0
  BY MsgIsMessage DEF Msg, Types
<1>1. d \in Datagrams /\ d # <<>> /\ Len(d) = 1 /\ Uniform(d) /\ d[1].seq = s
      /\ d[1].type = "ERR"
  <2> HIDE DEF m
  <2> QED
    BY <1>0, OneMessage
<1>2. Enqueue(<<d>>) /\ dump' = dump
  BY DEF Refuse
<1> HIDE DEF d
<1>3. <<d>> \in Seq(Datagrams) /\ Len(<<d>>) = 1 /\ <<d>>[1] = d
  BY <1>1, SingletonSeq
<1>4. PICK n \in 0..Len(<<d>>) : Grows(<<d>>, n)
  BY <1>2, <1>3, EnqueueGrows
<1>5. Fresh(<<d>>, s)
  BY <1>1, <1>2, <1>3 DEF Fresh
<1>6. ASSUME QueueLimit <= Len(queue)
      PROVE  n = 0
  <2>1. queue \in Seq(Datagrams) /\ Len(queue) \in Nat
    BY DEF SockTypeOK
  <2>2. queue' = queue \o SubSeq(<<d>>, 1, 0)
    BY <1>2, <1>3, <1>6, <2>1, QueueLimitAssumption DEF Enqueue
  <2>3. SubSeq(<<d>>, 1, 0) = <<>>
    BY <1>3
  <2>4. queue' = queue
    BY <2>1, <2>2, <2>3, ConcatEmptySeq
  <2> QED
    BY <1>3, <1>4, <2>1, <2>4 DEF Grows
<1>7. \A j \in 1..Len(<<d>>) : \A k \in 1..Len(<<d>>[j]) : <<d>>[j][k].type = "ERR"
  BY <1>1, <1>3
<1> QED
  BY <1>2, <1>3, <1>4, <1>5, <1>6, <1>7

\* An answer without a dump: its items, then the acknowledgement; the last of
\* these datagrams may be lost.
LEMMA AnswerGrows ==
  ASSUME SockTypeOK, NEW s \in Nat \ {0}, NEW items \in Seq(Items),
         Answer(s, items), dump.seq # s
  PROVE  /\ dump' = dump /\ Len(items) \in Nat
         /\ Len(AnswerTo(s, items)) = Len(items) + 1
         /\ Fresh(AnswerTo(s, items), s)
         /\ \E n \in 0..Len(items) + 1 : Grows(AnswerTo(s, items), n)
         /\ \A j \in 1..Len(items) :
              /\ AnswerTo(s, items)[j] # <<>> /\ Len(AnswerTo(s, items)[j]) = 1
              /\ AnswerTo(s, items)[j][1] = Msg("DATA", s, FALSE, items[j])
         /\ Len(AnswerTo(s, items)[Len(items) + 1]) = 1
         /\ AnswerTo(s, items)[Len(items) + 1][1] = Msg("ACK", s, FALSE, NoItem)
<1> DEFINE ds == AnswerTo(s, items)
<1>1. Enqueue(ds) /\ dump' = dump /\ Len(items) \in Nat
  BY DEF Answer, AnswerTo
<1>2. ds \in Seq(Datagrams)
  BY AnswerIsDatagrams
<1>3. /\ Len(ds) = Len(items) + 1
      /\ \A j \in 1..Len(items) : ds[j] = <<Msg("DATA", s, FALSE, items[j])>>
      /\ ds[Len(items) + 1] = <<Msg("ACK", s, FALSE, NoItem)>>
  BY AnswerToElements
<1> HIDE DEF ds
<1>4. PICK n \in 0..Len(ds) : Grows(ds, n)
  BY <1>1, <1>2, EnqueueGrows
<1>5. ASSUME NEW j \in 1..Len(items)
      PROVE  /\ ds[j] # <<>> /\ Len(ds[j]) = 1 /\ Uniform(ds[j]) /\ ~Closes(ds[j])
             /\ ds[j][1] = Msg("DATA", s, FALSE, items[j]) /\ ds[j][1].seq = s
  <2> DEFINE m == Msg("DATA", s, FALSE, items[j])
  <2>1. items[j] \in Items
    BY <1>5, ElementOfSeq
  <2>2. m \in Messages /\ m.seq = s /\ m.type = "DATA" /\ m.ack = FALSE /\ m.item \in Items
    BY <2>1, MsgIsMessage DEF Msg, Types
  <2>3. ds[j] = <<m>>
    BY <1>3
  <2> HIDE DEF m
  <2>4. ds[j] # <<>> /\ Len(ds[j]) = 1 /\ Uniform(ds[j]) /\ ~Closes(ds[j]) /\ ds[j][1] = m
    BY <2>2, <2>3, OneMessage
  <2> QED
    BY <2>2, <2>4 DEF m
<1> DEFINE d == ds[Len(items) + 1]
<1>6. /\ d # <<>> /\ Len(d) = 1 /\ Uniform(d) /\ d[1].seq = s
      /\ d[1] = Msg("ACK", s, FALSE, NoItem)
  <2> DEFINE m == Msg("ACK", s, FALSE, NoItem)
  <2>1. m \in Messages /\ m.seq = s /\ m.type = "ACK" /\ m.ack = FALSE /\ s # 0
    BY MsgIsMessage DEF Msg, Types
  <2>2. d = <<m>>
    BY <1>3
  <2> HIDE DEF m, d
  <2>3. d # <<>> /\ Len(d) = 1 /\ Uniform(d) /\ d[1] = m
    BY <2>1, <2>2, OneMessage
  <2> QED
    BY <2>1, <2>3 DEF m
<1>7. \A j \in 1..Len(ds) : j = Len(items) + 1 \/ j \in 1..Len(items)
  BY <1>1, <1>3
<1>8. Fresh(ds, s)
  BY <1>1, <1>3, <1>5, <1>6, <1>7 DEF Fresh
<1> QED
  BY <1>1, <1>3, <1>4, <1>5, <1>6, <1>8 DEF ds

\* The first datagram of a dump finds its place.
LEMMA StartDumpGrows ==
  ASSUME SockTypeOK, NEW s \in Nat \ {0}, NEW items \in Seq(Items),
         StartDump(s, items)
  PROVE  /\ dump.seq = 0
         /\ \E b \in Batches([seq |-> s, rest |-> items]) :
              /\ dump' = b.dump /\ dump'.seq \in {0, s}
              /\ dump'.seq = 0 => dump' = NoDump
              /\ b.datagram \in Datagrams
              /\ Fresh(<<b.datagram>>, s) /\ Grows(<<b.datagram>>, 1)
<1> DEFINE d == [seq |-> s, rest |-> items]
<1>1. d \in Dumps /\ d.seq = s
  BY DEF Dumps
<1>2. PICK b \in Batches(d) : Enqueue(<<b.datagram>>) /\ dump' = b.dump
  BY DEF StartDump
<1>3. dump.seq = 0 /\ Len(queue) < QueueLimit
  BY DEF StartDump, CanStartDump
<1> HIDE DEF d
<1>4. /\ b.datagram \in Datagrams /\ b.datagram # <<>> /\ Uniform(b.datagram)
      /\ b.datagram[1].seq = s
      /\ b.dump.seq \in {0, s} /\ (b.dump.seq = 0 => b.dump = NoDump)
      /\ Closes(b.datagram) <=> b.dump.seq = 0
  BY <1>1, BatchesAreDatagrams, BatchIsUniform
<1>5. /\ <<b.datagram>> \in Seq(Datagrams) /\ Len(<<b.datagram>>) = 1
      /\ <<b.datagram>>[1] = b.datagram
  BY <1>4, SingletonSeq
<1>6. Fresh(<<b.datagram>>, s)
  BY <1>2, <1>4, <1>5 DEF Fresh
<1>7. Grows(<<b.datagram>>, 1)
  <2>1. queue \in Seq(Datagrams) /\ Len(queue) \in Nat
    BY DEF SockTypeOK
  <2>2. PICK n \in 0..1 : Grows(<<b.datagram>>, n)
    BY <1>2, <1>5, EnqueueGrows
  <2>3. queue' = queue \o SubSeq(<<b.datagram>>, 1, 1)
    BY <1>2, <1>3, <1>5, <2>1, QueueLimitAssumption DEF Enqueue
  <2>4. SubSeq(<<b.datagram>>, 1, 1) = <<b.datagram>>
    BY <1>5, SubSeqFull
  <2>5. Len(queue') = Len(queue) + 1
    BY <1>5, <2>1, <2>3, <2>4, ConcatProperties
  <2>6. n = 1
    BY <2>1, <2>2, <2>5 DEF Grows
  <2> QED
    BY <2>2, <2>6
<1> QED
  BY <1>2, <1>3, <1>4, <1>6, <1>7 DEF d

\* An event is one message, or is lost.
LEMMA EventGrows ==
  ASSUME SockTypeOK, NEW item \in Items, Event(item)
  PROVE  \E ds \in Seq(Datagrams) : \E n \in 0..Len(ds) :
              /\ Fresh(ds, 0) /\ Grows(ds, n)
              /\ Len(ds) = 1 /\ Len(ds[1]) = 1
              /\ ds[1][1] = Msg("DATA", 0, FALSE, item)
<1> DEFINE m == Msg("DATA", 0, FALSE, item)
           d == <<m>>
<1>0. m \in Messages /\ m.seq = 0 /\ m.type = "DATA" /\ m.ack = FALSE /\ m.item \in Items
  BY MsgIsMessage DEF Msg, Types
<1>1. d \in Datagrams /\ d # <<>> /\ Len(d) = 1 /\ Uniform(d) /\ d[1].seq = 0 /\ ~Closes(d)
      /\ d[1] = m
  <2> HIDE DEF m
  <2> QED
    BY <1>0, OneMessage
<1>2. Enqueue(<<d>>) /\ dump' = dump
  BY DEF Event
<1> HIDE DEF d
<1>3. <<d>> \in Seq(Datagrams) /\ Len(<<d>>) = 1 /\ <<d>>[1] = d
  BY <1>1, SingletonSeq
<1>4. PICK n \in 0..Len(<<d>>) : Grows(<<d>>, n)
  BY <1>2, <1>3, EnqueueGrows
<1>5. Fresh(<<d>>, 0)
  <2>1. \A j \in 1..Len(<<d>>) : <<d>>[j] = d
    BY <1>3
  <2> QED
    BY <1>1, <2>1 DEF Fresh
<1> QED
  BY <1>1, <1>3, <1>4, <1>5

\* A request is sent, refused, answered or starts a dump.
LEMMA SendKeepsOrdered ==
  ASSUME SockTypeOK, Ordered, TakeSeq, rx' = Called, seqExpect' = seqExpect,
         \/ Refuse(seqNext)
         \/ \E items \in Seq(Items) : Answer(seqNext, items) \/ StartDump(seqNext, items)
  PROVE  Ordered'
<1>0. seqNext \in Nat \ {0} /\ seqNext # 0 /\ dump.seq # seqNext /\ dump.seq \in Nat
  BY DEF SockTypeOK, Ordered
<1>1. rx'.buf = <<>> /\ seqNext' = seqNext + 1
  BY DEF Called, TakeSeq
<1>2. ASSUME NEW ds \in Seq(Datagrams), NEW n \in 0..Len(ds), Fresh(ds, seqNext), Grows(ds, n),
             dump' = dump \/ dump' = NoDump \/ dump'.seq = seqNext
      PROVE  Ordered'
  BY <1>0, <1>1, <1>2, GrowthKeepsOrdered
<1>3. CASE Refuse(seqNext)
  <2>1. PICK ds \in Seq(Datagrams) :
          \E n \in 0..Len(ds) : Fresh(ds, seqNext) /\ Grows(ds, n)
    BY <1>0, <1>3, RefuseGrows
  <2> QED
    BY <1>0, <1>2, <1>3, <2>1, RefuseGrows, LenProperties
<1>4. ASSUME NEW items \in Seq(Items), Answer(seqNext, items)
      PROVE  Ordered'
  BY <1>0, <1>2, <1>4, AnswerGrows, AnswerIsDatagrams
<1>5. ASSUME NEW items \in Seq(Items), StartDump(seqNext, items)
      PROVE  Ordered'
  <2>1. PICK b \in Batches([seq |-> seqNext, rest |-> items]) :
              /\ dump' = b.dump /\ dump'.seq \in {0, seqNext}
              /\ dump'.seq = 0 => dump' = NoDump
              /\ b.datagram \in Datagrams
              /\ Fresh(<<b.datagram>>, seqNext) /\ Grows(<<b.datagram>>, 1)
    BY <1>0, <1>5, StartDumpGrows
  <2> DEFINE ds == <<b.datagram>>
  <2>2. ds \in Seq(Datagrams) /\ 1 \in 0..Len(ds)
    BY <2>1, SingletonSeq
  <2>3. Fresh(ds, seqNext) /\ Grows(ds, 1)
    BY <2>1
  <2> HIDE DEF ds
  <2> QED
    BY <1>2, <2>1, <2>2, <2>3
<1> QED
  BY <1>3, <1>4, <1>5

LEMMA EventKeepsOrdered ==
  ASSUME SockTypeOK, Ordered, NEW item \in Items, Event(item)
  PROVE  Ordered'
<1>1. PICK ds \in Seq(Datagrams) : \E n \in 0..Len(ds) : Fresh(ds, 0) /\ Grows(ds, n)
  BY EventGrows
<1>2. Len(ds) \in Nat
  BY LenProperties
<1>3. seqNext' = seqNext /\ seqExpect' = seqExpect /\ dump' = dump /\ rx' = rx
  BY DEF Event
<1>4. rx'.at # "parse" => rx'.buf = <<>>
  BY <1>3 DEF Ordered
<1> QED
  BY <1>1, <1>2, <1>3, <1>4, GrowthKeepsOrdered

-----------------------------------------------------------------------------
(* The items of an answer reach the loop each once and in order.           *)

\* One message of a datagram is taken.
LEMMA AdvancesByOne ==
  ASSUME NEW d \in Seq(Messages), d # <<>>, Uniform(d),
         NEW s, NEW items, NEW a \in Nat, NEW b \in Nat, Advances(d, s, items, a, b)
  PROVE  /\ d[1].seq # s => b = a /\ Advances(Tail(d), s, items, a, b)
         /\ d[1].seq = s /\ d[1].type = "DATA" =>
              /\ a + 1 <= b /\ d[1].item = items[a + 1]
              /\ Advances(Tail(d), s, items, a + 1, b)
         /\ d[1].seq = s /\ d[1].type # "DATA" => b = a /\ a = Len(items)
<1>1. /\ Tail(d) \in Seq(Messages) /\ Len(Tail(d)) = Len(d) - 1 /\ Len(d) \in Nat
      /\ 1 \in 1..Len(d)
      /\ \A k \in 1..Len(d) - 1 : k + 1 \in 1..Len(d) /\ Tail(d)[k] = d[k + 1]
  BY HeadTailProperties
<1>2. CASE d[1].seq # s
  BY <1>2, UniformTail DEF Advances
<1>3. CASE d[1].seq = s /\ d[1].type = "DATA"
  <2>1. b = a + Len(d) /\ \A k \in 1..Len(d) : d[k].item = items[a + k]
    BY <1>3 DEF Advances
  <2>2. a + 1 <= b /\ d[1].item = items[a + 1]
    BY <1>1, <2>1
  <2>3. Tail(d) # <<>> => Tail(d)[1].seq = s /\ Tail(d)[1].type = "DATA"
    <3>1. Tail(d) # <<>> => 1 \in 1..Len(d) - 1 /\ Tail(d)[1] = d[2] /\ 2 \in 1..Len(d)
      BY <1>1
    <3>2. Tail(d) # <<>> => d[2].seq = d[1].seq /\ d[2].type = "DATA"
      BY <1>1, <3>1 DEF Uniform
    <3> QED
      BY <1>3, <3>1, <3>2
  <2>4. b = a + 1 + Len(Tail(d))
    BY <1>1, <2>1
  <2>5. ASSUME NEW k \in 1..Len(Tail(d))
        PROVE  Tail(d)[k].item = items[a + 1 + k]
    <3>1. k + 1 \in 1..Len(d) /\ Tail(d)[k] = d[k + 1] /\ a + (k + 1) = a + 1 + k
      BY <1>1
    <3> QED
      BY <2>1, <3>1
  <2>6. Tail(d) = <<>> => b = a + 1
    <3>1. Tail(d) = <<>> => Len(Tail(d)) = 0
      BY <1>1, EmptySeq
    <3> QED
      BY <1>1, <2>4, <3>1
  <2>7. Advances(Tail(d), s, items, a + 1, b)
    BY <2>3, <2>4, <2>5, <2>6 DEF Advances
  <2> QED
    BY <1>3, <2>2, <2>7
<1>4. CASE d[1].seq = s /\ d[1].type # "DATA"
  BY <1>4 DEF Advances
<1> QED
  BY <1>2, <1>3, <1>4

LEMMA NothingAdvances ==
  ASSUME NEW s, NEW items, NEW a, NEW d, d = <<>> \/ d[1].seq # s
  PROVE  Advances(d, s, items, a, a)
  BY DEF Advances

\* A message of another request is taken, or the call returns with it.
LEMMA FlowPasses ==
  ASSUME SockTypeOK, Ordered, rx.buf # <<>>, NEW s, rx.buf[1].seq # s,
         rx'.buf = <<>> \/ rx'.buf = Tail(rx.buf), UNCHANGED <<queue, dump>>,
         NEW items \in Seq(Items), NEW g, Flow(s, items, g)
  PROVE  Flow(s, items, g)'
<1>1. PICK off \in [0..Len(queue) + 1 -> 0..Len(items)] :
        /\ off[0] = g
        /\ \A i \in Places : Advances(Line(i), s, items, off[i], off[i + 1])
        /\ dump.seq = s =>
             /\ off[Len(queue) + 1] + Len(dump.rest) = Len(items)
             /\ \A k \in 1..Len(dump.rest) :
                  dump.rest[k] = items[off[Len(queue) + 1] + k]
  BY DEF Flow
<1>2. /\ 0 \in Places /\ Line(0) = rx.buf /\ Line(0)' = rx'.buf
      /\ \A i \in Places : i # 0 => Line(i)' = Line(i)
      /\ Len(queue) \in Nat /\ Len(items) \in Nat
      /\ rx.buf \in Seq(Messages) /\ Uniform(rx.buf)
  BY LinesAreDatagrams DEF Places, Line, Ordered
<1>3. off[0] \in Nat /\ off[0 + 1] \in Nat
  BY <1>1, <1>2
<1>4. /\ off[0 + 1] = off[0] /\ Advances(Tail(rx.buf), s, items, off[0], off[0 + 1])
  BY <1>1, <1>2, <1>3, AdvancesByOne
<1>5. Advances(Line(0), s, items, off[0], off[0 + 1])'
  BY <1>2, <1>4 DEF Advances
<1>6. \A i \in Places' : Advances(Line(i), s, items, off[i], off[i + 1])'
  BY <1>1, <1>2, <1>5 DEF Advances, Places
<1> QED
  BY <1>1, <1>6 DEF Flow

\* The next item, or the end.
LEMMA FlowTakes ==
  ASSUME SockTypeOK, Ordered, rx.buf # <<>>, NEW s, rx.buf[1].seq = s,
         UNCHANGED <<queue, dump>>,
         NEW items \in Seq(Items), NEW g, Flow(s, items, g)
  PROVE  /\ g \in 0..Len(items)
         /\ rx.buf[1].type # "DATA" => g = Len(items)
         /\ rx.buf[1].type = "DATA" =>
              /\ g + 1 \in 1..Len(items) /\ rx.buf[1].item = items[g + 1]
              /\ rx'.buf = Tail(rx.buf) => Flow(s, items, g + 1)'
<1>1. PICK off \in [0..Len(queue) + 1 -> 0..Len(items)] :
        /\ off[0] = g
        /\ \A i \in Places : Advances(Line(i), s, items, off[i], off[i + 1])
        /\ dump.seq = s =>
             /\ off[Len(queue) + 1] + Len(dump.rest) = Len(items)
             /\ \A k \in 1..Len(dump.rest) :
                  dump.rest[k] = items[off[Len(queue) + 1] + k]
  BY DEF Flow
<1>2. /\ 0 \in Places /\ Line(0) = rx.buf /\ Line(0)' = rx'.buf
      /\ \A i \in Places : i # 0 => Line(i)' = Line(i)
      /\ Len(queue) \in Nat /\ Len(items) \in Nat
      /\ rx.buf \in Seq(Messages) /\ Uniform(rx.buf)
  BY LinesAreDatagrams DEF Places, Line, Ordered
<1>3. off[0] \in Nat /\ off[0 + 1] \in 0..Len(items) /\ off[0 + 1] \in Nat
      /\ g \in 0..Len(items)
  BY <1>1, <1>2
<1>4. CASE rx.buf[1].type # "DATA"
  BY <1>1, <1>2, <1>3, <1>4, AdvancesByOne
<1>5. CASE rx.buf[1].type = "DATA"
  <2>1. /\ off[0] + 1 <= off[0 + 1] /\ rx.buf[1].item = items[off[0] + 1]
        /\ Advances(Tail(rx.buf), s, items, off[0] + 1, off[0 + 1])
    BY <1>1, <1>2, <1>3, <1>5, AdvancesByOne
  <2>2. g + 1 \in 1..Len(items) /\ g + 1 \in 0..Len(items)
    BY <1>1, <1>2, <1>3, <2>1
  <2>3. ASSUME rx'.buf = Tail(rx.buf)
        PROVE  Flow(s, items, g + 1)'
    <3> DEFINE new == [off EXCEPT ![0] = g + 1]
    <3>1. /\ new \in [0..Len(queue) + 1 -> 0..Len(items)] /\ new[0] = g + 1
          /\ \A i \in 1..Len(queue) + 1 : new[i] = off[i]
      BY <1>1, <1>2, <2>2
    <3> HIDE DEF new
    <3>2. Advances(Line(0), s, items, new[0], new[0 + 1])'
      <4>1. new[0 + 1] = off[0 + 1] /\ new[0] = off[0] + 1
        BY <1>1, <1>2, <3>1
      <4>2. Advances(Tail(rx.buf), s, items, new[0], new[0 + 1])
        BY <2>1, <4>1
      <4> QED
        BY <1>2, <2>3, <4>2 DEF Advances
    <3>3. ASSUME NEW i \in Places, i # 0
          PROVE  Advances(Line(i), s, items, new[i], new[i + 1])'
      <4>1. new[i] = off[i] /\ new[i + 1] = off[i + 1]
        BY <1>2, <3>1, <3>3 DEF Places
      <4>2. Advances(Line(i), s, items, new[i], new[i + 1])
        BY <1>1, <4>1
      <4> QED
        BY <1>2, <3>3, <4>2 DEF Advances
    <3>4. new[Len(queue) + 1] = off[Len(queue) + 1] /\ Places' = Places
      BY <1>2, <3>1 DEF Places
    <3>5. \A i \in Places' : Advances(Line(i), s, items, new[i], new[i + 1])'
      BY <3>2, <3>3, <3>4
    <3>6. dump'.seq = s =>
             /\ new[Len(queue') + 1] + Len(dump'.rest) = Len(items)
             /\ \A k \in 1..Len(dump'.rest) :
                  dump'.rest[k] = items[new[Len(queue') + 1] + k]
      BY <1>1, <3>4
    <3>7. new \in [0..Len(queue') + 1 -> 0..Len(items)]
      BY <3>1
    <3> QED
      BY <3>1, <3>5, <3>6, <3>7 DEF Flow
  <2> QED
    BY <1>1, <1>3, <1>5, <2>1, <2>2, <2>3
<1> QED
  BY <1>3, <1>4, <1>5

\* A read moves the line on, and a dump may add what it has still to say.
LEMMA FlowRead ==
  ASSUME SockTypeOK, Ordered, Read, NEW s \in Nat \ {0},
         NEW items \in Seq(Items), NEW g, Flow(s, items, g)
  PROVE  Flow(s, items, g)'
<1> DEFINE q == Len(queue)
<1>1. PICK off \in [0..q + 1 -> 0..Len(items)] :
        /\ off[0] = g
        /\ \A i \in Places : Advances(Line(i), s, items, off[i], off[i + 1])
        /\ dump.seq = s =>
             /\ off[q + 1] + Len(dump.rest) = Len(items)
             /\ \A k \in 1..Len(dump.rest) : dump.rest[k] = items[off[q + 1] + k]
  BY DEF Flow
<1>2. /\ q \in Nat /\ Len(items) \in Nat /\ 1 \in 1..q /\ q - 1 \in Nat /\ s # 0
      /\ dump \in Dumps /\ rx'.buf = queue[1]
      /\ \A i \in 1..q - 1 : queue'[i] = queue[i + 1]
  BY LinesAreDatagrams, ReadQueue DEF SockTypeOK, Dumps
<1>3. /\ 0 \in Places /\ Line(0) = <<>> /\ off[0 + 1] = off[0]
  <2>1. 0 \in Places /\ Line(0) = rx.buf /\ rx.buf = <<>>
    BY <1>2 DEF Places, Line, Ordered, Read
  <2>2. Advances(Line(0), s, items, off[0], off[0 + 1])
    BY <1>1, <2>1
  <2> QED
    BY <2>1, <2>2 DEF Advances
<1>4. ASSUME NEW i \in 0..q - 1
      PROVE  /\ Line(i)' = Line(i + 1) /\ i + 1 \in Places /\ i + 1 \in 0..q + 1
             /\ i + 2 \in 0..q + 1 /\ (i + 1) + 1 = i + 2
             /\ Advances(Line(i + 1), s, items, off[i + 1], off[i + 2])
  <2>1. i + 1 \in Places /\ Line(i + 1) = queue[i + 1] /\ (i + 1) + 1 = i + 2
    BY <1>2 DEF Places, Line
  <2>2. Line(i)' = queue[i + 1]
    BY <1>2 DEF Line
  <2>3. Advances(Line(i + 1), s, items, off[i + 1], off[(i + 1) + 1])
    BY <1>1, <2>1
  <2>4. i + 1 \in 0..q + 1 /\ i + 2 \in 0..q + 1
    BY <1>2
  <2>5. Line(i)' = Line(i + 1)
    BY <2>1, <2>2
  <2> QED
    BY <2>1, <2>3, <2>4, <2>5
<1>5. CASE dump' = dump /\ Len(queue') = q - 1
  <2> DEFINE new == [i \in 0..q |-> off[i + 1]]
  <2>1. new \in [0..Len(queue') + 1 -> 0..Len(items)] /\ new[0] = g
        /\ new[Len(queue') + 1] = off[q + 1]
    BY <1>1, <1>2, <1>3, <1>5
  <2>2. ASSUME NEW i \in 0..q - 1
        PROVE  new[i] = off[i + 1] /\ new[i + 1] = off[i + 2]
    BY <1>2
  <2> HIDE DEF new
  <2>3. ASSUME NEW i \in Places'
        PROVE  Advances(Line(i)', s, items, new[i], new[i + 1])
    <3>1. i \in 0..q - 1
      BY <1>2, <1>5 DEF Places
    <3>2. Advances(Line(i + 1), s, items, new[i], new[i + 1])
      BY <1>4, <2>2, <3>1
    <3> QED
      BY <1>4, <3>1, <3>2
  <2>4. dump'.seq = s =>
             /\ new[Len(queue') + 1] + Len(dump'.rest) = Len(items)
             /\ \A k \in 1..Len(dump'.rest) :
                  dump'.rest[k] = items[new[Len(queue') + 1] + k]
    BY <1>1, <1>5, <2>1
  <2> QED
    BY <2>1, <2>3, <2>4 DEF Flow
<1>6. ASSUME NEW b \in Batches(dump), dump.seq # 0, dump' = b.dump, Len(queue') = q,
             queue'[q] = b.datagram
      PROVE  Flow(s, items, g)'
  <2>1. ASSUME NEW e \in 0..Len(items),
               Advances(b.datagram, s, items, off[q + 1], e),
               dump'.seq = s =>
                 /\ e + Len(dump'.rest) = Len(items)
                 /\ \A k \in 1..Len(dump'.rest) : dump'.rest[k] = items[e + k]
        PROVE  Flow(s, items, g)'
    <3> DEFINE new == [i \in 0..q + 1 |-> IF i <= q THEN off[i + 1] ELSE e]
    <3>1. new \in [0..Len(queue') + 1 -> 0..Len(items)] /\ new[0] = g
          /\ new[q + 1] = e /\ new[q] = off[q + 1]
      BY <1>1, <1>2, <1>3, <1>6
    <3>2. ASSUME NEW i \in 0..q - 1
          PROVE  new[i] = off[i + 1] /\ new[i + 1] = off[i + 2]
      BY <1>2
    <3> HIDE DEF new
    <3>3. ASSUME NEW i \in Places'
          PROVE  Advances(Line(i)', s, items, new[i], new[i + 1])
      <4>1. CASE i \in 0..q - 1
        <5>2. Advances(Line(i + 1), s, items, new[i], new[i + 1])
          BY <1>4, <3>2, <4>1
        <5> QED
          BY <1>4, <4>1, <5>2
      <4>2. CASE i = q
        <5>1. Line(i)' = b.datagram
          BY <1>2, <1>6, <4>2 DEF Line
        <5> QED
          BY <2>1, <3>1, <4>2, <5>1
      <4> QED
        BY <1>2, <1>6, <4>1, <4>2 DEF Places
    <3>4. dump'.seq = s =>
             /\ new[Len(queue') + 1] + Len(dump'.rest) = Len(items)
             /\ \A k \in 1..Len(dump'.rest) :
                  dump'.rest[k] = items[new[Len(queue') + 1] + k]
      BY <1>6, <2>1, <3>1
    <3> QED
      BY <3>1, <3>3, <3>4 DEF Flow
  <2>2. /\ b.datagram # <<>> /\ b.datagram[1].seq = dump.seq
        /\ b.dump.seq \in {0, dump.seq}
    BY <1>2, <1>6, BatchIsUniform
  <2>3. off[q + 1] \in 0..Len(items)
    BY <1>1, <1>2
  <2>4. CASE dump.seq # s
    BY <1>2, <1>6, <2>1, <2>2, <2>3, <2>4, NothingAdvances
  <2>5. CASE dump.seq = s
    <3> DEFINE a == off[q + 1]
    <3>0. /\ a + Len(dump.rest) = Len(items) /\ Len(dump.rest) \in Nat /\ a \in Nat
          /\ \A k \in 1..Len(dump.rest) : dump.rest[k] = items[a + k]
      BY <1>1, <1>2, <2>3, <2>5 DEF Dumps
    <3> HIDE DEF a
    <3>1. CASE /\ Len(dump.rest) = 0 /\ b.dump = NoDump
               /\ Len(b.datagram) = 1
               /\ b.datagram[1] = Msg("DONE", dump.seq, TRUE, NoItem)
      <4>1. Advances(b.datagram, s, items, a, a)
        BY <2>5, <3>0, <3>1 DEF Advances, Msg
      <4> QED
        BY <1>2, <1>6, <2>1, <2>3, <3>1, <4>1 DEF a, NoDump
    <3>2. ASSUME NEW k \in 1..Len(dump.rest),
                 Len(b.datagram) = k,
                 \A i \in 1..k : b.datagram[i] = Msg("DATA", dump.seq, TRUE, dump.rest[i]),
                 b.dump.seq = dump.seq,
                 Len(b.dump.rest) = Len(dump.rest) - k,
                 \A i \in 1..Len(dump.rest) - k : b.dump.rest[i] = dump.rest[k + i]
          PROVE  Flow(s, items, g)'
      <4>1. \A i \in 1..k : /\ b.datagram[i].item = items[a + i]
                            /\ b.datagram[i].type = "DATA"
        <5> SUFFICES ASSUME NEW i \in 1..k
                     PROVE  /\ b.datagram[i].item = items[a + i]
                            /\ b.datagram[i].type = "DATA"
          OBVIOUS
        <5>1. i \in 1..Len(dump.rest) /\ dump.rest[i] = items[a + i]
          BY <3>0, <3>2
        <5>2. b.datagram[i] = Msg("DATA", dump.seq, TRUE, dump.rest[i])
          BY <3>2
        <5> QED
          BY <5>1, <5>2 DEF Msg
      <4>2. Advances(b.datagram, s, items, a, a + k)
        <5>1. 1 \in 1..k
          BY <3>0
        <5>2. b.datagram[1].type = "DATA"
          BY <4>1, <5>1
        <5>3. \A i \in 1..Len(b.datagram) : b.datagram[i].item = items[a + i]
          BY <3>2, <4>1
        <5> QED
          BY <2>2, <2>5, <3>2, <5>2, <5>3 DEF Advances
      <4>3. a + k \in 0..Len(items) /\ a + k + Len(b.dump.rest) = Len(items)
        <5>1. /\ a \in Nat /\ Len(dump.rest) \in Nat /\ a + Len(dump.rest) = Len(items)
              /\ k \in 1..Len(dump.rest) /\ Len(b.dump.rest) = Len(dump.rest) - k
          BY <3>0, <3>2
        <5>2. Len(items) \in Nat
          OBVIOUS
        <5> DEFINE r == Len(dump.rest)
                   z == Len(b.dump.rest)
                   l == Len(items)
        <5>3. a \in Nat /\ r \in Nat /\ l \in Nat /\ k \in 1..r /\ a + r = l /\ z = r - k
          BY <5>1, <5>2
        <5> HIDE DEF r, z, l
        <5>4. a + k \in 0..l /\ a + k + z = l
          BY ONLY <5>3
        <5> QED
          BY <5>4 DEF r, z, l
      <4>4. ASSUME NEW i \in 1..Len(b.dump.rest)
            PROVE  b.dump.rest[i] = items[a + k + i]
        <5>1. /\ i \in 1..Len(dump.rest) - k /\ k + i \in 1..Len(dump.rest)
              /\ a + (k + i) = a + k + i
          BY <3>0, <3>2
        <5> QED
          BY <3>0, <3>2, <5>1
      <4> QED
        BY <1>6, <2>1, <4>2, <4>3, <4>4 DEF a
    <3> QED
      BY <1>2, <3>1, <3>2, BatchItems
  <2> QED
    BY <2>4, <2>5
<1> QED
  BY <1>2, <1>5, <1>6, ReadQueue

\* Datagrams that have nothing to do with the request get into line.
LEMMA FlowGrows ==
  ASSUME SockTypeOK, NEW s, NEW t, t # s, rx'.buf = rx.buf,
         dump' = dump,
         NEW ds \in Seq(Datagrams), NEW n \in 0..Len(ds), Fresh(ds, t), Grows(ds, n),
         NEW items \in Seq(Items), NEW g, Flow(s, items, g)
  PROVE  Flow(s, items, g)'
<1> DEFINE q == Len(queue)
<1>1. PICK off \in [0..q + 1 -> 0..Len(items)] :
        /\ off[0] = g
        /\ \A i \in Places : Advances(Line(i), s, items, off[i], off[i + 1])
        /\ dump.seq = s =>
             /\ off[q + 1] + Len(dump.rest) = Len(items)
             /\ \A k \in 1..Len(dump.rest) : dump.rest[k] = items[off[q + 1] + k]
  BY DEF Flow
<1>2. /\ q \in Nat /\ Len(items) \in Nat /\ Len(ds) \in Nat /\ n \in Nat /\ n <= Len(ds)
      /\ Len(queue') = q + n
      /\ \A i \in 1..q : queue'[i] = queue[i]
      /\ \A j \in 1..n : queue'[q + j] = ds[j]
  BY LinesAreDatagrams DEF Grows
<1> DEFINE new == [i \in 0..q + n + 1 |-> IF i <= q + 1 THEN off[i] ELSE off[q + 1]]
<1>3. /\ new \in [0..Len(queue') + 1 -> 0..Len(items)] /\ new[0] = g
      /\ new[Len(queue') + 1] = off[q + 1]
      /\ \A i \in 0..q + 1 : new[i] = off[i]
      /\ \A i \in Nat : q + 1 <= i /\ i <= q + n + 1 => new[i] = off[q + 1]
  <2>1. off[q + 1] \in 0..Len(items) /\ \A i \in 0..q + 1 : off[i] \in 0..Len(items)
    <3>1. off \in [0..q + 1 -> 0..Len(items)] /\ q + 1 \in 0..q + 1
      BY <1>1, <1>2
    <3> QED
      BY <3>1
  <2>2. \A i \in 0..q + 1 : i \in 0..q + n + 1 /\ i <= q + 1
    BY <1>2
  <2>3. new \in [0..q + n + 1 -> 0..Len(items)]
    BY <1>2, <2>1
  <2>4. \A i \in 0..q + 1 : new[i] = off[i]
    BY <2>2
  <2>5. \A i \in Nat : q + 1 <= i /\ i <= q + n + 1 => new[i] = off[q + 1]
    BY <1>2
  <2>6. Len(queue') + 1 = q + n + 1 /\ 0 \in 0..q + 1 /\ q + n + 1 \in Nat
        /\ q + 1 <= q + n + 1
    BY <1>2
  <2>7. new[q + n + 1] = off[q + 1]
    BY <2>5, <2>6
  <2> QED
    BY <1>1, <2>3, <2>4, <2>5, <2>6, <2>7
<1> HIDE DEF new
<1>4. ASSUME NEW i \in Places'
      PROVE  Advances(Line(i)', s, items, new[i], new[i + 1])
  <2>1. CASE i \in 0..q
    <3>1. Line(i)' = Line(i) /\ i \in Places
      BY <1>2, <2>1 DEF Line, Places
    <3>0. i \in 0..q + 1 /\ i + 1 \in 0..q + 1
      BY <1>2, <2>1
    <3>2. new[i] = off[i] /\ new[i + 1] = off[i + 1]
      BY <1>3, <3>0
    <3>3. Advances(Line(i), s, items, new[i], new[i + 1])
      BY <1>1, <3>1, <3>2
    <3> QED
      BY <3>1, <3>3
  <2>2. CASE i \in q + 1..q + n
    <3>1. i - q \in 1..n /\ i - q \in 1..Len(ds) /\ q + (i - q) = i /\ i # 0
      BY <1>2, <2>2
    <3>2. Line(i)' = ds[i - q]
      <4>1. queue'[q + (i - q)] = ds[i - q]
        BY <1>2, <3>1
      <4> QED
        BY <3>1, <4>1 DEF Line
    <3>3. ds[i - q][1].seq = t
      BY <3>1 DEF Fresh
    <3>0. /\ i \in Nat /\ q + 1 <= i /\ i <= q + n + 1
          /\ i + 1 \in Nat /\ q + 1 <= i + 1 /\ i + 1 <= q + n + 1
      BY <1>2, <2>2
    <3>6. \A k \in Nat : q + 1 <= k /\ k <= q + n + 1 => new[k] = off[q + 1]
      BY <1>3
    <3> HIDE DEF q
    <3>4. new[i] = off[q + 1] /\ new[i + 1] = off[q + 1]
      BY <3>0, <3>6
    <3>5. Advances(ds[i - q], s, items, new[i], new[i + 1])
      BY <3>3, <3>4, NothingAdvances
    <3> QED
      BY <3>2, <3>5
  <2> QED
    BY <1>2, <2>1, <2>2 DEF Places
<1>5. dump'.seq = s =>
           /\ new[Len(queue') + 1] + Len(dump'.rest) = Len(items)
           /\ \A k \in 1..Len(dump'.rest) :
                dump'.rest[k] = items[new[Len(queue') + 1] + k]
  BY <1>1, <1>3
<1> QED
  BY <1>3, <1>4, <1>5 DEF Flow

\* Nothing comes or goes.
LEMMA FlowStays ==
  ASSUME UNCHANGED <<queue, dump>>, rx'.buf = rx.buf
  PROVE  \A s, its, g : Flow(s, its, g) => Flow(s, its, g)'
<1> SUFFICES ASSUME NEW s, NEW its, NEW g, Flow(s, its, g) PROVE Flow(s, its, g)'
  OBVIOUS
<1>1. \A i : Line(i)' = Line(i)
  BY DEF Line
<1> QED
  BY <1>1 DEF Flow, Places

\* A dump that has just started has all its items to say.
LEMMA FlowStarts ==
  ASSUME SockTypeOK, NEW s \in Nat \ {0}, rx'.buf = <<>>,
         \A i \in 1..Len(queue) : queue[i] = <<>> \/ queue[i][1].seq # s,
         NEW items \in Seq(Items), StartDump(s, items)
  PROVE  Flow(s, items, 0)'
<1> DEFINE d == [seq |-> s, rest |-> items]
           q == Len(queue)
<1>0. d \in Dumps /\ d.seq = s /\ d.rest = items /\ d.seq # 0
  BY DEF Dumps
<1>1. PICK b \in Batches(d) :
            /\ dump' = b.dump /\ dump'.seq \in {0, s}
            /\ b.datagram \in Datagrams
            /\ Grows(<<b.datagram>>, 1)
  BY StartDumpGrows
<1> HIDE DEF d
<1>2. /\ q \in Nat /\ Len(items) \in Nat /\ Len(queue') = q + 1 /\ s # 0
      /\ \A i \in 1..q : queue'[i] = queue[i]
      /\ queue'[q + 1] = b.datagram
  <2>1. <<b.datagram>>[1] = b.datagram
    BY <1>1, SingletonSeq
  <2> QED
    BY <1>1, <2>1, LinesAreDatagrams DEF Grows
<1>3. ASSUME NEW e \in 0..Len(items),
             Advances(b.datagram, s, items, 0, e),
             dump'.seq = s =>
               /\ e + Len(dump'.rest) = Len(items)
               /\ \A k \in 1..Len(dump'.rest) : dump'.rest[k] = items[e + k]
      PROVE  Flow(s, items, 0)'
  <2> DEFINE new == [i \in 0..q + 2 |-> IF i <= q + 1 THEN 0 ELSE e]
  <2>1. new \in [0..Len(queue') + 1 -> 0..Len(items)] /\ new[0] = 0
        /\ new[q + 2] = e /\ new[q + 1] = 0
        /\ \A i \in 0..q + 1 : new[i] = 0
    BY <1>2
  <2> HIDE DEF new
  <2>2. ASSUME NEW i \in Places'
        PROVE  Advances(Line(i)', s, items, new[i], new[i + 1])
    <3>1. CASE i \in 0..q
      <4>1. i \in 0..q + 1 /\ i + 1 \in 0..q + 1
        BY <1>2, <3>1
      <4>2. new[i] = 0 /\ new[i + 1] = 0
        BY <2>1, <4>1
      <4>3. Line(i)' = <<>> \/ Line(i)'[1].seq # s
        BY <1>2, <3>1 DEF Line
      <4> QED
        BY <4>2, <4>3, NothingAdvances
    <3>2. CASE i = q + 1
      <4>1. Line(i)' = b.datagram /\ i + 1 = q + 2
        BY <1>2, <3>2 DEF Line
      <4> QED
        BY <1>3, <2>1, <3>2, <4>1
    <3> QED
      BY <1>2, <3>1, <3>2 DEF Places
  <2>3. dump'.seq = s =>
           /\ new[Len(queue') + 1] + Len(dump'.rest) = Len(items)
           /\ \A k \in 1..Len(dump'.rest) :
                dump'.rest[k] = items[new[Len(queue') + 1] + k]
    <3>1. Len(queue') + 1 = q + 2
      BY <1>2
    <3> QED
      BY <1>3, <2>1, <3>1
  <2> QED
    BY <2>1, <2>2, <2>3 DEF Flow
<1>4. b.datagram # <<>> /\ b.datagram[1].seq = s
  BY <1>0, BatchIsUniform
<1>5. CASE /\ Len(d.rest) = 0 /\ b.dump = NoDump
           /\ Len(b.datagram) = 1
           /\ b.datagram[1] = Msg("DONE", d.seq, TRUE, NoItem)
  <2>1. Advances(b.datagram, s, items, 0, 0)
    BY <1>0, <1>5 DEF Advances, Msg
  <2> QED
    BY <1>0, <1>1, <1>2, <1>3, <1>5, <2>1 DEF NoDump
<1>6. ASSUME NEW k \in 1..Len(items),
             Len(b.datagram) = k,
             \A i \in 1..k : b.datagram[i] = Msg("DATA", d.seq, TRUE, d.rest[i]),
             b.dump.seq = d.seq,
             Len(b.dump.rest) = Len(items) - k,
             \A i \in 1..Len(items) - k : b.dump.rest[i] = items[k + i]
      PROVE  Flow(s, items, 0)'
  <2>1. \A i \in 1..k : b.datagram[i].item = items[0 + i] /\ b.datagram[i].type = "DATA"
    <3> SUFFICES ASSUME NEW i \in 1..k
                 PROVE  b.datagram[i].item = items[0 + i] /\ b.datagram[i].type = "DATA"
      OBVIOUS
    <3>1. b.datagram[i] = Msg("DATA", d.seq, TRUE, items[i])
      BY <1>0, <1>6
    <3>2. 0 + i = i
      BY <1>2
    <3> QED
      BY <3>1, <3>2 DEF Msg
  <2>2. k \in Nat /\ 1 \in 1..k /\ k <= Len(items) /\ 0 + k = k
    BY <1>2
  <2>3. Advances(b.datagram, s, items, 0, k)
    <3>1. b.datagram[1].type = "DATA"
      BY <2>1, <2>2
    <3>2. \A i \in 1..Len(b.datagram) : b.datagram[i].item = items[0 + i]
      BY <1>6, <2>1
    <3>3. k = 0 + Len(b.datagram)
      BY <1>6, <2>2
    <3> QED
      BY <1>4, <3>1, <3>2, <3>3 DEF Advances
  <2>4. k + Len(b.dump.rest) = Len(items)
    BY <1>2, <1>6, <2>2
  <2>5. \A i \in 1..Len(b.dump.rest) : b.dump.rest[i] = items[k + i]
    BY <1>6
  <2>6. k \in 0..Len(items)
    BY <1>2, <2>2
  <2> QED
    BY <1>1, <1>3, <2>3, <2>4, <2>5, <2>6
<1> QED
  BY <1>0, <1>5, <1>6, BatchItems

-----------------------------------------------------------------------------
(* What one pass of the loop does when the program leaves the check of the *)
(* sequence number to the library.                                         *)

\* When no answer is owed only events are on their way.
LEMMA InStepOnlyEvents ==
  ASSUME SockTypeOK, Ordered, seqExpect = seqNext
  PROVE  /\ dump = NoDump
         /\ \A i \in Places : \A k \in 1..Len(Line(i)) :
              Line(i)[k].seq = 0 /\ Line(i)[k].type = "DATA"
<1>0. seqNext \in Nat /\ dump.seq \in Nat
  BY DEF SockTypeOK
<1>1. dump = NoDump
  BY <1>0 DEF Ordered
<1> SUFFICES ASSUME NEW i \in Places, NEW k \in 1..Len(Line(i))
             PROVE  Line(i)[k].seq = 0 /\ Line(i)[k].type = "DATA"
  BY <1>1
<1>2. Line(i) \in Seq(Messages) /\ Uniform(Line(i)) /\ Current(Line(i))
  BY LinesAreDatagrams DEF Ordered
<1>3. Line(i) # <<>> /\ 1 \in 1..Len(Line(i)) /\ Line(i)[1] \in Messages
  BY <1>2, ElementOfSeq
<1>4. Line(i)[1].seq \in Nat
  BY <1>3 DEF Messages
<1>5. Line(i)[1].seq = 0
  BY <1>0, <1>2, <1>3, <1>4 DEF Current
<1> QED
  BY <1>2, <1>5 DEF Uniform

\* The handlers a program sets besides that of NL_CB_SEQ_CHECK.
Plainly(cb) == DOMAIN cb \subseteq {"VALID", "FINISH", "ACK", "ERR"}

LEMMA ParseFacts ==
  ASSUME SockTypeOK, Ordered, NEW cb, Plainly(cb), Parse(cb),
         NEW m, m = rx.buf[1]
  PROVE  /\ rx.at = "parse" /\ rx.buf # <<>> /\ m \in Messages /\ Head(rx.buf) = m
         /\ UNCHANGED <<seqNext, queue, dump>>
         /\ m.type \in {"DATA", "DONE", "ACK", "ERR"}
         /\ m.type = "DATA" => m.item \in Items
         /\ m.type # "DATA" => m.seq # 0
         /\ m.seq = 0 \/ (seqExpect <= m.seq /\ m.seq < seqNext)
         /\ m.seq # seqExpect =>
              /\ seqExpect' = seqExpect /\ rx' = Returned("fail")
              /\ \A slot \in Slots : ~Handles(cb, slot)
         /\ m.seq = seqExpect =>
              /\ seqExpect' = IF m.type = "DATA" THEN seqExpect ELSE seqExpect + 1
              /\ \A slot \in Slots :
                   Handles(cb, slot) <=> slot \in DOMAIN cb /\ SlotOf[m.type] = slot
              /\ \/ Dispatched(cb, m) = "FAIL" /\ rx' = Returned("fail")
                 \/ Dispatched(cb, m) = "STOP" /\ rx' = Returned("ok")
                 \/ /\ Dispatched(cb, m) \notin {"FAIL", "STOP"}
                    /\ rx'.at = "parse" /\ rx'.buf = Tail(rx.buf) /\ rx'.ret = rx.ret
                    /\ rx'.multi = IF m.type = "DONE" THEN FALSE ELSE rx.multi \/ m.multi
<1>1. rx.at = "parse" /\ rx.buf # <<>> /\ m \in Messages /\ Head(rx.buf) = m
      /\ 1 \in 1..Len(rx.buf)
  BY HeadOfBuf DEF Parse
<1>2. UNCHANGED <<seqNext, queue, dump>>
  BY DEF Parse
<1>3. Uniform(rx.buf) /\ Current(rx.buf)
  <2>1. 0 \in Places /\ Line(0) = rx.buf
    BY LinesAreDatagrams DEF Places, Line
  <2> QED
    BY <2>1 DEF Ordered
<1>4. /\ m.type \in {"DATA", "DONE", "ACK", "ERR"} /\ m.ack = FALSE
      /\ m.type = "DATA" => m.item \in Items
      /\ m.type # "DATA" => m.seq # 0
      /\ m.seq = 0 \/ (seqExpect <= m.seq /\ m.seq < seqNext)
  <2>1. m.ack \in BOOLEAN /\ ~m.ack
    BY <1>1, <1>3 DEF Uniform, Messages
  <2>2. m.ack = FALSE
    BY <2>1
  <2> QED
    BY <1>1, <1>3, <2>2 DEF Uniform, Current
<1>5. Screened(cb, seqExpect, m) = IF m.seq = seqExpect THEN "OK" ELSE "FAIL"
  BY DEF Plainly, Screened, Then, CallOr
<1>6. Acknowledged(cb, m) = "OK"
  BY <1>4 DEF Acknowledged
<1>7. ASSUME m.seq # seqExpect
      PROVE  /\ seqExpect' = seqExpect /\ rx' = Returned("fail")
             /\ \A slot \in Slots : ~Handles(cb, slot)
  <2>1. Screened(cb, seqExpect, m) = "FAIL"
    BY <1>5, <1>7
  <2>2. Verdict(cb, seqExpect, m) = "FAIL"
    BY <2>1 DEF Verdict, Then
  <2> QED
    BY <1>1, <2>1, <2>2 DEF Parse, ExpectAfter, Handles, Runs
<1>8. ASSUME m.seq = seqExpect
      PROVE  /\ seqExpect' = IF m.type = "DATA" THEN seqExpect ELSE seqExpect + 1
             /\ \A slot \in Slots :
                  Handles(cb, slot) <=> slot \in DOMAIN cb /\ SlotOf[m.type] = slot
             /\ \/ Dispatched(cb, m) = "FAIL" /\ rx' = Returned("fail")
                \/ Dispatched(cb, m) = "STOP" /\ rx' = Returned("ok")
                \/ /\ Dispatched(cb, m) \notin {"FAIL", "STOP"}
                   /\ rx'.at = "parse" /\ rx'.buf = Tail(rx.buf) /\ rx'.ret = rx.ret
                   /\ rx'.multi = IF m.type = "DONE" THEN FALSE ELSE rx.multi \/ m.multi
  <2>1. Screened(cb, seqExpect, m) = "OK"
    BY <1>5, <1>8
  <2>2. Verdict(cb, seqExpect, m) = Dispatched(cb, m)
    BY <1>6, <2>1 DEF Verdict, Then
  <2>3. seqExpect' = IF m.type = "DATA" THEN seqExpect ELSE seqExpect + 1
    BY <1>1, <1>4, <2>1 DEF Parse, ExpectAfter, Terminators, Types
  <2>4. \A slot \in Slots :
          Handles(cb, slot) <=> slot \in DOMAIN cb /\ SlotOf[m.type] = slot
    BY <1>1, <1>6, <2>1 DEF Handles, Runs
  <2>5. Dispatched(cb, m) = "FAIL" => rx' = Returned("fail")
    BY <1>1, <2>2 DEF Parse
  <2>6. Dispatched(cb, m) = "STOP" => rx' = Returned("ok")
    BY <1>1, <2>2 DEF Parse
  <2>7. ASSUME Dispatched(cb, m) \notin {"FAIL", "STOP"}
        PROVE  /\ rx'.at = "parse" /\ rx'.buf = Tail(rx.buf) /\ rx'.ret = rx.ret
               /\ rx'.multi = IF m.type = "DONE" THEN FALSE ELSE rx.multi \/ m.multi
    <3>1. rx' = [rx EXCEPT !.buf = Tail(rx.buf),
                           !.multi = MultiAfter(cb, seqExpect, rx.multi, m)]
      BY <1>1, <2>2, <2>7 DEF Parse
    <3>2. MultiAfter(cb, seqExpect, rx.multi, m)
            = IF m.type = "DONE" THEN FALSE ELSE rx.multi \/ m.multi
      BY <1>6, <2>1 DEF MultiAfter
    <3>3. rx \in RxStates
      BY DEF SockTypeOK
    <3> DEFINE new == MultiAfter(cb, seqExpect, rx.multi, m)
    <3>4. rx'.at = rx.at /\ rx'.buf = Tail(rx.buf) /\ rx'.ret = rx.ret /\ rx'.multi = new
      <4> HIDE DEF new
      <4> QED
        BY <3>1, <3>3 DEF RxStates, new
    <3> QED
      BY <1>1, <3>2, <3>4
  <2> QED
    BY <2>3, <2>4, <2>5, <2>6, <2>7
<1> QED
  BY <1>1, <1>2, <1>4, <1>7, <1>8

LEMMA ReturnedFields ==
  ASSUME NEW ret
  PROVE  /\ Returned(ret).at = "out" /\ Returned(ret).buf = <<>>
         /\ Returned(ret).multi = FALSE /\ Returned(ret).ret = ret
  BY DEF Returned, NotCalled, Called

LEMMA PlainParseKeepsOrdered ==
  ASSUME SockTypeOK, Ordered, NEW cb, Plainly(cb), Parse(cb)
  PROVE  Ordered'
<1> DEFINE m == rx.buf[1]
<1>1. /\ rx.at = "parse" /\ rx.buf # <<>>
      /\ UNCHANGED <<seqNext, queue, dump>>
      /\ m.seq # seqExpect => seqExpect' = seqExpect /\ rx' = Returned("fail")
      /\ m.seq = seqExpect =>
           /\ seqExpect' = IF m.type = "DATA" THEN seqExpect ELSE seqExpect + 1
           /\ \/ rx' = Returned("fail")
              \/ rx' = Returned("ok")
              \/ rx'.at = "parse" /\ rx'.buf = Tail(rx.buf)
  BY ParseFacts
<1>2. /\ rx'.buf = <<>> \/ rx'.buf = Tail(rx.buf)
      /\ rx'.at # "parse" => rx'.buf = <<>>
  BY <1>1, ReturnedFields
<1>3. \/ seqExpect' = seqExpect
      \/ seqExpect' = seqExpect + 1 /\ m.seq = seqExpect /\ m.type # "DATA"
  BY <1>1
<1> QED
  BY <1>1, <1>2, <1>3, ParseKeepsOrdered

-----------------------------------------------------------------------------
(* The types once more, for the steps that send and for events.            *)

LEMMA SendKeepsType ==
  ASSUME SockTypeOK, TakeSeq, rx' = Called, seqExpect' = seqExpect,
         \/ Refuse(seqNext)
         \/ \E items \in Seq(Items) : Answer(seqNext, items) \/ StartDump(seqNext, items)
  PROVE  SockTypeOK'
<1>1. seqNext \in Nat /\ seqNext' \in Nat \ {0} /\ seqExpect' \in Nat \ {0}
  BY DEF SockTypeOK, TakeSeq
<1>2. rx' \in RxStates
  BY DEF Called, RxStates, Datagrams
<1>3. queue' \in Seq(Datagrams) /\ overrun' \in BOOLEAN /\ dump' \in Dumps
  BY <1>1, RefuseKeepsType, AnswerKeepsType, StartDumpKeepsType
<1> QED
  BY <1>1, <1>2, <1>3 DEF SockTypeOK, Dumps

LEMMA EventKeepsType ==
  ASSUME SockTypeOK, NEW item \in Items, Event(item)
  PROVE  SockTypeOK'
<1>1. << <<Msg("DATA", 0, FALSE, item)>> >> \in Seq(Datagrams)
  BY MsgIsMessage, Singletons DEF Types
<1>2. queue' \in Seq(Datagrams) /\ overrun' \in BOOLEAN
  BY <1>1, EnqueueKeepsType DEF Event
<1> QED
  BY <1>2 DEF Event, SockTypeOK

-----------------------------------------------------------------------------
(* The messages on their way, one by one.                                  *)

InLine(x) == \E i \in Places : \E k \in 1..Len(Line(i)) : x = Line(i)[k]

LEMMA LineMessages ==
  ASSUME SockTypeOK, Ordered, NEW x, InLine(x)
  PROVE  /\ x \in Messages /\ x.seq \in Nat
         /\ x.seq = 0 \/ (seqExpect <= x.seq /\ x.seq < seqNext)
         /\ x.type \in {"DATA", "DONE", "ACK", "ERR"}
         /\ x.type # "DATA" => x.seq # 0
<1>1. PICK i \in Places : \E k \in 1..Len(Line(i)) : x = Line(i)[k]
  BY DEF InLine
<1>2. PICK k \in 1..Len(Line(i)) : x = Line(i)[k]
  BY <1>1
<1>3. Line(i) \in Seq(Messages) /\ Uniform(Line(i)) /\ Current(Line(i))
  BY LinesAreDatagrams DEF Ordered
<1>4. x \in Messages /\ Line(i) # <<>>
  BY <1>2, <1>3, ElementOfSeq
<1>5. x.seq \in Nat
  BY <1>4 DEF Messages
<1>6. x.seq = Line(i)[1].seq /\ x.type \in {"DATA", "DONE", "ACK", "ERR"}
      /\ (x.type # "DATA" => Line(i)[1].seq # 0)
  BY <1>2, <1>3 DEF Uniform
<1> QED
  BY <1>3, <1>4, <1>5, <1>6 DEF Current

LEMMA HeadInLine ==
  ASSUME SockTypeOK, rx.buf # <<>>
  PROVE  InLine(rx.buf[1])
<1>1. 0 \in Places /\ Line(0) = rx.buf /\ 1 \in 1..Len(rx.buf)
  BY LinesAreDatagrams, HeadOfBuf DEF Places, Line
<1> QED
  BY <1>1 DEF InLine

\* A message is taken, or all that is left of the datagram is dropped.
LEMMA ParseLine ==
  ASSUME SockTypeOK, queue' = queue,
         rx'.buf = <<>> \/ rx'.buf = rx.buf \/ (rx.buf # <<>> /\ rx'.buf = Tail(rx.buf)),
         NEW x, InLine(x)'
  PROVE  InLine(x)
<1>0. Len(queue) \in Nat /\ 0 \in Places /\ Line(0) = rx.buf
  BY LinesAreDatagrams DEF Places, Line
<1>1. PICK i \in Places' : \E k \in 1..Len(Line(i)') : x = Line(i)'[k]
  BY DEF InLine
<1>2. PICK k \in 1..Len(Line(i)') : x = Line(i)'[k]
  BY <1>1
<1>3. CASE i = 0
  <2>1. Line(i)' = rx'.buf
    BY <1>3 DEF Line
  <2>2. CASE rx'.buf = <<>>
    BY <1>2, <2>1, <2>2
  <2>3. CASE rx'.buf = rx.buf
    BY <1>0, <1>2, <2>1, <2>3 DEF InLine
  <2>4. CASE rx.buf # <<>> /\ rx'.buf = Tail(rx.buf)
    <3>1. k + 1 \in 1..Len(rx.buf) /\ x = rx.buf[k + 1]
      BY <1>2, <2>1, <2>4, HeadOfBuf
    <3> QED
      BY <1>0, <3>1 DEF InLine
  <2> QED
    BY <2>2, <2>3, <2>4
<1>4. CASE i # 0
  <2>1. i \in Places /\ Line(i)' = Line(i)
    BY <1>0, <1>4 DEF Places, Line
  <2> QED
    BY <1>2, <2>1 DEF InLine
<1> QED
  BY <1>3, <1>4

\* A read adds nothing but what the dump has still to say.
LEMMA ReadLine ==
  ASSUME SockTypeOK, Read, NEW x, InLine(x)'
  PROVE  \/ InLine(x)
         \/ /\ dump.seq # 0 /\ x.seq = dump.seq /\ x.type \in {"DATA", "DONE"}
            /\ x.multi
<1> DEFINE n == Len(queue) - 1
<1>0. Len(queue) \in Nat /\ 1 \in 1..Len(queue) /\ n \in Nat /\ dump \in Dumps
  BY LinesAreDatagrams, ReadQueue DEF SockTypeOK, Dumps
<1>1. PICK i \in Places' : \E k \in 1..Len(Line(i)') : x = Line(i)'[k]
  BY DEF InLine
<1>2. PICK k \in 1..Len(Line(i)') : x = Line(i)'[k]
  BY <1>1
<1>3. CASE i \in 0..n
  <2>1. i + 1 \in Places /\ Line(i + 1) = queue[i + 1]
    BY <1>0, <1>3 DEF Places, Line
  <2>2. Line(i)' = queue[i + 1]
    BY <1>0, <1>3, ReadQueue DEF Line
  <2> QED
    BY <1>2, <2>1, <2>2 DEF InLine
<1>4. CASE i \notin 0..n
  <2>1. PICK b \in Batches(dump) :
          dump.seq # 0 /\ Len(queue') = Len(queue) /\ queue'[Len(queue)] = b.datagram
    <3>1. Len(queue') # Len(queue) - 1
      BY <1>0, <1>4 DEF Places
    <3> QED
      BY <1>0, <3>1, ReadQueue
  <2>2. i = Len(queue) /\ i # 0
    BY <1>0, <1>4, <2>1 DEF Places
  <2>3. Line(i)' = b.datagram
    BY <2>1, <2>2 DEF Line
  <2>4. k \in 1..Len(b.datagram) /\ x = b.datagram[k]
    BY <1>2, <2>3
  <2>5. CASE b.datagram = <<Msg("DONE", dump.seq, TRUE, NoItem)>>
    <3> DEFINE d == Msg("DONE", dump.seq, TRUE, NoItem)
    <3>1. b.datagram = <<d>>
      BY <2>5
    <3>2. d.seq = dump.seq /\ d.type = "DONE" /\ d.multi = TRUE
      BY DEF Msg
    <3> HIDE DEF d
    <3>3. x = d
      BY <2>4, <3>1
    <3> QED
      BY <2>1, <3>2, <3>3
  <2>6. CASE \A j \in 1..Len(b.datagram) :
               \E item \in Items : b.datagram[j] = Msg("DATA", dump.seq, TRUE, item)
    <3>1. PICK item \in Items : x = Msg("DATA", dump.seq, TRUE, item)
      BY <2>4, <2>6
    <3> QED
      BY <2>1, <3>1 DEF Msg
  <2> QED
    BY <1>0, <2>5, <2>6, BatchesAreDatagrams
<1> QED
  BY <1>3, <1>4

LEMMA GrowthLine ==
  ASSUME SockTypeOK, rx'.buf = <<>> \/ rx'.buf = rx.buf,
         NEW ds, NEW n \in Nat, Grows(ds, n), NEW x, InLine(x)'
  PROVE  InLine(x) \/ \E j \in 1..n : \E k \in 1..Len(ds[j]) : x = ds[j][k]
<1> DEFINE q == Len(queue)
<1>0. q \in Nat /\ 0 \in Places /\ Line(0) = rx.buf
      /\ Len(queue') = q + n
      /\ (\A i \in 1..q : queue'[i] = queue[i])
      /\ \A j \in 1..n : queue'[q + j] = ds[j]
  BY LinesAreDatagrams DEF Places, Line, Grows
<1>1. PICK i \in Places' : \E k \in 1..Len(Line(i)') : x = Line(i)'[k]
  BY DEF InLine
<1>2. PICK k \in 1..Len(Line(i)') : x = Line(i)'[k]
  BY <1>1
<1>3. CASE i = 0
  <2>1. Line(i)' = rx'.buf
    BY <1>3 DEF Line
  <2> QED
    BY <1>0, <1>2, <2>1 DEF InLine
<1>4. CASE i \in 1..q
  <2>1. i \in Places /\ Line(i)' = Line(i)
    BY <1>0, <1>4 DEF Places, Line
  <2> QED
    BY <1>2, <2>1 DEF InLine
<1>5. CASE i \in q + 1..q + n
  <2>1. i - q \in 1..n /\ q + (i - q) = i /\ i # 0
    BY <1>0, <1>5
  <2>2. Line(i)' = ds[i - q]
    <3>1. queue'[q + (i - q)] = ds[i - q]
      BY <1>0, <2>1
    <3> QED
      BY <2>1, <3>1 DEF Line
  <2> QED
    BY <1>2, <2>1, <2>2
<1> QED
  BY <1>0, <1>3, <1>4, <1>5 DEF Places

\* The messages of a dump carry its number, and are multipart.
LEMMA BatchMessages ==
  ASSUME NEW s \in Nat, NEW items \in Seq(Items),
         NEW b \in Batches([seq |-> s, rest |-> items]),
         NEW k \in 1..Len(b.datagram)
  PROVE  /\ b.datagram[k].type \in {"DATA", "DONE"} /\ b.datagram[k].multi
         /\ b.datagram[k].seq = s
<1> DEFINE d == [seq |-> s, rest |-> items]
<1>1. d \in Dumps /\ d.seq = s
  BY DEF Dumps
<1> HIDE DEF d
<1>2. b \in Batches(d)
  BY DEF d
<1>3. \/ b.datagram = <<Msg("DONE", d.seq, TRUE, NoItem)>>
      \/ \A i \in 1..Len(b.datagram) :
                    \E item \in Items : b.datagram[i] = Msg("DATA", d.seq, TRUE, item)
  BY <1>1, <1>2, BatchesAreDatagrams
<1>4. CASE b.datagram = <<Msg("DONE", d.seq, TRUE, NoItem)>>
  BY <1>1, <1>4 DEF Msg
<1>5. CASE \A i \in 1..Len(b.datagram) :
                    \E item \in Items : b.datagram[i] = Msg("DATA", d.seq, TRUE, item)
  <2>1. PICK item \in Items : b.datagram[k] = Msg("DATA", d.seq, TRUE, item)
    BY <1>5
  <2> QED
    BY <1>1, <2>1 DEF Msg
<1> QED
  BY <1>3, <1>4, <1>5
=============================================================================
