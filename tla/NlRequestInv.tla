---------------------------- MODULE NlRequestInv ----------------------------
(***************************************************************************)
(* Inductive invariants of NlRequest: what is in the socket, between the   *)
(* kernel and the caller, at every moment of a request.                    *)
(***************************************************************************)
EXTENDS NlRequest

\* A message that answers a request made before number n, with its payload.
Sound(m, n) == m.seq < n /\ (m.type = "DATA" => m.item \in Items)

SoundDatagram(d, n) == d # <<>> /\ \A i \in 1..Len(d) : Sound(d[i], n)

\* Every message on its way answers a request that was made.
SeqInv ==
  /\ TypeOK
  /\ seqExpect <= seqNext
  /\ dump.seq < seqNext
  /\ \A i \in 1..Len(queue) : SoundDatagram(queue[i], seqNext)
  /\ \A i \in 1..Len(rx.buf) : Sound(rx.buf[i], seqNext)

\* Items of the answer to request s; a function c that calls nl_recvmsgs() once
\* gets them in a multipart answer only.
Plain(c, d, s) ==
  \A i \in 1..Len(d) : /\ d[i].type = "DATA" /\ d[i].seq = s /\ ~d[i].ack
                       /\ c \in Loops \/ d[i].multi

\* The message that ends the answer to request s.
Final(d, s) ==
  /\ Len(d) = 1
  /\ d[1].type \in {"DONE", "ACK", "ERR"} /\ d[1].seq = s /\ ~d[1].ack

\* Nothing of any request is left in the socket.
Settled ==
  /\ seqExpect = seqNext
  /\ queue = <<>>
  /\ dump = NoDump
  /\ rx.buf = <<>>

\* The answer to the request in progress is on its way: first items, then
\* exactly one message that ends it, in the datagram being parsed, in the
\* queue, or still to be produced by the dump.
Outstanding ==
  LET s == seqNext - 1
  IN  /\ pc = "waiting"
      /\ seqExpect = s
      /\ \/ /\ Plain(caller, rx.buf, s)
            /\ \/ dump.seq = s /\ Len(queue) = 1 /\ Plain(caller, queue[1], s)
               \/ dump = NoDump /\ Len(queue) = 1 /\ Final(queue[1], s)
               \/ /\ dump = NoDump /\ Len(queue) = 2
                  /\ Plain(caller, queue[1], s) /\ Final(queue[2], s)
         \/ /\ Final(rx.buf, s) /\ rx.at = "parse"
            /\ dump = NoDump /\ queue = <<>>
      /\ IF caller \in Loops THEN answer = "none"
         ELSE /\ rx.at # "out"
              /\ rx.at = "parse" => rx.multi \/ rx.buf # <<>>

\* As long as every request could be sent, there is the answer to one request
\* in the socket, or nothing.
StepInv ==
  ~lost => /\ ~overrun
           /\ Outstanding \/ (Settled /\ (pc = "idle" => rx = NotCalled))

\* After a failed send no message carries the number that is expected.
Deaf ==
  lost => /\ seqExpect < seqNext
          /\ \A i \in 1..Len(queue) : \A j \in 1..Len(queue[i]) :
               queue[i][j].seq # seqExpect
          /\ \A i \in 1..Len(rx.buf) : rx.buf[i].seq # seqExpect
          /\ dump.seq # seqExpect
          /\ rx.at = "parse" => rx.buf # <<>>
          /\ rx.ret # "ok" /\ answer # "ok" /\ got = <<>>

\* One answer in the socket at a time while every send succeeds, none that is
\* listened to after one has failed (nl.c, nl_send_auto_complete and
\* recvmsgs).
AnswerInv == SeqInv /\ StepInv /\ Deaf
=============================================================================
