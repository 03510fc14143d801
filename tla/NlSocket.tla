------------------------------ MODULE NlSocket ------------------------------
(***************************************************************************)
(* A connected netlink socket: the sequence numbers of struct nl_sock, one *)
(* call of nl_recvmsgs() on it, and the kernel's side of the socket (its   *)
(* receive queue, the dump it is producing), as far as the library's code  *)
(* relies on it.  The module holds operations; a program that uses the     *)
(* socket conjoins them with what its own code does at that point.         *)
(*                                                                         *)
(* Sequence numbers count from 1 where the code counts from time(0); 0 is  *)
(* the number of a message nobody asked for, as in the code.  The process  *)
(* has one thread, the kernel acts between any two of its steps.           *)
(***************************************************************************)
EXTENDS Recvmsgs

CONSTANTS
  Items,        \* payloads of messages
  NoItem,       \* the payload of a message that has none
  QueueLimit    \* datagrams the receive buffer holds (SO_RCVBUF)

ASSUME ItemsAssumption == NoItem \notin Items
ASSUME QueueLimitAssumption == QueueLimit \in Nat \ {0}

VARIABLES
  seqNext,      \* s_seq_next: the number the next request gets
  seqExpect,    \* s_seq_expect: the number the next message must carry
  queue,        \* kernel: datagrams to be read, each a sequence of messages
  overrun,      \* kernel: a datagram was dropped, ENOBUFS is to be reported
  dump,         \* kernel: the dump in progress, the items it has yet to send
  rx            \* the call of nl_recvmsgs(): where it is, the rest of the
                \* datagram, the local multipart, what it returned

sockVars == <<seqNext, seqExpect, queue, overrun, dump, rx>>

Msg(type, seq, multi, item) ==
  [type |-> type, seq |-> seq, multi |-> multi, ack |-> FALSE, item |-> item]

Messages == [type : Types, seq : Nat, multi : BOOLEAN, ack : BOOLEAN,
             item : Items \union {NoItem}]
Datagrams == Seq(Messages)

NoDump == [seq |-> 0, rest |-> <<>>]

\* Where a call of nl_recvmsgs() is: not called, about to read, in the loop
\* over the messages of a datagram, or returned to its caller with 0 ("ok")
\* or a negative code ("fail").
Called == [at |-> "read", buf |-> <<>>, multi |-> FALSE, ret |-> "none"]
NotCalled == [Called EXCEPT !.at = "out"]
Returned(ret) == [NotCalled EXCEPT !.ret = ret]

RxStates == [at : {"out", "read", "parse"}, buf : Datagrams,
             multi : BOOLEAN, ret : {"none", "ok", "fail"}]

SockInit ==
  /\ seqNext = 1
  /\ seqExpect = 1
  /\ queue = <<>>
  /\ overrun = FALSE
  /\ dump = NoDump
  /\ rx = NotCalled

SockTypeOK ==
  /\ seqNext \in Nat \ {0}
  /\ seqExpect \in Nat \ {0}
  /\ queue \in Seq(Datagrams)
  /\ overrun \in BOOLEAN
  /\ dump \in [seq : Nat, rest : Seq(Items)]
  /\ rx \in RxStates

-----------------------------------------------------------------------------
(* The kernel.                                                             *)

\* The next datagram of a dump: as many items as fit, or, when none is left,
\* NLMSG_DONE.
Batches(d) ==
  IF d.rest = <<>>
  THEN {[datagram |-> <<Msg("DONE", d.seq, TRUE, NoItem)>>, dump |-> NoDump]}
  ELSE {[datagram |-> [i \in 1..k |-> Msg("DATA", d.seq, TRUE, d.rest[i])],
         dump |-> [d EXCEPT !.rest = SubSeq(@, k + 1, Len(@))]] :
        k \in 1..Len(d.rest)}

\* Datagrams that do not fit are dropped; the loss is reported on a read.
Enqueue(datagrams) ==
  LET room == QueueLimit - Len(queue)
      fit  == IF Len(datagrams) <= room THEN Len(datagrams)
              ELSE IF room > 0 THEN room ELSE 0
  IN  /\ queue' = queue \o SubSeq(datagrams, 1, fit)
      /\ overrun' = (overrun \/ fit < Len(datagrams))

\* The kernel handles a request inside sendmsg().  A refusal is one
\* NLMSG_ERROR; a request is answered with its items and the acknowledgement
\* (NLM_F_ACK is on every request); a dump starts with its first datagram,
\* one dump at a time (EBUSY), and ends with NLMSG_DONE.
Refuse(s) ==
  /\ Enqueue(<< <<Msg("ERR", s, FALSE, NoItem)>> >>)
  /\ UNCHANGED dump

Answer(s, items) ==
  /\ Enqueue([i \in 1..Len(items) |-> <<Msg("DATA", s, FALSE, items[i])>>]
             \o << <<Msg("ACK", s, FALSE, NoItem)>> >>)
  /\ UNCHANGED dump

CanStartDump == dump.seq = 0 /\ Len(queue) < QueueLimit

StartDump(s, items) ==
  /\ CanStartDump
  /\ \E b \in Batches([seq |-> s, rest |-> items]) :
       /\ Enqueue(<<b.datagram>>)
       /\ dump' = b.dump

\* A multicast message.
Event(item) ==
  /\ Enqueue(<< <<Msg("DATA", 0, FALSE, item)>> >>)
  /\ UNCHANGED <<seqNext, seqExpect, dump, rx>>

-----------------------------------------------------------------------------
(* The library.                                                            *)

\* nl_send_auto_complete(): the number is taken before the message is sent.
TakeSeq == seqNext' = seqNext + 1

SendFailed ==
  /\ TakeSeq
  /\ UNCHANGED <<seqExpect, queue, overrun, dump, rx>>

\* nl_recvmsgs() is called.
Call ==
  /\ rx.at = "out"
  /\ rx' = Called
  /\ UNCHANGED <<seqNext, seqExpect, queue, overrun, dump>>

\* nl_recv(): recvmsg() reports the overrun, or takes a datagram, after which
\* the kernel goes on with a dump if the receive buffer is at most half full.
ReadOverrun ==
  /\ rx.at = "read"
  /\ overrun
  /\ overrun' = FALSE
  /\ rx' = Returned("fail")
  /\ UNCHANGED <<seqNext, seqExpect, queue, dump>>

Read ==
  /\ rx.at = "read"
  /\ ~overrun
  /\ queue # <<>>
  /\ rx' = [rx EXCEPT !.at = "parse", !.buf = Head(queue)]
  /\ IF dump.seq # 0 /\ 2 * (Len(queue) - 1) <= QueueLimit
     THEN \E b \in Batches(dump) : /\ queue' = Append(Tail(queue), b.datagram)
                                   /\ dump' = b.dump
     ELSE /\ queue' = Tail(queue)
          /\ UNCHANGED dump
  /\ UNCHANGED <<seqNext, seqExpect, overrun>>

\* The next message of the datagram goes through the loop.
Parse(cb) ==
  /\ rx.at = "parse"
  /\ rx.buf # <<>>
  /\ LET m == Head(rx.buf)
         code == Verdict(cb, seqExpect, m)
     IN  /\ seqExpect' = ExpectAfter(cb, seqExpect, m)
         /\ rx' = IF code = "FAIL" THEN Returned("fail")
                  ELSE IF code = "STOP" THEN Returned("ok")
                  ELSE [rx EXCEPT !.buf = Tail(@),
                          !.multi = MultiAfter(cb, seqExpect, @, m)]
  /\ UNCHANGED <<seqNext, queue, overrun, dump>>

\* The datagram is used up: an unfinished multipart answer is read on.
EndOfDatagram ==
  /\ rx.at = "parse"
  /\ rx.buf = <<>>
  /\ rx' = IF rx.multi THEN [rx EXCEPT !.at = "read"] ELSE Returned("ok")
  /\ UNCHANGED <<seqNext, seqExpect, queue, overrun, dump>>

\* The message being parsed runs the handler of this slot.
Handles(cb, slot) ==
  /\ Runs(cb, seqExpect, Head(rx.buf))
  /\ SlotOf[Head(rx.buf).type] = slot
=============================================================================
