----------------------------- MODULE NlRequest ------------------------------
(***************************************************************************)
(* The ways in which the repository asks the kernel something on a socket  *)
(* that has joined no multicast group: a request is sent, then             *)
(* nl_recvmsgs() is called, once or until a handler has stored an answer.  *)
(* The socket lives on from request to request, so what one of them leaves *)
(* behind in it, the next one meets.                                       *)
(***************************************************************************)
EXTENDS NlSocket

CONSTANTS
  Callers,       \* the functions that make requests, of DOMAIN CbOf
  Kinds,         \* Kinds[c]: the kinds of request made through c
  Replies,       \* the item sequences with which the kernel answers a dump
  Refusals,      \* TRUE when the kernel may refuse a request
  SendFailures,  \* TRUE when sendmsg() may fail
  MaxRequests    \* bound: requests made on one socket

VARIABLES
  pc,        \* "idle" between requests, "waiting" in one
  caller,    \* the function the request was made through
  answer,    \* its int err: "none" (1), "ok" (0), "fail" (negative)
  got,       \* the items its handler of NL_CB_VALID was called with
  truth,     \* history: how the kernel answered the request
  lost       \* history: some send has failed

vars == <<sockVars, pc, caller, answer, got, truth, lost>>

\* The callbacks each function installs; the handlers of FINISH, ACK and ERR
\* store the answer, the one of VALID consumes the item.
PickupCb == [VALID |-> "OK"]
MulticastIdCb == [VALID |-> "SKIP", ACK |-> "STOP", ERR |-> "STOP"]
HandleCmdCb == [VALID |-> "SKIP", FINISH |-> "SKIP", ACK |-> "STOP",
                ERR |-> "STOP"]
UnlRequestCb == [VALID |-> "SKIP", FINISH |-> "SKIP", ACK |-> "STOP",
                 ERR |-> "SKIP"]
WaitForAckCb == [ACK |-> "STOP"]

CbOf == [nl_cache_refill     |-> PickupCb,
         nl_get_multicast_id |-> MulticastIdCb,
         handle_cmd          |-> HandleCmdCb,
         unl_request         |-> UnlRequestCb,
         nl_wait_for_ack     |-> WaitForAckCb]

\* Those that call nl_recvmsgs() while (err > 0), whatever it returns; the
\* others call it once and return what it returns.
Loops == {"nl_get_multicast_id", "handle_cmd", "unl_request"}

ASSUME CallersAssumption == Callers \subseteq DOMAIN CbOf
ASSUME KindsAssumption == Kinds \in [Callers -> SUBSET {"get", "set", "dump"}]
ASSUME RepliesAssumption == Replies \subseteq Seq(Items)
ASSUME FlagsAssumption == Refusals \in BOOLEAN /\ SendFailures \in BOOLEAN
ASSUME MaxRequestsAssumption == MaxRequests \in Nat

Init ==
  /\ SockInit
  /\ pc = "idle"
  /\ caller \in Callers
  /\ answer = "fail"
  /\ got = <<>>
  /\ truth = [outcome |-> "fail", items |-> <<>>]
  /\ lost = FALSE

\* The kernel's side of a request of this kind: refused, or answered.
Decide(kind) ==
  \/ /\ Refusals \/ (kind = "dump" /\ ~CanStartDump)
     /\ Refuse(seqNext)
     /\ truth' = [outcome |-> "fail", items |-> <<>>]
  \/ /\ kind = "get"
     /\ \E item \in Items : /\ Answer(seqNext, <<item>>)
                            /\ truth' = [outcome |-> "ok", items |-> <<item>>]
  \/ /\ kind = "set"
     /\ Answer(seqNext, <<>>)
     /\ truth' = [outcome |-> "ok", items |-> <<>>]
  \/ /\ kind = "dump"
     /\ \E items \in Replies : /\ StartDump(seqNext, items)
                               /\ truth' = [outcome |-> "ok", items |-> items]

Ask(c) ==
  /\ pc = "idle"
  /\ seqNext <= MaxRequests
  /\ pc' = "waiting"
  /\ caller' = c
  /\ answer' = "none"
  /\ got' = <<>>
  /\ TakeSeq
  /\ \E kind \in Kinds[c] : Decide(kind)
  /\ rx' = Called
  /\ UNCHANGED <<seqExpect, lost>>

\* Every function returns the error of nl_send_auto_complete().
AskFails(c) ==
  /\ SendFailures
  /\ pc = "idle"
  /\ seqNext <= MaxRequests
  /\ caller' = c
  /\ answer' = "fail"
  /\ got' = <<>>
  /\ lost' = TRUE
  /\ SendFailed
  /\ UNCHANGED <<pc, truth>>

Reading ==
  /\ Read \/ ReadOverrun \/ EndOfDatagram
  /\ UNCHANGED <<pc, caller, answer, got, truth, lost>>

\* A message is parsed and its handler, if it runs, does its part.
Parsing ==
  LET cb == CbOf[caller]
  IN  /\ Parse(cb)
      /\ answer' = IF Handles(cb, "ACK") \/ Handles(cb, "FINISH")
                   THEN IF caller \in Loops THEN "ok" ELSE answer
                   ELSE IF Handles(cb, "ERR") THEN "fail" ELSE answer
      /\ got' = IF Handles(cb, "VALID")
                THEN Append(got, Head(rx.buf).item) ELSE got
      /\ UNCHANGED <<pc, caller, truth, lost>>

\* nl_recvmsgs() has returned.
Again ==
  /\ pc = "waiting"
  /\ caller \in Loops
  /\ answer = "none"
  /\ Call
  /\ UNCHANGED <<pc, caller, answer, got, truth, lost>>

Done ==
  /\ pc = "waiting"
  /\ rx.at = "out"
  /\ caller \in Loops => answer # "none"
  /\ pc' = "idle"
  /\ answer' = IF caller \in Loops THEN answer ELSE rx.ret
  /\ rx' = NotCalled
  /\ UNCHANGED <<seqNext, seqExpect, queue, overrun, dump, caller, got, truth,
                 lost>>

Receive == Reading \/ Parsing \/ Again \/ Done

Next == (\E c \in Callers : Ask(c) \/ AskFails(c)) \/ Receive

\* The process is scheduled: once in a request it goes on while it can.
Spec == Init /\ [][Next]_vars /\ WF_vars(Receive)

-----------------------------------------------------------------------------
TypeOK ==
  /\ SockTypeOK
  /\ pc \in {"idle", "waiting"}
  /\ caller \in Callers
  /\ answer \in {"none", "ok", "fail"}
  /\ got \in Seq(Items)
  /\ truth \in [outcome : {"ok", "fail"}, items : Seq(Items)]
  /\ lost \in BOOLEAN

\* Nothing of a request is left in the socket when its caller goes on: no
\* datagram, no dump, and the next message expected is that of the next
\* request, unless a send has failed.  recvmsgs() drops answers that come out
\* of step, so the loops that wait for one depend on it.
InStep == pc = "idle" /\ ~lost => /\ queue = <<>>
                                  /\ dump = NoDump
                                  /\ seqExpect = seqNext

\* The number of the next message expected is never that of a request still
\* to be made: a message is never taken for the answer to a later request.
NeverAhead == seqExpect <= seqNext

\* nl_send_auto_complete() uses up a sequence number even when the message
\* could not be sent.  Nothing brings s_seq_expect back in step: after one
\* failed send no request on the socket is ever answered.
FailedSendIsFatal == lost => answer # "ok" /\ got = <<>>

\* Each request made this way gives its caller the kernel's items and its
\* outcome, and ends; until a send has failed.
Abstract ==
  INSTANCE Request WITH
    phase <- pc,
    outcome <- truth.outcome,
    produced <- truth.items,
    received <- got,
    deaf <- lost,
    result <- IF pc = "waiting" /\ caller \notin Loops THEN rx.ret ELSE answer

Implements == Abstract!Spec
=============================================================================
