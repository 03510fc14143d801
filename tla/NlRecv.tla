------------------------------- MODULE NlRecv -------------------------------
(***************************************************************************)
(* nl_recv() of libnl-tiny, nl.c: one datagram of a socket is read into a  *)
(* buffer that grows until it is large enough.  NlSocket takes the whole   *)
(* function for one step; here are the calls of recvmsg() it is made of,   *)
(* with the options of the socket that change what they do.  Sizes of      *)
(* datagrams are counted in buffers of the first length, four pages.       *)
(***************************************************************************)
EXTENDS Naturals, Sequences, FiniteSets, SequencesExt

CONSTANTS
  MaxDatagrams,    \* how many datagrams arrive
  MaxQueue,        \* how many the receive buffer of the socket holds
  Sizes            \* their sizes

ASSUME SizesAssumption == Sizes \subseteq Nat \ {0}
ASSUME BoundsAssumption == MaxDatagrams \in Nat /\ MaxQueue \in Nat \ {0}

VARIABLES
  opts,       \* NL_MSG_PEEK, SO_PASSCRED, NETLINK_PKTINFO, O_NONBLOCK
  queue,      \* the receive queue: numbered datagrams and their sizes
  overrun,    \* a datagram was dropped and nobody has been told
  arrived,    \* how many datagrams the kernel has sent
  call,       \* the locals of nl_recv()
  got,        \* the datagrams it has returned
  lost,       \* the datagrams it has read and not returned
  dropped     \* the datagrams the kernel dropped

recvVars == <<opts, queue, overrun, arrived, call, got, lost, dropped>>

Options == {"PEEK", "PASSCRED", "PKTINFO", "NONBLOCK"}
Idle == [at |-> "idle"]

RecvInit == /\ opts = {} /\ queue = <<>> /\ overrun = FALSE /\ arrived = 0
        /\ call = Idle /\ got = <<>> /\ lost = {} /\ dropped = {}

-----------------------------------------------------------------------------
(* The kernel. *)

Arrive ==
  /\ arrived < MaxDatagrams
  /\ arrived' = arrived + 1
  /\ IF Len(queue) < MaxQueue
     THEN \E size \in Sizes :
            queue' = Append(queue, [id |-> arrived + 1, size |-> size])
            /\ UNCHANGED <<overrun, dropped>>
     ELSE overrun' = TRUE /\ dropped' = dropped \cup {arrived + 1} /\ UNCHANGED queue
  /\ UNCHANGED <<opts, call, got, lost>>

\* put_cmsg(): a control message of so many bytes behind the first `used'.
CmsgHdr == 16
CmsgAlign(n) == ((n + 7) \div 8) * 8
PutCmsg(c, len) ==
  LET room == c.room - c.used
      take == IF room < CmsgHdr THEN 0
              ELSE IF room < CmsgAlign(CmsgHdr + len) THEN room ELSE CmsgAlign(CmsgHdr + len)
  IN  [room |-> c.room, used |-> c.used + take,
       ctrunc |-> c.ctrunc \/ room < CmsgHdr + len]

\* nl_pktinfo has 4 bytes and comes first, ucred has 12.
Control(room) ==
  LET none == [room |-> room, used |-> 0, ctrunc |-> FALSE]
      info == IF "PKTINFO" \in opts THEN PutCmsg(none, 4) ELSE none
  IN  IF "PASSCRED" \in opts THEN PutCmsg(info, 12) ELSE info

-----------------------------------------------------------------------------
(* The options, between two calls. *)

Set(option) == /\ call = Idle
               /\ opts' = opts \cup {option}
               /\ UNCHANGED <<queue, overrun, arrived, call, got, lost, dropped>>
Reset(option) == /\ call = Idle
                 /\ opts' = opts \ {option}
                 /\ UNCHANGED <<queue, overrun, arrived, call, got, lost, dropped>>

SetPasscred == Set("PASSCRED") \/ Reset("PASSCRED")
RecvPktinfo == Set("PKTINFO") \/ Reset("PKTINFO")
MsgPeek == Set("PEEK") \/ Reset("PEEK")
SetNonblocking == Set("NONBLOCK")

-----------------------------------------------------------------------------
(* nl_recv(). *)

\* The locals: how recvmsg() is called next.
Locals(len, peek, room) == [at |-> "recvmsg", len |-> len, peek |-> peek, room |-> room]

Call ==
  /\ call = Idle
  /\ call' = Locals(1, "PEEK" \in opts,
                    IF "PASSCRED" \in opts THEN CmsgAlign(CmsgHdr + 12) ELSE 0)
  /\ UNCHANGED <<opts, queue, overrun, arrived, got, lost, dropped>>

Return == call' = Idle

\* ENOBUFS: an error ends the call, and the datagrams stay.
ReadFails == /\ call.at = "recvmsg" /\ overrun
             /\ Return
             /\ overrun' = FALSE
             /\ UNCHANGED <<opts, queue, arrived, got, lost, dropped>>

ReadNothing == /\ call.at = "recvmsg" /\ ~overrun
               /\ queue = <<>> /\ "NONBLOCK" \in opts
               /\ Return
               /\ UNCHANGED <<opts, queue, overrun, arrived, got, lost, dropped>>

\* The mutants: growing the buffer ends the peeking; the control buffer stays.
GrownUnpeeked(c) == Locals(2 * call.len, FALSE, c.used)
GrownControlNot(c) == Locals(call.len, call.peek, c.used)

\* How recvmsg() is called after it did not end the call.
Grown(c) == Locals(2 * call.len, call.peek, c.used)
GrownControl(c) == Locals(call.len, call.peek, 2 * c.used)
Peeked(c) == Locals(call.len, FALSE, c.used)

Read ==
  /\ call.at = "recvmsg" /\ ~overrun /\ queue # <<>>
  /\ LET d == Head(queue)
         c == Control(call.room)
         retry == d.size > call.len \/ c.ctrunc \/ call.peek
     IN  /\ queue' = IF call.peek THEN queue ELSE Tail(queue)
         /\ IF d.size > call.len THEN call' = Grown(c)
            ELSE IF c.ctrunc THEN call' = GrownControl(c)
            ELSE IF call.peek THEN call' = Peeked(c)
            ELSE Return
         /\ got' = IF retry THEN got
                   ELSE Append(got, [id |-> d.id, whole |-> d.size <= call.len,
                                     creds |-> "PASSCRED" \in opts => c.used >= CmsgHdr + 12])
         /\ lost' = IF call.peek \/ ~retry THEN lost
                    ELSE lost \cup {[id |-> d.id, size |-> d.size, opts |-> opts]}
  /\ UNCHANGED <<opts, overrun, arrived, dropped>>

Recvmsg == ReadFails \/ ReadNothing \/ Read

RecvNext == \/ Arrive
            \/ SetPasscred \/ RecvPktinfo \/ MsgPeek \/ SetNonblocking
            \/ Call
            \/ Recvmsg

\* A call goes on as long as recvmsg() returns.
RecvSpec == RecvInit /\ [][RecvNext]_recvVars /\ WF_recvVars(Recvmsg)

-----------------------------------------------------------------------------
(* A datagram that nl_recv() returns is whole, comes with the credentials  *)
(* that were asked for, and after those that arrived before it; none is    *)
(* returned twice; and one it has read but not returned was read without   *)
(* NL_MSG_PEEK (which no code of the repository sets), and was longer than *)
(* four pages or had packet information with it.                           *)
WholeInOrder ==
  /\ \A i \in DOMAIN got : got[i].whole /\ got[i].creds
  /\ \A i, j \in DOMAIN got : i < j => got[i].id < got[j].id
  /\ \A d \in lost : /\ "PEEK" \notin d.opts
                     /\ d.size > 1 \/ "PKTINFO" \in d.opts
  /\ 1..arrived = {g.id : g \in ToSet(got)} \cup {d.id : d \in lost}
                    \cup {d.id : d \in ToSet(queue)} \cup dropped

(* With NL_MSG_PEEK a call that finds a datagram returns, however long the *)
(* datagram is; unless packet information is asked for without            *)
(* credentials, when the control buffer is doubled from 0 bytes for ever.  *)
ReadsWhatCame ==
  (/\ call.at = "recvmsg" /\ "PEEK" \in opts /\ queue # <<>>
   /\ "PKTINFO" \in opts => "PASSCRED" \in opts) ~> (call = Idle)
=============================================================================
