----------------------------- MODULE WireProofs -----------------------------
(***************************************************************************)
(* What goes over the netlink socket, and what is read out of it: the      *)
(* modules that are about bytes, datagrams and port numbers and that need  *)
(* nothing of each other.                                                  *)
(*                                                                         *)
(* NlRecv, for any number of datagrams of any sizes, any receive buffer,   *)
(* and options changed in any order between the calls.                     *)
(*                                                                         *)
(* LocalPorts, for any number of sockets and slots and any process id, the *)
(* one equal to 0x3FFFFF included.                                         *)
(*                                                                         *)
(* NlMsg: building a message keeps its attribute streams sound, whatever   *)
(* the size of the message, the attributes and the order of the calls.     *)
(*                                                                         *)
(* BssPrint: iw's printers of information elements and what iw link says,  *)
(* for elements of every length, any bytes in them, and any number of      *)
(* entries.  print_ie() checks a length once (Ready); what a printer knows *)
(* after that is where it stands, that its pointer and its length add up   *)
(* to the element, and that it has read nothing behind it (Printing).      *)
(***************************************************************************)
EXTENDS NlRecv, LocalPorts, NlMsg, BssPrint, SequenceTheorems, TLAPS

(***************************************************************************)
(* nl_recv()                                                               *)
(***************************************************************************)

Datagrams == [id : Nat, size : Sizes]
Results == [id : Nat, whole : BOOLEAN, creds : BOOLEAN]
InCall == call.at = "recvmsg"
Calls == [at : {"recvmsg"}, len : Nat, peek : BOOLEAN, room : Nat]

Typed ==
  /\ opts \subseteq Options
  /\ queue \in Seq(Datagrams)
  /\ arrived \in Nat
  /\ call \in Calls \cup {Idle}
  /\ got \in Seq(Results)

Ids(s) == {s[i].id : i \in DOMAIN s}
LostIds == {d.id : d \in lost}
Ordered(s) == \A i, j \in DOMAIN s : i < j => s[i].id < s[j].id

\* What is read is what came first, and nothing is forgotten.
InOrder ==
  /\ Ordered(got) /\ Ordered(queue)
  /\ \A a \in Ids(got), b \in Ids(queue) : a < b
  /\ 1..arrived = Ids(got) \cup LostIds \cup Ids(queue) \cup dropped

Whole == \A i \in DOMAIN got : got[i].whole /\ got[i].creds
LostUnpeeked == \A d \in lost : "PEEK" \notin d.opts /\ (d.size > 1 \/ "PKTINFO" \in d.opts)

\* Without packet information the control buffer has the room it needs from
\* the start; and once a peek has succeeded, so will the read.
RoomAtStart == IF "PASSCRED" \in opts THEN 32 ELSE 0
CallOK ==
  InCall =>
    /\ call.len >= 1
    /\ "PKTINFO" \notin opts => call.room = RoomAtStart
    /\ ("PEEK" \in opts /\ ~call.peek) =>
         /\ queue # <<>>
         /\ Head(queue).size <= call.len
         /\ ~Control(call.room).ctrunc

Inv == Typed /\ InOrder /\ Whole /\ LostUnpeeked /\ CallOK

-----------------------------------------------------------------------------
(* Sequences of things that have an id. *)

LEMMA IdsOfAppend ==
  ASSUME NEW S, NEW s \in Seq(S), NEW e
  PROVE  Ids(Append(s, e)) = Ids(s) \cup {e.id}
<1>1. DOMAIN Append(s, e) = DOMAIN s \cup {Len(s) + 1}
  OBVIOUS
<1>2. \A i \in DOMAIN s : Append(s, e)[i] = s[i]
  OBVIOUS
<1>3. Append(s, e)[Len(s) + 1] = e
  OBVIOUS
<1> QED
  BY <1>1, <1>2, <1>3 DEF Ids

LEMMA IdsOfTail ==
  ASSUME NEW S, NEW s \in Seq(S), s # <<>>
  PROVE  Ids(s) = {Head(s).id} \cup Ids(Tail(s))
<1>1. \A i \in DOMAIN Tail(s) : i + 1 \in DOMAIN s /\ Tail(s)[i] = s[i + 1]
  OBVIOUS
<1>2. 1 \in DOMAIN s /\ Head(s) = s[1]
  OBVIOUS
<1>3. \A i \in DOMAIN s : i = 1 \/ (i - 1 \in DOMAIN Tail(s) /\ Tail(s)[i - 1] = s[i])
  OBVIOUS
<1>4. Ids(s) \subseteq {Head(s).id} \cup Ids(Tail(s))
  <2> SUFFICES ASSUME NEW i \in DOMAIN s
               PROVE  s[i].id \in {Head(s).id} \cup Ids(Tail(s))
    BY DEF Ids
  <2>1. CASE i = 1
    BY <2>1, <1>2
  <2>2. CASE i # 1
    BY <2>2, <1>3 DEF Ids
  <2> QED
    BY <2>1, <2>2
<1>5. {Head(s).id} \cup Ids(Tail(s)) \subseteq Ids(s)
  BY <1>1, <1>2 DEF Ids
<1> QED
  BY <1>4, <1>5

LEMMA OrderOfAppend ==
  ASSUME NEW S, NEW s \in Seq(S), NEW e, Ordered(s), \A a \in Ids(s) : a < e.id
  PROVE  Ordered(Append(s, e))
<1>1. DOMAIN Append(s, e) = 1..(Len(s) + 1) /\ DOMAIN s = 1..Len(s) /\ Len(s) \in Nat
  OBVIOUS
<1>2. \A i \in DOMAIN s : Append(s, e)[i] = s[i]
  OBVIOUS
<1>3. Append(s, e)[Len(s) + 1] = e
  OBVIOUS
<1>4. \A i \in DOMAIN s : s[i].id < e.id
  BY DEF Ids
<1> QED
  BY <1>1, <1>2, <1>3, <1>4 DEF Ordered

LEMMA OrderOfTail ==
  ASSUME NEW S, NEW s \in Seq(S), s # <<>>, Ordered(s)
  PROVE  Ordered(Tail(s)) /\ \A b \in Ids(Tail(s)) : Head(s).id < b
<1>1. \A i \in DOMAIN Tail(s) : i + 1 \in DOMAIN s /\ Tail(s)[i] = s[i + 1] /\ 1 < i + 1
  OBVIOUS
<1>2. 1 \in DOMAIN s /\ Head(s) = s[1]
  OBVIOUS
<1>3. \A i, j \in DOMAIN Tail(s) : i < j => i + 1 < j + 1
  OBVIOUS
<1>4. Ordered(Tail(s))
  BY <1>1, <1>3 DEF Ordered
<1>5. \A b \in Ids(Tail(s)) : Head(s).id < b
  BY <1>1, <1>2 DEF Ordered, Ids
<1> QED
  BY <1>4, <1>5

-----------------------------------------------------------------------------
(* The control buffer. *)

LEMMA Aligned == CmsgAlign(CmsgHdr + 4) = 24 /\ CmsgAlign(CmsgHdr + 12) = 32
<1>1. 27 \div 8 = 3 /\ 35 \div 8 = 4
  OBVIOUS
<1> QED
  BY <1>1 DEF CmsgAlign, CmsgHdr


\* What put_cmsg() makes of the room behind the first used bytes, for nl_pktinfo
\* and for ucred.
LEMMA PutInfo ==
  ASSUME NEW c, NEW r \in Nat, NEW u \in 0..r, c.room = r, c.used = u, c.ctrunc \in BOOLEAN
  PROVE  /\ PutCmsg(c, 4).room = r
         /\ PutCmsg(c, 4).used = IF r - u < 16 THEN u ELSE IF r - u < 24 THEN r ELSE u + 24
         /\ PutCmsg(c, 4).ctrunc \in BOOLEAN
         /\ PutCmsg(c, 4).ctrunc <=> c.ctrunc \/ r - u < 20
<1>1. CmsgAlign(CmsgHdr + 4) = 24 /\ CmsgHdr = 16 /\ 16 + 4 = 20
  BY Aligned DEF CmsgHdr
<1>2. PutCmsg(c, 4).room = r
  BY DEF PutCmsg
<1>3. PutCmsg(c, 4).used
        = u + (IF r - u < 16 THEN 0 ELSE IF r - u < 24 THEN r - u ELSE 24)
  BY <1>1 DEF PutCmsg
<1>4. PutCmsg(c, 4).ctrunc = (c.ctrunc \/ r - u < 20)
  BY <1>1, Zenon DEF PutCmsg
<1>5. PutCmsg(c, 4).ctrunc \in BOOLEAN
  BY <1>4, Zenon
<1>6. PutCmsg(c, 4).ctrunc <=> c.ctrunc \/ r - u < 20
  BY <1>4, Zenon
<1>7. PutCmsg(c, 4).used = IF r - u < 16 THEN u ELSE IF r - u < 24 THEN r ELSE u + 24
  BY <1>3
<1> QED
  BY <1>2, <1>5, <1>6, <1>7

LEMMA PutCreds ==
  ASSUME NEW c, NEW r \in Nat, NEW u \in 0..r, c.room = r, c.used = u, c.ctrunc \in BOOLEAN
  PROVE  /\ PutCmsg(c, 12).room = r
         /\ PutCmsg(c, 12).used = IF r - u < 16 THEN u ELSE IF r - u < 32 THEN r ELSE u + 32
         /\ PutCmsg(c, 12).ctrunc \in BOOLEAN
         /\ PutCmsg(c, 12).ctrunc <=> c.ctrunc \/ r - u < 28
<1>1. CmsgAlign(CmsgHdr + 12) = 32 /\ CmsgHdr = 16 /\ 16 + 12 = 28
  BY Aligned DEF CmsgHdr
<1>2. PutCmsg(c, 12).room = r
  BY DEF PutCmsg
<1>3. PutCmsg(c, 12).used
        = u + (IF r - u < 16 THEN 0 ELSE IF r - u < 32 THEN r - u ELSE 32)
  BY <1>1 DEF PutCmsg
<1>4. PutCmsg(c, 12).ctrunc = (c.ctrunc \/ r - u < 28)
  BY <1>1, Zenon DEF PutCmsg
<1>5. PutCmsg(c, 12).ctrunc \in BOOLEAN
  BY <1>4, Zenon
<1>6. PutCmsg(c, 12).ctrunc <=> c.ctrunc \/ r - u < 28
  BY <1>4, Zenon
<1>7. PutCmsg(c, 12).used = IF r - u < 16 THEN u ELSE IF r - u < 32 THEN r ELSE u + 32
  BY <1>3
<1> QED
  BY <1>2, <1>5, <1>6, <1>7

Empty(r) == [room |-> r, used |-> 0, ctrunc |-> FALSE]
Info(r) == PutCmsg(Empty(r), 4)

LEMMA EmptyIs ==
  ASSUME NEW r \in Nat
  PROVE  /\ Empty(r).room = r /\ Empty(r).used = 0
         /\ Empty(r).ctrunc \in BOOLEAN /\ ~Empty(r).ctrunc
         /\ 0 \in 0..r /\ r - 0 = r
BY DEF Empty

LEMMA InfoIs ==
  ASSUME NEW r \in Nat
  PROVE  /\ Info(r).room = r
         /\ Info(r).used = IF r < 16 THEN 0 ELSE IF r < 24 THEN r ELSE 24
         /\ Info(r).used \in 0..r
         /\ Info(r).ctrunc \in BOOLEAN
         /\ Info(r).ctrunc <=> r < 20
<1>1. /\ PutCmsg(Empty(r), 4).room = r
      /\ PutCmsg(Empty(r), 4).used = IF r - 0 < 16 THEN 0 ELSE IF r - 0 < 24 THEN r ELSE 0 + 24
      /\ PutCmsg(Empty(r), 4).ctrunc \in BOOLEAN
      /\ PutCmsg(Empty(r), 4).ctrunc <=> Empty(r).ctrunc \/ r - 0 < 20
  BY EmptyIs, PutInfo
<1>2. Info(r).room = r /\ Info(r).used = IF r < 16 THEN 0 ELSE IF r < 24 THEN r ELSE 24
  BY <1>1, EmptyIs DEF Info
<1>3. Info(r).used \in 0..r
  BY <1>2
<1>4. Info(r).ctrunc \in BOOLEAN /\ (Info(r).ctrunc <=> r < 20)
  BY <1>1, EmptyIs DEF Info
<1> QED
  BY <1>2, <1>3, <1>4

\* With room for both, or for the one that is asked for, nothing is cut off.
LEMMA ControlIs ==
  ASSUME NEW room \in Nat
  PROVE  /\ Control(room).used \in Nat
         /\ Control(room).ctrunc \in BOOLEAN
         /\ "PKTINFO" \notin opts /\ room = RoomAtStart =>
              ~Control(room).ctrunc /\ Control(room).used = RoomAtStart
         /\ ~Control(room).ctrunc =>
              /\ "PASSCRED" \in opts => Control(room).used >= CmsgHdr + 12
              /\ ~Control(Control(room).used).ctrunc
<1>1. CASE "PKTINFO" \notin opts /\ "PASSCRED" \notin opts
  <2>1. \A r : Control(r) = Empty(r)
    BY <1>1 DEF Control, Empty
  <2>2. \A r \in Nat : Control(r).used = 0 /\ Control(r).ctrunc \in BOOLEAN /\ ~Control(r).ctrunc
    BY <2>1, EmptyIs
  <2> QED
    BY <1>1, <2>2 DEF RoomAtStart
<1>2. CASE "PKTINFO" \notin opts /\ "PASSCRED" \in opts
  <2>1. \A r : Control(r) = PutCmsg(Empty(r), 12)
    BY <1>2 DEF Control, Empty
  <2>2. \A r \in Nat :
          /\ Control(r).used = IF r < 16 THEN 0 ELSE IF r < 32 THEN r ELSE 32
          /\ Control(r).ctrunc \in BOOLEAN
          /\ Control(r).ctrunc <=> r < 28
    <3> TAKE r \in Nat
    <3>1. /\ PutCmsg(Empty(r), 12).used =
                IF r - 0 < 16 THEN 0 ELSE IF r - 0 < 32 THEN r ELSE 0 + 32
          /\ PutCmsg(Empty(r), 12).ctrunc \in BOOLEAN
          /\ PutCmsg(Empty(r), 12).ctrunc <=> Empty(r).ctrunc \/ r - 0 < 28
      BY EmptyIs, PutCreds
    <3> QED
      BY <2>1, EmptyIs, <3>1
  <2> QED
    BY <1>2, <2>2 DEF RoomAtStart, CmsgHdr
<1>3. CASE "PKTINFO" \in opts /\ "PASSCRED" \notin opts
  <2>1. \A r : Control(r) = Info(r)
    BY <1>3 DEF Control, Info, Empty
  <2> QED
    BY <1>3, <2>1, InfoIs
<1>4. CASE "PKTINFO" \in opts /\ "PASSCRED" \in opts
  <2>1. \A r : Control(r) = PutCmsg(Info(r), 12)
    BY <1>4 DEF Control, Info, Empty
  <2>2. \A r \in Nat :
          /\ Control(r).used = IF r < 16 THEN 0 ELSE IF r < 24 THEN r
                               ELSE IF r < 40 THEN 24 ELSE IF r < 56 THEN r ELSE 56
          /\ Control(r).ctrunc \in BOOLEAN
          /\ Control(r).ctrunc <=> r < 52
    <3> TAKE r \in Nat
    <3>1. PICK u \in 0..r : u = Info(r).used
      BY InfoIs
    <3>2. /\ PutCmsg(Info(r), 12).used = IF r - u < 16 THEN u ELSE IF r - u < 32 THEN r ELSE u + 32
          /\ PutCmsg(Info(r), 12).ctrunc \in BOOLEAN
          /\ PutCmsg(Info(r), 12).ctrunc <=> Info(r).ctrunc \/ r - u < 28
      BY <3>1, InfoIs, PutCreds
    <3>3. u = IF r < 16 THEN 0 ELSE IF r < 24 THEN r ELSE 24
      BY <3>1, InfoIs
    <3>4. Info(r).ctrunc <=> r < 20
      BY InfoIs
    <3> QED
      BY <2>1, <3>2, <3>3, <3>4
  <2> QED
    BY <1>4, <2>2 DEF CmsgHdr
<1> QED
  BY <1>1, <1>2, <1>3, <1>4

-----------------------------------------------------------------------------
(* Every step keeps the invariant. *)

LEMMA InitInv == RecvInit => Inv
<1> SUFFICES ASSUME RecvInit PROVE Inv
  OBVIOUS
<1>1. Typed
  BY DEF RecvInit, Typed
<1>2. Ids(got) = {} /\ Ids(queue) = {} /\ LostIds = {} /\ 1..arrived = {} /\ dropped = {}
  BY DEF RecvInit, Ids, LostIds
<1>3. Ordered(got) /\ Ordered(queue)
  BY DEF RecvInit, Ordered
<1>4. InOrder
  BY <1>2, <1>3 DEF InOrder
<1>5. Whole /\ LostUnpeeked /\ CallOK
  BY DEF RecvInit, Whole, LostUnpeeked, CallOK, InCall, Idle
<1> QED
  BY <1>1, <1>4, <1>5 DEF Inv

LEMMA ArriveInv == Inv /\ Arrive => Inv'
<1> SUFFICES ASSUME Inv, Arrive PROVE Inv'
  OBVIOUS
<1>1. arrived' = arrived + 1 /\ arrived \in Nat /\ 1..arrived' = 1..arrived \cup {arrived + 1}
  BY DEF Inv, Typed, Arrive
<1>2. /\ opts' = opts /\ call' = call /\ got' = got /\ lost' = lost
      /\ Ids(got)' = Ids(got) /\ LostIds' = LostIds /\ Ordered(got)'
  BY DEF Arrive, Ids, LostIds, Inv, InOrder, Ordered
<1>3. Ids(got) \subseteq 1..arrived /\ Ids(queue) \subseteq 1..arrived
  BY DEF Inv, InOrder
<1>4. Whole' /\ LostUnpeeked'
  BY <1>2 DEF Inv, Whole, LostUnpeeked
<1>5. CASE Len(queue) < MaxQueue
  <2>1. PICK size \in Sizes : queue' = Append(queue, [id |-> arrived + 1, size |-> size])
    BY <1>5 DEF Arrive
  <2>2. dropped' = dropped
    BY <1>5 DEF Arrive
  <2> DEFINE d == [id |-> arrived + 1, size |-> size]
  <2>3. d \in Datagrams /\ d.id = arrived + 1 /\ queue \in Seq(Datagrams)
    BY <1>1 DEF Datagrams, Inv, Typed
  <2> HIDE DEF d
  <2>4. queue' \in Seq(Datagrams)
    BY <2>1, <2>3 DEF d
  <2>5. Ids(queue)' = Ids(queue) \cup {arrived + 1}
    BY <2>1, <2>3, IdsOfAppend DEF d, Ids
  <2>6. Ordered(queue)'
    <3>1. \A a \in Ids(queue) : a < d.id
      BY <1>1, <1>3, <2>3
    <3>2. Ordered(Append(queue, d))
      BY <2>3, <3>1, OrderOfAppend DEF Inv, InOrder
    <3> QED
      BY <2>1, <3>2 DEF d, Ordered
  <2>7. \A a \in Ids(got), b \in Ids(queue)' : a < b
    BY <1>1, <1>3, <2>5 DEF Inv, InOrder
  <2>8. InOrder'
    BY <1>1, <1>2, <2>2, <2>5, <2>6, <2>7 DEF Inv, InOrder
  <2>9. Typed'
    BY <1>1, <1>2, <2>4 DEF Inv, Typed
  <2>10. queue # <<>> => queue' # <<>> /\ Head(queue') = Head(queue)
    BY <2>1, <2>3, <2>4 DEF d
  <2>11. CallOK'
    BY <1>2, <2>10 DEF Inv, CallOK, InCall, Control, RoomAtStart
  <2> QED
    BY <1>4, <2>8, <2>9, <2>11 DEF Inv
<1>6. CASE ~(Len(queue) < MaxQueue)
  <2>1. queue' = queue /\ dropped' = dropped \cup {arrived + 1}
    BY <1>6 DEF Arrive
  <2>2. Ids(queue)' = Ids(queue) /\ Ordered(queue)'
    BY <2>1 DEF Ids, Ordered, Inv, InOrder
  <2>3. InOrder'
    BY <1>1, <1>2, <2>1, <2>2 DEF Inv, InOrder
  <2>4. Typed'
    BY <1>1, <1>2, <2>1 DEF Inv, Typed
  <2>5. CallOK'
    BY <1>2, <2>1 DEF Inv, CallOK, InCall, Control, RoomAtStart
  <2> QED
    BY <1>4, <2>3, <2>4, <2>5 DEF Inv
<1> QED
  BY <1>5, <1>6

\* What a step that takes no datagram and returns none keeps.
LEMMA NothingRead ==
  ASSUME Inv, UNCHANGED <<queue, arrived, got, lost, dropped>>
  PROVE  InOrder' /\ Whole' /\ LostUnpeeked'
<1>1. /\ Ids(queue)' = Ids(queue) /\ Ids(got)' = Ids(got) /\ LostIds' = LostIds
      /\ Ordered(queue)' /\ Ordered(got)'
  BY DEF Ids, LostIds, Ordered, Inv, InOrder
<1> QED
  BY <1>1 DEF Inv, InOrder, Whole, LostUnpeeked

LEMMA IdleIsOK ==
  ASSUME call' = Idle
  PROVE  CallOK' /\ call' \in Calls \cup {Idle}
BY DEF CallOK, InCall, Idle

LEMMA OptionInv ==
  ASSUME Inv, NEW option \in Options, Set(option) \/ Reset(option)
  PROVE  Inv'
<1>1. /\ opts' \subseteq Options /\ call' = Idle
      /\ UNCHANGED <<queue, arrived, got, lost, dropped>>
  BY DEF Inv, Typed, Set, Reset
<1>2. Typed'
  BY <1>1 DEF Inv, Typed
<1> QED
  BY <1>1, <1>2, NothingRead, IdleIsOK DEF Inv

LEMMA CallInv == Inv /\ Call => Inv'
<1> SUFFICES ASSUME Inv, Call PROVE Inv'
  OBVIOUS
<1>1. UNCHANGED <<opts, queue, arrived, got, lost, dropped>>
  BY DEF Call
<1>2. call' = [at |-> "recvmsg", len |-> 1, peek |-> "PEEK" \in opts, room |-> RoomAtStart]
  BY Aligned DEF Call, Locals, RoomAtStart
<1>3. RoomAtStart \in Nat /\ RoomAtStart' = RoomAtStart
  BY <1>1 DEF RoomAtStart
<1>4. call' \in Calls /\ call'.len = 1 /\ call'.room = RoomAtStart /\ call'.peek = ("PEEK" \in opts)
  BY <1>2, <1>3 DEF Calls
<1>5. ~("PEEK" \in opts' /\ ~call'.peek)
  BY <1>1, <1>4, Zenon
<1>6. CallOK'
  BY <1>1, <1>3, <1>4, <1>5 DEF CallOK
<1>7. Typed'
  BY <1>1, <1>4 DEF Inv, Typed
<1> QED
  BY <1>1, <1>6, <1>7, NothingRead DEF Inv

LEMMA ReturnInv == Inv /\ (ReadFails \/ ReadNothing) => Inv'
<1> SUFFICES ASSUME Inv, ReadFails \/ ReadNothing PROVE Inv'
  OBVIOUS
<1>1. UNCHANGED <<opts, queue, arrived, got, lost, dropped>> /\ call' = Idle
  BY DEF ReadFails, ReadNothing, Return
<1>2. Typed'
  BY <1>1 DEF Inv, Typed
<1> QED
  BY <1>1, <1>2, NothingRead, IdleIsOK DEF Inv

\* recvmsg() did not end the call: it is called again with more room, or for
\* what it has only looked at.
LEMMA CalledAgain ==
  ASSUME Inv, InCall, queue # <<>>,
         NEW len \in Nat, NEW room \in Nat, NEW peek \in BOOLEAN,
         call' = [at |-> "recvmsg", len |-> len, peek |-> peek, room |-> room],
         len >= 1, "PKTINFO" \notin opts => room = RoomAtStart,
         ("PEEK" \in opts /\ ~peek) =>
           queue' = queue /\ Head(queue).size <= len /\ ~Control(room).ctrunc,
         opts' = opts
  PROVE  CallOK' /\ call' \in Calls
<1>1. call' \in Calls /\ call'.len = len /\ call'.room = room
  BY DEF Calls
<1>2. "PEEK" \in opts /\ ~call'.peek => "PEEK" \in opts /\ ~peek
  BY Zenon
<1>3. RoomAtStart' = RoomAtStart /\ Control(room)' = Control(room)
  BY DEF RoomAtStart, Control
<1>4. "PEEK" \in opts /\ ~peek => Control(call.room)' = Control(room)
  BY <1>1, <1>3 DEF Control
<1> QED
  BY <1>1, <1>2, <1>3, <1>4 DEF CallOK

LEMMA ReadInv == Inv /\ Read => Inv'
<1> SUFFICES ASSUME Inv, Read PROVE Inv'
  OBVIOUS
<1> DEFINE d == Head(queue)
           c == Control(call.room)
           retry == d.size > call.len \/ c.ctrunc \/ call.peek
<1>1. /\ InCall /\ queue # <<>> /\ queue \in Seq(Datagrams) /\ got \in Seq(Results)
      /\ call \in Calls /\ d \in Datagrams /\ opts' = opts /\ arrived' = arrived
      /\ dropped' = dropped /\ opts \subseteq Options /\ arrived \in Nat
  BY DEF Read, InCall, Inv, Typed, Calls, Idle
<1>2. /\ call.len \in Nat /\ call.room \in Nat /\ call.peek \in BOOLEAN /\ call.len >= 1
      /\ call = [at |-> "recvmsg", len |-> call.len, peek |-> call.peek, room |-> call.room]
      /\ d.id \in Nat /\ d.size \in Nat
  BY <1>1, SizesAssumption DEF Calls, Datagrams, Inv, CallOK
<1>3. /\ c.used \in Nat /\ c.ctrunc \in BOOLEAN
      /\ "PKTINFO" \notin opts => ~c.ctrunc /\ c.used = RoomAtStart
      /\ ~c.ctrunc => /\ "PASSCRED" \in opts => c.used >= CmsgHdr + 12
                      /\ ~Control(c.used).ctrunc
  BY <1>1, <1>2, ControlIs DEF Inv, CallOK
<1>4. "PEEK" \in opts /\ ~call.peek => d.size <= call.len /\ ~c.ctrunc
  BY <1>1 DEF Inv, CallOK
<1>5. queue' = IF call.peek THEN queue ELSE Tail(queue)
  BY DEF Read
<1>6. got' = IF retry THEN got
             ELSE Append(got, [id |-> d.id, whole |-> d.size <= call.len,
                               creds |-> "PASSCRED" \in opts => c.used >= CmsgHdr + 12])
  BY DEF Read
<1>7. lost' = IF call.peek \/ ~retry THEN lost
              ELSE lost \cup {[id |-> d.id, size |-> d.size, opts |-> opts]}
  BY DEF Read
<1>8. call' = IF d.size > call.len THEN Grown(c)
              ELSE IF c.ctrunc THEN GrownControl(c)
              ELSE IF call.peek THEN Peeked(c) ELSE Idle
  BY DEF Read, Return
<1> HIDE DEF d, c
\* How the call goes on.
<1>9. CallOK' /\ call' \in Calls \cup {Idle}
  <2>1. CASE d.size > call.len
    <3>1. call' = [at |-> "recvmsg", len |-> 2 * call.len, peek |-> call.peek, room |-> c.used]
      BY <1>2, <1>8, <2>1 DEF Grown, Locals
    <3>2. ~("PEEK" \in opts /\ ~call.peek)
      BY <1>2, <1>4, <2>1
    <3>3. 2 * call.len \in Nat /\ 2 * call.len >= 1
      BY <1>2
    <3> QED
      BY <1>1, <1>2, <1>3, <3>1, <3>2, <3>3, CalledAgain
  <2>2. CASE ~(d.size > call.len) /\ c.ctrunc
    <3>1. call' = [at |-> "recvmsg", len |-> call.len, peek |-> call.peek, room |-> 2 * c.used]
      BY <1>2, <1>8, <2>2 DEF GrownControl, Locals
    <3>2. ~("PEEK" \in opts /\ ~call.peek) /\ "PKTINFO" \in opts
      BY <1>3, <1>4, <2>2
    <3>3. 2 * c.used \in Nat
      BY <1>3
    <3> QED
      BY <1>1, <1>2, <3>1, <3>2, <3>3, CalledAgain
  <2>3. CASE ~(d.size > call.len) /\ ~c.ctrunc /\ call.peek
    <3>1. call' = [at |-> "recvmsg", len |-> call.len, peek |-> FALSE, room |-> c.used]
      BY <1>2, <1>8, <2>3 DEF Peeked, Locals
    <3>2. queue' = queue /\ Head(queue).size <= call.len /\ ~Control(c.used).ctrunc
      BY <1>2, <1>3, <1>5, <2>3 DEF d
    <3>3. FALSE \in BOOLEAN
      OBVIOUS
    <3> QED
      BY <1>1, <1>2, <1>3, <3>1, <3>2, <3>3, CalledAgain
  <2>4. CASE ~(d.size > call.len) /\ ~c.ctrunc /\ ~call.peek
    <3>1. call' = Idle
      BY <1>8, <2>4
    <3> QED
      BY <3>1, IdleIsOK
  <2> QED
    BY <2>1, <2>2, <2>3, <2>4
\* What becomes of the datagram.
<1>10. CASE call.peek
  <2>1. UNCHANGED <<queue, arrived, got, lost, dropped>>
    BY <1>1, <1>5, <1>6, <1>7, <1>10
  <2>2. Typed'
    BY <1>1, <1>9, <2>1 DEF Inv, Typed
  <2> QED
    BY <1>9, <2>1, <2>2, NothingRead DEF Inv
<1>11. CASE ~call.peek
  <2>1. queue' = Tail(queue) /\ queue' \in Seq(Datagrams)
    BY <1>1, <1>5, <1>11
  <2>2. /\ Ids(queue) = {d.id} \cup Ids(queue') /\ Ordered(queue')
        /\ \A b \in Ids(queue') : d.id < b
    BY <1>1, <2>1, IdsOfTail, OrderOfTail DEF d, Inv, InOrder
  <2>3. Ids(queue)' = Ids(queue') /\ Ids(got)' = Ids(got') /\ Ordered(queue)'
    BY <2>2 DEF Ids, Ordered
  <2>4. \A a \in Ids(got) : a < d.id
    BY <2>2 DEF Inv, InOrder
  <2>5. CASE d.size > call.len \/ c.ctrunc
    <3> DEFINE l == [id |-> d.id, size |-> d.size, opts |-> opts]
    <3>1. got' = got /\ lost' = lost \cup {l}
      BY <1>6, <1>7, <1>11, <2>5
    <3>2. l.id = d.id /\ l.size = d.size /\ l.opts = opts
      OBVIOUS
    <3> HIDE DEF l
    <3>3. LostIds' = LostIds \cup {d.id}
      BY <3>1, <3>2 DEF LostIds
    <3>4. "PEEK" \notin opts /\ (d.size > 1 \/ "PKTINFO" \in opts)
      BY <1>2, <1>3, <1>4, <1>11, <2>5
    <3>5. LostUnpeeked'
      BY <3>1, <3>2, <3>4 DEF Inv, LostUnpeeked
    <3>6. Ids(got)' = Ids(got) /\ Ordered(got)' /\ Whole'
      BY <3>1 DEF Ids, Ordered, Whole, Inv, InOrder
    <3>7. InOrder'
      BY <1>1, <2>2, <2>3, <3>3, <3>6 DEF Inv, InOrder
    <3>8. Typed'
      BY <1>1, <1>9, <2>1, <3>1 DEF Inv, Typed
    <3> QED
      BY <1>9, <3>5, <3>6, <3>7, <3>8 DEF Inv
  <2>6. CASE ~(d.size > call.len \/ c.ctrunc)
    <3> DEFINE fits == d.size <= call.len
               creds == "PASSCRED" \in opts => c.used >= CmsgHdr + 12
               r == [id |-> d.id, whole |-> fits, creds |-> creds]
    <3>1. got' = Append(got, r) /\ lost' = lost
      BY <1>6, <1>7, <1>11, <2>6
    <3>2. fits /\ creds
      BY <1>2, <1>3, <2>6
    <3>3. fits \in BOOLEAN /\ creds \in BOOLEAN
      OBVIOUS
    <3> HIDE DEF fits, creds
    <3>4. r \in Results /\ r.id = d.id /\ r.whole /\ r.creds
      BY <1>2, <3>2, <3>3 DEF Results
    <3> HIDE DEF r
    <3>5. got' \in Seq(Results)
      BY <1>1, <3>1, <3>4
    <3>6. Ids(got)' = Ids(got) \cup {d.id}
      BY <1>1, <2>3, <3>1, <3>4, IdsOfAppend
    <3>7. Ordered(got)'
      <4>1. Ordered(Append(got, r))
        BY <1>1, <2>4, <3>4, OrderOfAppend DEF Inv, InOrder
      <4> QED
        BY <3>1, <4>1 DEF Ordered
    <3>8. Whole'
      BY <1>1, <3>1, <3>4 DEF Inv, Whole
    <3>9. LostIds' = LostIds /\ LostUnpeeked'
      BY <3>1 DEF LostIds, LostUnpeeked, Inv
    <3>10. InOrder'
      BY <1>1, <2>2, <2>3, <3>6, <3>7, <3>9 DEF Inv, InOrder
    <3>11. Typed'
      BY <1>1, <1>9, <2>1, <3>5 DEF Inv, Typed
    <3> QED
      BY <1>9, <3>8, <3>9, <3>10, <3>11 DEF Inv
  <2> QED
    BY <2>5, <2>6
<1> QED
  BY <1>2, <1>10, <1>11

-----------------------------------------------------------------------------
\* Whatever the socket's options are, and however often they change: what
\* nl_recv() returns is whole, has the credentials, and comes in order; what it
\* reads and does not return was read without NL_MSG_PEEK.
THEOREM DatagramsComeWholeInOrder == RecvSpec => []WholeInOrder
<1>1. Inv /\ [RecvNext]_recvVars => Inv'
  <2> SUFFICES ASSUME Inv, [RecvNext]_recvVars PROVE Inv'
    OBVIOUS
  <2>1. CASE Arrive
    BY <2>1, ArriveInv
  <2>2. CASE SetPasscred \/ RecvPktinfo \/ MsgPeek \/ SetNonblocking
    BY <2>2, OptionInv DEF SetPasscred, RecvPktinfo, MsgPeek, SetNonblocking, Options
  <2>3. CASE Call
    BY <2>3, CallInv
  <2>4. CASE Recvmsg
    BY <2>4, ReturnInv, ReadInv DEF Recvmsg
  <2>5. CASE UNCHANGED recvVars
    <3>1. /\ Typed' /\ UNCHANGED <<queue, arrived, got, lost, dropped>>
          /\ CallOK' = CallOK
      BY <2>5 DEF recvVars, Typed, Inv, CallOK, InCall, Control, RoomAtStart
    <3> QED
      BY <3>1, NothingRead DEF Inv
  <2> QED
    BY <2>1, <2>2, <2>3, <2>4, <2>5 DEF RecvNext
<1>2. Inv => WholeInOrder
  <2>1. /\ {g.id : g \in ToSet(got)} = Ids(got) /\ {g.id : g \in ToSet(queue)} = Ids(queue)
    BY DEF ToSet, Ids
  <2> QED
    BY <2>1 DEF Inv, InOrder, Ordered, Whole, LostUnpeeked, LostIds, WholeInOrder
<1> QED
  BY <1>1, <1>2, InitInv, PTL DEF RecvSpec

(***************************************************************************)
(* Local ports                                                             *)
(***************************************************************************)
USE SlotsAssumption, PidAssumption, ExplicitAssumption

LEMMA PortOfIsPort == \A n \in 0..Slots-1 : PortOf(n) \in Ports
  BY DEF PortOf, Ports

LEMMA NoPortIsPort == NoPort \in Ports /\ Zero \in Ports
  BY DEF NoPort, Zero, Ports

-----------------------------------------------------------------------------
\* The variables keep their types: in particular only bits of the map are
\* marked, and only sockets that have been allocated are bound.
THEOREM TypeCorrect == Spec => []TypeOK
<1>1. Init => TypeOK
  BY NoPortIsPort DEF Init, TypeOK
<1>2. TypeOK /\ [Next]_vars => TypeOK'
  <2> SUFFICES ASSUME TypeOK, [Next]_vars PROVE TypeOK'
    OBVIOUS
  <2>1. ASSUME NEW s \in Sockets, Alloc(s) PROVE TypeOK'
    BY <2>1, PortOfIsPort DEF Alloc, Generate, TypeOK
  <2>2. ASSUME NEW s \in Sockets, Free(s) PROVE TypeOK'
    BY <2>2 DEF Free, Released, TypeOK
  <2>3. ASSUME NEW s \in Sockets, SetGeneratedPort(s) PROVE TypeOK'
    BY <2>3, PortOfIsPort DEF SetGeneratedPort, Generate, TypeOK
  <2>4. ASSUME NEW s \in Sockets, NEW p \in Explicit, SetLocalPort(s, p)
        PROVE  TypeOK'
    BY <2>4 DEF SetLocalPort, Released, TypeOK
  <2>5. ASSUME NEW s \in Sockets, Connect(s) PROVE TypeOK'
    BY <2>5 DEF Connect, TypeOK
  <2>6. ASSUME NEW s \in Sockets, Close(s) PROVE TypeOK'
    BY <2>6 DEF Close, TypeOK
  <2>7. CASE UNCHANGED vars
    BY <2>7 DEF vars, TypeOK
  <2> QED
    BY <2>1, <2>2, <2>3, <2>4, <2>5, <2>6, <2>7 DEF Next
<1> QED
  BY <1>1, <1>2, PTL DEF Spec

-----------------------------------------------------------------------------
\* A port that generate_local_port() returns is UINT_MAX or has a bit that
\* was free, so no holder has it; other bits stay as they are.
LEMMA GeneratedIsFresh ==
  ASSUME TypeOK, HoldersApart, NEW p \in Ports, Generate(p)
  PROVE  /\ used \subseteq used'
         /\ p # NoPort => /\ p.nr \in used' \ used
                          /\ p.low = Pid
                          /\ \A t \in Holders : port[t] # p
<1>1. CASE p = NoPort
  BY <1>1 DEF Generate
<1>2. CASE p # NoPort
  <2>1. PICK n \in (0..Slots-1) \ used : p = PortOf(n) /\ used' = used \union {n}
    BY <1>2 DEF Generate
  <2> QED
    BY <1>2, <2>1 DEF PortOf, HoldersApart
<1> QED
  BY <1>1, <1>2

\* Two holders with the same bit are the same socket.
LEMMA BitsApart ==
  ASSUME TypeOK, HoldersApart, NEW s \in Holders, NEW t \in Holders,
         port[s].nr = port[t].nr
  PROVE  s = t
<1>1. port[s] \in Ports /\ port[t] \in Ports
  BY DEF TypeOK, Holders
<1>2. port[s] = port[t]
  BY <1>1 DEF HoldersApart, Ports
<1> QED
  BY <1>2 DEF HoldersApart

\* Two sockets never hold the same bit of used_ports_map, and the bits of
\* those that hold one are marked, whatever the order in which sockets are
\* allocated, freed and given other ports.
THEOREM PortsApart == Spec => []HoldersApart
<1>1. Init => HoldersApart
  BY DEF Init, HoldersApart, Holders
<1>2. TypeOK /\ HoldersApart /\ [Next]_vars => HoldersApart'
  <2> SUFFICES ASSUME TypeOK, HoldersApart, [Next]_vars PROVE HoldersApart'
    OBVIOUS
  <2>1. ASSUME NEW s \in Sockets, Alloc(s) PROVE HoldersApart'
    <3>1. PICK p \in Ports :
            /\ Generate(p)
            /\ IF p = NoPort
               THEN UNCHANGED <<live, port, own>>
               ELSE /\ live' = live \union {s}
                    /\ port' = [port EXCEPT ![s] = p]
                    /\ own' = [own EXCEPT ![s] = FALSE]
      BY <2>1 DEF Alloc
    <3>2. used \subseteq used'
      BY <3>1, GeneratedIsFresh
    <3>3. CASE p = NoPort
      <4>1. Holders' = Holders
        BY <3>1, <3>3 DEF Holders
      <4> QED
        BY <3>1, <3>2, <3>3, <4>1 DEF HoldersApart
    <3>4. CASE p # NoPort
      <4>1. p.nr \in used' \ used /\ p.low = Pid /\ \A t \in Holders : port[t] # p
        BY <3>1, <3>4, GeneratedIsFresh
      <4>2. port'[s] = p /\ \A t \in Sockets \ {s} : port'[t] = port[t]
        BY <3>1, <3>4 DEF TypeOK
      <4>3. \A t \in Holders' : t = s \/ (t \in Holders /\ t # s)
        BY <3>1, <3>4 DEF Holders, TypeOK
      <4>4. \A t \in Holders : t \in Sockets
        BY DEF Holders, TypeOK
      <4> QED
        BY <3>2, <4>1, <4>2, <4>3, <4>4 DEF HoldersApart
    <3> QED
      BY <3>3, <3>4
  <2>2. ASSUME NEW s \in Sockets, Free(s) PROVE HoldersApart'
    <3>1. \A t \in Holders' : t \in Holders /\ t # s /\ port'[t] = port[t]
      BY <2>2 DEF Free, Holders
    <3>2. \A t \in Holders : t # s => port[t].nr \in used'
      <4> SUFFICES ASSUME NEW t \in Holders, t # s PROVE port[t].nr \in used'
        OBVIOUS
      <4>1. port[t].nr \in used
        BY DEF HoldersApart
      <4>2. CASE s \in Holders
        <5>1. port[s].nr # port[t].nr
          BY <4>2, BitsApart
        <5> QED
          BY <2>2, <4>1, <5>1 DEF Free, Released
      <4>3. CASE s \notin Holders
        BY <2>2, <4>1, <4>3 DEF Free, Released, Holders
      <4> QED
        BY <4>2, <4>3
    <3> QED
      BY <3>1, <3>2 DEF HoldersApart
  <2>3. ASSUME NEW s \in Sockets, SetGeneratedPort(s) PROVE HoldersApart'
    <3>1. PICK p \in Ports : Generate(p) /\ port' = [port EXCEPT ![s] = p]
      BY <2>3 DEF SetGeneratedPort
    <3>2. used \subseteq used'
      BY <3>1, GeneratedIsFresh
    <3>3. port'[s] = p /\ \A t \in Sockets \ {s} : port'[t] = port[t]
      BY <3>1 DEF TypeOK
    <3>4. \A t \in Holders' : (t = s /\ p # NoPort) \/ (t \in Holders /\ t # s)
      BY <2>3, <3>3 DEF SetGeneratedPort, Holders, TypeOK
    <3>5. \A t \in Holders : t \in Sockets
      BY DEF Holders, TypeOK
    <3>6. p # NoPort => /\ p.nr \in used' \ used
                        /\ p.low = Pid
                        /\ \A t \in Holders : port[t] # p
      BY <3>1, GeneratedIsFresh
    <3> QED
      BY <3>2, <3>3, <3>4, <3>5, <3>6 DEF HoldersApart
  <2>4. ASSUME NEW s \in Sockets, NEW p \in Explicit, SetLocalPort(s, p)
        PROVE  HoldersApart'
    <3>1. \A t \in Holders' : t \in Holders /\ t # s /\ port'[t] = port[t]
      BY <2>4 DEF SetLocalPort, Holders, TypeOK
    <3>2. \A t \in Holders : t # s => port[t].nr \in used'
      <4> SUFFICES ASSUME NEW t \in Holders, t # s PROVE port[t].nr \in used'
        OBVIOUS
      <4>1. port[t].nr \in used
        BY DEF HoldersApart
      <4>2. CASE s \in Holders
        <5>1. port[s].nr # port[t].nr
          BY <4>2, BitsApart
        <5> QED
          BY <2>4, <4>1, <5>1 DEF SetLocalPort, Released
      <4>3. CASE s \notin Holders
        BY <2>4, <4>1, <4>3 DEF SetLocalPort, Released, Holders
      <4> QED
        BY <4>2, <4>3
    <3> QED
      BY <3>1, <3>2 DEF HoldersApart
  <2>5. ASSUME NEW s \in Sockets, Connect(s) \/ Close(s) PROVE HoldersApart'
    BY <2>5 DEF Connect, Close, HoldersApart, Holders
  <2>6. CASE UNCHANGED vars
    BY <2>6 DEF vars, HoldersApart, Holders
  <2> QED
    BY <2>1, <2>2, <2>3, <2>4, <2>5, <2>6 DEF Next
<1> QED
  BY <1>1, <1>2, TypeCorrect, PTL DEF Spec

-----------------------------------------------------------------------------
\* What GeneratedCanBind needs to be inductive: while no port has been
\* chosen, the bit of every port that is bound stays marked, also after its
\* socket has got another one.
BoundMarked ==
  "chosen" \notin calls =>
    /\ \A s \in live : ~own[s]
    /\ \A t \in DOMAIN bound :
         bound[t] # NoPort => bound[t].nr \in used /\ bound[t].low = Pid

BindInv == TypeOK /\ HoldersApart /\ BoundMarked /\ GeneratedCanBind

\* Freeing a socket keeps the bits of what the others are bound to.
LEMMA FreeKeepsBound ==
  ASSUME BindInv, "chosen" \notin calls, NEW s \in live, NEW t \in DOMAIN bound, t # s,
         bound[t] # NoPort
  PROVE  bound[t].nr \in Released(port[s])
<1>1. bound[t].nr \in used /\ bound[t].low = Pid /\ bound[t] \in Ports
  BY DEF BindInv, BoundMarked, TypeOK
<1>2. CASE port[s] = NoPort
  BY <1>1, <1>2 DEF Released
<1>3. CASE port[s] # NoPort
  <2>1. s \in Holders /\ s \in Sockets
    BY <1>3 DEF Holders, BindInv, BoundMarked, TypeOK
  <2>2. port[s].low = Pid /\ port[s] \in Ports
    BY <2>1 DEF BindInv, HoldersApart, TypeOK
  <2>3. bound[t] # port[s]
    BY <2>1 DEF BindInv, GeneratedCanBind
  <2>4. bound[t].nr # port[s].nr
    BY <1>1, <2>2, <2>3 DEF Ports
  <2> QED
    BY <1>1, <1>3, <2>4 DEF Released
<1> QED
  BY <1>2, <1>3

\* As long as no user chooses a port, a socket with a generated port is not
\* kept from binding by another socket of the process.
THEOREM GeneratedPortsBind == Spec => []GeneratedCanBind
<1>1. Init => BoundMarked /\ GeneratedCanBind
  BY DEF Init, BoundMarked, GeneratedCanBind, Holders
<1>2. /\ BindInv
      /\ TypeOK' /\ HoldersApart'
      /\ [Next]_vars
      => BoundMarked' /\ GeneratedCanBind'
  <2>0. [Next]_vars => calls \subseteq calls'
    BY DEF Next, vars, Alloc, Free, SetGeneratedPort, SetLocalPort, Connect, Close
  <2> SUFFICES ASSUME BindInv, TypeOK', HoldersApart', [Next]_vars,
                      "chosen" \notin calls, "chosen" \notin calls'
               PROVE  BoundMarked' /\ GeneratedCanBind'
    BY <2>0 DEF BoundMarked, GeneratedCanBind
  <2> USE DEF BindInv
  <2>1. ASSUME NEW s \in Sockets, NEW p \in Ports, Generate(p),
               port' = [port EXCEPT ![s] = p],
               own' = [own EXCEPT ![s] = FALSE],
               live' \subseteq live \union {s},
               UNCHANGED bound
        PROVE  BoundMarked' /\ GeneratedCanBind'
    <3>1. used \subseteq used'
      BY <2>1, GeneratedIsFresh
    <3>2. p # NoPort => p.nr \notin used
      BY <2>1, GeneratedIsFresh
    <3>3. port'[s] = p /\ \A t \in Sockets \ {s} : port'[t] = port[t]
      BY <2>1 DEF TypeOK
    <3>4. \A t \in Holders' : (t = s /\ p # NoPort) \/ (t \in Holders /\ t # s)
      BY <2>1, <3>3 DEF Holders, TypeOK
    <3>5. \A t \in Holders : t \in Sockets
      BY DEF Holders, TypeOK
    <3>6. BoundMarked'
      BY <2>1, <3>1 DEF BoundMarked, TypeOK
    <3>7. GeneratedCanBind'
      <4> SUFFICES ASSUME NEW r \in Holders', NEW t \in DOMAIN bound,
                          bound[t] = port'[r]
                   PROVE  t = r
        BY <2>1 DEF GeneratedCanBind
      <4>1. CASE r = s /\ p # NoPort
        BY <2>1, <3>2, <3>3, <4>1 DEF BoundMarked
      <4>2. CASE r \in Holders /\ r # s
        BY <3>3, <3>5, <4>2 DEF GeneratedCanBind
      <4> QED
        BY <3>4, <4>1, <4>2
    <3> QED
      BY <3>6, <3>7
  <2>2. ASSUME NEW s \in Sockets, Alloc(s)
        PROVE  BoundMarked' /\ GeneratedCanBind'
    <3>1. PICK p \in Ports :
            /\ Generate(p)
            /\ IF p = NoPort
               THEN UNCHANGED <<live, port, own>>
               ELSE /\ live' = live \union {s}
                    /\ port' = [port EXCEPT ![s] = p]
                    /\ own' = [own EXCEPT ![s] = FALSE]
      BY <2>2 DEF Alloc
    <3>2. UNCHANGED bound
      BY <2>2 DEF Alloc
    <3>3. CASE p = NoPort
      <4>1. UNCHANGED <<live, port, own>> /\ used \subseteq used'
        BY <3>1, <3>3, GeneratedIsFresh
      <4> QED
        BY <3>2, <4>1 DEF BoundMarked, GeneratedCanBind, Holders
    <3>4. CASE p # NoPort
      BY <2>1, <3>1, <3>2, <3>4
    <3> QED
      BY <3>3, <3>4
  <2>3. ASSUME NEW s \in Sockets, Free(s)
        PROVE  BoundMarked' /\ GeneratedCanBind'
    <3>1. s \in live /\ ~own[s] /\ used' = Released(port[s])
      BY <2>3 DEF Free, BoundMarked
    <3>2. \A t \in DOMAIN bound' : t \in DOMAIN bound /\ t # s /\ bound'[t] = bound[t]
      BY <2>3 DEF Free
    <3>3. \A t \in DOMAIN bound' : bound'[t] # NoPort => bound'[t].nr \in used'
      BY <3>1, <3>2, FreeKeepsBound
    <3> QED
      BY <2>3, <3>2, <3>3 DEF Free, BoundMarked, GeneratedCanBind, Holders
  <2>4. ASSUME NEW s \in Sockets, SetGeneratedPort(s)
        PROVE  BoundMarked' /\ GeneratedCanBind'
    <3>1. PICK p \in Ports : Generate(p) /\ port' = [port EXCEPT ![s] = p]
      BY <2>4 DEF SetGeneratedPort
    <3> QED
      BY <2>1, <2>4, <3>1 DEF SetGeneratedPort
  <2>5. ASSUME NEW s \in Sockets, Connect(s)
        PROVE  BoundMarked' /\ GeneratedCanBind'
    <3>1. DOMAIN bound' = DOMAIN bound \union {s} /\ bound'[s] = port[s]
          /\ \A t \in DOMAIN bound : bound'[t] = bound[t]
      BY <2>5 DEF Connect
    <3>2. port[s] # NoPort => s \in Holders
      BY <2>5 DEF Connect, Holders, BoundMarked
    <3>3. Holders' = Holders
      BY <2>5 DEF Connect, Holders
    <3>4. NoPort \notin {port[r] : r \in Holders}
      BY DEF Holders
    <3> QED
      BY <2>5, <3>1, <3>2, <3>3, <3>4
      DEF Connect, BoundMarked, GeneratedCanBind, HoldersApart
  <2>6. ASSUME NEW s \in Sockets, Close(s)
        PROVE  BoundMarked' /\ GeneratedCanBind'
    BY <2>6 DEF Close, BoundMarked, GeneratedCanBind, Holders
  <2>7. CASE UNCHANGED vars
    BY <2>7 DEF vars, BoundMarked, GeneratedCanBind, Holders
  <2>8. ASSUME NEW s \in Sockets, NEW p \in Explicit, SetLocalPort(s, p)
        PROVE  FALSE
    BY <2>8 DEF SetLocalPort
  <2> QED
    BY <2>2, <2>3, <2>4, <2>5, <2>6, <2>7, <2>8 DEF Next
<1> QED
  BY <1>1, <1>2, TypeCorrect, PortsApart, PTL DEF Spec, BindInv

-----------------------------------------------------------------------------
\* Letting go of a port gives back its bit and no other.
LEMMA ReleasedIsMine ==
  ASSUME TypeOK, HoldersApart, NEW s \in live,
         used = {port[t].nr : t \in Holders}
  PROVE  (IF own[s] THEN used ELSE Released(port[s]))
           = {port[t].nr : t \in Holders \ {s}}
<1>1. CASE s \in Holders
  <2>1. \A t \in Holders \ {s} : port[t].nr # port[s].nr
    BY <1>1, BitsApart
  <2>2. ~own[s] /\ port[s] # NoPort
    BY <1>1 DEF Holders
  <2> QED
    BY <1>1, <2>1, <2>2 DEF Released
<1>2. CASE s \notin Holders
  <2>1. own[s] \/ port[s] = NoPort
    BY <1>2 DEF Holders, TypeOK
  <2>2. Holders \ {s} = Holders
    BY <1>2
  <2> QED
    BY <2>1, <2>2 DEF Released
<1> QED
  BY <1>1, <1>2

\* No bit stays marked that no socket holds, unless a generated port is
\* replaced by a generated one or the process id is 0x3FFFFF.
THEOREM PortsAreGivenBack == Spec => []NothingLeaks
<1>1. Init => NothingLeaks
  BY DEF Init, NothingLeaks, Holders
<1>2. TypeOK /\ HoldersApart /\ NothingLeaks /\ [Next]_vars => NothingLeaks'
  <2>0. [Next]_vars => calls \subseteq calls'
    BY DEF Next, vars, Alloc, Free, SetGeneratedPort, SetLocalPort, Connect, Close
  <2> SUFFICES ASSUME TypeOK, HoldersApart, NothingLeaks, [Next]_vars,
                      "generated" \notin calls, "generated" \notin calls',
                      Pid # LowMax
               PROVE  used' = {port'[t].nr : t \in Holders'}
    BY <2>0 DEF NothingLeaks
  <2>1. used = {port[t].nr : t \in Holders} /\ Holders \subseteq Sockets
    BY DEF NothingLeaks, Holders, TypeOK
  <2>2. ASSUME NEW s \in Sockets, Alloc(s)
        PROVE  used' = {port'[t].nr : t \in Holders'}
    <3>1. PICK p \in Ports :
            /\ Generate(p)
            /\ IF p = NoPort
               THEN UNCHANGED <<live, port, own>>
               ELSE /\ live' = live \union {s}
                    /\ port' = [port EXCEPT ![s] = p]
                    /\ own' = [own EXCEPT ![s] = FALSE]
      BY <2>2 DEF Alloc
    <3>2. CASE p = NoPort
      <4>1. UNCHANGED <<used, live, port, own>>
        BY <3>1, <3>2 DEF Generate, PortOf, NoPort
      <4> QED
        BY <2>1, <4>1 DEF Holders
    <3>3. CASE p # NoPort
      <4>1. used' = used \union {p.nr}
        BY <3>1, <3>3 DEF Generate, PortOf
      <4>2. s \notin Holders
        BY <2>2 DEF Alloc, Holders
      <4>3. port'[s] = p /\ \A t \in Holders : port'[t] = port[t]
        BY <2>1, <3>1, <3>3, <4>2 DEF TypeOK
      <4>4. Holders' = Holders \union {s}
        BY <2>1, <2>2, <3>1, <3>3, <4>2, <4>3 DEF Alloc, Holders, TypeOK
      <4> QED
        BY <2>1, <4>1, <4>3, <4>4
    <3> QED
      BY <3>2, <3>3
  <2>3. ASSUME NEW s \in live,
               used' = IF own[s] THEN used ELSE Released(port[s]),
               \A t \in Holders' : port'[t] = port[t],
               Holders' = Holders \ {s}
        PROVE  used' = {port'[t].nr : t \in Holders'}
    BY <2>1, <2>3, ReleasedIsMine
  <2>4. ASSUME NEW s \in Sockets, Free(s)
        PROVE  used' = {port'[t].nr : t \in Holders'}
    <3>1. Holders' = Holders \ {s}
      BY <2>4 DEF Free, Holders
    <3> QED
      BY <2>3, <2>4, <3>1 DEF Free
  <2>5. ASSUME NEW s \in Sockets, NEW p \in Explicit, SetLocalPort(s, p)
        PROVE  used' = {port'[t].nr : t \in Holders'}
    <3>1. Holders' = Holders \ {s} /\ \A t \in Holders \ {s} : port'[t] = port[t]
      BY <2>1, <2>5 DEF SetLocalPort, Holders, TypeOK
    <3> QED
      BY <2>3, <2>5, <3>1 DEF SetLocalPort
  <2>6. ASSUME NEW s \in Sockets, SetGeneratedPort(s)
        PROVE  FALSE
    BY <2>6 DEF SetGeneratedPort
  <2>7. ASSUME NEW s \in Sockets, Connect(s) \/ Close(s)
        PROVE  used' = {port'[t].nr : t \in Holders'}
    BY <2>1, <2>7 DEF Connect, Close, Holders
  <2>8. CASE UNCHANGED vars
    BY <2>1, <2>8 DEF vars, Holders
  <2> QED
    BY <2>2, <2>4, <2>5, <2>6, <2>7, <2>8 DEF Next
<1> QED
  BY <1>1, <1>2, TypeCorrect, PortsApart, PTL DEF Spec

(***************************************************************************)
(* print_ies() and iw link                                                 *)
(***************************************************************************)

\* The printers with a loop, and the places in it.
Loops(f) ==
  CASE f = "country" -> {"triplets"}
    [] f \in {"rsn", "wpa", "osen"} -> {"group", "pairwise", "auth", "capa", "pmkid", "mgmt"}
    [] f = "11u_advert" -> {"pairs"}
    [] f = "supp_op_classes" -> {"classes", "extensions"}
    [] f = "measurement_pilot_tx" -> {"elements"}
    [] f \in {"wps", "p2p"} -> {"attributes"}
    [] OTHER -> {}

\* What such a printer reads without asking, and what all others read.
Looping == {"country", "rsn", "wpa", "osen", "11u_advert", "supp_op_classes",
            "measurement_pilot_tx", "wps", "p2p"}
Least(f) ==
  IF f = "country" THEN 3
  ELSE IF f \in {"rsn", "wpa"} THEN 2
  ELSE IF f \in {"supp_op_classes", "measurement_pilot_tx"} THEN 1 ELSE 0
Ready(f, len) ==
  IF f \in Looping THEN len >= Least(f) ELSE f = "raw" \/ Reads(f, len) \subseteq 0..len

Places == {"start", "done", "triplets", "group", "pairwise", "auth", "capa", "pmkid",
           "mgmt", "pairs", "classes", "extensions", "elements", "attributes"}

\* Pointer and length within an element of n bytes.
Inside(n) == {v \in [st : Places, off : Nat, len : Nat, read : Nat] :
                v.off + v.len = n /\ v.read <= n}

Printing(f, v, n) ==
  /\ v \in Inside(n)
  /\ v.st \in {"start", "done"} \cup Loops(f)
  /\ v.st = "start" => Ready(f, v.len)

-----------------------------------------------------------------------------
(* Moving on *)

LEMMA Places1 ==
  ASSUME NEW n \in 0..255, NEW v \in Inside(n), NEW st \in Places
  PROVE  /\ At(v, st) \in Inside(n) /\ At(v, st).st = st
         /\ At(v, st).len = v.len
BY DEF Inside, At

LEMMA ReadIs ==
  ASSUME NEW n \in 0..255, NEW v \in Inside(n), NEW k \in Nat, k <= v.len
  PROVE  /\ ReadTo(v, k) \in Inside(n)
         /\ ReadTo(v, k).st = v.st /\ ReadTo(v, k).len = v.len
BY DEF Inside, ReadTo, Later

LEMMA SkipIs ==
  ASSUME NEW n \in 0..255, NEW v \in Inside(n), NEW k \in Nat, k <= v.len
  PROVE  /\ Skip(v, k) \in Inside(n)
         /\ Skip(v, k).st = v.st /\ Skip(v, k).len = v.len - k
<1> DEFINE on == [v EXCEPT !.off = v.off + k]
<1>1. Skip(v, k) = [on EXCEPT !.len = (v.len - k) % U8]
  BY Zenon DEF Skip
<1>2. /\ on \in [st : Places, off : Nat, len : Nat, read : Nat]
      /\ on.st = v.st /\ on.off = v.off + k /\ on.read = v.read
      /\ v.len \in 0..255 /\ v.off + v.len = n /\ v.read <= n
  BY DEF Inside
<1>3. (v.len - k) % U8 = v.len - k /\ v.len - k \in Nat
  BY <1>2 DEF U8
<1> HIDE DEF on
<1>4. PICK t : t = [on EXCEPT !.len = v.len - k]
  OBVIOUS
<1>5. /\ t \in [st : Places, off : Nat, len : Nat, read : Nat]
      /\ t.st = v.st /\ t.off = v.off + k /\ t.len = v.len - k /\ t.read = v.read
  BY <1>2, <1>3, <1>4
<1>6. t.off + t.len = n /\ v.len \in Nat /\ v.off \in Nat
  BY <1>2, <1>5 DEF Inside
<1>7. t \in Inside(n)
  BY <1>2, <1>5, <1>6 DEF Inside
<1> QED
  BY <1>1, <1>3, <1>4, <1>5, <1>7

LEMMA TakeIs ==
  ASSUME NEW n \in 0..255, NEW v \in Inside(n), NEW k \in Nat, k <= v.len
  PROVE  /\ Take(v, k) \in Inside(n)
         /\ Take(v, k).st = v.st /\ Take(v, k).len = v.len - k
<1>1. /\ ReadTo(v, k) \in Inside(n)
      /\ ReadTo(v, k).st = v.st /\ ReadTo(v, k).len = v.len
  BY ReadIs
<1> QED
  BY <1>1, SkipIs DEF Take

\* A step that takes something away.
LEMMA Takes ==
  ASSUME NEW n \in 0..255, NEW v \in Inside(n), NEW k \in Nat \ {0}, v.len >= k
  PROVE  Take(v, k) \in Inside(n) /\ Take(v, k).st = v.st /\ Take(v, k).len < v.len
<1>1. v.len \in Nat
  BY DEF Inside
<1>2. Take(v, k) \in Inside(n) /\ Take(v, k).st = v.st /\ Take(v, k).len = v.len - k
  BY <1>1, TakeIs
<1> HIDE DEF Take
<1> QED
  BY <1>1, <1>2

LEMMA Passes ==
  ASSUME NEW n \in 0..255, NEW v \in Inside(n), NEW r \in Nat, v.len >= r,
         NEW k \in Nat \ {0}, v.len >= k
  PROVE  /\ Skip(ReadTo(v, r), k) \in Inside(n)
         /\ Skip(ReadTo(v, r), k).st = v.st
         /\ Skip(ReadTo(v, r), k).len < v.len
<1>1. v.len \in Nat
  BY DEF Inside
<1> DEFINE t == ReadTo(v, r)
<1>2. t \in Inside(n) /\ t.st = v.st /\ t.len = v.len
  BY <1>1, ReadIs
<1> HIDE DEF t
<1>3. Skip(t, k) \in Inside(n) /\ Skip(t, k).st = t.st /\ Skip(t, k).len = t.len - k
  BY <1>1, <1>2, SkipIs
<1> HIDE DEF Skip
<1>4. Skip(t, k).len < v.len
  BY <1>1, <1>2, <1>3
<1> QED
  BY <1>2, <1>3, <1>4 DEF t

LEMMA DoneIs ==
  ASSUME NEW n \in 0..255, NEW v \in Inside(n), NEW x \in Done(v)
  PROVE  x \in Inside(n) /\ x.st = "done"
<1>1. "done" \in Places
  BY DEF Places
<1> QED
  BY <1>1, Places1 DEF Done

LEMMA BogusTailIs ==
  ASSUME NEW n \in 0..255, NEW v \in Inside(n), NEW x \in BogusTail(v)
  PROVE  x \in Inside(n) /\ x.st = "done"
<1>1. v.len \in Nat
  BY DEF Inside
<1>2. Take(v, v.len) \in Inside(n)
  BY <1>1, TakeIs
<1> QED
  BY <1>2, DoneIs DEF BogusTail

-----------------------------------------------------------------------------
(* Printers without a loop: what the tables ask for is enough *)

LEMMA FixedNames ==
  DOMAIN Fixed =
    {"ds", "tim", "ibssatim", "bss_load", "powerconstraint", "tpcreport", "erp",
     "ht_capa", "obss_scan_params", "ht_op", "secchan_offs", "vht_capa", "vht_oper",
     "rm_enabled_capabilities", "mesh_conf", "hs20_ind"}
BY DEF Fixed

LEMMA FixedReads ==
  ASSUME NEW f \in DOMAIN Fixed, NEW len
  PROVE  Reads(f, len) = {Fixed[f]}
BY FixedNames DEF Reads

LEMMA OtherReads ==
  ASSUME NEW len
  PROVE  /\ Reads("ssid", len) = {Ssid(len)}
         /\ Reads("supprates", len) = {Supprates(len)}
         /\ Reads("capabilities", len) = {Capabilities(len)}
         /\ Reads("ap_channel_report", len) = {ChannelReport(len)}
         /\ Reads("interworking", len) = {Interworking(len)}
         /\ Reads("tx_power_envelope", len) = TxPower(len)
         /\ Reads("wmm", len) = Wmm(len)
         /\ Reads("11u_rcon", len) = Rcon(len)
         /\ Reads("owe_tarns", len) = Owe(len)
         /\ Reads("he_capa", len) = HeCapability(len)
BY DEF Reads, Fixed

LEMMA FixedIs ==
  /\ Fixed["ds"] = 1 /\ Fixed["tim"] = 4 /\ Fixed["ibssatim"] = 2 /\ Fixed["bss_load"] = 5
  /\ Fixed["powerconstraint"] = 1 /\ Fixed["tpcreport"] = 1 /\ Fixed["erp"] = 1
  /\ Fixed["ht_capa"] = 16 /\ Fixed["obss_scan_params"] = 14 /\ Fixed["ht_op"] = 6
  /\ Fixed["secchan_offs"] = 1 /\ Fixed["vht_capa"] = 12 /\ Fixed["vht_oper"] = 5
  /\ Fixed["rm_enabled_capabilities"] = 5 /\ Fixed["mesh_conf"] = 7
  /\ Fixed["hs20_ind"] = 1
BY DEF Fixed, Ds, Tim, BssLoad, HtCapa, HtMcs, McsIndex, ObssScanParams, HtOp, VhtCapa,
       VhtMcs, VhtOper, RmCapabilities, MeshConf, Later

LEMMA TxPowerInside == \A len \in 2..5 : TxPower(len) \subseteq 0..len
BY DEF TxPower, PowerNames

LEMMA WmmInside == \A len \in 1..255 : Wmm(len) \subseteq 0..len
BY DEF Wmm, WmmParam, Later

LEMMA CountsAreNat == Counts \subseteq Nat
BY CountsAssumption

LEMMA OweInside == \A len \in 7..255 : Owe(len) \subseteq 0..len
<1> TAKE len \in 7..255
<1>1. \A s \in Counts : s <= len - 7 => (IF len >= s + 9 THEN s + 9 ELSE 7 + s) \in 0..len
  BY CountsAreNat
<1>2. Owe(len) = {7} \cup {IF len >= s + 9 THEN s + 9 ELSE 7 + s :
                              s \in {k \in Counts : k <= len - 7}}
  BY DEF Owe
<1>3. \A x \in Owe(len) : x = 7 \/ \E s \in Counts :
        s <= len - 7 /\ x = IF len >= s + 9 THEN s + 9 ELSE 7 + s
  BY <1>2
<1> QED
  BY <1>1, <1>3

\* The last of the identifiers that are shown ends inside the element.
LEMMA RconInside == \A len \in 2..255 : Rcon(len) \subseteq 0..len
<1> TAKE len \in 2..255
<1> DEFINE ln2(a, b) == IF b > 0 THEN len - 2 - a - b ELSE 0
           ids(a, b) == {n \in {IF a > 0 THEN 2 + a ELSE 2,
                                  IF b > 0 THEN 2 + a + b ELSE 2,
                                  IF ln2(a, b) > 0 THEN 2 + a + b + ln2(a, b) ELSE 2} : n <= len}
           top(a, b) == IF \E n \in ids(a, b) : \A k \in ids(a, b) : k <= n
                        THEN CHOOSE n \in ids(a, b) : \A k \in ids(a, b) : k <= n ELSE 2
<1>1. Rcon(len) = {top(a, b) : a \in Nibbles, b \in Nibbles}
  BY DEF Rcon
<1>2. ASSUME NEW a \in Nibbles, NEW b \in Nibbles PROVE top(a, b) \in 0..len
  <2>1. a \in 0..15 /\ b \in 0..15
    BY NibblesAssumption
  <2>2. ln2(a, b) \in Int
    BY <2>1
  <2>3. ids(a, b) \subseteq 0..len
    <3> HIDE DEF ln2
    <3> QED BY <2>1, <2>2
  <2> HIDE DEF ids
  <2> QED
    BY <2>3
<1> HIDE DEF top
<1> QED
  BY <1>1, <1>2

\* A set of MCS is read only if something follows it.
LEMMA HeInside == \A len \in 21..54 : HeCapability(len) \subseteq 0..len
<1> TAKE len \in 21..54
<1> DEFINE sets(bw) == HeSets(bw, len - HeFixed).sets
           last(bw) == CHOOSE i \in sets(bw) : \A k \in sets(bw) : k <= i
<1>1. ASSUME NEW bw \in SUBSET (1..3)
      PROVE  \A i \in sets(bw) : i \in 1..3 /\ HeFixed + 4 * i < len
  <2>1. sets(bw) = {i \in bw : \A k \in {j \in bw : 4 * j >= len - HeFixed} : i < k}
    BY DEF HeSets
  <2> SUFFICES ASSUME NEW i \in bw, \A k \in {j \in bw : 4 * j >= len - HeFixed} : i < k
               PROVE  i \in 1..3 /\ HeFixed + 4 * i < len
    BY <2>1
  <2>2. ~(4 * i >= len - HeFixed)
    BY DEF HeFixed
  <2> QED
    BY <2>2 DEF HeFixed
<1>2. ASSUME NEW bw \in SUBSET (1..3), sets(bw) # {}
      PROVE  last(bw) \in sets(bw)
  <2>1. \E i \in sets(bw) : \A k \in sets(bw) : k <= i
    <3> HIDE DEF sets
    <3>1. CASE 3 \in sets(bw)
      BY <1>1, <3>1
    <3>2. CASE 3 \notin sets(bw) /\ 2 \in sets(bw)
      BY <1>1, <3>2
    <3>3. CASE 3 \notin sets(bw) /\ 2 \notin sets(bw)
      BY <1>1, <1>2, <3>3
    <3> QED
      BY <3>1, <3>2, <3>3
  <2> HIDE DEF sets
  <2> QED
    BY <2>1
<1>3. ASSUME NEW bw \in SUBSET (1..3)
      PROVE  (IF sets(bw) = {} THEN HeFixed ELSE HeFixed + 4 * last(bw)) \in 0..len
  <2> HIDE DEF last, sets
  <2> QED
    BY <1>1, <1>2, <1>3 DEF HeFixed
<1>4. \A x \in HeCapability(len) : \E bw \in SUBSET (1..3) :
        x = len \/ x = IF sets(bw) = {} THEN HeFixed ELSE HeFixed + 4 * last(bw)
  BY DEF HeCapability, HeRead
<1> HIDE DEF sets, last
<1> QED
  BY <1>3, <1>4

\* A printer that is safe for the lengths its table allows.
SafeFor(f, least, most) == \A len \in least..most : Ready(f, len)

LEMMA FixedSafe ==
  ASSUME NEW f \in DOMAIN Fixed, NEW least \in Nat, NEW most \in Nat,
         Fixed[f] \in 0..least
  PROVE  SafeFor(f, least, most)
<1>1. f \notin Looping
  BY FixedNames DEF Looping
<1> QED
  BY <1>1, FixedReads DEF SafeFor, Ready

LEMMA LoopsSafe ==
  /\ SafeFor("country", 3, 255) /\ SafeFor("rsn", 2, 255) /\ SafeFor("wpa", 2, 255)
  /\ SafeFor("osen", 1, 255) /\ SafeFor("11u_advert", 0, 255)
  /\ SafeFor("supp_op_classes", 1, 255) /\ SafeFor("measurement_pilot_tx", 1, 255)
  /\ SafeFor("wps", 0, 255) /\ SafeFor("p2p", 2, 255)
BY DEF SafeFor, Ready, Looping, Least

LEMMA WholeSafe ==
  /\ SafeFor("ssid", 0, 32) /\ SafeFor("supprates", 0, 255)
  /\ SafeFor("capabilities", 0, 255) /\ SafeFor("ap_channel_report", 1, 255)
  /\ SafeFor("interworking", 0, 255)
<1>1. \A len \in Nat : Ssid(len) = len /\ Supprates(len) = len /\ Capabilities(len) = len
  BY DEF Ssid, Supprates, Capabilities
<1>2. \A len \in Nat : Interworking(len) \in 0..len
  BY DEF Interworking
<1>3. \A len \in Nat : len >= 1 => ChannelReport(len) = len
  BY DEF ChannelReport, Later
<1>4. \A f \in {"ssid", "supprates", "capabilities", "ap_channel_report", "interworking"} :
        f \notin Looping
  BY DEF Looping
<1>5. \A len \in Nat : /\ Reads("ssid", len) \subseteq 0..len
                       /\ Reads("supprates", len) \subseteq 0..len
                       /\ Reads("capabilities", len) \subseteq 0..len
                       /\ Reads("interworking", len) \subseteq 0..len
                       /\ len >= 1 => Reads("ap_channel_report", len) \subseteq 0..len
  BY <1>1, <1>2, <1>3, OtherReads
<1>6. \A len \in Nat : /\ Ready("ssid", len) /\ Ready("supprates", len)
                       /\ Ready("capabilities", len) /\ Ready("interworking", len)
                       /\ len >= 1 => Ready("ap_channel_report", len)
  BY <1>4, <1>5 DEF Ready
<1> QED
  BY <1>6 DEF SafeFor

LEMMA OthersSafe ==
  /\ SafeFor("tx_power_envelope", 2, 5) /\ SafeFor("wmm", 1, 255)
  /\ SafeFor("11u_rcon", 2, 255) /\ SafeFor("owe_tarns", 7, 255)
  /\ SafeFor("he_capa", 21, 54)
BY OtherReads, TxPowerInside, WmmInside, RconInside, OweInside, HeInside
   DEF SafeFor, Ready, Looping

\* An element whose length its table allows is long enough for its printer.
LEMMA RowsSafe ==
  \A p \in ieprinters \cup wifiprinters \cup wfa_printers \cup ext_printers :
    SafeFor(p.print, p.minlen, p.maxlen)
<1>1. /\ SafeFor("ds", 1, 1) /\ SafeFor("tim", 4, 255) /\ SafeFor("ibssatim", 2, 2)
      /\ SafeFor("bss_load", 5, 5) /\ SafeFor("powerconstraint", 1, 1)
      /\ SafeFor("tpcreport", 2, 2) /\ SafeFor("erp", 1, 255) /\ SafeFor("ht_capa", 26, 26)
      /\ SafeFor("obss_scan_params", 14, 255) /\ SafeFor("ht_op", 22, 22)
      /\ SafeFor("secchan_offs", 1, 1) /\ SafeFor("vht_capa", 12, 255)
      /\ SafeFor("vht_oper", 5, 255) /\ SafeFor("rm_enabled_capabilities", 5, 5)
      /\ SafeFor("mesh_conf", 7, 7) /\ SafeFor("hs20_ind", 1, 255)
  BY FixedSafe, FixedNames, FixedIs
<1>2. \A p \in ieprinters : SafeFor(p.print, p.minlen, p.maxlen)
  BY <1>1, LoopsSafe, WholeSafe, OthersSafe DEF ieprinters, Printer
<1>3. \A p \in wifiprinters \cup wfa_printers \cup ext_printers :
        SafeFor(p.print, p.minlen, p.maxlen)
  BY <1>1, LoopsSafe, OthersSafe DEF wifiprinters, wfa_printers, ext_printers, Printer
<1> QED
  BY <1>2, <1>3

-----------------------------------------------------------------------------
(* Printers with a loop *)

\* A step of the printer f from v to x: it stays inside, and if it is in the same
\* place again, less is left.
Goes(f, v, x, n) ==
  /\ x \in Inside(n)
  /\ x.st \in {"done"} \cup Loops(f)
  /\ x.st = v.st => x.len < v.len

LEMMA LoopPlaces ==
  /\ Loops("country") = {"triplets"}
  /\ \A f \in {"rsn", "wpa", "osen"} :
       Loops(f) = {"group", "pairwise", "auth", "capa", "pmkid", "mgmt"}
  /\ Loops("11u_advert") = {"pairs"}
  /\ Loops("supp_op_classes") = {"classes", "extensions"}
  /\ Loops("measurement_pilot_tx") = {"elements"}
  /\ Loops("wps") = {"attributes"} /\ Loops("p2p") = {"attributes"}
BY DEF Loops

LEMMA AllLoops ==
  ASSUME NEW f PROVE Loops(f) \subseteq Places \ {"start", "done"}
BY DEF Loops, Places

LEMMA GoesTo ==
  ASSUME NEW n \in 0..255, NEW v, NEW t \in Inside(n), NEW f, NEW st \in Loops(f),
         st # v.st \/ t.len < v.len
  PROVE  Goes(f, v, At(t, st), n)
<1>1. At(t, st) \in Inside(n) /\ At(t, st).st = st /\ At(t, st).len = t.len
  BY AllLoops, Places1
<1> QED
  BY <1>1 DEF Goes

LEMMA GoesOn ==
  ASSUME NEW n \in 0..255, NEW v, NEW t \in Inside(n), NEW f, t.st \in Loops(f),
         t.len < v.len
  PROVE  Goes(f, v, t, n)
BY DEF Goes

LEMMA GoesDone ==
  ASSUME NEW n \in 0..255, NEW v, v.st # "done", NEW t \in Inside(n), NEW f, NEW x \in Done(t)
  PROVE  Goes(f, v, x, n)
BY DoneIs DEF Goes

LEMMA GoesTail ==
  ASSUME NEW n \in 0..255, NEW v, v.st # "done", NEW t \in Inside(n), NEW f,
         NEW x \in BogusTail(t)
  PROVE  Goes(f, v, x, n)
BY BogusTailIs DEF Goes

LEMMA CountryGoes ==
  ASSUME NEW n \in 0..255, NEW v \in Inside(n), v.st \in {"start", "triplets"},
         v.st = "start" => v.len >= 3, NEW x \in Country(v)
  PROVE  Goes("country", v, x, n)
<1>1. v.len \in Nat
  BY DEF Inside
<1>2. CASE v.st = "triplets" /\ ~(v.len >= 3)
  <2>1. x \in Done(v)
    BY <1>2 DEF Country
  <2> QED
    BY <1>2, <2>1, GoesDone
<1>3. CASE v.len >= 3
  <2> DEFINE t == Take(v, 3)
  <2>0. 3 \in Nat \ {0}
    OBVIOUS
  <2>1. t \in Inside(n) /\ t.st = v.st /\ t.len < v.len
    BY <1>3, <2>0, Takes, Zenon
  <2>2. x = At(t, "triplets") \/ (x = t /\ v.st = "triplets")
    BY <1>3 DEF Country
  <2> HIDE DEF t
  <2> QED
    BY <2>1, <2>2, GoesTo, GoesOn, LoopPlaces
<1> QED
  BY <1>2, <1>3

LEMMA AdvertGoes ==
  ASSUME NEW n \in 0..255, NEW v \in Inside(n), v.st # "done", NEW x \in Advert(v)
  PROVE  Goes("11u_advert", v, x, n)
<1>1. v.len \in Nat
  BY DEF Inside
<1>2. CASE v.len > 1
  <2> DEFINE t == Take(v, 2)
  <2>0. 2 \in Nat \ {0} /\ v.len >= 2
    BY <1>1, <1>2
  <2>1. t \in Inside(n) /\ t.len < v.len
    BY <2>0, Takes, Zenon
  <2>2. x = At(t, "pairs")
    BY <1>2 DEF Advert
  <2> HIDE DEF t
  <2> QED
    BY <2>1, <2>2, GoesTo, LoopPlaces
<1>3. CASE ~(v.len > 1)
  <2>1. x \in Done(v)
    BY <1>3 DEF Advert
  <2> QED
    BY <2>1, GoesDone
<1> QED
  BY <1>2, <1>3

LEMMA OpClassesGoes ==
  ASSUME NEW n \in 0..255, NEW v \in Inside(n), v.st \in {"start", "classes", "extensions"},
         v.st = "start" => v.len >= 1, NEW x \in OpClasses(v)
  PROVE  Goes("supp_op_classes", v, x, n)
<1>1. v.len \in Nat
  BY DEF Inside
<1>2. CASE v.len = 0
  <2>1. x \in Done(v)
    BY <1>2 DEF OpClasses
  <2> QED
    BY <2>1, GoesDone
<1>3. CASE v.len # 0
  <2> DEFINE t == Take(v, 1)
  <2>0. 1 \in Nat \ {0} /\ v.len >= 1
    BY <1>1, <1>3
  <2>1. t \in Inside(n) /\ t.len < v.len /\ t.st = v.st
    BY <2>0, Takes, Zenon
  <2>2. \/ x = At(t, "classes")
        \/ x = t /\ v.st \in {"classes", "extensions"}
        \/ x = At(t, "extensions")
        \/ x \in Done(t)
    BY <1>3 DEF OpClasses
  <2> HIDE DEF t
  <2> QED
    BY <2>1, <2>2, GoesTo, GoesOn, GoesDone, LoopPlaces
<1> QED
  BY <1>2, <1>3

LEMMA PilotGoes ==
  ASSUME NEW n \in 0..255, NEW v \in Inside(n), v.st \in {"start", "elements"},
         v.st = "start" => v.len >= 1, NEW x \in Pilot(v)
  PROVE  Goes("measurement_pilot_tx", v, x, n)
<1>1. v.len \in Nat
  BY DEF Inside
<1>2. CASE v.st = "start" /\ v.len <= 1
  <2>1. x \in Done(ReadTo(v, 1)) /\ ReadTo(v, 1) \in Inside(n)
    BY <1>1, <1>2, ReadIs DEF Pilot
  <2> QED
    BY <2>1, GoesDone
<1>3. CASE v.st = "start" /\ ~(v.len <= 1)
  <2> DEFINE t == Take(v, 1)
  <2>0. 1 \in Nat \ {0} /\ v.len >= 1
    BY <1>1, <1>3
  <2>1. t \in Inside(n) /\ t.len < v.len
    BY <2>0, Takes, Zenon
  <2>2. x = At(t, "elements")
    BY <1>3 DEF Pilot
  <2> HIDE DEF t
  <2> QED
    BY <2>1, <2>2, GoesTo, LoopPlaces
<1>4. CASE v.st = "elements" /\ v.len < 5
  <2>1. x \in Done(v)
    BY <1>4 DEF Pilot
  <2> QED
    BY <1>4, <2>1, GoesDone
<1>5. CASE v.st = "elements" /\ ~(v.len < 5)
  <2> DEFINE h == Take(v, 2)
  <2>0. 2 \in Nat \ {0} /\ v.len >= 2
    BY <1>1, <1>5
  <2>1. h \in Inside(n) /\ h.len < v.len /\ h.st = "elements"
    BY <1>5, <2>0, Takes, Zenon
  <2>2. x \in Done(h) \/ \E s \in Counts : s >= 3 /\ s <= h.len /\ x = Take(h, s)
    BY <1>5 DEF Pilot
  <2> HIDE DEF h
  <2>3. ASSUME NEW s \in Counts, s >= 3, s <= h.len, x = Take(h, s)
        PROVE  Goes("measurement_pilot_tx", v, x, n)
    <3>1. h.len \in Nat
      BY <2>1 DEF Inside
    <3>2. s \in Nat \ {0} /\ h.len >= s
      BY <2>3, <3>1, CountsAreNat
    <3>3. Take(h, s) \in Inside(n) /\ Take(h, s).st = h.st /\ Take(h, s).len < h.len
      BY <2>1, <3>2, Takes, Zenon
    <3>4. Take(h, s).len \in Nat
      BY <3>3 DEF Inside
    <3> HIDE DEF Take
    <3>5. x.len < v.len
      BY <1>1, <2>1, <2>3, <3>1, <3>3, <3>4
    <3> QED
      BY <2>1, <2>3, <3>3, <3>5, GoesOn, LoopPlaces
  <2> QED
    BY <1>5, <2>1, <2>2, <2>3, GoesDone
<1> QED
  BY <1>2, <1>3, <1>4, <1>5

LEMMA SuitesGo ==
  ASSUME NEW n \in 0..255, NEW v \in Inside(n), v.st # "done", NEW f, NEW st \in Loops(f),
         NEW x \in Suites(v, 4, st)
  PROVE  Goes(f, v, x, n)
<1>1. v.len \in Nat
  BY DEF Inside
<1>2. CASE v.len < 2
  <2>1. x \in Done(v)
    BY <1>2 DEF Suites
  <2> QED
    BY <2>1, GoesDone
<1>3. CASE ~(v.len < 2)
  <2>1. 2 \in Nat /\ 2 <= v.len
    BY <1>1, <1>3
  <2>2. ReadTo(v, 2) \in Inside(n)
    BY <2>1, ReadIs, Zenon
  <2>3. x \in BogusTail(ReadTo(v, 2)) \/
        \E count \in Counts : 2 + 4 * count <= v.len /\ x = At(Take(v, 2 + 4 * count), st)
    BY <1>3 DEF Suites
  <2>4. ASSUME NEW count \in Counts, 2 + 4 * count <= v.len,
               x = At(Take(v, 2 + 4 * count), st)
        PROVE  Goes(f, v, x, n)
    <3> DEFINE k == 2 + 4 * count
    <3>1. k \in Nat \ {0} /\ v.len >= k
      BY <1>1, <2>4, CountsAreNat
    <3> HIDE DEF k
    <3>2. Take(v, k) \in Inside(n) /\ Take(v, k).len < v.len
      BY <3>1, Takes, Zenon
    <3>3. x = At(Take(v, k), st)
      BY <2>4 DEF k
    <3> QED
      BY <3>2, <3>3, GoesTo
  <2> QED
    BY <2>2, <2>3, <2>4, GoesTail
<1> QED
  BY <1>2, <1>3

LEMMA PmkidsGo ==
  ASSUME NEW n \in 0..255, NEW v \in Inside(n), v.st = "pmkid", NEW f,
         "mgmt" \in Loops(f), NEW x \in Pmkids(v)
  PROVE  Goes(f, v, x, n)
<1>1. v.len \in Nat
  BY DEF Inside
<1>2. CASE v.len < 2
  <2>1. x = At(v, "mgmt")
    BY <1>2 DEF Pmkids
  <2> QED
    BY <2>1, GoesTo
<1>3. CASE ~(v.len < 2)
  <2>1. 2 \in Nat /\ 2 <= v.len /\ v.len >= 2
    BY <1>1, <1>3
  <2>2. ReadTo(v, 2) \in Inside(n)
    BY <2>1, ReadIs, Zenon
  <2>3. x \in BogusTail(ReadTo(v, 2)) \/
        \E count \in Counts : /\ 2 + 16 * count <= v.len
                              /\ x = At(Skip(ReadTo(v, 2), 2 + 16 * count), "mgmt")
    BY <1>3 DEF Pmkids
  <2>4. ASSUME NEW count \in Counts, 2 + 16 * count <= v.len,
               x = At(Skip(ReadTo(v, 2), 2 + 16 * count), "mgmt")
        PROVE  Goes(f, v, x, n)
    <3> DEFINE k == 2 + 16 * count
               t == Skip(ReadTo(v, 2), k)
    <3>1. k \in Nat \ {0} /\ v.len >= k
      BY <1>1, <2>4, CountsAreNat
    <3> HIDE DEF k
    <3>2. t \in Inside(n) /\ t.len < v.len
      BY <2>1, <3>1, Passes, Zenon
    <3>3. x = At(t, "mgmt")
      BY <2>4 DEF k
    <3> HIDE DEF t
    <3> QED
      BY <3>2, <3>3, GoesTo
  <2>5. v.st # "done"
    OBVIOUS
  <2> QED
    BY <2>2, <2>3, <2>4, <2>5, GoesTail
<1> QED
  BY <1>2, <1>3

LEMMA RsnGoes ==
  ASSUME NEW n \in 0..255, NEW v \in Inside(n), NEW f \in {"rsn", "wpa", "osen"},
         NEW is_osen \in BOOLEAN, v.st \in {"start"} \cup Loops(f),
         v.st = "start" /\ ~is_osen => v.len >= 2, NEW x \in _print_rsn_ie(v, is_osen)
  PROVE  Goes(f, v, x, n)
<1>1. /\ v.st \in {"start", "group", "pairwise", "auth", "capa", "pmkid", "mgmt"}
      /\ {"group", "pairwise", "auth", "capa", "pmkid", "mgmt"} = Loops(f)
  BY LoopPlaces
<1>2. v.len \in Nat
  BY DEF Inside
<1>3. 2 \in Nat \ {0} /\ 4 \in Nat \ {0}
  OBVIOUS
<1>4. CASE v.st = "start"
  <2>1. x = At(IF is_osen THEN v ELSE Take(v, 2), "group")
    BY <1>4, Zenon DEF _print_rsn_ie
  <2>2. ~is_osen => Take(v, 2) \in Inside(n)
    BY <1>3, <1>4, Takes, Zenon
  <2>3. "group" # v.st
    BY <1>4
  <2> QED
    BY <1>1, <2>1, <2>2, <2>3, GoesTo
<1>5. CASE v.st = "group"
  <2>1. x \in IF v.len < 4 THEN Done(v) ELSE {At(Take(v, 4), "pairwise")}
    BY <1>5, Zenon DEF _print_rsn_ie, CipherSuite
  <2>2. CASE v.len < 4
    BY <1>5, <2>1, <2>2, GoesDone
  <2>3. CASE ~(v.len < 4)
    <3>1. v.len >= 4
      BY <1>2, <2>3
    <3>2. Take(v, 4) \in Inside(n)
      BY <1>3, <3>1, Takes, Zenon
    <3>3. x = At(Take(v, 4), "pairwise")
      BY <2>1, <2>3
    <3> QED
      BY <1>1, <1>5, <3>2, <3>3, GoesTo
  <2> QED
    BY <2>2, <2>3
<1>6. CASE v.st = "pairwise"
  <2>1. x \in Suites(v, 4, "auth")
    BY <1>6, Zenon DEF _print_rsn_ie, CipherSuite
  <2> QED
    BY <1>1, <1>6, <2>1, SuitesGo
<1>7. CASE v.st = "auth"
  <2>1. x \in Suites(v, 4, "capa")
    BY <1>7, Zenon DEF _print_rsn_ie, AkmSuite
  <2> QED
    BY <1>1, <1>7, <2>1, SuitesGo
<1>8. CASE v.st = "capa"
  <2>1. x = At(IF v.len >= 2 THEN Take(v, 2) ELSE v, "pmkid")
    BY <1>8, Zenon DEF _print_rsn_ie
  <2>2. v.len >= 2 => Take(v, 2) \in Inside(n)
    BY <1>3, Takes, Zenon
  <2> QED
    BY <1>1, <1>8, <2>1, <2>2, GoesTo
<1>9. CASE v.st = "pmkid"
  <2>1. x \in Pmkids(v)
    BY <1>9, Zenon DEF _print_rsn_ie
  <2> QED
    BY <1>1, <1>9, <2>1, PmkidsGo
<1>10. CASE v.st = "mgmt"
  <2>1. x \in BogusTail(IF v.len >= 4 THEN Take(v, 4) ELSE v)
    BY <1>10, Zenon DEF _print_rsn_ie, CipherSuite
  <2>2. v.len >= 4 => Take(v, 4) \in Inside(n)
    BY <1>3, Takes, Zenon
  <2> QED
    BY <1>10, <2>1, <2>2, GoesTail
<1> QED
  BY <1>1, <1>4, <1>5, <1>6, <1>7, <1>8, <1>9, <1>10

LEMMA WpsReadsWithin == \A type \in WpsTypes : \A sub \in Nat : WpsReads(type, sub) \in 0..sub
BY DEF WpsReads, WpsTypes

LEMMA P2pReadsWithin == \A type \in P2pTypes : \A sub \in Nat : P2pReads(type, sub) \in 0..sub
BY DEF P2pReads, P2pTypes

\* An attribute of sub bytes behind its header, of which r are read.
LEMMA AttributeGoes ==
  ASSUME NEW n \in 0..255, NEW v \in Inside(n), NEW f, "attributes" \in Loops(f),
         NEW header \in Nat \ {0}, NEW sub \in Nat, header + sub <= v.len, NEW r \in 0..sub,
         NEW x, x = At(Skip(ReadTo(v, header + r), sub + header), "attributes")
  PROVE  Goes(f, v, x, n)
<1> DEFINE k == header + r
           m == sub + header
           t == Skip(ReadTo(v, k), m)
<1>1. v.len \in Nat
  BY DEF Inside
<1>2. k \in Nat /\ v.len >= k /\ m \in Nat \ {0} /\ v.len >= m
  BY <1>1
<1> HIDE DEF k, m
<1>3. t \in Inside(n) /\ t.len < v.len
  BY <1>2, Passes, Zenon
<1>4. x = At(t, "attributes")
  BY DEF k, m
<1> HIDE DEF t
<1> QED
  BY <1>3, <1>4, GoesTo

LEMMA WpsGoes ==
  ASSUME NEW n \in 0..255, NEW v \in Inside(n), v.st # "done", NEW x \in Wps(v)
  PROVE  Goes("wps", v, x, n)
<1>1. v.len \in Nat
  BY DEF Inside
<1>2. CASE v.len < 4
  <2>1. x \in BogusTail(v)
    BY <1>2 DEF Wps
  <2> QED
    BY <2>1, GoesTail
<1>3. CASE ~(v.len < 4)
  <2>1. 4 \in Nat /\ 4 <= v.len
    BY <1>1, <1>3
  <2>2. ReadTo(v, 4) \in Inside(n)
    BY <2>1, ReadIs, Zenon
  <2>3. x \in BogusTail(ReadTo(v, 4)) \/
        \E sub \in Counts, type \in WpsTypes :
          /\ sub <= v.len - 4
          /\ x = At(Skip(ReadTo(v, 4 + WpsReads(type, sub)), sub + 4), "attributes")
    BY <1>3 DEF Wps
  <2>4. ASSUME NEW sub \in Counts, NEW type \in WpsTypes, sub <= v.len - 4,
               x = At(Skip(ReadTo(v, 4 + WpsReads(type, sub)), sub + 4), "attributes")
        PROVE  Goes("wps", v, x, n)
    <3>1. sub \in Nat /\ 4 + sub <= v.len
      BY <1>1, <2>4, CountsAreNat
    <3>2. WpsReads(type, sub) \in 0..sub
      BY <3>1, WpsReadsWithin
    <3>3. 4 \in Nat \ {0} /\ "attributes" \in Loops("wps")
      BY LoopPlaces
    <3> QED
      BY <2>4, <3>1, <3>2, <3>3, AttributeGoes, Zenon
  <2> QED
    BY <2>2, <2>3, <2>4, GoesTail
<1> QED
  BY <1>2, <1>3

LEMMA P2pGoes ==
  ASSUME NEW n \in 0..255, NEW v \in Inside(n), v.st # "done", NEW x \in P2p(v)
  PROVE  Goes("p2p", v, x, n)
<1>1. v.len \in Nat
  BY DEF Inside
<1>2. CASE v.len < 3
  <2>1. x \in BogusTail(v)
    BY <1>2 DEF P2p
  <2> QED
    BY <2>1, GoesTail
<1>3. CASE ~(v.len < 3)
  <2>1. 3 \in Nat /\ 3 <= v.len
    BY <1>1, <1>3
  <2>2. ReadTo(v, 3) \in Inside(n)
    BY <2>1, ReadIs, Zenon
  <2>3. x \in BogusTail(ReadTo(v, 3)) \/
        \E sub \in Counts, type \in P2pTypes :
          /\ sub <= v.len - 3
          /\ x = At(Skip(ReadTo(v, 3 + P2pReads(type, sub)), sub + 3), "attributes")
    BY <1>3 DEF P2p
  <2>4. ASSUME NEW sub \in Counts, NEW type \in P2pTypes, sub <= v.len - 3,
               x = At(Skip(ReadTo(v, 3 + P2pReads(type, sub)), sub + 3), "attributes")
        PROVE  Goes("p2p", v, x, n)
    <3>1. sub \in Nat /\ 3 + sub <= v.len
      BY <1>1, <2>4, CountsAreNat
    <3>2. P2pReads(type, sub) \in 0..sub
      BY <3>1, P2pReadsWithin
    <3>3. 3 \in Nat \ {0} /\ "attributes" \in Loops("p2p")
      BY LoopPlaces
    <3> QED
      BY <2>4, <3>1, <3>2, <3>3, AttributeGoes, Zenon
  <2> QED
    BY <2>2, <2>3, <2>4, GoesTail
<1> QED
  BY <1>2, <1>3

\* The printers without a loop, and the raw bytes.
LEMMA StraightGoes ==
  ASSUME NEW n \in 0..255, NEW v \in Inside(n), v.st # "done", NEW f, NEW r \in 0..v.len,
         NEW x \in Done(ReadTo(v, r))
  PROVE  Goes(f, v, x, n)
<1>1. v.len \in Nat
  BY DEF Inside
<1>2. r \in Nat /\ r <= v.len
  BY <1>1
<1>3. ReadTo(v, r) \in Inside(n)
  BY <1>2, ReadIs, Zenon
<1> QED
  BY <1>3, GoesDone

LEMMA WhichPrinter ==
  ASSUME NEW f, NEW v, NEW x \in PrintStep(f, v), NEW u, u = [v EXCEPT !.read = 0]
  PROVE  \/ f = "country" /\ x \in Country(u)
         \/ f \in {"rsn", "wpa"} /\ x \in _print_rsn_ie(u, FALSE)
         \/ f = "osen" /\ x \in _print_rsn_ie(u, TRUE)
         \/ f = "11u_advert" /\ x \in Advert(u)
         \/ f = "supp_op_classes" /\ x \in OpClasses(u)
         \/ f = "measurement_pilot_tx" /\ x \in Pilot(u)
         \/ f = "wps" /\ x \in Wps(u)
         \/ f = "p2p" /\ x \in P2p(u)
         \/ f = "raw" /\ x \in Done(ReadTo(u, u.len))
         \/ /\ f \notin Looping \cup {"raw"}
            /\ \E r \in Reads(f, u.len) : x \in Done(ReadTo(u, r))
BY DEF PrintStep, Looping

LEMMA NoLoop == \A f : f \notin Looping => Loops(f) = {}
BY DEF Loops, Looping

\* A step of any printer.
LEMMA StepPrints ==
  ASSUME NEW n \in 0..255, NEW f, NEW v, Printing(f, v, n), v.st # "done",
         NEW x \in PrintStep(f, v)
  PROVE  Goes(f, v, x, n)
<1> DEFINE u == [v EXCEPT !.read = 0]
<1>1. /\ v \in Inside(n) /\ v.st \in {"start"} \cup Loops(f)
      /\ v.st = "start" => Ready(f, v.len)
  BY DEF Printing
<1>2. u \in Inside(n) /\ u.st = v.st /\ u.len = v.len
  BY <1>1 DEF Inside
<1>3. v.len \in Nat
  BY <1>1 DEF Inside
<1>4. Goes(f, u, x, n) => Goes(f, v, x, n)
  BY <1>2 DEF Goes
<1>5. \/ f = "country" /\ x \in Country(u)
      \/ f \in {"rsn", "wpa"} /\ x \in _print_rsn_ie(u, FALSE)
      \/ f = "osen" /\ x \in _print_rsn_ie(u, TRUE)
      \/ f = "11u_advert" /\ x \in Advert(u)
      \/ f = "supp_op_classes" /\ x \in OpClasses(u)
      \/ f = "measurement_pilot_tx" /\ x \in Pilot(u)
      \/ f = "wps" /\ x \in Wps(u)
      \/ f = "p2p" /\ x \in P2p(u)
      \/ f = "raw" /\ x \in Done(ReadTo(u, u.len))
      \/ /\ f \notin Looping \cup {"raw"}
         /\ \E r \in Reads(f, u.len) : x \in Done(ReadTo(u, r))
  BY WhichPrinter
<1> HIDE DEF u
<1>6. u.st \in {"start"} \cup Loops(f) /\ u.st # "done" /\ u.len \in Nat
      /\ (u.st = "start" => Ready(f, u.len))
  BY <1>1, <1>2, <1>3
<1>7. ASSUME f = "country", x \in Country(u) PROVE Goes(f, u, x, n)
  <2>1. u.st = "start" => u.len >= 3
    BY <1>6, <1>7 DEF Ready, Looping, Least
  <2>2. u.st \in {"start", "triplets"}
    BY <1>6, <1>7, LoopPlaces
  <2> QED
    BY <1>2, <1>7, <2>1, <2>2, CountryGoes
<1>8. ASSUME f \in {"rsn", "wpa"}, x \in _print_rsn_ie(u, FALSE) PROVE Goes(f, u, x, n)
  <2>1. u.st = "start" => u.len >= 2
    BY <1>6, <1>8 DEF Ready, Looping, Least
  <2> QED
    BY <1>2, <1>6, <1>8, <2>1, RsnGoes
<1>9. ASSUME f = "osen", x \in _print_rsn_ie(u, TRUE) PROVE Goes(f, u, x, n)
  BY <1>2, <1>6, <1>9, RsnGoes
<1>10. ASSUME f = "11u_advert", x \in Advert(u) PROVE Goes(f, u, x, n)
  BY <1>2, <1>6, <1>10, AdvertGoes
<1>11. ASSUME f = "supp_op_classes", x \in OpClasses(u) PROVE Goes(f, u, x, n)
  <2>1. u.st = "start" => u.len >= 1
    BY <1>6, <1>11 DEF Ready, Looping, Least
  <2>2. u.st \in {"start", "classes", "extensions"}
    BY <1>6, <1>11, LoopPlaces
  <2> QED
    BY <1>2, <1>11, <2>1, <2>2, OpClassesGoes
<1>12. ASSUME f = "measurement_pilot_tx", x \in Pilot(u) PROVE Goes(f, u, x, n)
  <2>1. u.st = "start" => u.len >= 1
    BY <1>6, <1>12 DEF Ready, Looping, Least
  <2>2. u.st \in {"start", "elements"}
    BY <1>6, <1>12, LoopPlaces
  <2> QED
    BY <1>2, <1>12, <2>1, <2>2, PilotGoes
<1>13. ASSUME f = "wps", x \in Wps(u) PROVE Goes(f, u, x, n)
  BY <1>2, <1>6, <1>13, WpsGoes
<1>14. ASSUME f = "p2p", x \in P2p(u) PROVE Goes(f, u, x, n)
  BY <1>2, <1>6, <1>14, P2pGoes
<1>15. ASSUME f = "raw", x \in Done(ReadTo(u, u.len)) PROVE Goes(f, u, x, n)
  <2>1. u.len \in 0..u.len
    BY <1>6
  <2> QED
    BY <1>2, <1>6, <1>15, <2>1, StraightGoes
<1>16. ASSUME f \notin Looping \cup {"raw"}, NEW r \in Reads(f, u.len), x \in Done(ReadTo(u, r))
       PROVE  Goes(f, u, x, n)
  <2>1. u.st = "start"
    BY <1>6, <1>16, NoLoop
  <2>2. r \in 0..u.len
    BY <1>6, <1>16, <2>1 DEF Ready
  <2> QED
    BY <1>2, <1>6, <1>16, <2>2, StraightGoes
<1> QED
  BY <1>4, <1>5, <1>7, <1>8, <1>9, <1>10, <1>11, <1>12, <1>13, <1>14, <1>15, <1>16

-----------------------------------------------------------------------------
(* The walk over the elements *)

\* What is left of a set, and where the printer of an element is in it.
WalkInv ==
  /\ mode \in Modes /\ params \in PrintOptions[mode]
  /\ pc \in {"dump", "sets", "walk", "element", "station", "end", "failed"}
  /\ IF pc \in {"walk", "element"} THEN left \in Nat ELSE left = -1
  /\ pc = "element" => /\ ie.len \in 0..255 /\ left - 2 - ie.len \in Nat
                       /\ Printing(ie.print, w, ie.len)
  /\ pc # "element" => w.st = "done"

LEMMA InTable ==
  ASSUME NEW table, NEW tag \in Tags(table)
  PROVE  Of(table, tag) \in table
BY DEF Of, Tags

LEMMA RawIsReady == \A len : Ready("raw", len)
BY DEF Ready, Looping

\* print_ie() hands an element to a printer that is ready for its length.
LEMMA PrintIeReady ==
  ASSUME NEW p \in ieprinters \cup wifiprinters \cup wfa_printers \cup ext_printers, NEW len
  PROVE  Ready(print_ie(p, len), len)
<1>1. CASE len \in p.minlen..p.maxlen
  BY <1>1, RowsSafe DEF SafeFor, print_ie
<1>2. CASE ~(len \in p.minlen..p.maxlen)
  BY <1>2, RawIsReady DEF print_ie
<1> QED
  BY <1>1, <1>2

\* What a printer is handed of an element of len bytes.
Handing(h, len) ==
  /\ h.base \in 0..len /\ h.looked \in 0..len
  /\ h.print = "none" \/ Ready(h.print, len - h.base)

LEMMA RawHanding ==
  ASSUME NEW len \in 0..255
  PROVE  /\ Handing(Handed("raw", 0, 0), len) /\ Handing(Ignored(0), len)
         /\ len >= 1 => Handing(Handed("raw", 1, 1), len) /\ Handing(Ignored(1), len)
         /\ len >= 3 => Handing(Handed("raw", 3, 3), len) /\ Handing(Ignored(3), len)
         /\ len >= 4 => Handing(Handed("raw", 4, 4), len) /\ Handing(Ignored(4), len)
<1>1. \A b \in 0..len : /\ Handing(Handed("raw", b, b), len)
                        /\ Handing(Ignored(b), len)
  BY RawIsReady DEF Handing, Handed, Ignored
<1>2. 0 \in 0..len /\ (len >= 1 => 1 \in 0..len) /\ (len >= 3 => 3 \in 0..len)
      /\ (len >= 4 => 4 \in 0..len)
  OBVIOUS
<1> QED
  BY <1>1, <1>2, Zenon

LEMMA VendorHanding ==
  ASSUME NEW e, NEW len \in 0..255, NEW unknown
  PROVE  Handing(print_vendor(e, len, unknown), len)
<1> DEFINE table == IF e.oui = "ms" THEN wifiprinters ELSE wfa_printers
           known == e.sub \in Tags(table) /\ mode = "scan"
           f == print_ie(Of(table, e.sub), len - 4)
<1>1. print_vendor(e, len, unknown) =
        IF len < 3 THEN Handed("raw", 0, 0)
        ELSE IF len >= 4 /\ e.oui \in {"ms", "wfa"}
        THEN IF known THEN Handed(f, 4, 4)
             ELSE IF unknown THEN Handed("raw", 4, 4) ELSE Ignored(4)
        ELSE IF unknown THEN Handed("raw", 3, 3) ELSE Ignored(IF len >= 4 THEN 3 ELSE 0)
  BY DEF print_vendor
<1>2. known => Ready(f, len - 4)
  BY InTable, PrintIeReady
<1> HIDE DEF known, f
<1>3. len >= 4 /\ known => Handing(Handed(f, 4, 4), len)
  BY <1>2 DEF Handing, Handed
<1>4. /\ Handing(Handed("raw", 0, 0), len) /\ Handing(Ignored(0), len)
      /\ len >= 3 => Handing(Handed("raw", 3, 3), len) /\ Handing(Ignored(3), len)
      /\ len >= 4 => Handing(Handed("raw", 4, 4), len) /\ Handing(Ignored(4), len)
  BY RawHanding
<1> QED
  BY <1>1, <1>3, <1>4

LEMMA ExtensionHanding ==
  ASSUME NEW e, NEW len \in 0..255, NEW unknown
  PROVE  Handing(print_extension(e, len, unknown), len)
<1> DEFINE known == e.sub \in Tags(ext_printers) /\ mode = "scan"
           f == print_ie(Of(ext_printers, e.sub), len - 1)
<1>1. print_extension(e, len, unknown) =
        IF len < 1 THEN Ignored(0)
        ELSE IF known THEN Handed(f, 1, 1)
        ELSE IF unknown THEN Handed("raw", 1, 1) ELSE Ignored(1)
  BY DEF print_extension
<1>2. known => Ready(f, len - 1)
  BY InTable, PrintIeReady
<1> HIDE DEF known, f
<1>3. len >= 1 /\ known => Handing(Handed(f, 1, 1), len)
  BY <1>2 DEF Handing, Handed
<1>4. /\ Handing(Ignored(0), len)
      /\ len >= 1 => Handing(Handed("raw", 1, 1), len) /\ Handing(Ignored(1), len)
  BY RawHanding
<1> QED
  BY <1>1, <1>3, <1>4

LEMMA ChosenHanding ==
  ASSUME NEW e, NEW len \in 0..255, NEW unknown
  PROVE  Handing(Chosen(e, len, unknown), len)
<1> DEFINE known == e.tag \in Tags(ieprinters) /\ (mode = "scan" \/ e.tag \in LinkTags)
           f == print_ie(Of(ieprinters, e.tag), len)
<1>1. Chosen(e, len, unknown) =
        IF known THEN Handed(f, 0, 0)
        ELSE IF e.tag = 221 THEN print_vendor(e, len, unknown)
        ELSE IF e.tag = 255 THEN print_extension(e, len, unknown)
        ELSE IF unknown THEN Handed("raw", 0, 0) ELSE Ignored(0)
  BY DEF Chosen
<1>2. known => Ready(f, len)
  BY InTable, PrintIeReady
<1> HIDE DEF known, f
<1>3. known => Handing(Handed(f, 0, 0), len)
  <2>1. len - 0 = len
    OBVIOUS
  <2>2. known => Ready(f, len - 0)
    BY <1>2, <2>1, Zenon
  <2>3. 0 \in 0..len
    OBVIOUS
  <2> QED
    BY <2>2, <2>3, Zenon DEF Handing, Handed
<1>4. Handing(Handed("raw", 0, 0), len) /\ Handing(Ignored(0), len)
  BY RawHanding
<1>5. Handing(print_vendor(e, len, unknown), len)
  BY VendorHanding, Zenon
<1>6. Handing(print_extension(e, len, unknown), len)
  BY ExtensionHanding, Zenon
<1>7. \/ known /\ Chosen(e, len, unknown) = Handed(f, 0, 0)
      \/ Chosen(e, len, unknown) = print_vendor(e, len, unknown)
      \/ Chosen(e, len, unknown) = print_extension(e, len, unknown)
      \/ Chosen(e, len, unknown) = Handed("raw", 0, 0)
      \/ Chosen(e, len, unknown) = Ignored(0)
  BY <1>1
<1> QED
  BY <1>3, <1>4, <1>5, <1>6, <1>7, Zenon

\* Outside of an element nothing is being printed.
LEMMA Outside ==
  ASSUME WalkInv, UNCHANGED <<mode, params>>, w'.st = "done",
         pc' \in {"dump", "sets", "walk", "station", "end", "failed"},
         IF pc' = "walk" THEN left' \in Nat ELSE left' = -1
  PROVE  WalkInv'
BY DEF WalkInv

LEMMA ScanEntryLeaves ==
  ASSUME ScanEntry
  PROVE  /\ pc = "dump" /\ pc' = "sets"
         /\ UNCHANGED <<mode, params, left, ie, w, lr, said>>
BY Zenon DEF ScanEntry

LEMMA DumpDoneLeaves ==
  ASSUME DumpDone
  PROVE  /\ pc = "dump" /\ pc' \in {"station", "end"}
         /\ UNCHANGED <<mode, params, entries, entry, todo, shown, left, ie, w, lr>>
BY Zenon DEF DumpDone

LEMMA DumpFailsLeaves ==
  ASSUME DumpFails
  PROVE  /\ pc = "dump" /\ pc' = "failed"
         /\ UNCHANGED <<mode, params, entries, entry, todo, shown, left, ie, w, lr, said>>
BY Zenon DEF DumpFails

LEMMA LengthsAreBytes ==
  ASSUME mode \in Modes PROVE ElementLens[mode] \subseteq 0..255
BY ElementLensAssumption

LEMMA SizesAreNat ==
  ASSUME mode \in Modes PROVE LeftSizes \subseteq Nat
<1>1. \A len \in ElementLens[mode] : len \in 0..255
  BY LengthsAreBytes
<1>2. \A len \in ElementLens[mode] : \A k \in 0..MaxAfter : len + 2 + k \in Nat
  BY <1>1, MaxAfterAssumption
<1> QED
  BY <1>2 DEF LeftSizes

\* A printer starts within its element.
LEMMA NextElementWalks == ASSUME WalkInv, NextElement PROVE WalkInv'
<1>1. PICK e \in Elements, len \in ElementLens[mode] :
        /\ left - 2 - len \in 0..MaxAfter
        /\ LET h == Chosen(e, len, params.unknown)
           IN  /\ ie' = [kind |-> e, len |-> len, print |-> h.print]
               /\ w' = [st |-> IF h.print = "none" THEN "done" ELSE "start",
                        off |-> h.base, len |-> len - h.base, read |-> h.looked]
  BY DEF NextElement
<1> DEFINE h == Chosen(e, len, params.unknown)
<1>2. len \in 0..255
  BY LengthsAreBytes DEF WalkInv
<1>3. Handing(h, len)
  BY <1>2, ChosenHanding
<1>4. /\ ie'.len = len /\ ie'.print = h.print
      /\ w' = [st |-> IF h.print = "none" THEN "done" ELSE "start",
               off |-> h.base, len |-> len - h.base, read |-> h.looked]
  BY <1>1
<1> HIDE DEF h
<1>5. h.base \in 0..len /\ h.looked \in 0..len
      /\ (h.print = "none" \/ Ready(h.print, len - h.base))
  BY <1>3 DEF Handing
<1>6. /\ w'.st = (IF h.print = "none" THEN "done" ELSE "start")
      /\ w'.len = len - h.base
  BY <1>4
<1>7. w' \in Inside(len)
  BY <1>2, <1>4, <1>5 DEF Inside, Places
<1>8. Printing(h.print, w', len)
  BY <1>5, <1>6, <1>7, Zenon DEF Printing
<1>9. left - 2 - len \in Nat /\ left' = left /\ left \in Nat
  BY <1>1, MaxAfterAssumption DEF NextElement, WalkInv
<1>10. pc' = "element" /\ UNCHANGED <<mode, params>>
  BY DEF NextElement
<1>11. Printing(ie'.print, w', ie'.len)
  BY <1>4, <1>8, Zenon
<1> QED
  BY <1>2, <1>4, <1>9, <1>10, <1>11 DEF WalkInv

LEMMA PrintElementWalks ==
  ASSUME WalkInv, PrintElement
  PROVE  WalkInv' /\ (w'.st = w.st => w'.len < w.len)
<1>1. /\ pc = "element" /\ w.st # "done" /\ w' \in PrintStep(ie.print, w)
      /\ UNCHANGED <<mode, params, left, ie, pc>>
  BY DEF PrintElement
<1>2. ie.len \in 0..255 /\ Printing(ie.print, w, ie.len)
  BY <1>1 DEF WalkInv
<1>3. Goes(ie.print, w, w', ie.len)
  BY <1>1, <1>2, StepPrints
<1>4. w'.st # "start"
  BY <1>3, AllLoops DEF Goes
<1>5. Printing(ie.print, w', ie.len)
  BY <1>3, <1>4 DEF Goes, Printing
<1>6. WalkInv'
  BY <1>1, <1>5 DEF WalkInv
<1> QED
  BY <1>3, <1>6 DEF Goes

LEMMA ElementDoneWalks ==
  ASSUME WalkInv, ElementDone
  PROVE  WalkInv' /\ left' < left
<1>1. ie.len \in 0..255 /\ left - 2 - ie.len \in Nat /\ left \in Nat
  BY DEF WalkInv, ElementDone
<1>2. left' \in Nat /\ left' < left
  BY <1>1 DEF ElementDone
<1>3. w'.st = "done" /\ pc' = "walk" /\ UNCHANGED <<mode, params>>
  BY DEF ElementDone, NoWalk
<1> QED
  BY <1>2, <1>3, Outside

LEMMA WalkSteps == WalkInv /\ [PrintNext]_printVars => WalkInv'
<1> SUFFICES ASSUME WalkInv, [PrintNext]_printVars PROVE WalkInv'
  OBVIOUS
<1>1. CASE ScanEntry
  BY <1>1, ScanEntryLeaves, Outside DEF WalkInv
<1>2. CASE LinkEntry
  BY <1>2, Outside DEF LinkEntry, WalkInv
<1>3. CASE PrintIes
  <2>1. left' \in Nat
    BY <1>3, SizesAreNat DEF PrintIes, WalkInv
  <2> QED
    BY <1>3, <2>1, Outside DEF PrintIes, WalkInv
<1>4. CASE EntryDone
  BY <1>4, Outside DEF EntryDone, WalkInv
<1>5. CASE NextElement
  BY <1>5, NextElementWalks
<1>6. CASE EndOfElements
  BY <1>6, Outside DEF EndOfElements, WalkInv
<1>7. CASE PrintElement
  BY <1>7, PrintElementWalks
<1>8. CASE ElementDone
  BY <1>8, ElementDoneWalks
<1>9. CASE DumpDone
  BY <1>9, DumpDoneLeaves, Outside DEF WalkInv
<1>10. CASE LinkStation
  BY <1>10, Outside DEF LinkStation, WalkInv
<1>11. CASE DumpFails
  BY <1>11, DumpFailsLeaves, Outside DEF WalkInv
<1>12. CASE UNCHANGED printVars
  BY <1>12 DEF printVars, WalkInv
<1> QED
  BY <1>1, <1>2, <1>3, <1>4, <1>5, <1>6, <1>7, <1>8, <1>9, <1>10, <1>11, <1>12 DEF PrintNext

LEMMA WalkStarts == PrintInit => WalkInv
BY DEF PrintInit, WalkInv, NoWalk

LEMMA WalkHolds == PrintSpec => []WalkInv
BY WalkStarts, WalkSteps, PTL DEF PrintSpec

\* print_ie() and every printer of scan.c: whatever the length of an element and
\* whatever the counts and lengths in it are, nothing behind it is read.
THEOREM PrintersReadInside == PrintSpec => []ReadsInside
<1>1. WalkInv => ReadsInside
  BY DEF WalkInv, ReadsInside, Printing, Inside
<1> QED
  BY <1>1, WalkHolds, PTL

\* The uint8_t length of a printer never wraps around: it is what is left of the
\* element behind the pointer.
THEOREM PointersStayInStep == PrintSpec => []PointerInStep
<1>1. WalkInv => PointerInStep
  BY DEF WalkInv, PointerInStep, Printing, Inside
<1> QED
  BY <1>1, WalkHolds, PTL

\* Every round of a printer's loop, and of print_ies(), consumes something.
THEOREM LoopsMakeProgress == PrintSpec => LoopsConsume
<1> DEFINE Consume ==
      /\ w.st \notin {"start", "done"} /\ w'.st = w.st => w'.len < w.len
      /\ (left >= 0 /\ left' # left) => left' < left
<1>1. WalkInv /\ [PrintNext]_printVars => [Consume]_printVars
  <2> SUFFICES ASSUME WalkInv, PrintNext PROVE Consume
    OBVIOUS
  <2>1. CASE PrintElement
    <3>1. left' = left
      BY <2>1 DEF PrintElement
    <3> QED
      BY <2>1, <3>1, PrintElementWalks
  <2>2. CASE ElementDone
    BY <2>2, ElementDoneWalks DEF ElementDone
  <2>3. CASE PrintIes
    BY <2>3 DEF PrintIes, WalkInv
  <2>4. CASE EndOfElements
    BY <2>4 DEF EndOfElements, WalkInv
  <2>5. CASE ScanEntry \/ LinkEntry \/ EntryDone \/ DumpDone \/ DumpFails \/ LinkStation \/ NextElement
    <3>1. pc # "element" /\ left' = left
      BY <2>5, ScanEntryLeaves, DumpDoneLeaves, DumpFailsLeaves DEF LinkEntry, EntryDone, LinkStation, NextElement
    <3> QED
      BY <3>1 DEF WalkInv
  <2> QED
    BY <2>1, <2>2, <2>3, <2>4, <2>5 DEF PrintNext
<1>2. [][Consume]_printVars <=> LoopsConsume
  BY DEF LoopsConsume
<1> HIDE DEF Consume
<1> QED
  BY <1>1, <1>2, WalkHolds, PTL DEF PrintSpec

-----------------------------------------------------------------------------
(* The sets of elements that are shown *)

\* What has been shown of an entry and what will be are what the options ask for.
Sets == {"IES", "BEACON_IES"}
Wanted(both, has) ==
  IF "IES" \in has
  THEN IF "BEACON_IES" \in has /\ both THEN <<"IES", "BEACON_IES">> ELSE <<"IES">>
  ELSE IF "BEACON_IES" \in has THEN <<"BEACON_IES">> ELSE <<>>
SetsInv ==
  /\ entries \in Nat
  /\ shown \in Seq(Sets) /\ todo \in Seq(Sets)
  /\ pc \notin {"sets", "walk", "element"} => todo = <<>>
  /\ mode = "scan" /\ entries > 0 => /\ entry.has \in SUBSET Sets
                                    /\ shown \o todo =
                                         Wanted(params.show_both_ie_sets, entry.has)

LEMMA BothIs ==
  ASSUME WalkInv
  PROVE  params.show_both_ie_sets \in BOOLEAN
BY OptionsAssumption DEF WalkInv

LEMMA TwoOne ==
  ASSUME NEW x, NEW y PROVE  <<x>> \o <<y>> = <<x, y>>
<1> DEFINE S == {x, y}
           a == <<x>>
           b == <<y>>
           p == <<x, y>>
           u == a \o b
<1>1. /\ a \in Seq(S) /\ b \in Seq(S) /\ p \in Seq(S)
      /\ Len(a) = 1 /\ Len(b) = 1 /\ Len(p) = 2
      /\ a[1] = x /\ b[1] = y /\ p[1] = x /\ p[2] = y
  OBVIOUS
<1> HIDE DEF S, a, b, p
<1>2. /\ u \in Seq(S) /\ Len(u) = Len(a) + Len(b)
      /\ \A i \in 1..(Len(a) + Len(b)) : u[i] = IF i <= Len(a) THEN a[i] ELSE b[i - Len(a)]
  BY <1>1, ConcatProperties
<1> HIDE DEF u
<1>3. Len(u) = Len(p) /\ \A i \in 1..Len(u) : u[i] = p[i]
  BY <1>1, <1>2
<1>4. u = p
  BY <1>1, <1>2, <1>3, SeqEqual
<1> QED
  BY <1>4 DEF u, a, b, p

LEMMA ScanSetsIs ==
  ASSUME NEW has \in SUBSET Sets, params.show_both_ie_sets \in BOOLEAN
  PROVE  ScanSets(has) = Wanted(params.show_both_ie_sets, has)
<1>1. /\ <<"IES">> \in Seq(Sets) /\ <<"BEACON_IES">> \in Seq(Sets)
      /\ <<>> \in Seq(Sets)
  BY DEF Sets
<1>2. /\ <<"IES">> \o <<>> = <<"IES">>
      /\ <<>> \o <<>> = <<>>
      /\ <<>> \o <<"BEACON_IES">> = <<"BEACON_IES">>
  BY <1>1, ConcatEmptySeq
<1>3. <<"IES">> \o <<"BEACON_IES">> = <<"IES", "BEACON_IES">>
  BY TwoOne
<1>4. ScanSets(has) =
        (IF "IES" \in has THEN <<"IES">> ELSE <<>>)
        \o (IF "BEACON_IES" \in has /\ ("IES" \in has => params.show_both_ie_sets)
            THEN <<"BEACON_IES">> ELSE <<>>)
  BY DEF ScanSets
<1> QED
  BY <1>2, <1>3, <1>4 DEF Wanted

LEMMA WantedInSeq ==
  ASSUME NEW has, NEW both PROVE Wanted(both, has) \in Seq(Sets)
<1>1. /\ <<"IES">> \in Seq(Sets) /\ <<"BEACON_IES">> \in Seq(Sets)
      /\ <<>> \in Seq(Sets) /\ <<"IES", "BEACON_IES">> \in Seq(Sets)
  BY DEF Sets
<1> QED
  BY <1>1, Zenon DEF Wanted

Elems(s) == {s[i] : i \in DOMAIN s}

\* What is shown is every set of the entry, or one of them.
ShownIsWanted(s, both, has) ==
  /\ both = TRUE => Elems(s) = has
  /\ both = FALSE => s = IF "IES" \in has THEN <<"IES">>
                  ELSE IF "BEACON_IES" \in has THEN <<"BEACON_IES">> ELSE <<>>

LEMMA WantedIsShown ==
  \A has \in SUBSET Sets : \A both \in BOOLEAN : \A s :
    s = Wanted(both, has) => ShownIsWanted(s, both, has)
<1> SUFFICES
      ASSUME NEW has \in SUBSET Sets, NEW both \in BOOLEAN, NEW s, s = Wanted(both, has)
      PROVE  /\ both = TRUE => Elems(s) = has
             /\ both = FALSE => s = IF "IES" \in has THEN <<"IES">>
                             ELSE IF "BEACON_IES" \in has THEN <<"BEACON_IES">> ELSE <<>>
  BY DEF ShownIsWanted
<1>1. CASE ~both
  BY <1>1 DEF Wanted
<1>2. CASE both
  <2>1. s = IF "IES" \in has
            THEN IF "BEACON_IES" \in has THEN <<"IES", "BEACON_IES">> ELSE <<"IES">>
            ELSE IF "BEACON_IES" \in has THEN <<"BEACON_IES">> ELSE <<>>
    BY <1>2 DEF Wanted
  <2>2. CASE "IES" \in has /\ "BEACON_IES" \in has
    <3>1. DOMAIN s = {1, 2} /\ s[1] = "IES" /\ s[2] = "BEACON_IES"
      BY <2>1, <2>2
    <3> QED
      BY <1>2, <2>2, <3>1 DEF Sets, Elems
  <2>3. CASE "IES" \in has /\ "BEACON_IES" \notin has
    <3>1. DOMAIN s = {1} /\ s[1] = "IES"
      BY <2>1, <2>3
    <3> QED
      BY <1>2, <2>3, <3>1 DEF Sets, Elems
  <2>4. CASE "IES" \notin has /\ "BEACON_IES" \in has
    <3>1. DOMAIN s = {1} /\ s[1] = "BEACON_IES"
      BY <2>1, <2>4
    <3> QED
      BY <1>2, <2>4, <3>1 DEF Sets, Elems
  <2>5. CASE "IES" \notin has /\ "BEACON_IES" \notin has
    <3>1. DOMAIN s = {}
      BY <2>1, <2>5
    <3> QED
      BY <1>2, <2>5, <3>1 DEF Sets, Elems
  <2> QED
    BY <2>2, <2>3, <2>4, <2>5
<1> QED
  BY <1>1, <1>2

\* A set that is shown moves from what will be to what has been.
LEMMA MovesOver ==
  ASSUME NEW S, NEW s \in Seq(S), NEW t \in Seq(S), t # <<>>
  PROVE  /\ Append(s, Head(t)) \in Seq(S) /\ Tail(t) \in Seq(S)
         /\ Append(s, Head(t)) \o Tail(t) = s \o t
<1>1. Head(t) \in S /\ Tail(t) \in Seq(S)
  BY HeadTailProperties
<1>2. <<Head(t)>> \in Seq(S)
  BY <1>1
<1>3. Append(s, Head(t)) = s \o <<Head(t)>>
  BY <1>1, AppendIsConcat
<1>4. (s \o <<Head(t)>>) \o Tail(t) = s \o (<<Head(t)>> \o Tail(t))
  BY <1>1, <1>2, ConcatAssociative
<1>5. <<Head(t)>> \o Tail(t) = t
  <2> DEFINE u == <<Head(t)>> \o Tail(t)
  <2>1. /\ u \in Seq(S) /\ Len(u) = 1 + Len(Tail(t))
        /\ \A i \in 1..(1 + Len(Tail(t))) : u[i] = IF i <= 1 THEN <<Head(t)>>[i] ELSE Tail(t)[i - 1]
    <3>1. Len(<<Head(t)>>) = 1
      OBVIOUS
    <3> QED
      BY <1>1, <1>2, <3>1, ConcatProperties
  <2>2. /\ Len(t) \in Nat /\ Len(t) # 0 /\ Len(Tail(t)) = Len(t) - 1 /\ Head(t) = t[1]
        /\ \A i \in 1..Len(Tail(t)) : Tail(t)[i] = t[i + 1]
    BY HeadTailProperties, EmptySeq, LenProperties
  <2> HIDE DEF u
  <2>3. Len(u) = Len(t)
    BY <2>1, <2>2
  <2>4. ASSUME NEW i \in 1..Len(u) PROVE u[i] = t[i]
    <3>1. CASE i = 1
      BY <2>1, <2>2, <2>3, <3>1
    <3>2. CASE i # 1
      BY <2>1, <2>2, <2>3, <3>2
    <3> QED
      BY <3>1, <3>2
  <2>5. u = t
    BY <2>1, <2>3, <2>4, SeqEqual
  <2> QED
    BY <2>5 DEF u
<1>6. Append(s, Head(t)) \in Seq(S)
  BY <1>1, AppendProperties
<1> QED
  BY <1>1, <1>3, <1>4, <1>5, <1>6

LEMMA SetsStart == PrintInit => SetsInv
BY DEF PrintInit, SetsInv

LEMMA ScanEntrySets == ASSUME WalkInv, SetsInv, ScanEntry PROVE SetsInv'
<1>1. PICK has \in SUBSET Sets : entry' = [NoEntry EXCEPT !.has = has] /\ todo' = ScanSets(has)
  BY Zenon DEF ScanEntry, Sets
<1>2. entry'.has = has
  BY <1>1 DEF NoEntry
<1>3. shown' = <<>> /\ entries' = entries + 1 /\ pc' = "sets" /\ UNCHANGED <<mode, params>>
  BY Zenon DEF ScanEntry
<1>4. todo' = Wanted(params.show_both_ie_sets, has)
  BY <1>1, BothIs, ScanSetsIs
<1>5. todo' \in Seq(Sets)
  BY <1>4, WantedInSeq
<1>6. shown' \in Seq(Sets) /\ shown' \o todo' = todo'
  BY <1>3, <1>5, ConcatEmptySeq
<1>7. entries' \in Nat
  BY <1>3 DEF SetsInv
<1> QED
  BY <1>2, <1>3, <1>4, <1>5, <1>6, <1>7, Zenon DEF SetsInv

LEMMA LinkEntrySets == ASSUME SetsInv, LinkEntry PROVE SetsInv'
<1>1. /\ mode' = "link" /\ entries' = entries + 1 /\ shown' = <<>> /\ pc = "dump"
      /\ todo' = <<"IES">> \/ todo' = <<>> \/ (todo' = todo /\ pc' = pc)
      /\ todo' = todo \/ pc' = "sets"
  BY DEF LinkEntry
<1>2. <<"IES">> \in Seq(Sets) /\ <<>> \in Seq(Sets)
  BY DEF Sets
<1>3. entries' \in Nat
  BY <1>1 DEF SetsInv
<1>4. todo = <<>>
  BY <1>1 DEF SetsInv
<1>5. todo' \in Seq(Sets) /\ shown' \in Seq(Sets)
  BY <1>1, <1>2, <1>4, Zenon
<1>6. pc' \notin {"sets", "walk", "element"} => todo' = <<>>
  BY <1>1, <1>4
<1>7. mode' # "scan"
  BY <1>1
<1> QED
  BY <1>3, <1>5, <1>6, <1>7, Zenon DEF SetsInv

LEMMA PrintIesSets == ASSUME SetsInv, PrintIes PROVE SetsInv'
<1>1. /\ pc = "sets" /\ pc' = "walk" /\ todo # <<>>
      /\ shown' = Append(shown, Head(todo)) /\ todo' = Tail(todo)
      /\ UNCHANGED <<mode, params, entries, entry>>
  BY Zenon DEF PrintIes
<1>2. shown \in Seq(Sets) /\ todo \in Seq(Sets)
  BY DEF SetsInv
<1>3. shown' \in Seq(Sets) /\ todo' \in Seq(Sets) /\ shown' \o todo' = shown \o todo
  BY <1>1, <1>2, MovesOver
<1> QED
  BY <1>1, <1>3, Zenon DEF SetsInv

\* The other actions leave entry and sets as they are, and end in "dump" with none left.
LEMMA SetsStay ==
  ASSUME SetsInv, UNCHANGED <<mode, params, entries, entry, todo, shown>>,
         pc' \in {"sets", "walk", "element"} \/ todo = <<>>
  PROVE  SetsInv'
BY Zenon DEF SetsInv

LEMMA SetsSteps == WalkInv /\ SetsInv /\ [PrintNext]_printVars => SetsInv'
<1> SUFFICES ASSUME WalkInv, SetsInv, [PrintNext]_printVars PROVE SetsInv'
  OBVIOUS
<1>1. CASE ScanEntry
  BY <1>1, ScanEntrySets
<1>2. CASE LinkEntry
  BY <1>2, LinkEntrySets
<1>3. CASE PrintIes
  BY <1>3, PrintIesSets
<1>4. CASE EntryDone
  BY <1>4, SetsStay, Zenon DEF EntryDone
<1>5. CASE NextElement \/ EndOfElements \/ PrintElement \/ ElementDone
  <2>1. /\ pc' \in {"sets", "walk", "element"}
        /\ UNCHANGED <<mode, params, entries, entry, todo, shown>>
    BY <1>5, Zenon DEF NextElement, EndOfElements, PrintElement, ElementDone
  <2> QED
    BY <2>1, SetsStay, Zenon
<1>6. CASE DumpDone
  <2>1. todo = <<>>
    BY <1>6, DumpDoneLeaves DEF SetsInv
  <2> QED
    BY <1>6, <2>1, DumpDoneLeaves, SetsStay
<1>7. CASE LinkStation
  <2>1. todo = <<>>
    BY <1>7 DEF SetsInv, LinkStation
  <2> QED
    BY <1>7, <2>1, SetsStay, Zenon DEF LinkStation
<1>8. CASE DumpFails
  <2>1. todo = <<>>
    BY <1>8, DumpFailsLeaves DEF SetsInv
  <2> QED
    BY <1>8, <2>1, DumpFailsLeaves, SetsStay
<1>9. CASE UNCHANGED printVars
  <2>1. pc' \in {"sets", "walk", "element"} \/ todo = <<>>
    BY <1>9, Zenon DEF printVars, SetsInv
  <2> QED
    BY <1>9, <2>1, SetsStay, Zenon DEF printVars
<1> QED
  BY <1>1, <1>2, <1>3, <1>4, <1>5, <1>6, <1>7, <1>8, <1>9 DEF PrintNext

\* print_bss_handler(): for any number of entries, in whatever order their elements
\* come, the sets that the option -b asks for are shown, and no other.
THEOREM SetsAreShown == PrintSpec => []SetsShown
<1>1. WalkInv /\ SetsInv => SetsShown
  <2> SUFFICES ASSUME WalkInv, SetsInv, mode = "scan", pc = "dump", entries > 0
               PROVE  IF params.show_both_ie_sets
                      THEN {shown[i] : i \in DOMAIN shown} = entry.has
                      ELSE shown = IF "IES" \in entry.has THEN <<"IES">>
                                   ELSE IF "BEACON_IES" \in entry.has
                                   THEN <<"BEACON_IES">> ELSE <<>>
    BY DEF SetsShown
  <2>1. todo = <<>> /\ shown \in Seq(Sets) /\ entry.has \in SUBSET Sets
        /\ shown \o todo = Wanted(params.show_both_ie_sets, entry.has)
    BY DEF SetsInv
  <2>2. shown \o <<>> = shown
    BY <2>1, ConcatEmptySeq
  <2>3. shown = Wanted(params.show_both_ie_sets, entry.has)
    BY <2>1, <2>2
  <2> QED
    <3> DEFINE both == params.show_both_ie_sets
               has == entry.has
    <3>1. both \in BOOLEAN /\ has \in SUBSET Sets /\ shown = Wanted(both, has)
      BY <2>1, <2>3, BothIs
    <3> HIDE DEF both, has
    <3>2. ShownIsWanted(shown, both, has)
      BY <3>1, WantedIsShown, Zenon
    <3> QED
      BY <3>1, <3>2 DEF both, has, Elems, ShownIsWanted
<1> QED
  BY <1>1, WalkStarts, SetsStart, WalkSteps, SetsSteps, PTL DEF PrintSpec

-----------------------------------------------------------------------------
(* What iw link says *)

Hosts == Bssids \cup {NoEntry.bssid}
LinkResults == [link_found : BOOLEAN, anything_found : BOOLEAN, bssid : Hosts]
LinkEntries == [has : SUBSET Sets, bssid : Hosts, status : Statuses]
Speech == {"Connected to", "Authenticated with", "Joined IBSS", "Not connected", "station"}
Saying == Speech \X Hosts
Says(s, word, host) == \E k \in DOMAIN s : s[k][1] = word /\ s[k][2] = host
EverSaid(s, word) == \E k \in DOMAIN s : s[k][1] = word

\* Statistics are asked for only of an access point called connected before.
StationsKnown(s) ==
  \A i \in DOMAIN s : s[i][1] = "station" =>
    \E k \in DOMAIN s : k < i /\ s[k][1] = "Connected to" /\ s[k][2] = s[i][2]

\* What link knows of the entries before, it has said; and it knows what it has
\* said as soon as it is done with the entry.
InEntry == pc \in {"sets", "walk", "element"}
LinkInv ==
  /\ said \in Seq(Saying) /\ lr \in LinkResults /\ entry \in LinkEntries
  /\ mode = "scan" => said = <<>>
  /\ lr.link_found => Says(said, "Connected to", lr.bssid)
  /\ pc = "station" => mode = "link" /\ lr.link_found
  /\ pc # "end" => ~EverSaid(said, "station") /\ ~EverSaid(said, "Not connected")
  /\ mode = "link" /\ InEntry =>
       /\ entry.status = "associated" => Says(said, "Connected to", entry.bssid)
       /\ entry.status # "associated" => EverSaid(said, "Joined IBSS")
  /\ EverSaid(said, "Connected to") \/ EverSaid(said, "Joined IBSS") => lr.anything_found
  /\ lr.anything_found => \/ lr.link_found \/ EverSaid(said, "Joined IBSS")
                          \/ mode = "link" /\ InEntry
  /\ StationsKnown(said)
  /\ EverSaid(said, "Not connected") =>
       ~EverSaid(said, "Connected to") /\ ~EverSaid(said, "Joined IBSS")
  /\ mode = "link" /\ pc = "end" =>
       \/ EverSaid(said, "Not connected") \/ EverSaid(said, "Joined IBSS")
       \/ EverSaid(said, "station")

\* One more thing said: t is s with word said of host behind it.
Adds(s, t, word, host) ==
  /\ t \in Seq(Saying)
  /\ \A u, h : Says(t, u, h) <=> Says(s, u, h) \/ (u = word /\ h = host)
  /\ \A u : EverSaid(t, u) <=> EverSaid(s, u) \/ u = word
  /\ StationsKnown(s) /\ (word = "station" => Says(s, "Connected to", host)) =>
       StationsKnown(t)

LEMMA SaysNew ==
  ASSUME NEW s \in Seq(Saying), NEW new \in Saying, NEW t, t = Append(s, new)
  PROVE  Adds(s, t, new[1], new[2])
<1> DEFINE n == Len(s)
<1>1. /\ t \in Seq(Saying) /\ Len(t) = n + 1 /\ t[n + 1] = new
      /\ \A i \in 1..n : t[i] = s[i]
  BY AppendProperties
<1>2. n \in Nat /\ DOMAIN s = 1..n /\ DOMAIN t = 1..(n + 1)
  BY <1>1, LenProperties
<1> HIDE DEF n
<1>3. /\ 1..n \subseteq 1..(n + 1) /\ n + 1 \in 1..(n + 1)
      /\ \A i \in 1..(n + 1) : i \in 1..n \/ i = n + 1
      /\ \A i \in 1..n : i < n + 1
  BY <1>2
<1>4. /\ DOMAIN s \subseteq DOMAIN t /\ n + 1 \in DOMAIN t
      /\ \A i \in DOMAIN t : i \in DOMAIN s \/ i = n + 1
      /\ \A i \in DOMAIN s : t[i] = s[i] /\ i < n + 1
  BY <1>1, <1>2, <1>3, Zenon
<1>5. \A u, h : Says(t, u, h) <=> Says(s, u, h) \/ (u = new[1] /\ h = new[2])
  BY <1>1, <1>4, Zenon DEF Says
<1>6. \A u : EverSaid(t, u) <=> EverSaid(s, u) \/ u = new[1]
  BY <1>1, <1>4, Zenon DEF EverSaid
<1>7. ASSUME StationsKnown(s), new[1] = "station" => Says(s, "Connected to", new[2])
      PROVE  StationsKnown(t)
  <2> SUFFICES ASSUME NEW i \in DOMAIN t, t[i][1] = "station"
               PROVE  \E k \in DOMAIN t : k < i /\ t[k][1] = "Connected to" /\ t[k][2] = t[i][2]
    BY Zenon DEF StationsKnown
  <2>1. CASE i \in DOMAIN s
    <3>1. t[i] = s[i]
      BY <1>4, <2>1, Zenon
    <3>2. PICK k \in DOMAIN s : k < i /\ s[k][1] = "Connected to" /\ s[k][2] = s[i][2]
      BY <1>7, <2>1, <3>1, Zenon DEF StationsKnown
    <3>3. k \in DOMAIN t /\ t[k] = s[k]
      BY <1>4, Zenon
    <3> QED
      BY <3>1, <3>2, <3>3, Zenon
  <2>2. CASE i = n + 1
    <3>1. t[i] = new
      BY <1>1, <2>2, Zenon
    <3>2. PICK k \in DOMAIN s : s[k][1] = "Connected to" /\ s[k][2] = new[2]
      BY <1>7, <3>1, Zenon DEF Says
    <3>3. k \in DOMAIN t /\ t[k] = s[k] /\ k < i
      BY <1>4, <2>2, Zenon
    <3> QED
      BY <3>1, <3>2, <3>3, Zenon
  <2> QED
    BY <1>4, <2>1, <2>2, Zenon
<1> QED
  BY <1>1, <1>5, <1>6, <1>7, Zenon DEF Adds

LEMMA SaysMore ==
  \A s \in Seq(Saying) : \A word \in Speech : \A host \in Hosts :
    Adds(s, Append(s, <<word, host>>), word, host)
<1> TAKE s \in Seq(Saying)
<1> TAKE word \in Speech
<1> TAKE host \in Hosts
<1> DEFINE new == <<word, host>>
<1>1. new \in Saying /\ new[1] = word /\ new[2] = host
  BY DEF Saying
<1> HIDE DEF new
<1>2. Adds(s, Append(s, new), new[1], new[2])
  BY <1>1, SaysNew
<1>3. Adds(s, Append(s, new), word, host)
  BY <1>1, <1>2
<1> QED
  BY <1>3 DEF new

LEMMA SaidNothing ==
  /\ \A u, h : ~Says(<<>>, u, h)
  /\ \A u : ~EverSaid(<<>>, u)
  /\ StationsKnown(<<>>)
<1>1. DOMAIN <<>> = {}
  OBVIOUS
<1> QED
  BY <1>1, Zenon DEF Says, EverSaid, StationsKnown

LEMMA LinkStarts == PrintInit => LinkInv
<1> SUFFICES ASSUME PrintInit PROVE LinkInv
  OBVIOUS
<1>1. said = <<>> /\ lr = NoResult /\ entry = NoEntry /\ pc = "dump"
  BY DEF PrintInit
<1>2. lr \in LinkResults /\ ~lr.link_found /\ ~lr.anything_found
  BY <1>1 DEF NoResult, LinkResults, Hosts
<1>3. entry \in LinkEntries
  BY <1>1 DEF NoEntry, LinkEntries, Hosts, Statuses, Sets
<1>4. said \in Seq(Saying)
  BY <1>1, EmptySeq
<1>5. ~InEntry /\ pc # "station" /\ pc # "end"
  BY <1>1 DEF InEntry
<1> QED
  BY <1>1, <1>2, <1>3, <1>4, <1>5, SaidNothing, Zenon DEF LinkInv

LEMMA WordsDiffer ==
  /\ "Authenticated with" \in Speech /\ "Authenticated with" # "Connected to"
  /\ "Authenticated with" # "station" /\ "Authenticated with" # "Joined IBSS"
  /\ "Authenticated with" # "Not connected"
  /\ \A word \in {"Connected to", "Joined IBSS"} :
       word \in Speech /\ word # "station" /\ word # "Not connected"
  /\ "Not connected" \in Speech /\ "Not connected" # "Connected to"
  /\ "Not connected" # "Joined IBSS" /\ "Not connected" # "station"
  /\ "station" \in Speech /\ "station" # "Not connected" /\ "station" # "Connected to"
  /\ "station" # "Joined IBSS"
BY Zenon DEF Speech

LEMMA HostOfEntry == \A e \in LinkEntries : e.bssid \in Hosts
BY DEF LinkEntries

\* A step within an entry, or none.
LEMMA SpeechStays ==
  ASSUME LinkInv, UNCHANGED <<mode, entry, lr, said>>,
         pc' = pc \/ (InEntry /\ pc' \in {"sets", "walk", "element"})
  PROVE  LinkInv'
<1>1. CASE pc' = pc
  BY <1>1, Zenon DEF LinkInv, InEntry
<1>2. CASE InEntry /\ pc' \in {"sets", "walk", "element"}
  <2>1. pc # "end" /\ pc' # "end" /\ pc' # "station" /\ InEntry'
    BY <1>2 DEF InEntry
  <2> QED
    BY <1>2, <2>1, Zenon DEF LinkInv
<1> QED
  BY <1>1, <1>2

LEMMA ScanEntrySpeech == ASSUME LinkInv, ScanEntry PROVE LinkInv'
<1>1. PICK has \in SUBSET Sets : entry' = [NoEntry EXCEPT !.has = has]
  BY Zenon DEF ScanEntry, Sets
<1>2. entry' \in LinkEntries
  BY <1>1 DEF NoEntry, LinkEntries, Hosts, Statuses
<1>3. mode = "scan" /\ mode # "link" /\ pc = "dump" /\ pc' = "sets"
      /\ UNCHANGED <<mode, lr, said>>
  BY ScanEntryLeaves DEF ScanEntry
<1>4. pc # "end" /\ pc' # "end" /\ pc' # "station"
  BY <1>3
<1> QED
  BY <1>2, <1>3, <1>4, Zenon DEF LinkInv

\* An entry that link skips: nothing that it looks for is said of it.
LEMMA SkippedSpeech ==
  ASSUME LinkInv, mode = "link", pc = "dump", UNCHANGED <<mode, lr, pc>>, entry' \in LinkEntries,
         \/ said' = said
         \/ \E h \in Hosts : said' = Append(said, <<"Authenticated with", h>>)
  PROVE  LinkInv'
<1>1. ~InEntry /\ ~InEntry' /\ mode # "scan" /\ pc # "end" /\ pc # "station"
  BY Zenon DEF InEntry
<1>2. /\ said' \in Seq(Saying)
      /\ \A h : Says(said', "Connected to", h) <=> Says(said, "Connected to", h)
      /\ \A u \in {"Connected to", "Joined IBSS", "station", "Not connected"} :
           EverSaid(said', u) <=> EverSaid(said, u)
      /\ StationsKnown(said')
  <2>1. CASE said' = said
    BY <2>1, Zenon DEF LinkInv
  <2>2. CASE \E h \in Hosts : said' = Append(said, <<"Authenticated with", h>>)
    <3>1. PICK g \in Hosts : said' = Append(said, <<"Authenticated with", g>>)
      BY <2>2, Zenon
    <3>2. said \in Seq(Saying) /\ StationsKnown(said)
      BY Zenon DEF LinkInv
    <3>3. "Authenticated with" \in Speech /\ "Authenticated with" # "Connected to"
          /\ "Authenticated with" # "station" /\ "Authenticated with" # "Joined IBSS"
          /\ "Authenticated with" # "Not connected"
      BY WordsDiffer, Zenon
    <3>4. /\ said' \in Seq(Saying)
          /\ \A u, h : Says(said', u, h) <=> Says(said, u, h) \/ (u = "Authenticated with" /\ h = g)
          /\ \A u : EverSaid(said', u) <=> EverSaid(said, u) \/ u = "Authenticated with"
          /\ StationsKnown(said')
      <4>1. Adds(said, said', "Authenticated with", g)
        BY <3>1, <3>2, <3>3, SaysMore, Zenon
      <4> QED
        BY <3>2, <3>3, <4>1, Zenon DEF Adds
    <3> QED
      BY <3>3, <3>4, Zenon
  <2> QED
    BY <2>1, <2>2, Zenon
<1>3. /\ EverSaid(said', "Connected to") <=> EverSaid(said, "Connected to")
      /\ EverSaid(said', "Joined IBSS") <=> EverSaid(said, "Joined IBSS")
      /\ EverSaid(said', "station") <=> EverSaid(said, "station")
      /\ EverSaid(said', "Not connected") <=> EverSaid(said, "Not connected")
  BY <1>2, Zenon
<1> QED
  BY <1>1, <1>2, <1>3, Zenon DEF LinkInv

\* One that link goes into: its word is said, and something is found.
LEMMA EnteredSpeech ==
  ASSUME LinkInv, mode = "link", pc = "dump", mode' = mode, pc' = "sets", entry' \in LinkEntries,
         lr' = [lr EXCEPT !.anything_found = TRUE],
         NEW word \in {"Connected to", "Joined IBSS"},
         word = IF entry'.status = "associated" THEN "Connected to" ELSE "Joined IBSS",
         said' = Append(said, <<word, entry'.bssid>>)
  PROVE  LinkInv'
<1>1. InEntry' /\ mode # "scan" /\ pc # "end" /\ pc' # "end" /\ pc' # "station"
  BY Zenon DEF InEntry
<1>2. /\ lr' \in LinkResults /\ lr'.anything_found
      /\ lr'.link_found = lr.link_found /\ lr'.bssid = lr.bssid
  BY Zenon DEF LinkInv, LinkResults
<1>3. entry'.bssid \in Hosts /\ word \in Speech /\ word # "station" /\ word # "Not connected"
  BY WordsDiffer, HostOfEntry, Zenon
<1>4. said \in Seq(Saying) /\ StationsKnown(said)
  BY Zenon DEF LinkInv
<1>5. /\ said' \in Seq(Saying)
      /\ \A u, h : Says(said', u, h) <=> Says(said, u, h) \/ (u = word /\ h = entry'.bssid)
      /\ \A u : EverSaid(said', u) <=> EverSaid(said, u) \/ u = word
      /\ StationsKnown(said')
  <2>1. Adds(said, said', word, entry'.bssid)
    BY <1>3, <1>4, SaysMore, Zenon
  <2> QED
    BY <1>3, <1>4, <2>1, Zenon DEF Adds
<1>6. ~EverSaid(said', "station") /\ ~EverSaid(said', "Not connected")
  BY <1>1, <1>3, <1>5, Zenon DEF LinkInv
<1>7. /\ entry'.status = "associated" => Says(said', "Connected to", entry'.bssid)
      /\ entry'.status # "associated" => EverSaid(said', "Joined IBSS")
  BY <1>5, Zenon
<1>8. lr'.link_found => Says(said', "Connected to", lr'.bssid)
  BY <1>2, <1>5, Zenon DEF LinkInv
<1> QED
  BY <1>1, <1>2, <1>5, <1>6, <1>7, <1>8, Zenon DEF LinkInv

LEMMA LinkEntrySpeech == ASSUME LinkInv, LinkEntry PROVE LinkInv'
<1>1. mode = "link" /\ mode' = mode /\ pc = "dump"
  BY DEF LinkEntry
<1>2. PICK e \in Entries :
        /\ entry' = e
        /\ said' = IF e.status \in DOMAIN Words
                   THEN Append(said, <<Words[e.status], e.bssid>>) ELSE said
        /\ IF e.status \in {"associated", "ibss_joined"}
           THEN /\ lr' = [lr EXCEPT !.anything_found = TRUE]
                /\ todo' = IF "IES" \in e.has THEN <<"IES">> ELSE <<>>
                /\ pc' = "sets"
           ELSE UNCHANGED <<lr, todo, pc>>
  BY Zenon DEF LinkEntry
<1>3. entry' \in LinkEntries /\ e.bssid \in Hosts /\ entry'.bssid = e.bssid
      /\ entry'.status = e.status
  BY <1>2 DEF Entries, LinkEntries, Hosts, Sets
<1>4. /\ \A x : x \in DOMAIN Words <=> x \in {"associated", "authenticated", "ibss_joined"}
      /\ Words["associated"] = "Connected to" /\ Words["authenticated"] = "Authenticated with"
      /\ Words["ibss_joined"] = "Joined IBSS"
  BY DEF Words
<1>5. CASE e.status = "associated"
  <2>1. said' = Append(said, <<"Connected to", entry'.bssid>>)
    BY <1>2, <1>3, <1>4, <1>5, Zenon
  <2>2. lr' = [lr EXCEPT !.anything_found = TRUE] /\ pc' = "sets"
    BY <1>2, <1>5
  <2>3. "Connected to" = (IF entry'.status = "associated" THEN "Connected to" ELSE "Joined IBSS")
    BY <1>3, <1>5
  <2> QED
    BY <1>1, <1>3, <2>1, <2>2, <2>3, EnteredSpeech, Zenon
<1>6. CASE e.status = "ibss_joined"
  <2>1. said' = Append(said, <<"Joined IBSS", entry'.bssid>>)
    BY <1>2, <1>3, <1>4, <1>6, Zenon
  <2>2. lr' = [lr EXCEPT !.anything_found = TRUE] /\ pc' = "sets"
    BY <1>2, <1>6
  <2>3. "Joined IBSS" = (IF entry'.status = "associated" THEN "Connected to" ELSE "Joined IBSS")
    BY <1>3, <1>6
  <2> QED
    BY <1>1, <1>3, <2>1, <2>2, <2>3, EnteredSpeech, Zenon
<1>7. CASE e.status \notin {"associated", "ibss_joined"}
  <2>1. UNCHANGED <<lr, pc>>
    BY <1>2, <1>7
  <2>2. said' = said \/ said' = Append(said, <<"Authenticated with", e.bssid>>)
    BY <1>2, <1>4, <1>7, Zenon
  <2> QED
    BY <1>1, <1>3, <2>1, <2>2, SkippedSpeech, Zenon
<1> QED
  BY <1>5, <1>6, <1>7

LEMMA EntryDoneSpeech == ASSUME LinkInv, EntryDone PROVE LinkInv'
<1>1. /\ pc = "sets" /\ pc' = "dump" /\ UNCHANGED <<mode, entry, said>>
      /\ lr' = IF mode = "link" /\ entry.status = "associated"
               THEN [lr EXCEPT !.link_found = TRUE, !.bssid = entry.bssid] ELSE lr
  BY Zenon DEF EntryDone
<1>2. InEntry /\ ~InEntry' /\ pc # "end" /\ pc' # "end" /\ pc' # "station"
  BY <1>1 DEF InEntry
<1>3. CASE mode = "link" /\ entry.status = "associated"
  <2> DEFINE found == [lr EXCEPT !.link_found = TRUE]
  <2>1. lr' = [found EXCEPT !.bssid = entry.bssid]
    BY <1>1, <1>3, Zenon
  <2>2. found \in LinkResults /\ found.link_found /\ found.anything_found = lr.anything_found
    BY Zenon DEF LinkInv, LinkResults
  <2>3. entry.bssid \in Hosts
    BY Zenon DEF LinkInv, LinkEntries
  <2> HIDE DEF found
  <2>4. /\ lr' \in LinkResults /\ lr'.link_found /\ lr'.bssid = entry.bssid
        /\ lr'.anything_found = lr.anything_found
    BY <2>1, <2>2, <2>3 DEF LinkResults
  <2>5. Says(said, "Connected to", entry.bssid)
    BY <1>2, <1>3, Zenon DEF LinkInv
  <2>6. mode # "scan"
    BY <1>3
  <2> QED
    BY <1>1, <1>2, <2>4, <2>5, <2>6, Zenon DEF LinkInv
<1>4. CASE ~(mode = "link" /\ entry.status = "associated")
  <2>1. lr' = lr
    BY <1>1, <1>4
  <2>2. mode = "link" => EverSaid(said, "Joined IBSS")
    BY <1>2, <1>4, Zenon DEF LinkInv
  <2> QED
    BY <1>1, <1>2, <2>1, <2>2, Zenon DEF LinkInv
<1> QED
  BY <1>3, <1>4

LEMMA DumpDoneSpeech == ASSUME LinkInv, DumpDone PROVE LinkInv'
<1>1. /\ pc = "dump" /\ UNCHANGED <<mode, entry, lr>>
      /\ pc' = IF mode = "link" /\ lr.link_found THEN "station" ELSE "end"
      /\ said' = IF mode = "link" /\ ~lr.link_found /\ ~lr.anything_found
                 THEN Append(said, <<"Not connected", lr.bssid>>) ELSE said
  BY Zenon DEF DumpDone
<1>2. ~InEntry /\ pc # "end"
  BY <1>1, Zenon DEF InEntry
<1>3. /\ said \in Seq(Saying) /\ StationsKnown(said) /\ lr.bssid \in Hosts
      /\ ~EverSaid(said, "station") /\ ~EverSaid(said, "Not connected")
  BY <1>2, Zenon DEF LinkInv, LinkResults
<1>4. CASE mode # "link"
  <2>1. said' = said /\ pc' = "end"
    BY <1>1, <1>4, Zenon
  <2>2. ~InEntry' /\ pc' # "station"
    BY <2>1, Zenon DEF InEntry
  <2> QED
    BY <1>1, <1>2, <1>4, <2>1, <2>2, Zenon DEF LinkInv
<1>5. CASE mode = "link" /\ lr.link_found
  <2>1. said' = said /\ pc' = "station"
    BY <1>1, <1>5, Zenon
  <2>2. ~InEntry' /\ pc' # "end" /\ mode # "scan"
    BY <1>5, <2>1, Zenon DEF InEntry
  <2> QED
    BY <1>1, <1>2, <1>5, <2>1, <2>2, Zenon DEF LinkInv
<1>6. CASE mode = "link" /\ ~lr.link_found /\ lr.anything_found
  <2>1. said' = said /\ pc' = "end"
    BY <1>1, <1>6, Zenon
  <2>2. ~InEntry' /\ pc' # "station" /\ mode # "scan"
    BY <1>6, <2>1, Zenon DEF InEntry
  <2>3. EverSaid(said, "Joined IBSS")
    BY <1>2, <1>6, Zenon DEF LinkInv
  <2> QED
    BY <1>1, <1>3, <1>6, <2>1, <2>2, <2>3, Zenon DEF LinkInv
<1>7. CASE mode = "link" /\ ~lr.link_found /\ ~lr.anything_found
  <2>1. said' = Append(said, <<"Not connected", lr.bssid>>) /\ pc' = "end"
    BY <1>1, <1>7, Zenon
  <2>2. ~InEntry' /\ pc' # "station" /\ mode # "scan"
    BY <1>7, <2>1, Zenon DEF InEntry
  <2>3. ~EverSaid(said, "Connected to") /\ ~EverSaid(said, "Joined IBSS")
    BY <1>7, Zenon DEF LinkInv
  <2>4. /\ said' \in Seq(Saying)
        /\ \A u : EverSaid(said', u) <=> EverSaid(said, u) \/ u = "Not connected"
        /\ StationsKnown(said')
    <3>1. Adds(said, said', "Not connected", lr.bssid)
      BY <1>3, <2>1, WordsDiffer, SaysMore, Zenon
    <3> QED
      BY <1>3, <3>1, WordsDiffer, Zenon DEF Adds
  <2>5. /\ ~EverSaid(said', "Connected to") /\ ~EverSaid(said', "Joined IBSS")
        /\ EverSaid(said', "Not connected")
    BY <2>3, <2>4, WordsDiffer, Zenon
  <2> QED
    BY <1>1, <1>7, <2>1, <2>2, <2>4, <2>5, Zenon DEF LinkInv
<1> QED
  BY <1>4, <1>5, <1>6, <1>7, Zenon

LEMMA DumpFailsSpeech == ASSUME LinkInv, DumpFails PROVE LinkInv'
<1>1. pc = "dump" /\ pc' = "failed" /\ UNCHANGED <<mode, entry, lr, said>>
  BY Zenon DEF DumpFails
<1>2. ~InEntry /\ ~InEntry' /\ pc # "end" /\ pc' # "end" /\ pc' # "station"
  BY <1>1, Zenon DEF InEntry
<1> QED
  BY <1>1, <1>2, Zenon DEF LinkInv

LEMMA LinkStationSpeech == ASSUME LinkInv, LinkStation PROVE LinkInv'
<1>1. /\ pc = "station" /\ pc' = "end" /\ UNCHANGED <<mode, entry, lr>>
      /\ said' = Append(said, <<"station", lr.bssid>>)
  BY Zenon DEF LinkStation
<1>2. ~InEntry /\ ~InEntry' /\ pc # "end" /\ pc' # "station"
  BY <1>1, Zenon DEF InEntry
<1>3. /\ said \in Seq(Saying) /\ StationsKnown(said) /\ lr.bssid \in Hosts
      /\ mode = "link" /\ mode # "scan" /\ lr.link_found /\ ~EverSaid(said, "Not connected")
      /\ Says(said, "Connected to", lr.bssid)
  BY <1>1, <1>2, Zenon DEF LinkInv, LinkResults
<1>4. /\ said' \in Seq(Saying)
      /\ \A u, h : Says(said', u, h) <=> Says(said, u, h) \/ (u = "station" /\ h = lr.bssid)
      /\ \A u : EverSaid(said', u) <=> EverSaid(said, u) \/ u = "station"
      /\ StationsKnown(said')
  <2>1. Adds(said, said', "station", lr.bssid)
    BY <1>1, <1>3, WordsDiffer, SaysMore, Zenon
  <2> QED
    BY <1>3, <2>1, Zenon DEF Adds
<1>5. /\ EverSaid(said', "station") /\ ~EverSaid(said', "Not connected")
      /\ EverSaid(said', "Connected to") <=> EverSaid(said, "Connected to")
      /\ EverSaid(said', "Joined IBSS") <=> EverSaid(said, "Joined IBSS")
      /\ Says(said', "Connected to", lr.bssid)
  BY <1>3, <1>4, WordsDiffer, Zenon
<1> QED
  BY <1>1, <1>2, <1>3, <1>4, <1>5, Zenon DEF LinkInv

LEMMA LinkSteps == LinkInv /\ [PrintNext]_printVars => LinkInv'
<1> SUFFICES ASSUME LinkInv, [PrintNext]_printVars PROVE LinkInv'
  OBVIOUS
<1>1. CASE ScanEntry
  BY <1>1, ScanEntrySpeech
<1>2. CASE LinkEntry
  BY <1>2, LinkEntrySpeech
<1>3. CASE EntryDone
  BY <1>3, EntryDoneSpeech
<1>4. CASE DumpDone
  BY <1>4, DumpDoneSpeech
<1>5. CASE LinkStation
  BY <1>5, LinkStationSpeech
<1>6. CASE PrintIes \/ NextElement \/ EndOfElements \/ PrintElement \/ ElementDone
  <2>1. /\ InEntry /\ pc' \in {"sets", "walk", "element"}
        /\ UNCHANGED <<mode, entry, lr, said>>
    BY <1>6, Zenon DEF PrintIes, NextElement, EndOfElements, PrintElement, ElementDone, InEntry
  <2> QED
    BY <2>1, SpeechStays, Zenon
<1>7. CASE DumpFails
  BY <1>7, DumpFailsSpeech
<1>8. CASE UNCHANGED printVars
  BY <1>8, SpeechStays, Zenon DEF printVars
<1> QED
  BY <1>1, <1>2, <1>3, <1>4, <1>5, <1>6, <1>7, <1>8 DEF PrintNext

\* handle_link() and link_bss_handler(): over any number of entries, iw link asks
\* for the statistics of an access point it has called connected, and says "Not
\* connected" only if it has said nothing else.
THEOREM LinkSpeaksConsistently == PrintSpec => []LinkIsConsistent
<1>1. LinkInv => LinkIsConsistent
  <2> SUFFICES ASSUME LinkInv PROVE LinkIsConsistent
    OBVIOUS
  <2> DEFINE Said(word) == {i \in DOMAIN said : said[i][1] = word}
  <2>1. \A u : (Said(u) # {}) <=> EverSaid(said, u)
    BY Zenon DEF EverSaid
  <2>2. \A u, v : (Said(u) \cup Said(v) = {}) <=> (~EverSaid(said, u) /\ ~EverSaid(said, v))
    BY Zenon DEF EverSaid
  <2>3. \A i \in Said("station") :
          \E k \in Said("Connected to") : k < i /\ said[k][2] = said[i][2]
    BY Zenon DEF LinkInv, StationsKnown
  <2>4. Said("Not connected") # {} => Said("Connected to") \cup Said("Joined IBSS") = {}
    <3> HIDE DEF Said
    <3> QED
      BY <2>1, <2>2, Zenon DEF LinkInv
  <2>5. (mode = "link" /\ pc = "end") =>
          \/ Said("Not connected") # {} \/ Said("Joined IBSS") # {} \/ Said("station") # {}
    <3> HIDE DEF Said
    <3> QED
      BY <2>1, Zenon DEF LinkInv
  <2> QED
    BY <2>3, <2>4, <2>5, Zenon DEF LinkIsConsistent
<1> QED
  BY <1>1, LinkStarts, LinkSteps, PTL DEF PrintSpec

(***************************************************************************)
(* genlmsg_put(), nla_put() and the nests                                  *)
(***************************************************************************)
USE DEF NlmsgHdr, GenlHdr, NlaHdr


-----------------------------------------------------------------------------
(* Alignment *)

LEMMA AlignUp ==
  ASSUME NEW n \in Nat
  PROVE  /\ Align(n) \in Nat
         /\ n <= Align(n)
         /\ Align(n) <= n + 3
         /\ Align(n) % 4 = 0
BY SMT DEF Align

LEMMA AlignAligned ==
  ASSUME NEW n \in Nat, n % 4 = 0
  PROVE  Align(n) = n
BY SMT DEF Align

LEMMA AlignedSum ==
  ASSUME NEW a \in Nat, NEW b \in Nat, a % 4 = 0, b % 4 = 0
  PROVE  (a + b) % 4 = 0
BY SMT

LEMMA AlignedDifference ==
  ASSUME NEW a \in Nat, NEW b \in Nat, a % 4 = 0, b % 4 = 0, b <= a
  PROVE  (a - b) % 4 = 0
BY SMT

-----------------------------------------------------------------------------
(***************************************************************************)
(* The inductive invariant of one message.  Headers lie at aligned offsets *)
(* within the message; the open nests are a stack of increasing offsets;   *)
(* an attribute that is complete ends before every open nest that begins   *)
(* after it, so that closing the innermost nest cuts through nothing.      *)
(***************************************************************************)
Sized(x) == x.len \in NlmsgHdr..Size /\ x.len % 4 = 0

Headers(x) ==
  \A o \in DOMAIN x.mem :
    /\ o \in Nat /\ o % 4 = 0 /\ NlmsgHdr <= o /\ o + NlaHdr <= x.len
    /\ x.mem[o] \in Header

Stack(x) ==
  /\ x.open \in Seq(Nat)
  /\ \A i \in 1..Len(x.open) :
       /\ x.open[i] \in DOMAIN x.mem
       /\ x.mem[x.open[i]].type \in Nests
       /\ \A j \in 1..(i - 1) : x.open[j] < x.open[i]

Apart(x) ==
  \A o \in Opened(x), c \in DOMAIN x.mem \ Opened(x) :
    c < o => NextOf(x, c) <= o

Good(x) == Sized(x) /\ Headers(x) /\ Stack(x) /\ Apart(x) /\ StreamSound(x)

LEMMA SizeIsNat == Size \in Nat /\ Size <= U16Max /\ 20 <= Size /\ U16Max \in Nat
<1>1. U16Max \in Nat
  BY DEF U16Max
<1> QED
  BY <1>1, SizeAssumption

LEMMA HeaderFields ==
  ASSUME NEW h \in Header
  PROVE  h.len \in Nat /\ 4 <= h.len /\ h.type \in Leaves \union Nests
BY SizeIsNat DEF Header

LEMMA HeaderOf ==
  ASSUME NEW type \in Leaves \union Nests, NEW n \in Nat, 4 <= n, n <= Size
  PROVE  [type |-> type, len |-> U16(n)] \in Header /\ U16(n) = n
<1>1. n \in Nat /\ 4 <= n /\ n <= U16Max
  BY SizeIsNat
<1>2. U16(n) = n
  BY <1>1, SizeIsNat DEF U16
<1>3. n \in 4..U16Max
  BY <1>1, SizeIsNat
<1> QED
  BY <1>2, <1>3 DEF Header

LEMMA TailIsLen ==
  ASSUME NEW x, Sized(x)
  PROVE  NlmsgTail(x) = x.len /\ x.len \in Nat
BY AlignAligned, SizeIsNat DEF Sized, NlmsgTail

\* Where an attribute of a message ends, and that it has room for its header.
LEMMA Ends ==
  ASSUME NEW x, Good(x), NEW o \in DOMAIN x.mem
  PROVE  /\ o \in Nat
         /\ NextOf(x, o) \in Nat /\ DataEnd(x, o) \in Nat
         /\ o + 4 <= DataEnd(x, o)
         /\ DataEnd(x, o) <= NextOf(x, o)
         /\ NextOf(x, o) <= x.len
         /\ o \in Opened(x) => NextOf(x, o) = x.len /\ DataEnd(x, o) = x.len
<1>1. x.mem[o].len \in Nat /\ 4 <= x.mem[o].len /\ o \in Nat /\ o + 4 <= x.len
  BY HeaderFields DEF Good, Headers
<1>2. NlmsgTail(x) = x.len /\ x.len \in Nat
  BY TailIsLen DEF Good
<1>3. /\ Align(x.mem[o].len) \in Nat
      /\ x.mem[o].len <= Align(x.mem[o].len)
  BY <1>1, AlignUp
<1>4. NextOf(x, o) <= x.len
  BY DEF Good, StreamSound
<1>5. CASE o \in Opened(x)
  BY <1>1, <1>2, <1>5 DEF NextOf, DataEnd
<1>6. CASE o \notin Opened(x)
  BY <1>1, <1>3, <1>4, <1>6 DEF NextOf, DataEnd, NlaNext
<1> QED
  BY <1>5, <1>6

\* The headers of a new attribute, and of all it holds.
NewSound(mem, N, at, end) ==
  \A o \in N :
    /\ o \in Nat /\ o % 4 = 0 /\ at <= o /\ o + 4 <= end
    /\ mem[o] \in Header
    /\ o + Align(mem[o].len) <= end
    /\ o + Align(mem[o].len) \in N \union {end}
    /\ \A c \in N : mem[c].type \in Nests /\ c < o /\ o < c + mem[c].len
                      => o + Align(mem[o].len) <= c + mem[c].len
    /\ mem[o].type \in Nests => o + 4 \in N \union {o + mem[o].len}

\* Appending attributes after the last byte of a message.
LEMMA Extend ==
  ASSUME NEW x, Good(x), NEW z, NEW N,
         Sized(z), x.len < z.len, z.open = x.open,
         DOMAIN z.mem = DOMAIN x.mem \union N,
         \A o \in DOMAIN x.mem : z.mem[o] = x.mem[o],
         x.len \in N,
         NewSound(z.mem, N, x.len, z.len)
  PROVE  Good(z)
<1>1. /\ NlmsgTail(x) = x.len /\ x.len \in Nat
      /\ NlmsgTail(z) = z.len /\ z.len \in Nat
  BY TailIsLen DEF Good
<1>2. Opened(z) = Opened(x)
  BY DEF Opened
<1>3. Opened(x) \subseteq DOMAIN x.mem
  BY DEF Good, Stack, Opened
<1>4. \A o \in N : o \in Nat /\ x.len <= o /\ o \notin DOMAIN x.mem
  BY <1>1 DEF NewSound, Good, Headers
<1>5. ASSUME NEW o \in DOMAIN x.mem, o \notin Opened(x)
      PROVE  NextOf(z, o) = NextOf(x, o) /\ DataEnd(z, o) = DataEnd(x, o)
  BY <1>2, <1>5 DEF NextOf, DataEnd
<1>6. ASSUME NEW o \in Opened(x)
      PROVE  NextOf(z, o) = z.len /\ DataEnd(z, o) = z.len
  BY <1>1, <1>2, <1>6 DEF NextOf, DataEnd
<1>7. ASSUME NEW o \in N
      PROVE  /\ NextOf(z, o) = o + Align(z.mem[o].len)
             /\ DataEnd(z, o) = o + z.mem[o].len
  BY <1>2, <1>3, <1>4 DEF NextOf, DataEnd, NlaNext
<1>8. Headers(z)
  BY <1>1, SizeIsNat DEF Good, Headers, NewSound, Sized
<1>9. Stack(z)
  BY DEF Good, Stack
<1>10. Apart(z)
  <2> SUFFICES ASSUME NEW o \in Opened(z), NEW c \in DOMAIN z.mem \ Opened(z),
                      c < o
               PROVE  NextOf(z, c) <= o
    BY DEF Apart
  <2>1. o \in DOMAIN x.mem /\ o < x.len /\ o \in Nat
    BY <1>1, <1>2, <1>3 DEF Good, Headers
  <2>2. c \in DOMAIN x.mem
    BY <1>1, <1>4, <2>1
  <2> QED
    BY <1>2, <1>5, <2>2 DEF Good, Apart
<1>11. ASSUME NEW o \in DOMAIN x.mem
       PROVE  /\ NextOf(z, o) <= z.len
              /\ NextOf(z, o) \in DOMAIN z.mem \union {z.len}
              /\ \A c \in Around(z, o) : NextOf(z, o) <= DataEnd(z, c)
              /\ z.mem[o].type \in Nests =>
                   o + 4 \in DOMAIN z.mem \union {DataEnd(z, o)}
  <2>1. /\ o \in Nat /\ NextOf(x, o) \in Nat /\ NextOf(x, o) <= x.len
        /\ NextOf(x, o) \in DOMAIN x.mem \union {x.len}
        /\ o + 4 <= x.len
        /\ x.mem[o].type \in Nests => o + 4 \in DOMAIN x.mem \union {DataEnd(x, o)}
    BY Ends DEF Good, StreamSound, Headers
  <2>2. NextOf(z, o) <= z.len /\ NextOf(z, o) \in DOMAIN z.mem \union {z.len}
    <3>1. CASE o \in Opened(x)
      BY <1>1, <1>6, <3>1
    <3>2. CASE o \notin Opened(x)
      BY <1>1, <1>5, <2>1, <3>2
    <3> QED
      BY <3>1, <3>2
  <2>3. ASSUME NEW c \in Around(z, o)
        PROVE  NextOf(z, o) <= DataEnd(z, c)
    <3>1. c \in DOMAIN z.mem /\ z.mem[c].type \in Nests /\ c < o /\ o < DataEnd(z, c)
      BY DEF Around
    <3>2. c \in DOMAIN x.mem /\ x.mem[c].type \in Nests
      BY <1>1, <1>4, <2>1, <3>1
    <3>3. CASE c \in Opened(x)
      BY <1>6, <2>2, <3>3
    <3>4. CASE c \notin Opened(x) /\ o \notin Opened(x)
      <4>1. c \in Around(x, o)
        BY <1>5, <3>1, <3>2, <3>4 DEF Around
      <4> QED
        BY <1>5, <3>2, <3>4, <4>1 DEF Good, StreamSound
    <3>5. CASE c \notin Opened(x) /\ o \in Opened(x)
      <4>1. NextOf(x, c) <= o
        BY <3>1, <3>2, <3>5 DEF Good, Apart
      <4>2. /\ DataEnd(x, c) <= NextOf(x, c)
            /\ DataEnd(x, c) \in Nat /\ NextOf(x, c) \in Nat
        BY <3>2, Ends
      <4> QED
        BY <1>5, <2>1, <3>1, <3>2, <3>5, <4>1, <4>2
    <3> QED
      BY <3>3, <3>4, <3>5
  <2>4. ASSUME z.mem[o].type \in Nests
        PROVE  o + 4 \in DOMAIN z.mem \union {DataEnd(z, o)}
    <3>1. o + 4 \in DOMAIN x.mem \union {DataEnd(x, o)}
      BY <2>1, <2>4
    <3>2. CASE o \in Opened(x)
      BY <3>1, <3>2, Ends
    <3>3. CASE o \notin Opened(x)
      BY <1>5, <3>1, <3>3
    <3> QED
      BY <3>2, <3>3
  <2> QED
    BY <2>2, <2>3, <2>4
<1>12. ASSUME NEW o \in N
       PROVE  /\ NextOf(z, o) <= z.len
              /\ NextOf(z, o) \in DOMAIN z.mem \union {z.len}
              /\ \A c \in Around(z, o) : NextOf(z, o) <= DataEnd(z, c)
              /\ z.mem[o].type \in Nests =>
                   o + 4 \in DOMAIN z.mem \union {DataEnd(z, o)}
  <2>1. /\ NextOf(z, o) <= z.len
        /\ NextOf(z, o) \in DOMAIN z.mem \union {z.len}
        /\ z.mem[o].type \in Nests =>
             o + 4 \in DOMAIN z.mem \union {DataEnd(z, o)}
    BY <1>7 DEF NewSound
  <2>2. ASSUME NEW c \in Around(z, o)
        PROVE  NextOf(z, o) <= DataEnd(z, c)
    <3>1. c \in DOMAIN z.mem /\ z.mem[c].type \in Nests /\ c < o /\ o < DataEnd(z, c)
      BY DEF Around
    <3>2. CASE c \in N
      BY <1>7, <3>1, <3>2 DEF NewSound
    <3>3. CASE c \in Opened(x)
      BY <1>6, <2>1, <3>3
    <3>4. CASE c \in DOMAIN x.mem /\ c \notin Opened(x)
      <4>1. /\ DataEnd(x, c) <= NextOf(x, c) /\ NextOf(x, c) <= x.len
            /\ DataEnd(x, c) \in Nat /\ NextOf(x, c) \in Nat
        BY <3>4, Ends
      <4> QED
        BY <1>1, <1>4, <1>5, <3>1, <3>4, <4>1
    <3> QED
      BY <3>1, <3>2, <3>3, <3>4
  <2> QED
    BY <2>1, <2>2
<1>13. StreamSound(z)
  BY <1>11, <1>12 DEF StreamSound
<1> QED
  BY <1>8, <1>9, <1>10, <1>13 DEF Good

-----------------------------------------------------------------------------
(* The operations on one message *)

\* The room of an attribute that fits.
LEMMA Room ==
  ASSUME NEW x, Good(x), NEW n \in Nat, NlaFits(x, n)
  PROVE  /\ NlmsgTail(x) = x.len /\ x.len \in Nat
         /\ TotalSize(n) \in Nat /\ TotalSize(n) % 4 = 0
         /\ n + 4 <= TotalSize(n)
         /\ n % 4 = 0 => TotalSize(n) = n + 4
         /\ AttrSize(n) = n + 4
         /\ x.len + TotalSize(n) <= Size
         /\ (x.len + TotalSize(n)) % 4 = 0
         /\ x.len + TotalSize(n) \in NlmsgHdr..Size
<1>1. NlmsgTail(x) = x.len /\ x.len \in Nat /\ 16 <= x.len /\ x.len % 4 = 0
  BY TailIsLen, SizeIsNat DEF Good, Sized
<1>2. AttrSize(n) = n + 4 /\ AttrSize(n) \in Nat
  BY DEF AttrSize
<1>3. /\ TotalSize(n) \in Nat /\ TotalSize(n) % 4 = 0
      /\ n + 4 <= TotalSize(n)
  BY <1>2, AlignUp DEF TotalSize
<1>4. n % 4 = 0 => TotalSize(n) = n + 4
  <2> SUFFICES ASSUME n % 4 = 0
               PROVE  TotalSize(n) = n + 4
    OBVIOUS
  <2>1. (n + 4) % 4 = 0
    BY SMT
  <2> QED
    BY <1>2, <2>1, AlignAligned DEF TotalSize
<1>5. x.len + TotalSize(n) <= Size
  BY <1>1, <1>3, SizeIsNat DEF NlaFits
<1>6. (x.len + TotalSize(n)) % 4 = 0
  BY <1>1, <1>3, AlignedSum
<1> QED
  BY <1>1, <1>2, <1>3, <1>4, <1>5, <1>6, SizeIsNat

\* The header that nla_reserve() writes.
LEMMA NewHeader ==
  ASSUME NEW x, Good(x), NEW n \in Nat, NlaFits(x, n),
         NEW type \in Leaves \union Nests
  PROVE  LET h == [type |-> type, len |-> U16(AttrSize(n))]
             y == NlaPutIn(x, type, n)
         IN  /\ h \in Header /\ h.len = n + 4 /\ h.type = type
             /\ Align(h.len) = TotalSize(n)
             /\ y.len = x.len + TotalSize(n) /\ y.open = x.open
             /\ DOMAIN y.mem = DOMAIN x.mem \union {x.len}
             /\ y.mem[x.len] = h
             /\ \A o \in DOMAIN x.mem : y.mem[o] = x.mem[o]
             /\ \A o \in DOMAIN x.mem : o < x.len /\ o \in Nat
<1> DEFINE h == [type |-> type, len |-> U16(AttrSize(n))]
           y == NlaPutIn(x, type, n)
<1>1. /\ NlmsgTail(x) = x.len /\ x.len \in Nat
      /\ AttrSize(n) = n + 4 /\ TotalSize(n) \in Nat /\ n + 4 <= TotalSize(n)
      /\ x.len + TotalSize(n) <= Size
  BY Room
<1>2. n + 4 \in Nat /\ 4 <= n + 4 /\ n + 4 <= Size
  BY <1>1, SizeIsNat
<1>3. h \in Header /\ U16(AttrSize(n)) = n + 4
  BY <1>1, <1>2, HeaderOf
<1>4. Align(h.len) = TotalSize(n) /\ h.len = n + 4 /\ h.type = type
  BY <1>1, <1>3 DEF TotalSize
<1>5. \A o \in DOMAIN x.mem : o < x.len /\ o \in Nat
  BY <1>1 DEF Good, Headers
<1>6. /\ y.len = x.len + TotalSize(n) /\ y.open = x.open
      /\ y.mem = Written(x.mem, x.len, h)
  BY <1>1 DEF NlaPutIn
<1>7. /\ DOMAIN y.mem = DOMAIN x.mem \union {x.len}
      /\ y.mem[x.len] = h
  BY <1>6 DEF Written
<1>8. \A o \in DOMAIN x.mem : y.mem[o] = x.mem[o]
  BY <1>1, <1>5, <1>6 DEF Written
<1> QED
  BY <1>3, <1>4, <1>5, <1>6, <1>7, <1>8

\* nla_put()
LEMMA NlaPutIsGood ==
  ASSUME NEW x, Good(x), NEW n \in Nat, NlaFits(x, n),
         NEW type \in Leaves \union Nests, type \in Nests => n = 0
  PROVE  Good(NlaPutIn(x, type, n))
<1> DEFINE h == [type |-> type, len |-> U16(AttrSize(n))]
           y == NlaPutIn(x, type, n)
           N == {x.len}
<1>1. /\ x.len \in Nat /\ TotalSize(n) \in Nat /\ n + 4 <= TotalSize(n)
      /\ x.len + TotalSize(n) \in NlmsgHdr..Size
      /\ (x.len + TotalSize(n)) % 4 = 0
      /\ n = 0 => TotalSize(n) = 4
  BY Room
<1>2. /\ h \in Header /\ h.len = n + 4 /\ h.type = type
      /\ Align(h.len) = TotalSize(n)
      /\ y.len = x.len + TotalSize(n) /\ y.open = x.open
      /\ DOMAIN y.mem = DOMAIN x.mem \union N
      /\ y.mem[x.len] = h
      /\ \A o \in DOMAIN x.mem : y.mem[o] = x.mem[o]
  BY NewHeader
<1>3. x.len % 4 = 0
  BY DEF Good, Sized
<1> HIDE DEF y, h
<1>4. Sized(y) /\ x.len < y.len
  BY <1>1, <1>2 DEF Sized
<1>5. NewSound(y.mem, N, x.len, y.len)
  <2>1. /\ x.len + 4 <= y.len
        /\ x.len + Align(h.len) = y.len
    BY <1>1, <1>2
  <2>2. ~(x.len < x.len)
    BY <1>1
  <2>3. h.type \in Nests => x.len + 4 = x.len + h.len
    BY <1>1, <1>2
  <2> QED
    BY <1>1, <1>2, <1>3, <2>1, <2>2, <2>3 DEF NewSound
<1>6. Good(y)
  BY <1>2, <1>4, <1>5, Extend
<1> QED
  BY <1>6 DEF y

\* Opening and closing a nest move no end.
LEMMA SameEnds ==
  ASSUME NEW y, StreamSound(y), NEW z,
         z.len = y.len, DOMAIN z.mem = DOMAIN y.mem,
         \A o \in DOMAIN y.mem :
           /\ z.mem[o].type = y.mem[o].type
           /\ NextOf(z, o) = NextOf(y, o)
           /\ DataEnd(z, o) = DataEnd(y, o)
  PROVE  StreamSound(z)
<1>1. ASSUME NEW o \in DOMAIN y.mem
      PROVE  Around(z, o) = Around(y, o)
  BY DEF Around
<1>2. ASSUME NEW o \in DOMAIN y.mem, NEW c \in Around(y, o)
      PROVE  NextOf(z, o) <= DataEnd(z, c)
  <2>1. c \in DOMAIN y.mem
    BY DEF Around
  <2> QED
    BY <2>1 DEF StreamSound
<1> QED
  BY <1>1, <1>2 DEF StreamSound

\* nla_nest_start()
LEMMA NestStartIsGood ==
  ASSUME NEW x, Good(x), NlaFits(x, 0), NEW type \in Nests
  PROVE  Good(NestStartIn(x, type))
<1> DEFINE y == NlaPutIn(x, type, 0)
           z == NestStartIn(x, type)
           at == x.len
<1>1. Good(y)
  BY NlaPutIsGood
<1>2. /\ NlmsgTail(x) = at /\ at \in Nat /\ TotalSize(0) = 4
  BY Room
<1>3. /\ y.mem[at].len = 4 /\ y.mem[at].type = type
      /\ Align(y.mem[at].len) = 4
      /\ y.len = at + 4 /\ y.open = x.open
      /\ DOMAIN y.mem = DOMAIN x.mem \union {at}
      /\ \A o \in DOMAIN x.mem : y.mem[o] = x.mem[o] /\ o < at /\ o \in Nat
  <2> DEFINE h == [type |-> type, len |-> U16(AttrSize(0))]
  <2>1. /\ h.len = 0 + 4 /\ h.type = type /\ Align(h.len) = TotalSize(0)
        /\ y.len = at + TotalSize(0) /\ y.open = x.open
        /\ DOMAIN y.mem = DOMAIN x.mem \union {at}
        /\ y.mem[at] = h
        /\ \A o \in DOMAIN x.mem : y.mem[o] = x.mem[o]
        /\ \A o \in DOMAIN x.mem : o < at /\ o \in Nat
    BY NewHeader
  <2> HIDE DEF h, y
  <2> QED
    BY <1>2, <2>1
<1>4. z.len = y.len /\ z.mem = y.mem /\ z.open = Append(x.open, at)
  BY <1>2 DEF NestStartIn
<1>5. Stack(x) /\ x.open \in Seq(Nat)
  BY DEF Good, Stack
<1> HIDE DEF y, z
<1>6. /\ Len(z.open) = Len(x.open) + 1 /\ Len(x.open) \in Nat
      /\ z.open \in Seq(Nat)
      /\ \A i \in 1..Len(x.open) : z.open[i] = x.open[i]
      /\ z.open[Len(x.open) + 1] = at
  BY <1>2, <1>4, <1>5
<1>7. Opened(z) = Opened(x) \union {at} /\ Opened(y) = Opened(x)
  <2>1. DOMAIN x.open = 1..Len(x.open) /\ DOMAIN z.open = 1..(Len(x.open) + 1)
    BY <1>5, <1>6
  <2>2. Opened(z) = {z.open[i] : i \in 1..Len(x.open)} \union {z.open[Len(x.open) + 1]}
    <3>1. 1..(Len(x.open) + 1) = (1..Len(x.open)) \union {Len(x.open) + 1}
      BY <1>6
    <3> QED
      BY <2>1, <3>1 DEF Opened
  <2>3. {z.open[i] : i \in 1..Len(x.open)} = {x.open[i] : i \in 1..Len(x.open)}
    BY <1>6
  <2>4. Opened(x) = {x.open[i] : i \in 1..Len(x.open)}
    BY <2>1 DEF Opened
  <2>5. Opened(y) = Opened(x)
    BY <1>3 DEF Opened
  <2> QED
    BY <1>6, <2>2, <2>3, <2>4, <2>5
<1>8. Opened(x) \subseteq DOMAIN x.mem /\ at \notin DOMAIN x.mem
  <2>1. Stack(x) /\ DOMAIN x.open = 1..Len(x.open)
    BY <1>2, <1>3, <1>5 DEF Stack
  <2>2. \A i \in DOMAIN x.open : x.open[i] \in DOMAIN x.mem
    BY <2>1 DEF Stack
  <2> QED
    BY <1>2, <1>3, <1>5, <2>2 DEF Opened
<1>9. NlmsgTail(y) = y.len /\ NlmsgTail(z) = y.len /\ Sized(z)
  BY <1>1, <1>4, TailIsLen DEF Good, Sized
<1>10. ASSUME NEW o \in DOMAIN y.mem
       PROVE  NextOf(z, o) = NextOf(y, o) /\ DataEnd(z, o) = DataEnd(y, o)
  <2>1. CASE o = at
    BY <1>3, <1>4, <1>7, <1>8, <1>9, <2>1 DEF NextOf, DataEnd, NlaNext
  <2>2. CASE o # at
    BY <1>4, <1>7, <1>9, <2>2 DEF NextOf, DataEnd
  <2> QED
    BY <2>1, <2>2
<1>11. StreamSound(z)
  BY <1>1, <1>4, <1>10, SameEnds DEF Good
<1>12. Headers(z)
  BY <1>1, <1>4 DEF Good, Headers
<1>13. Stack(z)
  <2>1. ASSUME NEW i \in 1..Len(z.open)
        PROVE  /\ z.open[i] \in DOMAIN z.mem
               /\ z.mem[z.open[i]].type \in Nests
               /\ \A j \in 1..(i - 1) : z.open[j] < z.open[i]
    <3>1. CASE i \in 1..Len(x.open)
      <4>1. /\ x.open[i] \in DOMAIN x.mem /\ x.mem[x.open[i]].type \in Nests
            /\ \A j \in 1..(i - 1) : x.open[j] < x.open[i]
        BY <1>5, <3>1 DEF Stack
      <4>2. \A j \in 1..i : z.open[j] = x.open[j]
        BY <1>6, <3>1
      <4>3. i \in 1..i /\ 1..(i - 1) \subseteq 1..i
        BY <3>1
      <4> QED
        BY <1>3, <1>4, <4>1, <4>2, <4>3
    <3>2. CASE i = Len(x.open) + 1
      <4>1. \A j \in 1..(i - 1) : z.open[j] = x.open[j] /\ x.open[j] \in DOMAIN x.mem
        BY <1>5, <1>6, <3>2 DEF Stack
      <4> QED
        BY <1>3, <1>4, <1>6, <3>2, <4>1
    <3> QED
      BY <1>6, <3>1, <3>2
  <2> QED
    BY <1>6, <2>1 DEF Stack
<1>14. Apart(z)
  <2> SUFFICES ASSUME NEW o \in Opened(z), NEW c \in DOMAIN z.mem \ Opened(z),
                      c < o
               PROVE  NextOf(z, c) <= o
    BY DEF Apart
  <2>1. c \in DOMAIN x.mem /\ c \notin Opened(x) /\ c \in DOMAIN y.mem
    BY <1>3, <1>4, <1>7
  <2>2. CASE o # at
    BY <1>1, <1>3, <1>4, <1>7, <1>10, <2>1, <2>2 DEF Good, Apart
  <2>3. CASE o = at
    <3>1. NextOf(z, c) = NextOf(x, c)
      BY <1>3, <1>4, <1>7, <2>1 DEF NextOf
    <3>2. NextOf(x, c) <= x.len
      BY <2>1 DEF Good, StreamSound
    <3> QED
      BY <2>3, <3>1, <3>2
  <2> QED
    BY <2>2, <2>3
<1>15. Good(z)
  BY <1>9, <1>11, <1>12, <1>13, <1>14 DEF Good
<1> QED
  BY <1>15 DEF z

\* nla_nest_end()
LEMMA NestEndIsGood ==
  ASSUME NEW x, Good(x), x.open # <<>>
  PROVE  Good(NestEndIn(x))
<1> DEFINE n == Len(x.open)
           start == x.open[n]
           h == [type |-> x.mem[start].type, len |-> U16(NlmsgTail(x) - start)]
           z == NestEndIn(x)
<1>1. /\ x.open \in Seq(Nat) /\ n \in Nat /\ n >= 1
      /\ start \in DOMAIN x.mem /\ x.mem[start].type \in Nests
      /\ \A i \in 1..n : /\ x.open[i] \in DOMAIN x.mem
                         /\ x.mem[x.open[i]].type \in Nests
      /\ \A i \in 1..n : \A j \in 1..(i - 1) : x.open[j] < x.open[i]
      /\ \A i \in 1..n : x.open[i] \in Nat
  BY DEF Good, Stack
<1>2. /\ NlmsgTail(x) = x.len /\ x.len \in Nat
      /\ start \in Nat /\ start + 4 <= x.len
      /\ (x.len - start) % 4 = 0 /\ x.len <= Size
  <2>1. start \in Nat /\ start % 4 = 0 /\ start + 4 <= x.len
    BY <1>1 DEF Good, Headers
  <2>2. x.len % 4 = 0 /\ x.len <= Size /\ NlmsgTail(x) = x.len /\ x.len \in Nat
    BY TailIsLen, SizeIsNat DEF Good, Sized
  <2>3. start <= x.len
    BY <2>1, <2>2
  <2>4. (x.len - start) % 4 = 0
    BY <2>1, <2>2, <2>3, AlignedDifference
  <2> QED
    BY <2>1, <2>2, <2>4
<1>3. h \in Header /\ h.len = x.len - start /\ h.type = x.mem[start].type
  <2>1. x.len - start \in Nat /\ 4 <= x.len - start /\ x.len - start <= Size
    BY <1>2, SizeIsNat
  <2> QED
    BY <1>1, <1>2, <2>1, HeaderOf
<1>4. start + Align(h.len) = x.len /\ start + h.len = x.len
  BY <1>2, <1>3, AlignAligned
<1>5. /\ z.len = x.len /\ z.open = SubSeq(x.open, 1, n - 1)
      /\ DOMAIN z.mem = DOMAIN x.mem
      /\ z.mem[start] = h
      /\ \A o \in DOMAIN x.mem : o # start => z.mem[o] = x.mem[o]
  BY <1>1 DEF NestEndIn, Written
<1> HIDE DEF z, h
<1>6. /\ Len(z.open) = n - 1 /\ z.open \in Seq(Nat)
      /\ \A i \in 1..(n - 1) : z.open[i] = x.open[i]
  BY <1>1, <1>5
<1>7. Opened(z) = Opened(x) \ {start} /\ start \in Opened(x)
  <2>1. DOMAIN x.open = 1..n /\ DOMAIN z.open = 1..(n - 1)
    BY <1>1, <1>6
  <2>2. \A j \in 1..(n - 1) : x.open[j] # start
    <3>1. n \in 1..n
      BY <1>1
    <3>2. \A j \in 1..(n - 1) : x.open[j] < start /\ x.open[j] \in Nat
      BY <1>1, <3>1
    <3> HIDE DEF n, start
    <3>3. start \in Nat
      BY <1>2
    <3> QED
      BY <3>2, <3>3
  <2>3. Opened(z) = {x.open[i] : i \in 1..(n - 1)}
    BY <1>6, <2>1 DEF Opened
  <2>4. Opened(x) = {x.open[i] : i \in 1..(n - 1)} \union {start}
    <3>1. 1..n = (1..(n - 1)) \union {n}
      BY <1>1
    <3>2. Opened(x) = {x.open[i] : i \in 1..n}
      BY <2>1 DEF Opened
    <3> HIDE DEF n
    <3> QED
      BY <3>1, <3>2
  <2> QED
    BY <2>2, <2>3, <2>4
<1>8. NlmsgTail(z) = x.len /\ Sized(z)
  BY <1>5, TailIsLen DEF Good, Sized
<1>9. ASSUME NEW o \in DOMAIN x.mem
      PROVE  /\ NextOf(z, o) = NextOf(x, o) /\ DataEnd(z, o) = DataEnd(x, o)
             /\ z.mem[o].type = x.mem[o].type /\ z.mem[o] \in Header
  <2>1. CASE o = start
    BY <1>2, <1>3, <1>4, <1>5, <1>7, <2>1 DEF NextOf, DataEnd, NlaNext
  <2>2. CASE o # start
    BY <1>2, <1>5, <1>7, <1>8, <2>2 DEF NextOf, DataEnd, Good, Headers
  <2> QED
    BY <2>1, <2>2
<1>10. StreamSound(z)
  BY <1>5, <1>9, SameEnds DEF Good
<1>11. Headers(z)
  BY <1>5, <1>9 DEF Good, Headers
<1>12. Stack(z)
  <2>1. ASSUME NEW i \in 1..Len(z.open)
        PROVE  /\ z.open[i] \in DOMAIN z.mem
               /\ z.mem[z.open[i]].type \in Nests
               /\ \A j \in 1..(i - 1) : z.open[j] < z.open[i]
    <3>1. i \in 1..n /\ z.open[i] = x.open[i]
      BY <1>1, <1>6
    <3>2. \A j \in 1..(i - 1) : z.open[j] = x.open[j]
      BY <1>1, <1>6
    <3> QED
      BY <1>1, <1>5, <1>9, <3>1, <3>2
  <2> QED
    BY <1>6, <2>1 DEF Stack
<1>13. Apart(z)
  <2> SUFFICES ASSUME NEW o \in Opened(z), NEW c \in DOMAIN z.mem \ Opened(z),
                      c < o
               PROVE  NextOf(z, c) <= o
    BY DEF Apart
  <2>1. o \in Opened(x) /\ c \in DOMAIN x.mem /\ NextOf(z, c) = NextOf(x, c)
    BY <1>5, <1>7, <1>9
  <2>2. o < start
    <3>1. DOMAIN z.open = 1..(n - 1)
      BY <1>1, <1>6
    <3>2. PICK i \in 1..(n - 1) : o = x.open[i]
      BY <1>6, <3>1 DEF Opened
    <3>3. n \in 1..n /\ i \in 1..(n - 1)
      BY <1>1
    <3> QED
      BY <1>1, <3>2, <3>3
  <2>3. c # start
    <3>1. o \in Nat
      BY <1>1, <2>1 DEF Opened
    <3> QED
      BY <1>2, <2>2, <3>1
  <2> QED
    BY <1>7, <2>1, <2>3 DEF Good, Apart
<1>14. Good(z)
  BY <1>8, <1>10, <1>11, <1>12, <1>13 DEF Good
<1> QED
  BY <1>14 DEF z

\* The attributes of a message begin at first.
Begins(x, first) == first \in DOMAIN x.mem \union {x.len}

\* The new header is the only one that was not there.
LEMMA NewDomain ==
  \A x : \A n \in Nat : \A type \in Leaves \union Nests :
    Good(x) /\ NlaFits(x, n) =>
      DOMAIN NlaPutIn(x, type, n).mem = DOMAIN x.mem \union {x.len}
<1> SUFFICES ASSUME NEW x, NEW n \in Nat, NEW type \in Leaves \union Nests,
                    Good(x), NlaFits(x, n)
             PROVE  DOMAIN NlaPutIn(x, type, n).mem = DOMAIN x.mem \union {x.len}
  OBVIOUS
<1> QED
  BY NewHeader

\* nla_put_nested()
LEMMA PutNestedIsGood ==
  ASSUME NEW x, Good(x), NEW b, Good(b), b.open = <<>>, Begins(b, NlmsgHdr),
         NEW type \in Nests, NlaFits(x, b.len - NlmsgHdr)
  PROVE  /\ Good(PutNestedIn(x, type, b))
         /\ \A o \in DOMAIN x.mem \union {x.len} : o \in DOMAIN PutNestedIn(x, type, b).mem
<1> DEFINE at == x.len
           n == b.len - NlmsgHdr
           d == at + NlaHdr - NlmsgHdr
           y == NlaPutIn(x, type, n)
           z == PutNestedIn(x, type, b)
           moved == Moved(b.mem, d)
           N == {at} \union {p + d : p \in DOMAIN b.mem}
           h == [type |-> type, len |-> U16(AttrSize(n))]
<1>1. /\ b.len \in Nat /\ 16 <= b.len /\ b.len % 4 = 0
      /\ at \in Nat /\ 16 <= at /\ at % 4 = 0
  BY TailIsLen, SizeIsNat DEF Good, Sized
<1>2. /\ n \in Nat /\ n % 4 = 0 /\ n + 16 = b.len
      /\ d \in Nat /\ d % 4 = 0 /\ d + 16 = at + 4
  <2>1. (b.len - 16) % 4 = 0 /\ (at + 4) % 4 = 0
    BY <1>1, SMT
  <2>2. (at + 4 - 16) % 4 = 0
    BY <1>1, <2>1, SMT
  <2> QED
    BY <1>1, <2>1, <2>2
<1>3. /\ NlmsgTail(x) = at
      /\ TotalSize(n) = n + 4
      /\ at + TotalSize(n) \in NlmsgHdr..Size
      /\ (at + TotalSize(n)) % 4 = 0
  BY <1>2, Room
<1>4. /\ h \in Header /\ h.len = n + 4 /\ h.type = type
      /\ Align(h.len) = TotalSize(n)
      /\ y.len = at + TotalSize(n) /\ y.open = x.open
      /\ DOMAIN y.mem = DOMAIN x.mem \union {at}
      /\ y.mem[at] = h
      /\ \A o \in DOMAIN x.mem : y.mem[o] = x.mem[o]
      /\ \A o \in DOMAIN x.mem : o < at /\ o \in Nat
  BY <1>2, NewHeader
<1>5. /\ z.len = y.len /\ z.open = y.open
      /\ DOMAIN z.mem = DOMAIN y.mem \union DOMAIN moved
      /\ \A o \in DOMAIN y.mem : z.mem[o] = y.mem[o]
      /\ \A o \in DOMAIN moved : o \notin DOMAIN y.mem => z.mem[o] = moved[o]
  <2>1. Moved(b.mem, NlmsgTail(x) + NlaHdr - NlmsgHdr) = moved
    BY <1>3
  <2> HIDE DEF y, moved
  <2>2. z = [len  |-> y.len,
             mem  |-> [o \in DOMAIN y.mem \union DOMAIN moved |->
                         IF o \in DOMAIN y.mem THEN y.mem[o] ELSE moved[o]],
             open |-> x.open]
    BY <2>1 DEF PutNestedIn, y
  <2> HIDE DEF z
  <2> QED
    BY <1>4, <2>2
<1>6. \A p \in DOMAIN b.mem : /\ p \in Nat /\ p % 4 = 0 /\ 16 <= p /\ p + 4 <= b.len
                              /\ b.mem[p] \in Header
  BY DEF Good, Headers
<1>7. /\ DOMAIN moved = {p + d : p \in DOMAIN b.mem}
      /\ \A p \in DOMAIN b.mem : moved[p + d] = b.mem[p]
  <2>1. DOMAIN moved = {p + d : p \in DOMAIN b.mem}
    BY DEF Moved
  <2>2. ASSUME NEW p \in DOMAIN b.mem
        PROVE  moved[p + d] = b.mem[p]
    <3>1. p + d \in DOMAIN moved /\ (p + d) - d = p
      BY <1>2, <1>6, <2>1
    <3> QED
      BY <3>1 DEF Moved
  <2> QED
    BY <2>1, <2>2
<1> HIDE DEF h, y, z, moved, d, n, at
<1>sums. /\ b.len \in Nat /\ at \in Nat /\ n \in Nat /\ d \in Nat
      /\ n + 16 = b.len /\ d + 16 = at + 4 /\ 16 <= at
  BY <1>1, <1>2
<1>8. z.len = at + n + 4 /\ z.len = b.len + d /\ z.len \in Nat /\ Sized(z)
  <2>1. z.len = at + (n + 4)
    BY <1>3, <1>4, <1>5, Zenon
  <2>2. z.len \in NlmsgHdr..Size /\ z.len % 4 = 0
    BY <1>3, <1>4, <1>5, Zenon
  <2>3. z.len = at + n + 4 /\ z.len \in Nat
    BY <1>sums, <2>1
  <2>4. z.len = b.len + d
    BY <1>sums, <2>1
  <2> QED
    BY <2>2, <2>3, <2>4, Zenon DEF Sized
<1>9. ASSUME NEW p \in DOMAIN b.mem
      PROVE  /\ p + d \in Nat /\ at + 4 <= p + d /\ p + d + 4 <= z.len
             /\ (p + d) % 4 = 0
             /\ z.mem[p + d] = b.mem[p]
  <2>1. p + d \in Nat /\ at + 4 <= p + d /\ p + d + 4 <= z.len
    <3>1. p \in Nat /\ 16 <= p /\ p + 4 <= b.len
      BY <1>6
    <3>2. z.len = b.len + d
      BY <1>8
    <3> QED
      BY <1>sums, <3>1, <3>2
  <2>2. (p + d) % 4 = 0
    BY <1>2, <1>6, AlignedSum
  <2>3. p + d \notin DOMAIN y.mem
    BY <1>1, <1>4, <2>1
  <2> QED
    BY <1>5, <1>7, <2>1, <2>2, <2>3
<1>10. /\ DOMAIN z.mem = DOMAIN x.mem \union N /\ at \in N
       /\ \A o \in DOMAIN x.mem : z.mem[o] = x.mem[o]
       /\ z.mem[at] = h
       /\ z.open = x.open /\ at < z.len
  <2>1. at < z.len
    BY <1>1, <1>2, <1>8
  <2> QED
    BY <1>4, <1>5, <1>7, <2>1
<1>11. Opened(b) = {}
  BY DEF Opened
<1>12. ASSUME NEW p \in DOMAIN b.mem
       PROVE  /\ NextOf(b, p) = p + Align(b.mem[p].len)
              /\ DataEnd(b, p) = p + b.mem[p].len
              /\ Align(b.mem[p].len) \in Nat /\ b.mem[p].len \in Nat
              /\ NextOf(b, p) \in Nat /\ DataEnd(b, p) \in Nat
  <2>1. b.mem[p].len \in Nat
    BY <1>6, HeaderFields
  <2> QED
    <3>1. p \in Nat /\ Align(b.mem[p].len) \in Nat
      BY <1>6, <2>1, AlignUp
    <3>2. /\ NextOf(b, p) = p + Align(b.mem[p].len)
          /\ DataEnd(b, p) = p + b.mem[p].len
      BY <1>11 DEF NextOf, DataEnd, NlaNext
    <3> QED
      BY <2>1, <3>1, <3>2
<1>13. NewSound(z.mem, N, at, z.len)
  <2>1. /\ at + 4 <= z.len /\ at + Align(h.len) = z.len
        /\ at + h.len = z.len /\ z.len \in N \union {z.len}
    <3>1. h.len = n + 4 /\ Align(h.len) = n + 4
      BY <1>3, <1>4
    <3>2. z.len = at + n + 4
      BY <1>8
    <3>3. at + (n + 4) = at + n + 4 /\ at + 4 <= at + n + 4
      BY <1>sums
    <3> QED
      BY <1>sums, <3>1, <3>2, <3>3
  <2>2. at + 4 \in N \union {at + h.len}
    <3>1. CASE 16 \in DOMAIN b.mem
      BY <1>1, <1>2, <3>1
    <3>2. CASE b.len = 16
      BY <1>1, <1>2, <1>4, <3>2
    <3> QED
      BY <3>1, <3>2 DEF Begins
  <2>3. \A c \in N : ~(c < at)
    BY <1>1, <1>9
  <2>4. ASSUME NEW p \in DOMAIN b.mem
        PROVE  /\ (p + d) + Align(b.mem[p].len) <= z.len
               /\ (p + d) + Align(b.mem[p].len) \in N \union {z.len}
               /\ b.mem[p].type \in Nests =>
                    (p + d) + 4 \in N \union {(p + d) + b.mem[p].len}
    <3>1. /\ p + Align(b.mem[p].len) <= b.len
          /\ p + Align(b.mem[p].len) \in DOMAIN b.mem \union {b.len}
          /\ b.mem[p].type \in Nests =>
               p + 4 \in DOMAIN b.mem \union {p + b.mem[p].len}
      BY <1>12 DEF Good, StreamSound
    <3>2. /\ (p + d) + Align(b.mem[p].len) = (p + Align(b.mem[p].len)) + d
          /\ (p + d) + 4 = (p + 4) + d
          /\ (p + d) + b.mem[p].len = (p + b.mem[p].len) + d
      <4>1. p \in Nat /\ d \in Nat /\ Align(b.mem[p].len) \in Nat /\ b.mem[p].len \in Nat
        BY <1>2, <1>6, <1>12
      <4> QED
        BY <4>1
    <3>3. (p + d) + Align(b.mem[p].len) <= z.len
      BY <1>1, <1>2, <1>6, <1>8, <1>12, <3>1
    <3>4. (p + d) + Align(b.mem[p].len) \in N \union {z.len}
      BY <1>8, <3>1, <3>2
    <3>5. ASSUME b.mem[p].type \in Nests
          PROVE  (p + d) + 4 \in N \union {(p + d) + b.mem[p].len}
      BY <3>1, <3>2, <3>5
    <3> QED
      BY <3>3, <3>4, <3>5
  <2>5. ASSUME NEW p \in DOMAIN b.mem, NEW c \in N,
               z.mem[c].type \in Nests, c < p + d, p + d < c + z.mem[c].len
        PROVE  (p + d) + Align(b.mem[p].len) <= c + z.mem[c].len
    <3>1. CASE c = at
      BY <1>10, <2>1, <2>4, <3>1
    <3>2. CASE c # at
      <4>1. PICK q \in DOMAIN b.mem : c = q + d
        BY <3>2
      <4>2. z.mem[c] = b.mem[q]
        BY <1>9, <4>1
      <4>3. /\ p \in Nat /\ q \in Nat /\ d \in Nat
            /\ Align(b.mem[p].len) \in Nat /\ b.mem[q].len \in Nat
        BY <1>2, <1>6, <1>12
      <4>4. q < p /\ p < q + b.mem[q].len
        <5>1. q + d < p + d /\ p + d < (q + d) + b.mem[q].len
          BY <2>5, <4>1, <4>2
        <5> QED
          BY <4>3, <5>1
      <4>5. q \in Around(b, p)
        BY <1>12, <2>5, <4>2, <4>4 DEF Around
      <4>6. p + Align(b.mem[p].len) <= q + b.mem[q].len
        BY <1>12, <4>5 DEF Good, StreamSound
      <4>7. (p + d) + Align(b.mem[p].len) <= (q + d) + b.mem[q].len
        BY <4>3, <4>6
      <4> QED
        BY <4>1, <4>2, <4>7
    <3> QED
      BY <3>1, <3>2
  <2>6. ASSUME NEW o \in N
        PROVE  /\ o \in Nat /\ o % 4 = 0 /\ at <= o /\ o + 4 <= z.len
               /\ z.mem[o] \in Header
               /\ o + Align(z.mem[o].len) <= z.len
               /\ o + Align(z.mem[o].len) \in N \union {z.len}
               /\ \A c \in N : z.mem[c].type \in Nests /\ c < o /\ o < c + z.mem[c].len
                                 => o + Align(z.mem[o].len) <= c + z.mem[c].len
               /\ z.mem[o].type \in Nests => o + 4 \in N \union {o + z.mem[o].len}
    <3>1. CASE o = at
      BY <1>1, <1>4, <1>8, <1>10, <2>1, <2>2, <2>3, <3>1
    <3>2. CASE o # at
      <4>1. PICK p \in DOMAIN b.mem : o = p + d
        BY <3>2
      <4>2. z.mem[o] = b.mem[p]
        BY <1>9, <4>1
      <4>3. o \in Nat /\ o % 4 = 0 /\ at <= o /\ o + 4 <= z.len
        BY <1>1, <1>9, <4>1
      <4> QED
        BY <1>6, <2>4, <2>5, <4>1, <4>2, <4>3
    <3> QED
      BY <3>1, <3>2
  <2> QED
    BY <2>6 DEF NewSound
<1>14. Good(z)
  <2> HIDE DEF N
  <2> QED
    BY <1>8, <1>10, <1>13, Extend DEF at
<1> QED
  BY <1>10, <1>14 DEF z, at

-----------------------------------------------------------------------------
(* The specification *)

MsgInv ==
  /\ DOMAIN msgs = Messages
  /\ phase \in {"alloc", "build", "sent", "given up"}
  /\ phase = "alloc" => msgs[Request] = NlmsgAlloc
  /\ \A m \in Messages : Good(msgs[m]) /\ Begins(msgs[m], First(m))

LEMMA AllocIsGood == Good(NlmsgAlloc) /\ Begins(NlmsgAlloc, NlmsgHdr)
<1>1. /\ NlmsgAlloc.len = 16 /\ NlmsgAlloc.open = <<>> /\ DOMAIN NlmsgAlloc.mem = {}
      /\ NlmsgAlloc.open \in Seq(Nat) /\ Len(NlmsgAlloc.open) = 0
  BY DEF NlmsgAlloc
<1>2. Sized(NlmsgAlloc)
  BY <1>1, SizeIsNat DEF Sized
<1>3. Headers(NlmsgAlloc) /\ StreamSound(NlmsgAlloc) /\ Apart(NlmsgAlloc)
  BY <1>1 DEF Headers, StreamSound, Apart
<1>4. Stack(NlmsgAlloc)
  BY <1>1 DEF Stack
<1>5. Begins(NlmsgAlloc, NlmsgHdr)
  BY <1>1 DEF Begins
<1> QED
  BY <1>2, <1>3, <1>4, <1>5 DEF Good

\* genlmsg_put(): the attributes begin after the generic netlink header.
LEMMA ReservedIsGood ==
  LET x == Reserved(NlmsgAlloc, GenlHdr) IN Good(x) /\ Begins(x, NlmsgHdr + GenlHdr)
<1> DEFINE x == Reserved(NlmsgAlloc, GenlHdr)
<1>1. Align(4) = 4
  BY AlignAligned
<1>2. /\ x.len = 20 /\ x.open = <<>> /\ DOMAIN x.mem = {}
      /\ x.open \in Seq(Nat) /\ Len(x.open) = 0
  BY <1>1 DEF NlmsgAlloc, Reserved
<1> HIDE DEF x
<1>3. Sized(x)
  BY <1>2, SizeIsNat DEF Sized
<1>4. Headers(x) /\ StreamSound(x) /\ Apart(x)
  BY <1>2 DEF Headers, StreamSound, Apart
<1>5. Stack(x)
  BY <1>2 DEF Stack
<1>6. Begins(x, 20)
  BY <1>2 DEF Begins
<1> QED
  BY <1>3, <1>4, <1>5, <1>6 DEF Good, x

LEMMA MsgInitInv == MsgInit => MsgInv
<1> SUFFICES ASSUME MsgInit PROVE MsgInv
  OBVIOUS
<1>1. DOMAIN msgs = Messages /\ \A m \in Messages : msgs[m] = NlmsgAlloc
  BY DEF MsgInit
<1>2. \A m \in Messages : First(m) = NlmsgHdr
  BY DEF First, MsgInit
<1>3. Request \in Messages
  BY DEF Messages
<1> QED
  BY <1>1, <1>2, <1>3, AllocIsGood DEF MsgInv, MsgInit

\* A step that replaces one message by a good one that begins where it did.
LEMMA OneMessage ==
  ASSUME MsgInv, phase = "build", UNCHANGED phase, NEW m \in Messages, NEW y,
         Good(y), Begins(y, First(m)),
         msgs' = [msgs EXCEPT ![m] = y]
  PROVE  MsgInv'
<1>1. DOMAIN msgs' = Messages
  BY DEF MsgInv
<1>2. \A k \in Messages : First(k)' = First(k)
  BY DEF First
<1>3. \A k \in Messages : k # m => msgs'[k] = msgs[k]
  BY DEF MsgInv
<1>4. msgs'[m] = y
  BY DEF MsgInv
<1>5. ASSUME NEW k \in Messages
      PROVE  Good(msgs'[k]) /\ Begins(msgs'[k], First(k)')
  <2>1. CASE k = m
    BY <1>2, <1>4, <2>1
  <2>2. CASE k # m
    BY <1>2, <1>3, <2>2 DEF MsgInv
  <2> QED
    BY <2>1, <2>2
<1> QED
  BY <1>1, <1>5 DEF MsgInv

\* What is appended to a message begins it, if nothing else does.
LEMMA StillBegins ==
  ASSUME NEW x, NEW y, NEW first, Begins(x, first),
         \A o \in DOMAIN x.mem \union {x.len} : o \in DOMAIN y.mem
  PROVE  Begins(y, first)
BY DEF Begins

LEMMA NlaPutInv ==
  ASSUME MsgInv, NEW m \in Messages, NEW type \in Leaves, NEW n \in Payloads,
         NlaPut(m, type, n)
  PROVE  MsgInv'
<1> DEFINE x == msgs[m]
           y == NlaPutIn(x, type, n)
<1>1. Good(x) /\ Begins(x, First(m)) /\ NlaFits(x, n)
  BY DEF MsgInv, NlaPut
<1>2. n \in Nat /\ type \notin Nests
  BY PayloadsAssumption, TypesAssumption
<1>3. Good(y)
  BY <1>1, <1>2, NlaPutIsGood
<1>4. DOMAIN y.mem = DOMAIN x.mem \union {x.len}
  <2>1. type \in Leaves \union Nests
    OBVIOUS
  <2> QED
    BY <1>1, <1>2, <2>1, NewDomain, Zenon
<1>5. Begins(y, First(m))
  BY <1>1, <1>4, StillBegins
<1> QED
  BY <1>3, <1>5, OneMessage DEF NlaPut

LEMMA NestStartInv ==
  ASSUME MsgInv, NEW m \in Messages, NEW type \in Nests, NestStart(m, type)
  PROVE  MsgInv'
<1> DEFINE x == msgs[m]
           y == NestStartIn(x, type)
<1>1. Good(x) /\ Begins(x, First(m)) /\ NlaFits(x, 0)
  BY DEF MsgInv, NestStart
<1>2. Good(y)
  BY <1>1, NestStartIsGood
<1>3. DOMAIN y.mem = DOMAIN x.mem \union {x.len}
  <2>1. DOMAIN NlaPutIn(x, type, 0).mem = DOMAIN x.mem \union {x.len}
    <3>1. 0 \in Nat /\ type \in Leaves \union Nests
      OBVIOUS
    <3> HIDE DEF x
    <3> QED
      BY <1>1, <3>1, NewHeader
  <2> QED
    BY <2>1 DEF NestStartIn
<1>4. Begins(y, First(m))
  BY <1>1, <1>3, StillBegins
<1> QED
  BY <1>2, <1>4, OneMessage DEF NestStart

LEMMA NestEndInv ==
  ASSUME MsgInv, NEW m \in Messages, NestEnd(m)
  PROVE  MsgInv'
<1> DEFINE x == msgs[m]
           y == NestEndIn(x)
<1>1. Good(x) /\ Begins(x, First(m)) /\ x.open # <<>>
  BY DEF MsgInv, NestEnd
<1>2. Good(y)
  BY <1>1, NestEndIsGood
<1>3. Begins(y, First(m))
  BY <1>1 DEF NestEndIn, Written, Begins
<1> QED
  BY <1>2, <1>3, OneMessage DEF NestEnd

LEMMA PutNestedInv ==
  ASSUME MsgInv, NEW m \in Messages, NEW type \in Nests, NEW b \in Blocks,
         PutNested(m, type, b)
  PROVE  MsgInv'
<1> DEFINE x == msgs[m]
           y == PutNestedIn(x, type, msgs[b])
           without == [msgs EXCEPT ![b] = NlmsgAlloc]
<1>1. /\ b \in Messages /\ b # m /\ b # Request
      /\ phase = "build" /\ UNCHANGED phase
      /\ msgs[b].open = <<>> /\ DOMAIN msgs = Messages
  BY DEF Messages, PutNested, MsgInv
<1>2. /\ Good(x) /\ Begins(x, First(m)) /\ Good(msgs[b])
      /\ First(b) = NlmsgHdr /\ Begins(msgs[b], NlmsgHdr)
  BY <1>1 DEF MsgInv, First
<1>3. CASE ~NlaFits(x, msgs[b].len - NlmsgHdr)
  <2>1. msgs' = without
    BY <1>3 DEF PutNested
  <2> QED
    BY <1>1, <1>2, <2>1, AllocIsGood, OneMessage
<1>4. CASE NlaFits(x, msgs[b].len - NlmsgHdr)
  <2>1. msgs' = [msgs EXCEPT ![m] = y, ![b] = NlmsgAlloc]
    BY <1>4 DEF PutNested
  <2>2. Good(y) /\ Begins(y, First(m))
    BY <1>1, <1>2, <1>4, PutNestedIsGood, StillBegins
  <2> HIDE DEF y
  <2>3. /\ DOMAIN msgs' = Messages
        /\ msgs'[m] = y /\ msgs'[b] = NlmsgAlloc
        /\ \A k \in Messages \ {m, b} : msgs'[k] = msgs[k]
    BY <1>1, <2>1
  <2>4. \A k \in Messages : First(k)' = First(k)
    BY <1>1 DEF First
  <2>5. ASSUME NEW k \in Messages
        PROVE  Good(msgs'[k]) /\ Begins(msgs'[k], First(k)')
    <3>1. CASE k = m
      BY <2>2, <2>3, <2>4, <3>1
    <3>2. CASE k = b
      BY <1>2, <2>3, <2>4, <3>2, AllocIsGood
    <3>3. CASE k \notin {m, b}
      BY <2>3, <2>4, <3>3 DEF MsgInv
    <3> QED
      BY <3>1, <3>2, <3>3
  <2> QED
    BY <1>1, <2>3, <2>5 DEF MsgInv
<1> QED
  BY <1>3, <1>4

LEMMA GenlmsgPutInv ==
  ASSUME MsgInv, GenlmsgPut
  PROVE  MsgInv'
<1> DEFINE y == Reserved(NlmsgAlloc, GenlHdr)
<1>1. /\ phase = "alloc" /\ phase' = "build" /\ DOMAIN msgs = Messages
      /\ msgs[Request] = NlmsgAlloc /\ Request \in Messages
      /\ msgs' = [msgs EXCEPT ![Request] = y]
  BY DEF GenlmsgPut, MsgInv, Messages
<1>2. Good(y) /\ Begins(y, NlmsgHdr + GenlHdr)
  BY ReservedIsGood
<1> HIDE DEF y
<1>3. /\ DOMAIN msgs' = Messages /\ msgs'[Request] = y
      /\ \A k \in Messages : k # Request => msgs'[k] = msgs[k]
  BY <1>1
<1>4. /\ First(Request)' = NlmsgHdr + GenlHdr
      /\ \A k \in Messages : k # Request => First(k)' = First(k)
  BY <1>1 DEF First
<1>5. ASSUME NEW k \in Messages
      PROVE  Good(msgs'[k]) /\ Begins(msgs'[k], First(k)')
  <2>1. CASE k = Request
    BY <1>2, <1>3, <1>4, <2>1
  <2>2. CASE k # Request
    BY <1>3, <1>4, <2>2 DEF MsgInv
  <2> QED
    BY <2>1, <2>2
<1> QED
  BY <1>1, <1>3, <1>5 DEF MsgInv

LEMMA MsgStepInv ==
  ASSUME MsgInv, [MsgNext]_msgVars
  PROVE  MsgInv'
<1>1. CASE GenlmsgPut
  BY <1>1, GenlmsgPutInv
<1>2. ASSUME phase = "build", phase' # "alloc", UNCHANGED msgs
      PROVE  MsgInv' <=> phase' \in {"alloc", "build", "sent", "given up"}
  <2>1. \A k \in Messages : First(k)' = First(k)
    BY <1>2 DEF First
  <2> QED
    BY <1>2, <2>1 DEF MsgInv
<1>3. CASE Send
  BY <1>2, <1>3 DEF Send
<1>4. ASSUME NEW m \in Messages, NEW n \in Payloads, PutFailure(m, n)
      PROVE  MsgInv'
  BY <1>2, <1>4 DEF PutFailure
<1>5. CASE UNCHANGED msgVars
  <2>1. \A k \in Messages : First(k)' = First(k)
    BY <1>5 DEF First, msgVars
  <2> QED
    BY <1>5, <2>1 DEF MsgInv, msgVars
<1> QED
  BY <1>1, <1>3, <1>4, <1>5, NlaPutInv, NestStartInv, NestEndInv, PutNestedInv
     DEF MsgNext

\* MsgInv is an invariant: every message is well formed between any two calls.
THEOREM MsgInvariance == MsgSpec => []MsgInv
BY MsgInitInv, MsgStepInv, PTL DEF MsgSpec

\* The attributes lie within the message, each with a header that was written,
\* and no nla_len is cut to 16 bits.
THEOREM MsgTypeCorrect == MsgSpec => []MsgTypeOK
<1>1. MsgInv => MsgTypeOK
  <2> SUFFICES ASSUME MsgInv, NEW m \in Messages
               PROVE  /\ msgs[m].len \in NlmsgHdr..Size
                      /\ DOMAIN msgs[m].mem \subseteq 0..Size
                      /\ \A o \in DOMAIN msgs[m].mem : msgs[m].mem[o] \in Header
                      /\ \A i \in DOMAIN msgs[m].open :
                           msgs[m].open[i] \in DOMAIN msgs[m].mem
    BY DEF MsgInv, MsgTypeOK
  <2>1. Good(msgs[m])
    BY DEF MsgInv
  <2>2. msgs[m].len \in NlmsgHdr..Size
    BY <2>1 DEF Good, Sized
  <2>3. \A o \in DOMAIN msgs[m].mem : o \in 0..Size /\ msgs[m].mem[o] \in Header
    BY <2>1, <2>2, SizeIsNat DEF Good, Headers
  <2>4. \A i \in DOMAIN msgs[m].open : msgs[m].open[i] \in DOMAIN msgs[m].mem
    BY <2>1 DEF Good, Stack
  <2> QED
    BY <2>2, <2>3, <2>4
<1> QED
  BY <1>1, MsgInvariance, PTL

\* However a command builds its messages, a walk over the attributes of any of
\* them, or of any nest, meets only headers that were written and stops exactly
\* at the end.
THEOREM WalksAreSound == MsgSpec => []StreamsAreSound
<1>1. MsgInv => StreamsAreSound
  <2> SUFFICES ASSUME MsgInv, NEW m \in Messages
               PROVE  /\ msgs[m].len <= Size
                      /\ First(m) \in DOMAIN msgs[m].mem \union {msgs[m].len}
                      /\ StreamSound(msgs[m])
    BY DEF StreamsAreSound
  <2>1. Good(msgs[m]) /\ Begins(msgs[m], First(m))
    BY DEF MsgInv
  <2> QED
    BY <2>1, SizeIsNat DEF Good, Sized, Begins
<1> QED
  BY <1>1, MsgInvariance, PTL
=============================================================================
