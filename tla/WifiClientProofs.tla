-------------------------- MODULE WifiClientProofs --------------------------
(***************************************************************************)
(* WifiClient for any families, interfaces, stations and attributes, and   *)
(* any size of the receive buffer.  The invariant says how far the answer  *)
(* to the request in progress has got: what is on its way, and that wifi_  *)
(* holds the last value of each field among the items already handled.     *)
(***************************************************************************)
EXTENDS WifiClient, NlSocketProofs

Busy == {"resolve", "interfaces", "stations"}
Waiting == {"interfaces", "stations"}

\* The request in progress will not be answered with a dump.
Failed == fault \in {"refused", "unsent"}

WifiTypeOK ==
  /\ SockTypeOK
  /\ interfaces \in Worlds
  /\ pc \in Busy \union {"start", "ready", "gone", "undefined"}
  /\ rx.at # "out" => pc \in Busy
  /\ result \in {"none", "ok"}
  /\ wifi \in [Fields -> Items \union {NoItem}]
  /\ fault \in {"none", "cut", "refused", "unsent"}

\* What a message on its way can be.
Expected(m) ==
  /\ m.seq # 0
  /\ Failed => m.type = "ERR"
  /\ ~Failed => m.type = "DONE" \/ (m.type = "DATA" /\ m.multi)

AllExpected == \A i \in Places : \A k \in 1..Len(Line(i)) : Expected(Line(i)[k])

Stage ==
  /\ AllExpected
  /\ pc \in {"start", "ready", "gone"} => seqExpect = seqNext
  /\ pc \in Busy => seqExpect >= seqNext - 1
  /\ Failed => /\ dump = NoDump
               /\ pc \in Busy \union {"undefined"}
               /\ pc \in Waiting => result = "none"
               /\ pc = "resolve" => /\ rx.at = "parse" => rx.buf # <<>>
                                    /\ rx.at = "out" => rx.ret = "fail"
  /\ ~Failed => /\ pc = "resolve" =>
                     /\ rx.at = "parse" /\ seqExpect # seqNext => rx.multi \/ rx.buf # <<>>
                     /\ rx.at = "out" /\ rx.ret = "ok" => seqExpect = seqNext
                /\ pc \in Waiting => (result = "ok" <=> seqExpect = seqNext)

\* Value v is that of the last of the first g items that has the attribute.
IsLast(f, items, g, v) ==
  \/ /\ v = NoItem
     /\ \A i \in 1..g : f \notin Has[items[i]]
  \/ \E i \in 1..g : /\ f \in Has[items[i]]
                     /\ v = items[i]
                     /\ \A j \in 1..g : f \in Has[items[j]] => j <= i

\* What the kernel sends of these items: all, or, if it fails, the first.
Sent(items) ==
  {items} \union (IF fault = "none" THEN {}
                  ELSE {SubSeq(items, 1, k) : k \in 0..Len(items)})

\* The dump of these items is being waited for, or has ended: its first g
\* items have been handled, and the others are on their way.
Showing(items, fields) ==
  \E its \in Sent(items) : \E g \in 0..Len(its) :
    /\ result = "none" => Flow(seqNext - 1, its, g)
    /\ result = "ok" => g = Len(its)
    /\ \A f \in fields : IsLast(f, its, g, wifi[f])

InterfacesShown ==
  \A f \in InterfaceFields : IsLast(f, interfaces, Len(interfaces), wifi[f])

Shown ==
  /\ pc \in {"start", "resolve"} => \A f \in Fields : wifi[f] = NoItem
  /\ pc = "interfaces" /\ ~Failed =>
       /\ \A f \in StationFields : wifi[f] = NoItem
       /\ Showing(interfaces, InterfaceFields)
  /\ pc = "stations" /\ ~Failed =>
       /\ wifi["ifindex"] \in AllInterfaces
       /\ fault = "none" => InterfacesShown
       /\ Showing(StationsOf[wifi["ifindex"]], StationFields)
  /\ pc \in {"ready", "gone"} /\ fault = "none" =>
       /\ InterfacesShown
       /\ IF wifi["ifindex"] = NoItem THEN \A f \in StationFields : wifi[f] = NoItem
          ELSE /\ wifi["ifindex"] \in AllInterfaces
               /\ \A f \in StationFields :
                    IsLast(f, StationsOf[wifi["ifindex"]],
                           Len(StationsOf[wifi["ifindex"]]), wifi[f])

WifiInv == WifiTypeOK /\ Ordered /\ Stage /\ Shown

-----------------------------------------------------------------------------
(* The socket.                                                             *)

LEMMA CallbacksArePlain == Plainly(Cb)
  BY DEF Plainly, Cb, PickupCb, WaitCb

\* The first items of a sequence.
LEMMA FirstItems ==
  ASSUME NEW items \in Seq(Items), NEW k \in 0..Len(items)
  PROVE  /\ SubSeq(items, 1, k) \in Seq(Items) /\ Len(SubSeq(items, 1, k)) = k
         /\ \A i \in 1..k : SubSeq(items, 1, k)[i] = items[i]
<1>1. \A i \in 1..k : items[i] \in Items
  BY ElementOfSeq
<1>2. k \in Int /\ 1 \in Int /\ k >= 0
  OBVIOUS
<1>3. /\ SubSeq(items, 1, k) \in Seq(Items)
      /\ Len(SubSeq(items, 1, k)) = IF 1 <= k THEN k - 1 + 1 ELSE 0
      /\ \A i \in 1..k-1+1 : SubSeq(items, 1, k)[i] = items[1 + i - 1]
  BY <1>1, <1>2, SubSeqProperties
<1> QED
  BY <1>2, <1>3

\* A dump is requested: the socket's variables, and what comes of it.
LEMMA DumpRequested ==
  ASSUME SockTypeOK, Ordered, NEW at, NEW items \in Seq(Items), RequestDump(at, items)
  PROVE  /\ SockTypeOK' /\ Ordered'
         /\ pc' = at /\ result' = "none" /\ seqExpect' = seqExpect
         /\ seqNext' = seqNext + 1 /\ TakeSeq
         /\ rx'.at = "read" /\ rx'.buf = <<>>
         /\ \/ StartDump(seqNext, items) /\ fault' = fault
            \/ \E k \in 0..Len(items) :
                 StartDump(seqNext, SubSeq(items, 1, k)) /\ fault' = "cut"
            \/ Refuse(seqNext) /\ fault' = "refused"
<1>1. /\ pc' = at /\ result' = "none" /\ seqExpect' = seqExpect /\ TakeSeq
      /\ seqNext' = seqNext + 1 /\ rx' = Called
  BY DEF RequestDump, TakeSeq
<1>2. rx'.at = "read" /\ rx'.buf = <<>>
  BY <1>1 DEF Called
<1>3. \/ StartDump(seqNext, items) /\ fault' = fault
      \/ \E k \in 0..Len(items) :
           StartDump(seqNext, SubSeq(items, 1, k)) /\ fault' = "cut"
      \/ Refuse(seqNext) /\ fault' = "refused"
  BY DEF RequestDump
<1>4. \/ Refuse(seqNext)
      \/ \E its \in Seq(Items) : Answer(seqNext, its) \/ StartDump(seqNext, its)
  BY <1>3, FirstItems
<1> QED
  BY <1>1, <1>2, <1>3, <1>4, SendKeepsType, SendKeepsOrdered

LEMMA RequestIsLost ==
  ASSUME SockTypeOK, Ordered, NEW at, RequestLost(at)
  PROVE  /\ SockTypeOK' /\ Ordered'
         /\ pc' = at /\ result' = "none" /\ fault' = "unsent"
         /\ seqNext' = seqNext + 1 /\ UNCHANGED <<seqExpect, queue, dump>>
         /\ rx'.at = "read" /\ rx'.buf = <<>>
<1>1. /\ pc' = at /\ result' = "none" /\ fault' = "unsent" /\ rx' = Called
      /\ seqNext' = seqNext + 1 /\ UNCHANGED <<seqExpect, queue, overrun, dump>>
  BY DEF RequestLost, TakeSeq
<1>2. rx'.at = "read" /\ rx'.buf = <<>> /\ Called \in RxStates
  <2>1. <<>> \in Datagrams
    BY EmptySeq DEF Datagrams
  <2> QED
    BY <1>1, <2>1 DEF Called, RxStates
<1>3. SockTypeOK'
  BY <1>1, <1>2 DEF SockTypeOK
<1>4. Ordered'
  <2>1. PICK ds : ds = <<>>
    OBVIOUS
  <2>2. PICK n : n = 0
    OBVIOUS
  <2>3. PICK s : s = seqNext
    OBVIOUS
  <2>4. Len(ds) \in Nat /\ n \in 0..Len(ds) /\ Len(queue) \in Nat
    BY <2>1, <2>2, LinesAreDatagrams
  <2>5. Fresh(ds, s)
    BY <2>1 DEF Fresh
  <2>6. Grows(ds, n)
    BY <1>1, <2>2, <2>4 DEF Grows
  <2>7. s \in {0, seqNext} /\ seqNext' = (IF s = 0 THEN seqNext ELSE seqNext + 1)
    BY <1>1, <2>3 DEF SockTypeOK
  <2> QED
    BY <1>1, <1>2, <2>4, <2>5, <2>6, <2>7, GrowthKeepsOrdered
<1> QED
  BY <1>1, <1>2, <1>3, <1>4

\* What AskStations asks for.
LEMMA StationsAreItems ==
  ASSUME NEW i \in AllInterfaces
  PROVE  /\ StationsOf[i] \in Seq(Items)
         /\ \A k \in 1..Len(StationsOf[i]) : StationsOf[i][k] \in AllStations
  BY StationsAssumption DEF AllStations, ItemSet

LEMMA InterfacesAreItems ==
  ASSUME WifiTypeOK
  PROVE  /\ interfaces \in Seq(Items)
         /\ \A k \in 1..Len(interfaces) : interfaces[k] \in AllInterfaces
  BY WorldsAssumption DEF WifiTypeOK, AllInterfaces, ItemSet

LEMMA IdleSocket ==
  ASSUME SockTypeOK, Ordered, Call \/ ReadOverrun \/ EndOfDatagram
  PROVE  /\ SockTypeOK' /\ Ordered' /\ rx'.buf = <<>> /\ rx.buf = <<>>
         /\ UNCHANGED <<seqNext, seqExpect, queue, dump>>
         /\ rx'.at # "parse"
<1>1. /\ rx'.buf = <<>> /\ UNCHANGED <<seqNext, seqExpect, queue, dump>>
      /\ rx'.at # "parse" /\ rx.buf = <<>>
  <2>1. CASE Call
    BY <2>1 DEF Call, Called, Ordered
  <2>2. CASE ReadOverrun
    BY <2>2, ReturnedFields DEF ReadOverrun, Ordered
  <2>3. CASE EndOfDatagram
    BY <2>3, ReturnedFields DEF EndOfDatagram, SockTypeOK, RxStates
  <2> QED
    BY <2>1, <2>2, <2>3
<1> QED
  BY <1>1, OthersKeepType, IdleKeepsOrdered

LEMMA SocketStays ==
  ASSUME SockTypeOK, Ordered, UNCHANGED sockVars
  PROVE  SockTypeOK' /\ Ordered'
<1>1. /\ seqNext' = seqNext /\ seqExpect' = seqExpect /\ queue' = queue
      /\ overrun' = overrun /\ dump' = dump /\ rx' = rx
  BY DEF sockVars
<1> QED
  BY <1>1 DEF SockTypeOK, Ordered, Uniform, Current, Closes, Line, Places

-----------------------------------------------------------------------------
(* What a message does to the program.                                     *)

LEMMA ParsingStray ==
  ASSUME SockTypeOK, Ordered, Parsing, rx.buf[1].seq # seqExpect
  PROVE  /\ rx.at = "parse" /\ rx.buf # <<>> /\ rx'.at = "out" /\ rx'.buf = <<>>
         /\ rx'.ret = "fail" /\ UNCHANGED <<seqNext, seqExpect, queue, dump>>
         /\ UNCHANGED <<interfaces, pc, result, wifi, fault>>
<1>0. PICK m : m = rx.buf[1]
  OBVIOUS
<1>1. Parse(Cb) /\ Plainly(Cb)
  BY CallbacksArePlain DEF Parsing
<1>2. /\ rx.at = "parse" /\ rx.buf # <<>> /\ rx' = Returned("fail")
      /\ UNCHANGED <<seqNext, seqExpect, queue, dump>>
      /\ \A slot \in Slots : ~Handles(Cb, slot)
  <2>1. m.seq # seqExpect
    BY <1>0
  <2>2. rx.at = "parse" /\ rx.buf # <<>>
    BY <1>1 DEF Parse
  <2>3. rx' = Returned("fail") /\ UNCHANGED <<seqNext, seqExpect, queue, dump>>
    BY <1>0, <1>1, <2>1, ParseFacts
  <2>4. \A slot \in Slots : ~Handles(Cb, slot)
    BY <1>0, <1>1, <2>1, ParseFacts
  <2> QED
    BY <2>2, <2>3, <2>4
<1>3. ~Handles(Cb, "VALID") /\ ~Handles(Cb, "FINISH")
  BY <1>2 DEF Slots
<1>4. UNCHANGED <<interfaces, pc, result, wifi, fault>>
  BY <1>3 DEF Parsing
<1> QED
  BY <1>2, <1>4, ReturnedFields

LEMMA ParsingExpected ==
  ASSUME SockTypeOK, Ordered, Parsing, NEW m, m = rx.buf[1], m.seq = seqExpect,
         m.type \in {"DATA", "DONE", "ERR"}
  PROVE  /\ rx.at = "parse" /\ rx.buf # <<>> /\ m.seq < seqNext
         /\ m.type = "DATA" => m.item \in Items
         /\ UNCHANGED <<seqNext, queue, dump>> /\ UNCHANGED <<interfaces, pc, fault>>
         /\ seqExpect' = IF m.type = "DATA" THEN seqExpect ELSE seqExpect + 1
         /\ m.type \in {"DATA", "DONE"} =>
              rx'.at = "parse" /\ rx'.buf = Tail(rx.buf)
         /\ m.type = "DATA" =>
              /\ result' = result /\ rx'.multi = (rx.multi \/ m.multi)
              /\ wifi' = IF pc = "resolve" THEN wifi
                         ELSE [f \in Fields |-> IF f \in Has[m.item] THEN m.item
                                                ELSE wifi[f]]
         /\ m.type # "DATA" => wifi' = wifi
         /\ m.type = "DONE" =>
              result' = IF pc = "resolve" THEN result ELSE "ok"
         /\ m.type = "ERR" =>
              /\ result' = result
              /\ rx'.at = "out" /\ rx'.buf = <<>> /\ rx'.ret = "fail"
<1>1. Parse(Cb) /\ Plainly(Cb)
  BY CallbacksArePlain DEF Parsing
<1>2. /\ rx.at = "parse" /\ rx.buf # <<>> /\ Head(rx.buf) = m
      /\ UNCHANGED <<seqNext, queue, dump>>
      /\ m.type = "DATA" => m.item \in Items
      /\ m.seq = 0 \/ m.seq < seqNext
      /\ seqExpect' = IF m.type = "DATA" THEN seqExpect ELSE seqExpect + 1
      /\ \A slot \in Slots :
                   Handles(Cb, slot) <=> slot \in DOMAIN Cb /\ SlotOf[m.type] = slot
      /\ \/ Dispatched(Cb, m) = "FAIL" /\ rx' = Returned("fail")
         \/ Dispatched(Cb, m) = "STOP" /\ rx' = Returned("ok")
         \/ /\ Dispatched(Cb, m) \notin {"FAIL", "STOP"}
            /\ rx'.at = "parse" /\ rx'.buf = Tail(rx.buf) /\ rx'.ret = rx.ret
            /\ rx'.multi = IF m.type = "DONE" THEN FALSE ELSE rx.multi \/ m.multi
  BY <1>1, ParseFacts
<1>3. m.seq < seqNext
  BY <1>2 DEF SockTypeOK
<1>4. /\ DOMAIN Cb = IF pc = "resolve" THEN {"VALID"} ELSE {"VALID", "FINISH"}
      /\ Cb["VALID"] = IF pc = "resolve" THEN "OK" ELSE "SKIP"
      /\ "FINISH" \in DOMAIN Cb => Cb["FINISH"] = "SKIP"
  BY DEF Cb, PickupCb, WaitCb
<1>5. /\ Handles(Cb, "VALID") <=> m.type = "DATA"
      /\ Handles(Cb, "FINISH") <=> pc # "resolve" /\ m.type = "DONE"
  <2>1. "VALID" \in Slots /\ "FINISH" \in Slots
    BY DEF Slots
  <2> QED
    BY <1>2, <1>4, <2>1 DEF SlotOf
<1>6. /\ m.type \in {"DATA", "DONE"} => Dispatched(Cb, m) \in {"OK", "SKIP"}
      /\ m.type = "ERR" => Dispatched(Cb, m) = "FAIL"
  BY <1>4 DEF Dispatched, CallOr, SlotOf, CodeOf
<1>7. /\ UNCHANGED <<interfaces, pc, fault>>
      /\ result' = IF pc # "resolve" /\ m.type = "DONE" THEN "ok" ELSE result
      /\ wifi' = IF m.type = "DATA" /\ pc # "resolve"
                 THEN [f \in Fields |-> IF f \in Has[m.item] THEN m.item
                                        ELSE wifi[f]]
                 ELSE wifi
  BY <1>2, <1>5 DEF Parsing
<1>8. m.type \in {"DATA", "DONE"} => /\ rx'.at = "parse" /\ rx'.buf = Tail(rx.buf)
                                     /\ m.type = "DATA" => rx'.multi = (rx.multi \/ m.multi)
  BY <1>2, <1>6
<1>9. m.type = "ERR" => rx'.at = "out" /\ rx'.buf = <<>> /\ rx'.ret = "fail"
  <2>1. m.type = "ERR" => rx' = Returned("fail")
    BY <1>2, <1>6
  <2> QED
    BY <2>1, ReturnedFields
<1> QED
  BY <1>2, <1>3, <1>7, <1>8, <1>9

-----------------------------------------------------------------------------
(* What is shown.                                                          *)

\* A dump that is cut short has no other items than the whole one.
LEMMA SentItems ==
  ASSUME NEW items \in Seq(Items), NEW its \in Sent(items)
  PROVE  /\ its \in Seq(Items) /\ Len(its) \in Nat
         /\ \A i \in 1..Len(its) : i \in 1..Len(items) /\ its[i] = items[i]
         /\ fault = "none" => its = items
<1>1. CASE its = items
  BY <1>1
<1>2. CASE its # items
  <2>1. PICK k \in 0..Len(items) : its = SubSeq(items, 1, k) /\ fault # "none"
    BY <1>2 DEF Sent
  <2>2. its \in Seq(Items) /\ Len(its) = k /\ \A i \in 1..k : its[i] = items[i]
    BY <2>1, FirstItems
  <2> QED
    BY <2>1, <2>2
<1> QED
  BY <1>1, <1>2

LEMMA NothingIsLast ==
  ASSUME NEW f, NEW items
  PROVE  IsLast(f, items, 0, NoItem)
  BY DEF IsLast

\* One more item is handled.
LEMMA NextIsLast ==
  ASSUME NEW f, NEW items, NEW g \in Nat, NEW v, IsLast(f, items, g, v)
  PROVE  IsLast(f, items, g + 1,
                IF f \in Has[items[g + 1]] THEN items[g + 1] ELSE v)
<1>1. CASE f \in Has[items[g + 1]]
  <2>1. g + 1 \in 1..(g + 1) /\ \A j \in 1..(g + 1) : j <= g + 1
    OBVIOUS
  <2> QED
    BY <1>1, <2>1 DEF IsLast
<1>2. CASE f \notin Has[items[g + 1]]
  <2>1. \A i \in 1..(g + 1) : i = g + 1 \/ i \in 1..g
    OBVIOUS
  <2>2. \A i \in 1..g : i \in 1..(g + 1)
    OBVIOUS
  <2>3. IsLast(f, items, g + 1, v)
    <3>1. CASE v = NoItem /\ \A i \in 1..g : f \notin Has[items[i]]
      BY <1>2, <2>1, <3>1 DEF IsLast
    <3>2. CASE \E i \in 1..g : /\ f \in Has[items[i]]
                               /\ v = items[i]
                               /\ \A j \in 1..g : f \in Has[items[j]] => j <= i
      <4>1. PICK i \in 1..g : /\ f \in Has[items[i]]
                              /\ v = items[i]
                              /\ \A j \in 1..g : f \in Has[items[j]] => j <= i
        BY <3>2
      <4>2. \A j \in 1..(g + 1) : f \in Has[items[j]] => j <= i
        BY <1>2, <2>1, <4>1
      <4> QED
        BY <2>2, <4>1, <4>2 DEF IsLast
    <3> QED
      BY <3>1, <3>2 DEF IsLast
  <2> QED
    BY <1>2, <2>3
<1> QED
  BY <1>1, <1>2

LEMMA LastIsLastWith ==
  ASSUME NEW f, NEW items, Len(items) \in Nat, NEW v, IsLast(f, items, Len(items), v)
  PROVE  v = LastWith(f, items)
<1> DEFINE with == {i \in 1..Len(items) : f \in Has[items[i]]}
           last == CHOOSE i \in with : \A j \in with : j <= i
<1>1. CASE v = NoItem /\ \A i \in 1..Len(items) : f \notin Has[items[i]]
  <2>1. with = {}
    BY <1>1
  <2> QED
    BY <1>1, <2>1 DEF LastWith
<1>2. CASE \E i \in 1..Len(items) :
             /\ f \in Has[items[i]]
             /\ v = items[i]
             /\ \A j \in 1..Len(items) : f \in Has[items[j]] => j <= i
  <2>1. PICK i \in 1..Len(items) :
             /\ f \in Has[items[i]]
             /\ v = items[i]
             /\ \A j \in 1..Len(items) : f \in Has[items[j]] => j <= i
    BY <1>2
  <2>2. i \in with /\ \A j \in with : j <= i
    BY <2>1
  <2>3. last \in with /\ \A j \in with : j <= last
    BY <2>2
  <2>4. last = i
    <3>1. last \in 1..Len(items)
      BY <2>3
    <3>2. last <= i /\ i <= last
      BY <2>2, <2>3
    <3> QED
      BY <3>1, <3>2
  <2>5. with # {}
    BY <2>2
  <2>6. LastWith(f, items) = IF with = {} THEN NoItem ELSE items[last]
    BY DEF LastWith
  <2> QED
    BY <2>1, <2>4, <2>5, <2>6
<1> QED
  BY <1>1, <1>2 DEF IsLast

\* The index kept is that of an interface.
LEMMA NotedInterface ==
  ASSUME WifiTypeOK, Shown, pc = "interfaces", ~Failed, wifi["ifindex"] # NoItem
  PROVE  wifi["ifindex"] \in AllInterfaces
<1>1. PICK its \in Sent(interfaces) : \E g \in 0..Len(its) :
        \A f \in InterfaceFields : IsLast(f, its, g, wifi[f])
  BY DEF Shown, Showing
<1>2. PICK g \in 0..Len(its) : \A f \in InterfaceFields : IsLast(f, its, g, wifi[f])
  BY <1>1
<1>3. IsLast("ifindex", its, g, wifi["ifindex"])
  BY <1>2 DEF InterfaceFields
<1>4. PICK i \in 1..g : wifi["ifindex"] = its[i]
  BY <1>3 DEF IsLast
<1>5. i \in 1..Len(interfaces) /\ its[i] = interfaces[i]
  BY <1>1, <1>2, <1>4, SentItems, InterfacesAreItems
<1> QED
  BY <1>4, <1>5, InterfacesAreItems

-----------------------------------------------------------------------------
(* Types.                                                                  *)

\* Requests, the first on a socket in step.
LEMMA Asking ==
  ASSUME WifiTypeOK, Ordered, Stage, Shown, Resolve \/ AskInterfaces \/ AskStations
  PROVE  /\ seqExpect = seqNext /\ ~Failed
         /\ UNCHANGED <<interfaces, cache, wifi>>
         /\ \/ Resolve /\ RequestDump("resolve", Families)
            \/ /\ AskInterfaces
               /\ RequestDump("interfaces", interfaces) \/ RequestLost("interfaces")
            \/ /\ AskStations /\ wifi["ifindex"] \in AllInterfaces
               /\ \/ RequestDump("stations", StationsOf[wifi["ifindex"]])
                  \/ RequestLost("stations")
<1>1. CASE Resolve
  <2>1. pc = "start" /\ RequestDump("resolve", Families)
        /\ UNCHANGED <<interfaces, cache, wifi>>
    BY <1>1 DEF Resolve
  <2>2. seqExpect = seqNext /\ ~Failed
    BY <2>1 DEF Stage, Busy
  <2> QED
    BY <1>1, <2>1, <2>2
<1>2. CASE AskInterfaces
  <2>1. /\ pc = "resolve" /\ rx.at = "out" /\ rx.ret = "ok"
        /\ RequestDump("interfaces", interfaces) \/ RequestLost("interfaces")
        /\ UNCHANGED <<interfaces, cache, wifi>>
    BY <1>2 DEF AskInterfaces
  <2>2. ~Failed
    BY <2>1 DEF Stage
  <2>3. seqExpect = seqNext
    BY <2>1, <2>2 DEF Stage
  <2> QED
    BY <1>2, <2>1, <2>2, <2>3
<1>3. CASE AskStations
  <2>1. /\ pc = "interfaces" /\ result = "ok" /\ wifi["ifindex"] # NoItem
        /\ \/ RequestDump("stations", StationsOf[wifi["ifindex"]])
           \/ RequestLost("stations")
        /\ UNCHANGED <<interfaces, cache, wifi>>
    BY <1>3 DEF AskStations
  <2>2. ~Failed
    BY <2>1 DEF Stage, Waiting
  <2>3. seqExpect = seqNext
    BY <2>1, <2>2 DEF Stage, Waiting
  <2>4. wifi["ifindex"] \in AllInterfaces
    BY <2>1, <2>2, NotedInterface
  <2> QED
    BY <1>3, <2>1, <2>2, <2>3, <2>4
<1> QED
  BY <1>1, <1>2, <1>3

\* What every request does.
LEMMA AskingSocket ==
  ASSUME WifiTypeOK, Ordered, Stage, Shown, Resolve \/ AskInterfaces \/ AskStations
  PROVE  /\ SockTypeOK' /\ Ordered' /\ pc' \in Busy /\ result' = "none"
         /\ pc' = "resolve" <=> Resolve
         /\ seqExpect' = seqExpect /\ seqNext' = seqNext + 1
         /\ rx'.at = "read" /\ rx'.buf = <<>>
         /\ fault' \in {"none", "cut", "refused", "unsent"}
<1>0. SockTypeOK /\ fault \in {"none", "cut", "refused", "unsent"}
  BY DEF WifiTypeOK
<1>1. ASSUME NEW at \in Busy, NEW items \in Seq(Items),
             RequestDump(at, items) \/ RequestLost(at)
      PROVE  /\ SockTypeOK' /\ Ordered' /\ pc' = at /\ result' = "none"
             /\ seqExpect' = seqExpect /\ seqNext' = seqNext + 1
             /\ rx'.at = "read" /\ rx'.buf = <<>>
             /\ fault' \in {"none", "cut", "refused", "unsent"}
  <2>1. CASE RequestDump(at, items)
    BY <1>0, <2>1, DumpRequested
  <2>2. CASE RequestLost(at)
    BY <1>0, <2>2, RequestIsLost
  <2> QED
    BY <1>1, <2>1, <2>2
<1>2. {"resolve", "interfaces", "stations"} \subseteq Busy
  BY DEF Busy
<1>3. CASE Resolve /\ RequestDump("resolve", Families)
  BY <1>1, <1>2, <1>3, FamiliesAssumption
<1>4. CASE AskInterfaces /\ (RequestDump("interfaces", interfaces) \/ RequestLost("interfaces"))
  <2>1. pc = "resolve"
    BY <1>4 DEF AskInterfaces
  <2> QED
    BY <1>1, <1>2, <1>4, <2>1, InterfacesAreItems DEF Resolve
<1>5. CASE /\ AskStations /\ wifi["ifindex"] \in AllInterfaces
           /\ \/ RequestDump("stations", StationsOf[wifi["ifindex"]])
              \/ RequestLost("stations")
  <2>1. pc = "interfaces"
    BY <1>5 DEF AskStations
  <2> QED
    BY <1>1, <1>2, <1>5, <2>1, StationsAreItems DEF Resolve
<1> QED
  BY <1>3, <1>4, <1>5, Asking

\* A message: what it does to the types, and to wifi_.
LEMMA ParsedWifi ==
  ASSUME WifiTypeOK, Ordered, Stage, Parsing
  PROVE  /\ UNCHANGED <<interfaces, pc, fault>> /\ result' \in {result, "ok"}
         /\ wifi' \in [Fields -> Items \union {NoItem}]
         /\ rx.at = "parse" /\ rx.buf # <<>> /\ pc \in Busy
         /\ Expected(rx.buf[1])
         /\ rx.buf[1].seq = seqExpect => rx.buf[1].type \in {"DATA", "DONE", "ERR"}
<1>0. SockTypeOK /\ wifi \in [Fields -> Items \union {NoItem}]
  BY DEF WifiTypeOK
<1>1. /\ UNCHANGED <<interfaces, pc, fault>> /\ result' \in {result, "ok"}
      /\ rx.at = "parse" /\ rx.buf # <<>>
  BY DEF Parsing, Parse
<1>2. pc \in Busy
  BY <1>1 DEF WifiTypeOK
<1>3. Expected(rx.buf[1])
  <2>1. 0 \in Places /\ Line(0) = rx.buf /\ 1 \in 1..Len(rx.buf)
    BY <1>0, <1>1, HeadOfBuf, LinesAreDatagrams DEF Places, Line
  <2> QED
    BY <2>1 DEF Stage, AllExpected
<1>4. wifi' \in [Fields -> Items \union {NoItem}]
  <2>1. PICK m : m = rx.buf[1]
    OBVIOUS
  <2>2. CASE m.seq # seqExpect
    BY <1>0, <2>1, <2>2, ParsingStray
  <2>3. CASE m.seq = seqExpect
    <3>1. m.type \in {"DATA", "DONE", "ERR"}
      BY <1>3, <2>1 DEF Expected
    <3>2. /\ m.type = "DATA" => m.item \in Items
          /\ m.type = "DATA" =>
              wifi' = IF pc = "resolve" THEN wifi
                      ELSE [f \in Fields |-> IF f \in Has[m.item] THEN m.item
                                             ELSE wifi[f]]
          /\ m.type # "DATA" => wifi' = wifi
      BY <1>0, <2>1, <2>3, <3>1, ParsingExpected
    <3> QED
      BY <1>0, <3>2
  <2> QED
    BY <2>2, <2>3
<1>5. rx.buf[1].type \in {"DATA", "DONE", "ERR"}
  BY <1>3 DEF Expected
<1> QED
  BY <1>1, <1>2, <1>3, <1>4, <1>5

LEMMA TypeStep ==
  ASSUME WifiTypeOK, Ordered, Stage, Shown, Next
  PROVE  WifiTypeOK' /\ Ordered'
<1>0. SockTypeOK
  BY DEF WifiTypeOK
<1>1. CASE Resolve \/ AskInterfaces \/ AskStations
  <2>1. /\ SockTypeOK' /\ Ordered' /\ pc' \in Busy /\ result' = "none"
        /\ fault' \in {"none", "cut", "refused", "unsent"}
    BY <1>1, AskingSocket
  <2>2. UNCHANGED <<interfaces, wifi>>
    BY <1>1, Asking
  <2> QED
    BY <2>1, <2>2 DEF WifiTypeOK
<1>2. CASE InitFails \/ Updated \/ Destroy
  <2>1. /\ UNCHANGED sockVars /\ UNCHANGED <<interfaces, result, wifi, fault>>
        /\ pc' \in {"undefined", "ready", "gone"}
        /\ rx.at = "out" \/ pc \in {"start", "ready"}
    BY <1>2 DEF InitFails, Updated, Destroy
  <2>2. rx'.at = "out"
    BY <2>1 DEF WifiTypeOK, Busy, sockVars
  <2> QED
    BY <1>0, <2>1, <2>2, SocketStays DEF WifiTypeOK
<1>3. CASE Again \/ Reading
  <2>1. UNCHANGED <<interfaces, pc, result, wifi, fault>>
    BY <1>3 DEF Again, Reading, progVars
  <2>2. pc \in Busy
    <3>1. CASE Again
      BY <3>1 DEF Again, Busy
    <3>2. CASE Reading
      BY <3>2 DEF Reading, Read, ReadOverrun, EndOfDatagram, WifiTypeOK
    <3> QED
      BY <1>3, <3>1, <3>2
  <2>3. SockTypeOK' /\ Ordered'
    BY <1>0, <1>3, IdleSocket, ReadKeepsType, ReadKeepsOrdered DEF Again, Reading
  <2> QED
    BY <2>1, <2>2, <2>3 DEF WifiTypeOK
<1>4. CASE Parsing
  <2>1. SockTypeOK' /\ Ordered'
    BY <1>0, <1>4, ParseKeepsType, PlainParseKeepsOrdered, CallbacksArePlain DEF Parsing
  <2> QED
    BY <1>4, <2>1, ParsedWifi DEF WifiTypeOK
<1> QED
  BY <1>1, <1>2, <1>3, <1>4 DEF Next, Program

-----------------------------------------------------------------------------
(* What is on its way.                                                     *)

LEMMA AllInLine ==
  AllExpected => \A x : InLine(x) => Expected(x)
  BY DEF AllExpected, InLine

LEMMA AllInLineNext ==
  ASSUME \A x : InLine(x)' => Expected(x)'
  PROVE  AllExpected'
  BY DEF AllExpected, InLine

LEMMA TakingKeepsExpected ==
  ASSUME SockTypeOK, AllExpected, UNCHANGED <<queue, fault>>,
         rx'.buf = <<>> \/ rx'.buf = rx.buf \/ (rx.buf # <<>> /\ rx'.buf = Tail(rx.buf))
  PROVE  AllExpected'
<1>1. ASSUME NEW x, InLine(x)'
      PROVE  Expected(x)'
  <2>1. Expected(x)
    BY <1>1, ParseLine, AllInLine
  <2> QED
    BY <2>1 DEF Expected, Failed
<1> QED
  BY <1>1, AllInLineNext

LEMMA ReadingKeepsExpected ==
  ASSUME SockTypeOK, Stage, Read, UNCHANGED fault
  PROVE  AllExpected'
<1>1. ASSUME NEW x, InLine(x)'
      PROVE  Expected(x)'
  <2>1. CASE InLine(x)
    <3>1. Expected(x)
      BY <2>1, AllInLine DEF Stage
    <3> QED
      BY <3>1 DEF Expected, Failed
  <2>2. CASE /\ dump.seq # 0 /\ x.seq = dump.seq /\ x.type \in {"DATA", "DONE"}
             /\ x.multi
    <3>1. ~Failed
      BY <2>2 DEF Stage, NoDump
    <3> QED
      BY <2>2, <3>1 DEF Expected, Failed
  <2> QED
    BY <1>1, <2>1, <2>2, ReadLine
<1> QED
  BY <1>1, AllInLineNext

\* In step nothing is on its way at all.
LEMMA InStepNothing ==
  ASSUME SockTypeOK, Ordered, AllExpected, seqExpect = seqNext
  PROVE  queue = <<>> /\ dump = NoDump /\ \A x : ~InLine(x)
<1>1. ASSUME NEW x, InLine(x) PROVE FALSE
  <2>1. x.seq = 0
    BY <1>1, InStepOnlyEvents DEF InLine
  <2>2. x.seq # 0
    BY <1>1, AllInLine DEF Expected
  <2> QED
    BY <2>1, <2>2
<1>2. queue = <<>>
  <2> SUFFICES ASSUME queue # <<>> PROVE FALSE
    OBVIOUS
  <2>1. queue \in Seq(Datagrams) /\ 1 \in 1..Len(queue) /\ 1 \in Places
    BY LinesAreDatagrams, EmptySeq DEF SockTypeOK, Places
  <2>2. Line(1) = queue[1] /\ queue[1] # <<>> /\ queue[1] \in Seq(Messages)
    BY <2>1, LinesAreDatagrams DEF Ordered, Line
  <2>3. 1 \in 1..Len(queue[1])
    BY <2>2, EmptySeq
  <2>4. InLine(queue[1][1])
    BY <2>1, <2>2, <2>3 DEF InLine
  <2> QED
    BY <1>1, <2>4
<1> QED
  BY <1>1, <1>2, InStepOnlyEvents

LEMMA SendingExpected ==
  ASSUME SockTypeOK, rx'.buf = <<>>, NEW ds, NEW n \in Nat, Grows(ds, n),
         \A x : ~InLine(x),
         \A j \in 1..n : \A k \in 1..Len(ds[j]) : Expected(ds[j][k])'
  PROVE  AllExpected'
<1>1. ASSUME NEW x, InLine(x)'
      PROVE  Expected(x)'
  <2>1. PICK j \in 1..n : \E k \in 1..Len(ds[j]) : x = ds[j][k]
    BY <1>1, GrowthLine
  <2>2. PICK k \in 1..Len(ds[j]) : x = ds[j][k]
    BY <2>1
  <2> QED
    BY <2>2
<1> QED
  BY <1>1, AllInLineNext

\* A dump is started, or refused, on a socket in step.
LEMMA DumpExpected ==
  ASSUME SockTypeOK, Ordered, AllExpected, seqExpect = seqNext, rx'.buf = <<>>,
         NEW items \in Seq(Items), StartDump(seqNext, items), ~Failed'
  PROVE  AllExpected'
<1>1. seqNext \in Nat \ {0}
  BY DEF SockTypeOK
<1>2. PICK b \in Batches([seq |-> seqNext, rest |-> items]) : Grows(<<b.datagram>>, 1)
  BY <1>1, StartDumpGrows
<1>3. ASSUME NEW j \in 1..1, NEW k \in 1..Len(<<b.datagram>>[j])
      PROVE  Expected(<<b.datagram>>[j][k])'
  <2>1. <<b.datagram>>[j] = b.datagram
    BY <1>3
  <2> DEFINE m == b.datagram[k]
  <2>2. m.type \in {"DATA", "DONE"} /\ m.multi /\ m.seq # 0
    BY <1>1, <1>3, <2>1, BatchMessages
  <2> HIDE DEF m
  <2>3. Expected(m)'
    BY <2>2 DEF Expected
  <2> QED
    BY <2>1, <2>3 DEF m
<1> QED
  BY <1>2, <1>3, InStepNothing, SendingExpected

LEMMA RefusalExpected ==
  ASSUME SockTypeOK, Ordered, AllExpected, seqExpect = seqNext, rx'.buf = <<>>,
         Refuse(seqNext), Failed'
  PROVE  AllExpected' /\ dump' = NoDump
<1>1. seqNext \in Nat \ {0} /\ dump = NoDump /\ dump.seq # seqNext
  BY InStepNothing DEF SockTypeOK, NoDump
<1>2. dump' = NoDump
  BY <1>1 DEF Refuse
<1>3. PICK ds \in Seq(Datagrams) : \E n \in 0..Len(ds) :
              /\ Fresh(ds, seqNext) /\ Grows(ds, n)
              /\ \A j \in 1..Len(ds) : \A k \in 1..Len(ds[j]) : ds[j][k].type = "ERR"
  BY <1>1, RefuseGrows
<1>4. PICK n \in 0..Len(ds) : Grows(ds, n)
  BY <1>3
<1>5. n \in Nat /\ 1..n \subseteq 1..Len(ds)
  OBVIOUS
<1>6. ASSUME NEW j \in 1..n, NEW k \in 1..Len(ds[j])
      PROVE  Expected(ds[j][k])'
  <2>1. j \in 1..Len(ds)
    BY <1>5
  <2> DEFINE m == ds[j][k]
  <2>2. m.type = "ERR" /\ m.seq = seqNext
    BY <1>3, <2>1 DEF Fresh, Uniform
  <2> HIDE DEF m
  <2>4. Expected(m)'
    BY <1>1, <2>2 DEF Expected
  <2> QED
    BY <2>4 DEF m
<1> QED
  BY <1>2, <1>4, <1>5, <1>6, InStepNothing, SendingExpected

-----------------------------------------------------------------------------
(* The stages.                                                             *)

LEMMA InitInv == Init => WifiInv
<1> SUFFICES ASSUME Init PROVE WifiInv
  OBVIOUS
<1>1. /\ seqNext = 1 /\ seqExpect = 1 /\ queue = <<>> /\ dump = NoDump
      /\ rx = NotCalled /\ rx.at = "out" /\ rx.buf = <<>>
  BY DEF Init, SockInit, NotCalled, Called
<1>2. SockTypeOK
  <2>1. <<>> \in Datagrams /\ <<>> \in Seq(Datagrams)
    BY EmptySeq DEF Datagrams
  <2>2. Called \in RxStates
    BY <2>1 DEF Called, RxStates
  <2>3. NotCalled \in RxStates
    BY <2>2 DEF NotCalled, RxStates
  <2>4. seqNext \in Nat \ {0} /\ seqExpect \in Nat \ {0}
    BY <1>1
  <2>5. queue \in Seq(Datagrams) /\ rx \in RxStates
    BY <1>1, <2>1, <2>3
  <2>6. dump \in [seq : Nat, rest : Seq(Items)]
    BY <1>1, NoDumpIsDump DEF Dumps
  <2>7. overrun \in BOOLEAN
    <3>1. overrun = FALSE
      BY DEF Init, SockInit
    <3> QED
      BY <3>1
  <2> QED
    BY <2>4, <2>5, <2>6, <2>7 DEF SockTypeOK
<1>3. Len(queue) = 0 /\ Places = {0} /\ Line(0) = <<>> /\ dump.seq = 0
  BY <1>1 DEF Places, Line, NoDump
<1>4. Ordered
  BY <1>1, <1>3, EmptyLine DEF Ordered
<1>5. /\ interfaces \in Worlds /\ pc = "start" /\ result = "none" /\ fault = "none"
      /\ wifi = [f \in Fields |-> NoItem]
  BY DEF Init
<1>6. WifiTypeOK
  BY <1>1, <1>2, <1>5 DEF WifiTypeOK
<1>7. Stage
  BY <1>1, <1>3, <1>5 DEF Stage, AllExpected, Failed, Busy, Waiting
<1>8. Shown
  BY <1>5 DEF Shown
<1> QED
  BY <1>4, <1>6, <1>7, <1>8 DEF WifiInv

LEMMA AskingStage ==
  ASSUME WifiTypeOK, Ordered, Stage, Shown, Resolve \/ AskInterfaces \/ AskStations
  PROVE  Stage'
<1>1. /\ SockTypeOK /\ AllExpected /\ seqNext \in Nat \ {0} /\ ~Failed /\ seqExpect = seqNext
  BY Asking DEF WifiTypeOK, SockTypeOK, Stage
<1>2. /\ pc' \in Busy /\ result' = "none" /\ seqExpect' = seqExpect /\ seqNext' = seqNext + 1
      /\ rx'.at = "read" /\ rx'.buf = <<>>
  BY AskingSocket
<1>3. dump = NoDump /\ queue = <<>> /\ \A x : ~InLine(x)
  BY <1>1, InStepNothing
<1>4. ASSUME NEW at, NEW items \in Seq(Items), RequestDump(at, items)
      PROVE  AllExpected' /\ (Failed' => dump' = NoDump)
  <2>1. \/ StartDump(seqNext, items) /\ fault' = fault
        \/ \E k \in 0..Len(items) :
             StartDump(seqNext, SubSeq(items, 1, k)) /\ fault' = "cut"
        \/ Refuse(seqNext) /\ fault' = "refused"
    BY <1>1, <1>4, DumpRequested
  <2>2. CASE StartDump(seqNext, items) /\ fault' = fault
    <3>1. ~Failed'
      BY <1>1, <2>2 DEF Failed
    <3> QED
      BY <1>1, <1>2, <2>2, <3>1, DumpExpected
  <2>3. CASE \E k \in 0..Len(items) :
             StartDump(seqNext, SubSeq(items, 1, k)) /\ fault' = "cut"
    <3>1. PICK k \in 0..Len(items) : StartDump(seqNext, SubSeq(items, 1, k))
      BY <2>3
    <3>2. ~Failed'
      BY <2>3 DEF Failed
    <3> QED
      BY <1>1, <1>2, <3>1, <3>2, FirstItems, DumpExpected
  <2>4. CASE Refuse(seqNext) /\ fault' = "refused"
    <3>1. Failed'
      BY <2>4 DEF Failed
    <3> QED
      BY <1>1, <1>2, <2>4, <3>1, RefusalExpected
  <2> QED
    BY <2>1, <2>2, <2>3, <2>4
<1>5. ASSUME NEW at, RequestLost(at)
      PROVE  AllExpected' /\ (Failed' => dump' = NoDump)
  <2>1. UNCHANGED <<queue, dump>>
    BY <1>1, <1>5, RequestIsLost
  <2>2. \A x : ~InLine(x)'
    <3>1. ASSUME NEW x, InLine(x)' PROVE InLine(x)
      BY <1>1, <1>2, <2>1, <3>1, ParseLine
    <3> QED
      BY <1>3, <3>1
  <2> QED
    BY <1>3, <2>1, <2>2, AllInLineNext
<1>6. AllExpected' /\ (Failed' => dump' = NoDump)
  <2>1. \/ \E at : \E items \in Seq(Items) : RequestDump(at, items)
        \/ \E at : RequestLost(at)
    BY Asking, FamiliesAssumption, InterfacesAreItems, StationsAreItems
  <2> QED
    BY <1>4, <1>5, <2>1
<1>7. seqExpect' >= seqNext' - 1 /\ seqExpect' # seqNext'
  BY <1>1, <1>2
<1> QED
  BY <1>2, <1>6, <1>7 DEF Stage, Busy, Waiting

\* nl_recvmsgs() is called again, or returns, or goes on to read.
LEMMA IdleStage ==
  ASSUME WifiTypeOK, Ordered, Stage,
         UNCHANGED <<pc, result, fault>>,
         \/ Call /\ pc \in Waiting
         \/ ReadOverrun
         \/ EndOfDatagram
  PROVE  Stage'
<1>1. /\ SockTypeOK /\ rx'.buf = <<>> /\ rx.buf = <<>>
      /\ UNCHANGED <<seqNext, seqExpect, queue, dump>>
      /\ rx'.at # "parse"
  BY IdleSocket DEF WifiTypeOK
<1>2. AllExpected'
  BY <1>1, TakingKeepsExpected DEF Stage
<1>3. pc = "resolve" => /\ Failed => (rx'.at = "out" => rx'.ret = "fail")
                        /\ ~Failed => (rx'.at = "out" /\ rx'.ret = "ok" => seqExpect = seqNext)
  <2>1. CASE Call /\ pc \in Waiting
    BY <2>1 DEF Waiting
  <2>2. CASE ReadOverrun
    BY <2>2, ReturnedFields DEF ReadOverrun
  <2>3. CASE EndOfDatagram
    <3>1. rx.at = "parse" /\ rx.buf = <<>> /\ rx \in RxStates
      BY <1>1, <2>3 DEF EndOfDatagram, SockTypeOK
    <3>2. ~(pc = "resolve" /\ Failed)
      BY <3>1 DEF Stage
    <3>3. CASE rx.multi
      <4>1. rx'.at = "read"
        BY <2>3, <3>1, <3>3 DEF EndOfDatagram, RxStates
      <4> QED
        BY <3>2, <4>1
    <3>4. CASE ~rx.multi
      <4>1. pc = "resolve" => seqExpect = seqNext
        BY <3>1, <3>2, <3>4 DEF Stage
      <4> QED
        BY <3>2, <4>1
    <3> QED
      BY <3>3, <3>4
  <2> QED
    BY <2>1, <2>2, <2>3
<1> QED
  BY <1>1, <1>2, <1>3 DEF Stage, Failed

LEMMA ReadStage ==
  ASSUME WifiTypeOK, Ordered, Stage, Read, UNCHANGED <<pc, result, fault>>
  PROVE  Stage'
<1>1. SockTypeOK /\ UNCHANGED <<seqNext, seqExpect>>
  BY DEF WifiTypeOK, Read
<1>2. AllExpected'
  BY <1>1, ReadingKeepsExpected
<1>3. /\ rx'.at = "parse" /\ rx'.buf = queue[1] /\ 1 \in 1..Len(queue)
      /\ dump' = dump \/ dump.seq # 0
  BY <1>1, ReadQueue
<1>4. rx'.buf # <<>>
  BY <1>3 DEF Ordered
<1>5. Failed => dump' = NoDump
  BY <1>3 DEF Stage, NoDump
<1> QED
  BY <1>1, <1>2, <1>3, <1>4, <1>5 DEF Stage, Failed

LEMMA ParseStage ==
  ASSUME WifiTypeOK, Ordered, Stage, Parsing
  PROVE  Stage'
<1>1. PICK m : m = rx.buf[1]
  OBVIOUS
<1>2. /\ UNCHANGED <<pc, fault>> /\ result' \in {result, "ok"} /\ pc \in Busy
      /\ rx.at = "parse" /\ rx.buf # <<>> /\ Expected(m) /\ SockTypeOK
  BY <1>1, ParsedWifi DEF WifiTypeOK
<1>3. /\ seqNext \in Nat \ {0} /\ seqExpect \in Nat \ {0} /\ seqExpect >= seqNext - 1
      /\ result \in {"none", "ok"}
  BY <1>2 DEF SockTypeOK, Stage, WifiTypeOK
<1>4. UNCHANGED <<queue, seqNext, dump>> /\ (rx'.buf = <<>> \/ rx'.buf = Tail(rx.buf))
  BY <1>2, ParseBuf DEF Parsing, Parse
<1>5. AllExpected'
  BY <1>2, <1>4, TakingKeepsExpected DEF Stage
<1>6. CASE m.seq # seqExpect
  <2>1. UNCHANGED <<seqExpect, result>> /\ rx'.at = "out" /\ rx'.ret = "fail"
    BY <1>1, <1>2, <1>6, ParsingStray
  <2> QED
    BY <1>2, <1>4, <1>5, <2>1 DEF Stage, Failed
<1>7. CASE m.seq = seqExpect
  <2>1. m.type \in {"DATA", "DONE", "ERR"}
    BY <1>2 DEF Expected
  <2>2. /\ m.seq < seqNext
        /\ seqExpect' = IF m.type = "DATA" THEN seqExpect ELSE seqExpect + 1
        /\ m.type \in {"DATA", "DONE"} => rx'.at = "parse"
        /\ m.type = "DATA" => result' = result /\ rx'.multi = (rx.multi \/ m.multi)
        /\ m.type = "DONE" => result' = IF pc = "resolve" THEN result ELSE "ok"
        /\ m.type = "ERR" => result' = result /\ rx'.at = "out" /\ rx'.ret = "fail"
    BY <1>1, <1>2, <1>7, <2>1, ParsingExpected
  <2>3. seqExpect = seqNext - 1
    BY <1>3, <1>7, <2>2
  <2>4. m.type # "DATA" => seqExpect' = seqNext /\ seqExpect' >= seqNext - 1
    BY <1>3, <2>2, <2>3
  <2>5. CASE Failed
    <3>1. m.type = "ERR"
      BY <1>2, <2>5 DEF Expected
    <3> QED
      BY <1>2, <1>4, <1>5, <2>2, <2>4, <2>5, <3>1 DEF Stage, Failed, Busy
  <2>6. CASE ~Failed /\ m.type = "DONE"
    <3>1. pc \in Waiting => result' = "ok"
      BY <2>2, <2>6 DEF Waiting
    <3> QED
      BY <1>2, <1>4, <1>5, <2>2, <2>4, <2>6, <3>1 DEF Stage, Failed, Busy
  <2>7. CASE ~Failed /\ m.type = "DATA" /\ m.multi
    <3>1. seqExpect' = seqExpect /\ result' = result /\ rx'.at = "parse" /\ rx'.multi
      BY <2>2, <2>7
    <3> QED
      BY <1>2, <1>4, <1>5, <2>7, <3>1 DEF Stage, Failed, Busy
  <2> QED
    BY <1>2, <2>5, <2>6, <2>7 DEF Expected
<1> QED
  BY <1>6, <1>7

LEMMA StageStep ==
  ASSUME WifiTypeOK, Ordered, Stage, Shown, Next
  PROVE  Stage'
<1>1. CASE Resolve \/ AskInterfaces \/ AskStations
  BY <1>1, AskingStage
<1>2. CASE InitFails \/ Updated \/ Destroy
  <2>1. /\ UNCHANGED <<queue, seqNext, seqExpect, dump, rx>> /\ UNCHANGED <<result, fault>>
        /\ \/ pc' = "undefined"
           \/ pc' \in {"ready", "gone"} /\ pc \in Waiting /\ result = "ok"
           \/ pc' \in {"ready", "gone"} /\ pc = "ready"
    BY <1>2 DEF InitFails, Updated, Destroy, Waiting, sockVars
  <2>2. AllExpected'
    BY <2>1, TakingKeepsExpected DEF Stage, WifiTypeOK
  <2>3. pc' # "undefined" => seqExpect = seqNext /\ ~Failed
    BY <2>1 DEF Stage, Waiting, Busy
  <2> QED
    BY <2>1, <2>2, <2>3 DEF Stage, Failed, Busy, Waiting
<1>3. CASE Again
  <2>1. Call /\ pc \in Waiting /\ UNCHANGED <<pc, result, fault>>
    BY <1>3 DEF Again, progVars, Waiting
  <2> QED
    BY <2>1, IdleStage
<1>4. CASE Reading
  <2>1. (Read \/ ReadOverrun \/ EndOfDatagram) /\ UNCHANGED <<pc, result, fault>>
    BY <1>4 DEF Reading, progVars
  <2> QED
    BY <2>1, IdleStage, ReadStage
<1>5. CASE Parsing
  BY <1>5, ParseStage
<1> QED
  BY <1>1, <1>2, <1>3, <1>4, <1>5 DEF Next, Program

-----------------------------------------------------------------------------
(* What wifi_ holds.                                                       *)

LEMMA FlowAt ==
  \A s, its, g : Flow(s, its, g)' /\ s = seqNext' - 1 => Flow(seqNext - 1, its, g)'
  OBVIOUS

\* The dump is on its way, and nothing of it has been handled yet.
LEMMA AskedIsShown ==
  ASSUME WifiTypeOK, Ordered, Stage, seqExpect = seqNext,
         NEW at, NEW items \in Seq(Items), RequestDump(at, items), ~Failed',
         NEW fields \in SUBSET Fields, \A f \in fields : wifi[f] = NoItem, wifi' = wifi
  PROVE  \E its \in Sent(items)' : \E g \in 0..Len(its) :
           /\ result' = "none" => Flow(seqNext - 1, its, g)'
           /\ result' = "ok" => g = Len(its)
           /\ \A f \in fields : IsLast(f, its, g, wifi'[f])
<1>1. SockTypeOK /\ seqNext \in Nat \ {0} /\ queue = <<>>
  BY InStepNothing DEF WifiTypeOK, SockTypeOK, Stage
<1>2. /\ result' = "none" /\ seqNext' = seqNext + 1 /\ rx'.buf = <<>>
      /\ \/ StartDump(seqNext, items) /\ fault' = fault
         \/ \E k \in 0..Len(items) :
              StartDump(seqNext, SubSeq(items, 1, k)) /\ fault' = "cut"
         \/ Refuse(seqNext) /\ fault' = "refused"
  BY <1>1, DumpRequested
<1>3. fault' # "refused"
  BY DEF Failed
<1>4. PICK its \in Sent(items)' : StartDump(seqNext, its)
  <2>1. CASE StartDump(seqNext, items)
    BY <2>1 DEF Sent
  <2>2. CASE \E k \in 0..Len(items) :
              StartDump(seqNext, SubSeq(items, 1, k)) /\ fault' = "cut"
    BY <2>2 DEF Sent
  <2> QED
    BY <1>2, <1>3, <2>1, <2>2
<1>5. its \in Seq(Items) /\ Len(its) \in Nat
  <2>1. its = items \/ \E k \in 0..Len(items) : its = SubSeq(items, 1, k)
    BY <1>4 DEF Sent
  <2> QED
    BY <2>1, FirstItems
<1>6. PICK s \in Nat \ {0} : s = seqNext
  BY <1>1
<1>7. Flow(s, its, 0)'
  <2>1. \A i \in 1..Len(queue) : queue[i] = <<>> \/ queue[i][1].seq # s
    BY <1>1
  <2> QED
    BY <1>1, <1>2, <1>4, <1>5, <1>6, <2>1, FlowStarts
<1>8. Flow(seqNext - 1, its, 0)'
  BY <1>1, <1>2, <1>6, <1>7, FlowAt
<1>9. \A f \in fields : IsLast(f, its, 0, wifi'[f])
  BY NothingIsLast
<1>10. 0 \in 0..Len(its)
  BY <1>5
<1> QED
  BY <1>2, <1>4, <1>8, <1>9, <1>10

\* The loop goes on, or the kernel sends.
LEMMA ShowingGoesOn ==
  ASSUME WifiTypeOK, Ordered, Stage, pc \in Waiting, ~Failed, seqNext' = seqNext,
         UNCHANGED <<result, wifi, fault>>,
         NEW items \in Seq(Items), NEW fields, Showing(items, fields),
         \A s \in Nat \ {0} : \A its \in Seq(Items) : \A g :
           Flow(s, its, g) => Flow(s, its, g)'
  PROVE  Showing(items, fields)'
<1>1. PICK its \in Sent(items) : \E g \in 0..Len(its) :
        /\ result = "none" => Flow(seqNext - 1, its, g)
        /\ result = "ok" => g = Len(its)
        /\ \A f \in fields : IsLast(f, its, g, wifi[f])
  BY DEF Showing
<1>2. PICK g \in 0..Len(its) :
        /\ result = "none" => Flow(seqNext - 1, its, g)
        /\ result = "ok" => g = Len(its)
        /\ \A f \in fields : IsLast(f, its, g, wifi[f])
  BY <1>1
<1>3. result' = "none" => Flow(seqNext - 1, its, g)'
  <2> SUFFICES ASSUME result = "none" PROVE Flow(seqNext - 1, its, g)'
    OBVIOUS
  <2>1. seqExpect \in Nat \ {0} /\ seqNext \in Nat \ {0} /\ seqExpect # seqNext
        /\ seqExpect >= seqNext - 1 /\ seqExpect <= seqNext
    BY DEF WifiTypeOK, SockTypeOK, Stage, Waiting, Busy, Ordered
  <2>2. PICK s \in Nat \ {0} : s = seqNext - 1
    <3>1. seqNext - 1 \in Nat \ {0}
      BY <2>1
    <3> QED
      BY <3>1
  <2>3. Flow(s, its, g)
    BY <1>2, <2>2
  <2>4. its \in Seq(Items)
    BY SentItems
  <2>5. Flow(s, its, g)'
    BY <2>3, <2>4
  <2> QED
    BY <2>2, <2>5, FlowAt
<1>4. its \in Sent(items)'
  BY DEF Sent
<1>5. \A f \in fields : IsLast(f, its, g, wifi'[f])
  BY <1>2
<1> QED
  BY <1>2, <1>3, <1>4, <1>5 DEF Showing

\* A message is parsed: if it is the next one of the dump its attributes are
\* stored; fields that no item of this dump has stay as they are.
LEMMA ParseShows ==
  ASSUME WifiTypeOK, Ordered, Stage, Parsing, pc \in Waiting, ~Failed,
         NEW items \in Seq(Items), NEW fields \in SUBSET Fields,
         \A i \in 1..Len(items) : Has[items[i]] \subseteq fields,
         Showing(items, fields)
  PROVE  /\ Showing(items, fields)'
         /\ \A f \in Fields \ fields : wifi'[f] = wifi[f]
<1>1. PICK its \in Sent(items) : \E g \in 0..Len(its) :
        /\ result = "none" => Flow(seqNext - 1, its, g)
        /\ result = "ok" => g = Len(its)
        /\ \A f \in fields : IsLast(f, its, g, wifi[f])
  BY DEF Showing
<1>2. PICK g \in 0..Len(its) :
        /\ result = "none" => Flow(seqNext - 1, its, g)
        /\ result = "ok" => g = Len(its)
        /\ \A f \in fields : IsLast(f, its, g, wifi[f])
  BY <1>1
<1>3. PICK m : m = rx.buf[1]
  OBVIOUS
<1>4. /\ UNCHANGED <<pc, fault>> /\ result' \in {result, "ok"}
      /\ rx.at = "parse" /\ rx.buf # <<>> /\ Expected(m) /\ SockTypeOK
  BY <1>3, ParsedWifi DEF WifiTypeOK
<1>5. /\ seqNext \in Nat \ {0} /\ seqExpect \in Nat \ {0} /\ seqExpect >= seqNext - 1
      /\ seqExpect <= seqNext /\ result \in {"none", "ok"}
      /\ result = "ok" <=> seqExpect = seqNext
  BY <1>4 DEF SockTypeOK, Stage, WifiTypeOK, Ordered, Waiting, Busy
<1>6. its \in Sent(items)' /\ its \in Seq(Items) /\ Len(its) \in Nat
  BY <1>4, SentItems DEF Sent
<1>7. PICK s : s = seqNext - 1
  OBVIOUS
<1>8. CASE m.seq # seqExpect
  <2>1. /\ UNCHANGED <<seqNext, queue, dump>> /\ UNCHANGED <<result, wifi>>
        /\ rx'.buf = <<>>
    BY <1>3, <1>4, <1>8, ParsingStray
  <2>2. result = "none" => Flow(seqNext - 1, its, g)'
    <3> SUFFICES ASSUME result = "none" PROVE Flow(seqNext - 1, its, g)'
      OBVIOUS
    <3>1. s = seqExpect
      BY <1>5, <1>7
    <3>2. Flow(s, its, g)
      BY <1>2, <1>7
    <3>3. Flow(s, its, g)'
      BY <1>3, <1>4, <1>6, <1>8, <2>1, <3>1, <3>2, FlowPasses
    <3> QED
      BY <1>7, <2>1, <3>3, FlowAt
  <2> QED
    BY <1>2, <1>6, <2>1, <2>2 DEF Showing
<1>9. CASE m.seq = seqExpect
  <2>0. m.type \in {"DATA", "DONE"} /\ pc # "resolve"
    BY <1>4 DEF Expected, Waiting
  <2>1. /\ m.seq < seqNext /\ UNCHANGED <<seqNext, queue, dump>>
        /\ rx'.buf = Tail(rx.buf)
        /\ m.type = "DATA" =>
              /\ result' = result
              /\ wifi' = [f \in Fields |-> IF f \in Has[m.item] THEN m.item ELSE wifi[f]]
        /\ m.type # "DATA" => wifi' = wifi
        /\ m.type = "DONE" => result' = "ok"
    BY <1>3, <1>4, <1>9, <2>0, ParsingExpected
  <2>2. s = seqExpect /\ result = "none"
    BY <1>5, <1>7, <1>9, <2>1
  <2>3. Flow(s, its, g)
    BY <1>2, <1>7, <2>2
  <2>4. /\ m.type # "DATA" => g = Len(its)
        /\ m.type = "DATA" =>
             /\ g + 1 \in 1..Len(its) /\ m.item = its[g + 1]
             /\ rx'.buf = Tail(rx.buf) => Flow(s, its, g + 1)'
    BY <1>3, <1>4, <1>6, <1>9, <2>1, <2>2, <2>3, FlowTakes
  <2>5. CASE m.type = "DATA"
    <3>1. PICK h : h = g + 1
      OBVIOUS
    <3>2. /\ h \in 0..Len(its) /\ Flow(s, its, h)' /\ result' = "none" /\ m.item = its[h]
          /\ h \in 1..Len(its)
      BY <1>6, <2>1, <2>2, <2>4, <2>5, <3>1
    <3>3. Flow(seqNext - 1, its, h)'
      BY <1>7, <2>1, <3>2, FlowAt
    <3>4. \A f \in Fields : wifi'[f] = IF f \in Has[its[h]] THEN its[h] ELSE wifi[f]
      BY <2>1, <2>5, <3>2
    <3>5. ASSUME NEW f \in fields PROVE IsLast(f, its, h, wifi'[f])
      <4>1. IsLast(f, its, g, wifi[f]) /\ g \in Nat
        BY <1>2, <1>6
      <4>2. IsLast(f, its, h, IF f \in Has[its[h]] THEN its[h] ELSE wifi[f])
        BY <3>1, <4>1, NextIsLast
      <4> QED
        BY <3>4, <4>2
    <3>6. ASSUME NEW f \in Fields \ fields PROVE wifi'[f] = wifi[f]
      <4>1. its[h] = items[h] /\ h \in 1..Len(items)
        BY <3>2, SentItems
      <4>2. f \notin Has[its[h]]
        BY <4>1
      <4> QED
        BY <3>4, <4>2
    <3> QED
      BY <1>6, <3>2, <3>3, <3>5, <3>6 DEF Showing
  <2>6. CASE m.type = "DONE"
    <3>1. g = Len(its) /\ wifi' = wifi /\ result' = "ok"
      BY <2>1, <2>4, <2>6
    <3> QED
      BY <1>2, <1>6, <3>1 DEF Showing
  <2> QED
    BY <2>0, <2>5, <2>6
<1> QED
  BY <1>8, <1>9

LEMMA InterfacesAreNamed ==
  ASSUME NEW i \in AllInterfaces
  PROVE  i # NoItem
<1>1. PICK w \in Worlds : \E k \in 1..Len(w) : i = w[k]
  BY DEF AllInterfaces, ItemSet
<1>2. PICK k \in 1..Len(w) : i = w[k]
  BY <1>1
<1>3. w \in Seq(Items)
  BY WorldsAssumption
<1> QED
  BY <1>2, <1>3, ItemsAssumption

\* The wait is over: all items of a dump that did not fail are shown.
LEMMA EndShown ==
  ASSUME result = "ok", fault = "none", NEW items, NEW fields, Showing(items, fields)
  PROVE  \A f \in fields : IsLast(f, items, Len(items), wifi[f])
<1>1. PICK its \in Sent(items) : \E g \in 0..Len(its) :
        /\ result = "ok" => g = Len(its)
        /\ \A f \in fields : IsLast(f, its, g, wifi[f])
  BY DEF Showing
<1>2. its = items
  BY <1>1 DEF Sent
<1> QED
  BY <1>1, <1>2

\* What the kernel sends next does not change what has been handled.
LEMMA WaitShows ==
  ASSUME WifiTypeOK, Ordered, Stage, Shown,
         UNCHANGED <<interfaces, pc, result, wifi, fault>>,
         Call \/ Read \/ ReadOverrun \/ EndOfDatagram \/ UNCHANGED sockVars
  PROVE  Shown'
<1>1. SockTypeOK /\ wifi \in [Fields -> Items \union {NoItem}]
  BY DEF WifiTypeOK
<1>2. /\ seqNext' = seqNext
      /\ \A s \in Nat \ {0} : \A its \in Seq(Items) : \A g :
           Flow(s, its, g) => Flow(s, its, g)'
  <2>1. CASE Call \/ ReadOverrun \/ EndOfDatagram
    <3>1. UNCHANGED <<seqNext, queue, dump>> /\ rx'.buf = rx.buf
      BY <1>1, <2>1, IdleSocket
    <3> QED
      BY <3>1, FlowStays
  <2>2. CASE Read
    <3>1. seqNext' = seqNext
      BY <2>2 DEF Read
    <3> QED
      BY <1>1, <2>2, <3>1, FlowRead
  <2>3. CASE UNCHANGED sockVars
    <3>1. UNCHANGED <<seqNext, queue, dump>> /\ rx'.buf = rx.buf
      BY <2>3 DEF sockVars
    <3> QED
      BY <3>1, FlowStays
  <2> QED
    BY <2>1, <2>2, <2>3
<1>3. ASSUME pc = "interfaces", ~Failed
      PROVE  Showing(interfaces, InterfaceFields)'
  <2>1. Showing(interfaces, InterfaceFields) /\ pc \in Waiting
    BY <1>3 DEF Shown, Waiting
  <2>2. PICK items \in Seq(Items) : items = interfaces
    BY InterfacesAreItems
  <2>3. Showing(items, InterfaceFields)'
    BY <1>2, <1>3, <2>1, <2>2, ShowingGoesOn
  <2> QED
    BY <2>2, <2>3 DEF Showing, Sent
<1>4. ASSUME pc = "stations", ~Failed
      PROVE  Showing(StationsOf[wifi["ifindex"]], StationFields)'
  <2>1. /\ Showing(StationsOf[wifi["ifindex"]], StationFields) /\ pc \in Waiting
        /\ wifi["ifindex"] \in AllInterfaces
    BY <1>4 DEF Shown, Waiting
  <2>2. PICK items \in Seq(Items) : items = StationsOf[wifi["ifindex"]]
    BY <2>1, StationsAreItems
  <2>3. Showing(items, StationFields)'
    BY <1>2, <1>4, <2>1, <2>2, ShowingGoesOn
  <2> QED
    BY <2>2, <2>3 DEF Showing, Sent
<1>5. InterfacesShown => InterfacesShown'
  BY DEF InterfacesShown
<1> QED
  BY <1>3, <1>4, <1>5 DEF Shown, Failed

\* What is asked for is on its way, what was asked before has been handled.
LEMMA AskShows ==
  ASSUME WifiTypeOK, Ordered, Stage, Shown, Resolve \/ AskInterfaces \/ AskStations
  PROVE  Shown'
<1>1. /\ seqExpect = seqNext /\ ~Failed /\ UNCHANGED <<interfaces, cache, wifi>>
      /\ \/ Resolve /\ RequestDump("resolve", Families)
         \/ /\ AskInterfaces
            /\ RequestDump("interfaces", interfaces) \/ RequestLost("interfaces")
         \/ /\ AskStations /\ wifi["ifindex"] \in AllInterfaces
            /\ \/ RequestDump("stations", StationsOf[wifi["ifindex"]])
               \/ RequestLost("stations")
  BY Asking
<1>2. ASSUME NEW at, RequestLost(at)
      PROVE  pc' = at /\ Failed'
  BY <1>2 DEF RequestLost, Failed
<1>3. ASSUME NEW at, NEW items \in Seq(Items), RequestDump(at, items)
      PROVE  /\ pc' = at
             /\ fault' = "none" => fault = "none"
             /\ \A fields \in SUBSET Fields :
                  (\A f \in fields : wifi[f] = NoItem) /\ ~Failed' =>
                    \E its \in Sent(items)' : \E g \in 0..Len(its) :
                      /\ result' = "none" => Flow(seqNext - 1, its, g)'
                      /\ result' = "ok" => g = Len(its)
                      /\ \A f \in fields : IsLast(f, its, g, wifi'[f])
  <2>1. pc' = at /\ (fault' = "none" => fault = "none")
    BY <1>3 DEF RequestDump
  <2> QED
    BY <1>1, <1>3, <2>1, AskedIsShown
<1>4. {InterfaceFields, StationFields} \subseteq SUBSET Fields
  BY DEF Fields
<1>5. CASE Resolve /\ RequestDump("resolve", Families)
  <2>1. pc' = "resolve" /\ pc = "start"
    BY <1>3, <1>5, FamiliesAssumption DEF Resolve
  <2> QED
    BY <1>1, <2>1 DEF Shown
<1>6. CASE AskInterfaces /\ (RequestDump("interfaces", interfaces) \/ RequestLost("interfaces"))
  <2>1. \A f \in Fields : wifi[f] = NoItem
    BY <1>6 DEF AskInterfaces, Shown
  <2>2. pc' = "interfaces"
    BY <1>2, <1>3, <1>6, InterfacesAreItems
  <2>3. ASSUME ~Failed'
        PROVE  Showing(interfaces, InterfaceFields)'
    <3>1. RequestDump("interfaces", interfaces)
      BY <1>2, <1>6, <2>3
    <3>2. PICK items \in Seq(Items) : items = interfaces
      BY InterfacesAreItems
    <3>3. \E its \in Sent(items)' : \E g \in 0..Len(its) :
            /\ result' = "none" => Flow(seqNext - 1, its, g)'
            /\ result' = "ok" => g = Len(its)
            /\ \A f \in InterfaceFields : IsLast(f, its, g, wifi'[f])
      BY <1>3, <1>4, <2>1, <2>3, <3>1, <3>2
    <3> QED
      BY <1>1, <3>2, <3>3 DEF Showing, Sent
  <2>4. \A f \in StationFields : wifi'[f] = NoItem
    BY <1>1, <2>1 DEF Fields
  <2> QED
    BY <2>2, <2>3, <2>4 DEF Shown
<1>7. CASE /\ AskStations /\ wifi["ifindex"] \in AllInterfaces
           /\ \/ RequestDump("stations", StationsOf[wifi["ifindex"]])
              \/ RequestLost("stations")
  <2>1. /\ pc = "interfaces" /\ result = "ok"
        /\ \A f \in StationFields : wifi[f] = NoItem
        /\ Showing(interfaces, InterfaceFields)
    BY <1>1, <1>7 DEF AskStations, Shown
  <2>2. pc' = "stations" /\ (fault' = "none" => fault = "none")
    <3>1. CASE RequestLost("stations")
      BY <1>2, <3>1 DEF Failed
    <3>2. CASE RequestDump("stations", StationsOf[wifi["ifindex"]])
      BY <1>3, <1>7, <3>2, StationsAreItems
    <3> QED
      BY <1>7, <3>1, <3>2
  <2>3. fault' = "none" => InterfacesShown'
    <3>1. ASSUME fault = "none" PROVE InterfacesShown
      BY <2>1, <3>1, EndShown DEF InterfacesShown
    <3> QED
      BY <1>1, <2>2, <3>1 DEF InterfacesShown
  <2>4. ASSUME ~Failed'
        PROVE  Showing(StationsOf[wifi["ifindex"]], StationFields)'
    <3>1. RequestDump("stations", StationsOf[wifi["ifindex"]])
      BY <1>2, <1>7, <2>4
    <3>2. PICK items \in Seq(Items) : items = StationsOf[wifi["ifindex"]]
      BY <1>7, StationsAreItems
    <3>3. \E its \in Sent(items)' : \E g \in 0..Len(its) :
            /\ result' = "none" => Flow(seqNext - 1, its, g)'
            /\ result' = "ok" => g = Len(its)
            /\ \A f \in StationFields : IsLast(f, its, g, wifi'[f])
      BY <1>3, <1>4, <2>1, <2>4, <3>1, <3>2
    <3> QED
      BY <1>1, <3>2, <3>3 DEF Showing, Sent
  <2> QED
    BY <1>1, <1>7, <2>2, <2>3, <2>4 DEF Shown
<1> QED
  BY <1>1, <1>5, <1>6, <1>7

\* A message is parsed.
LEMMA ParseIsShown ==
  ASSUME WifiTypeOK, Ordered, Stage, Shown, Parsing
  PROVE  Shown'
<1>1. /\ UNCHANGED <<interfaces, pc, fault>> /\ pc \in Busy /\ SockTypeOK
      /\ Expected(rx.buf[1])
      /\ rx.buf[1].seq = seqExpect => rx.buf[1].type \in {"DATA", "DONE", "ERR"}
  BY ParsedWifi DEF WifiTypeOK
<1>2. InterfaceFields \cap StationFields = {} /\ "ifindex" \in InterfaceFields
      /\ InterfaceFields \in SUBSET Fields /\ StationFields \in SUBSET Fields
      /\ InterfaceFields = Fields \ StationFields
      /\ StationFields = Fields \ InterfaceFields
  BY DEF InterfaceFields, StationFields, Fields
<1>3. CASE pc = "resolve"
  <2>1. wifi' = wifi
    BY <1>3 DEF Parsing
  <2> QED
    BY <1>1, <1>3, <2>1 DEF Shown
<1>4. CASE pc = "interfaces" /\ ~Failed
  <2>1. PICK items \in Seq(Items) : items = interfaces
    BY InterfacesAreItems
  <2>2. \A i \in 1..Len(items) : Has[items[i]] \subseteq InterfaceFields
    BY <2>1, InterfacesAreItems, HasAssumption
  <2>3. Showing(items, InterfaceFields) /\ pc \in Waiting
        /\ \A f \in StationFields : wifi[f] = NoItem
    BY <1>4, <2>1 DEF Shown, Waiting
  <2>4. /\ Showing(items, InterfaceFields)'
        /\ \A f \in Fields \ InterfaceFields : wifi'[f] = wifi[f]
    BY <1>2, <1>4, <2>2, <2>3, ParseShows
  <2>5. \A f \in StationFields : wifi'[f] = NoItem
    BY <1>2, <2>3, <2>4
  <2>6. Showing(interfaces, InterfaceFields)'
    BY <1>1, <2>1, <2>4 DEF Showing, Sent
  <2> QED
    BY <1>1, <1>4, <2>5, <2>6 DEF Shown
<1>5. CASE pc = "stations" /\ ~Failed
  <2>1. wifi["ifindex"] \in AllInterfaces /\ (fault = "none" => InterfacesShown)
    BY <1>5 DEF Shown
  <2>2. PICK items \in Seq(Items) : items = StationsOf[wifi["ifindex"]]
    BY <2>1, StationsAreItems
  <2>3. \A i \in 1..Len(items) : Has[items[i]] \subseteq StationFields
    BY <2>1, <2>2, StationsAreItems, HasAssumption
  <2>4. Showing(items, StationFields) /\ pc \in Waiting
    BY <1>5, <2>2 DEF Shown, Waiting
  <2>5. /\ Showing(items, StationFields)'
        /\ \A f \in Fields \ StationFields : wifi'[f] = wifi[f]
    BY <1>2, <1>5, <2>3, <2>4, ParseShows
  <2>6. \A f \in InterfaceFields : wifi'[f] = wifi[f]
    BY <1>2, <2>5
  <2>7. wifi'["ifindex"] = wifi["ifindex"]
    BY <1>2, <2>6
  <2>8. Showing(StationsOf[wifi["ifindex"]], StationFields)'
    BY <2>2, <2>5, <2>7 DEF Showing, Sent
  <2>9. fault' = "none" => InterfacesShown'
    BY <1>1, <2>1, <2>6 DEF InterfacesShown
  <2> QED
    BY <1>1, <1>5, <2>1, <2>7, <2>8, <2>9 DEF Shown
<1>6. CASE pc \in Waiting /\ Failed
  <2>1. pc' = pc /\ Failed'
    BY <1>1, <1>6 DEF Failed
  <2> QED
    BY <1>6, <2>1 DEF Shown, Waiting
<1> QED
  BY <1>1, <1>3, <1>4, <1>5, <1>6 DEF Busy, Waiting

\* WifiInfoUpdate() returns.
LEMMA UpdateShows ==
  ASSUME WifiTypeOK, Ordered, Stage, Shown, Updated
  PROVE  Shown'
<1>1. /\ result = "ok" /\ pc' = "ready" /\ UNCHANGED <<interfaces, wifi, fault>>
      /\ \/ pc = "interfaces" /\ wifi["ifindex"] = NoItem
         \/ pc = "stations"
  BY DEF Updated
<1>2. SUFFICES ASSUME fault = "none"
               PROVE  /\ InterfacesShown
                      /\ IF wifi["ifindex"] = NoItem
                         THEN \A f \in StationFields : wifi[f] = NoItem
                         ELSE /\ wifi["ifindex"] \in AllInterfaces
                              /\ \A f \in StationFields :
                                   IsLast(f, StationsOf[wifi["ifindex"]],
                                          Len(StationsOf[wifi["ifindex"]]), wifi[f])
  BY <1>1 DEF Shown, InterfacesShown
<1>3. ~Failed
  BY <1>2 DEF Failed
<1>4. CASE pc = "interfaces" /\ wifi["ifindex"] = NoItem
  <2>1. /\ \A f \in StationFields : wifi[f] = NoItem
        /\ Showing(interfaces, InterfaceFields)
    BY <1>3, <1>4 DEF Shown
  <2>2. InterfacesShown
    BY <1>1, <1>2, <2>1, EndShown DEF InterfacesShown
  <2> QED
    BY <1>4, <2>1, <2>2
<1>5. CASE pc = "stations"
  <2>1. /\ wifi["ifindex"] \in AllInterfaces /\ InterfacesShown
        /\ Showing(StationsOf[wifi["ifindex"]], StationFields)
    BY <1>2, <1>3, <1>5 DEF Shown
  <2>2. \A f \in StationFields :
          IsLast(f, StationsOf[wifi["ifindex"]],
                 Len(StationsOf[wifi["ifindex"]]), wifi[f])
    BY <1>1, <1>2, <2>1, EndShown
  <2>3. wifi["ifindex"] # NoItem
    BY <2>1, InterfacesAreNamed
  <2> QED
    BY <2>1, <2>2, <2>3
<1> QED
  BY <1>1, <1>4, <1>5

LEMMA ShownStep ==
  ASSUME WifiTypeOK, Ordered, Stage, Shown, Next
  PROVE  Shown'
<1>1. CASE Resolve \/ AskInterfaces \/ AskStations
  BY <1>1, AskShows
<1>2. CASE InitFails
  BY <1>2 DEF InitFails, Shown
<1>3. CASE Updated
  BY <1>3, UpdateShows
<1>4. CASE Destroy
  <2>1. /\ pc = "ready" /\ pc' = "gone"
        /\ UNCHANGED <<interfaces, wifi, fault>>
    BY <1>4 DEF Destroy
  <2>2. InterfacesShown => InterfacesShown'
    BY <2>1 DEF InterfacesShown
  <2> QED
    BY <2>1, <2>2 DEF Shown
<1>5. CASE Again \/ Reading
  <2>1. /\ UNCHANGED <<interfaces, pc, result, wifi, fault>>
        /\ Call \/ Read \/ ReadOverrun \/ EndOfDatagram
    BY <1>5 DEF Again, Reading, progVars
  <2> QED
    BY <2>1, WaitShows
<1>6. CASE Parsing
  BY <1>6, ParseIsShown
<1> QED
  BY <1>1, <1>2, <1>3, <1>4, <1>5, <1>6 DEF Next, Program

-----------------------------------------------------------------------------
(* The theorems.                                                           *)

LEMMA Stutters ==
  ASSUME WifiInv, UNCHANGED vars
  PROVE  WifiInv'
<1>1. /\ WifiTypeOK /\ Ordered /\ Stage /\ Shown
      /\ UNCHANGED sockVars /\ UNCHANGED <<seqNext, seqExpect, queue, dump, rx>>
      /\ UNCHANGED <<interfaces, pc, result, wifi, fault>>
  BY DEF WifiInv, vars, sockVars, progVars
<1>2. SockTypeOK' /\ Ordered'
  BY <1>1, SocketStays DEF WifiTypeOK
<1>3. WifiTypeOK'
  BY <1>1, <1>2 DEF WifiTypeOK
<1>4. AllExpected'
  BY <1>1, TakingKeepsExpected DEF WifiTypeOK, Stage
<1>5. Stage'
  BY <1>1, <1>4 DEF Stage, Failed
<1>6. Shown'
  BY <1>1, WaitShows
<1> QED
  BY <1>2, <1>3, <1>5, <1>6 DEF WifiInv

LEMMA WifiStep == WifiInv /\ [Next]_vars => WifiInv'
<1> SUFFICES ASSUME WifiInv, [Next]_vars PROVE WifiInv'
  OBVIOUS
<1>1. CASE Next
  BY <1>1, TypeStep, StageStep, ShownStep DEF WifiInv
<1>2. CASE UNCHANGED vars
  BY <1>2, Stutters
<1> QED
  BY <1>1, <1>2

\* The inductive invariant: what can be on its way while the constructor
\* waits, and what the part of a dump that was handled has left in wifi_.
THEOREM WifiInvariant == Spec => []WifiInv
  BY InitInv, WifiStep, PTL DEF Spec

\* When no request fails, the constructor leaves each field of wifi_ with the
\* value of the last interface, or station, that has one, whatever the sizes
\* of the dumps and of the receive buffer.
THEOREM LastValuesStay == Spec => []LastOneWins
<1>1. WifiInv => LastOneWins
  <2> SUFFICES ASSUME WifiInv, pc \in {"ready", "gone"}, fault = "none"
               PROVE  /\ \A f \in InterfaceFields : wifi[f] = LastWith(f, interfaces)
                      /\ \A f \in StationFields :
                           wifi[f] = IF wifi.ifindex = NoItem THEN NoItem
                                     ELSE LastWith(f, StationsOf[wifi.ifindex])
    BY DEF LastOneWins
  <2>1. /\ InterfacesShown
        /\ IF wifi["ifindex"] = NoItem THEN \A f \in StationFields : wifi[f] = NoItem
           ELSE /\ wifi["ifindex"] \in AllInterfaces
                /\ \A f \in StationFields :
                     IsLast(f, StationsOf[wifi["ifindex"]],
                            Len(StationsOf[wifi["ifindex"]]), wifi[f])
    BY DEF WifiInv, Shown
  <2>2. \A items \in Seq(Items) : Len(items) \in Nat
    OBVIOUS
  <2>3. ASSUME NEW f \in InterfaceFields
        PROVE  wifi[f] = LastWith(f, interfaces)
    BY <2>1, <2>2, InterfacesAreItems, LastIsLastWith DEF InterfacesShown, WifiInv
  <2>4. ASSUME NEW f \in StationFields, wifi["ifindex"] # NoItem
        PROVE  wifi[f] = LastWith(f, StationsOf[wifi["ifindex"]])
    BY <2>1, <2>2, <2>4, StationsAreItems, LastIsLastWith
  <2> QED
    BY <2>1, <2>3, <2>4
<1> QED
  BY <1>1, WifiInvariant, PTL

\* The constructor never returns from a request that was refused, or that
\* could not be sent: only NLMSG_DONE ends its loops, and none comes.
THEOREM NoReturnFromFailure == Spec => []FailedRequestHangs
<1>1. WifiInv => FailedRequestHangs
  BY DEF WifiInv, Stage, Failed, Busy, FailedRequestHangs
<1> QED
  BY <1>1, WifiInvariant, PTL

\* No loop of WifiInfoUpdate() is left before the dump it waits for has been
\* read to its end: nothing of it is found by a later request.
THEOREM LoopsReadToTheEnd == Spec => DumpsAreReadOut
<1>1. WifiInv /\ [Next]_vars =>
        [pc' # pc /\ pc \in {"interfaces", "stations"}
           => queue = <<>> /\ dump = NoDump /\ seqExpect = seqNext]_vars
  <2> SUFFICES ASSUME WifiInv, Next, pc' # pc, pc \in {"interfaces", "stations"}
               PROVE  queue = <<>> /\ dump = NoDump /\ seqExpect = seqNext
    BY DEF vars, progVars
  <2>1. /\ SockTypeOK /\ Ordered /\ Stage /\ WifiTypeOK /\ Shown
    BY DEF WifiInv, WifiTypeOK
  <2>2. result = "ok"
    <3>1. CASE Resolve \/ InitFails \/ AskInterfaces \/ Destroy
      BY <3>1 DEF Resolve, InitFails, AskInterfaces, Destroy
    <3>2. CASE AskStations \/ Updated
      BY <3>2 DEF AskStations, Updated
    <3>3. CASE Again \/ Reading \/ Parsing
      BY <3>3 DEF Again, Reading, Parsing, progVars
    <3> QED
      BY <3>1, <3>2, <3>3 DEF Next, Program
  <2>3. seqExpect = seqNext
    BY <2>1, <2>2 DEF Stage, Waiting
  <2> QED
    BY <2>1, <2>3, InStepNothing DEF Stage
<1> QED
  BY <1>1, WifiInvariant, PTL DEF Spec, DumpsAreReadOut
=============================================================================
