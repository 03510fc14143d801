----------------------------- MODULE WifiClient -----------------------------
(***************************************************************************)
(* The class Wifi (wifi_interface.cc): its constructor resolves nl80211,   *)
(* dumps the interfaces, then the stations of the interface it has noted,  *)
(* and stores what it is told in one struct wifi_msg.  It calls            *)
(* nl_recvmsgs() until its handler of NL_CB_FINISH has run; the results of *)
(* nl_send_auto_complete(), of nl_recvmsgs() and of InitNl80211() are not  *)
(* looked at, and no handler is set for NLMSG_ERROR.                       *)
(***************************************************************************)
EXTENDS NlSocket

CONSTANTS
  Families,    \* the kernel's generic netlink families, in dump order
  Worlds,      \* what its wireless interfaces may be, in dump order
  StationsOf,  \* StationsOf[i]: the stations of interface i, in dump order
  Has,         \* Has[x]: the attributes an interface or a station comes with
  Faults       \* TRUE when requests may fail

VARIABLES
  interfaces, \* kernel: the wireless interfaces there are, a member of Worlds
  pc,       \* "start", "resolve"; the dump being waited for, "interfaces" or
            \* "stations"; "ready", "gone"; "undefined" when a pointer that
            \* InitNl80211() has freed or not set is used
  cache,    \* families in the cache that genl_ctrl_resolve() fills
  result,   \* name_result, info_result: "none" (1) or "ok" (0)
  wifi,     \* wifi_: for each field where its value comes from
  fault     \* history: what went wrong with a request

progVars == <<interfaces, pc, cache, result, wifi, fault>>
vars == <<sockVars, progVars>>

\* The attributes the handlers copy, each into a field of its own.
InterfaceFields == {"ifname", "ifindex", "mac", "ssid", "freq"}
StationFields == {"signal", "txrate"}
Fields == InterfaceFields \union StationFields

ItemSet(items) == {items[i] : i \in 1..Len(items)}
AllInterfaces == UNION {ItemSet(w) : w \in Worlds}
AllStations == UNION {ItemSet(StationsOf[i]) : i \in AllInterfaces}

ASSUME FamiliesAssumption == Families \in Seq(Items)
ASSUME WorldsAssumption == Worlds \subseteq Seq(Items)
ASSUME StationsAssumption == StationsOf \in [AllInterfaces -> Seq(Items)]
ASSUME HasAssumption ==
  /\ \A i \in AllInterfaces : Has[i] \subseteq InterfaceFields
  /\ \A s \in AllStations : Has[s] \subseteq StationFields
ASSUME FaultsAssumption == Faults \in BOOLEAN

PickupCb == [VALID |-> "OK"]
\* Mutant: NL_CB_FINISH has no handler.
WaitCbNoFinish == [VALID |-> "SKIP"]
\* name_cb and info_cb.
WaitCb == [VALID |-> "SKIP", FINISH |-> "SKIP"]

Cb == IF pc = "resolve" THEN PickupCb ELSE WaitCb

Init ==
  /\ SockInit
  /\ interfaces \in Worlds
  /\ pc = "start"
  /\ cache = {}
  /\ result = "none"
  /\ wifi = [f \in Fields |-> NoItem]
  /\ fault = "none"

\* A dump is requested and nl_recvmsgs() called.  The kernel produces the
\* items; or refuses the request; or, its dump function failing, ends the
\* dump early, with an error in NLMSG_DONE that nobody reads.
RequestDump(at, items) ==
  /\ pc' = at
  /\ result' = "none"
  /\ rx' = Called
  /\ TakeSeq
  /\ UNCHANGED seqExpect
  /\ \/ /\ StartDump(seqNext, items)
        /\ UNCHANGED fault
     \/ /\ Faults
        /\ \E k \in 0..Len(items) : StartDump(seqNext, SubSeq(items, 1, k))
        /\ fault' = "cut"
     \/ /\ Faults
        /\ Refuse(seqNext)
        /\ fault' = "refused"

\* Mutant: the error of nl_send_auto_complete() is looked at.
RequestLostNoticed(at) ==
  /\ Faults
  /\ pc' = at
  /\ result' = "ok"
  /\ TakeSeq
  /\ UNCHANGED <<seqExpect, queue, overrun, dump, rx>>
  /\ fault' = "unsent"

\* The message is not sent; name_cb waits for its answer all the same.
RequestLost(at) ==
  /\ Faults
  /\ pc' = at
  /\ result' = "none"
  /\ rx' = Called
  /\ TakeSeq
  /\ UNCHANGED <<seqExpect, queue, overrun, dump>>
  /\ fault' = "unsent"

\* InitNl80211() up to genl_ctrl_resolve().
Resolve ==
  /\ pc = "start"
  /\ RequestDump("resolve", Families)
  /\ UNCHANGED <<interfaces, cache, wifi>>

\* InitNl80211() gives up: nl_socket_alloc(), genl_connect(), sending the
\* request, resolving or nl_cb_alloc() fails.  The constructor goes on with
\* WifiInfoUpdate(), on a socket that is freed or was never there.
InitFails ==
  /\ \/ Faults /\ pc = "start"
     \/ pc = "resolve" /\ rx.at = "out"
        /\ (Faults \/ rx.ret # "ok" \/ "nl80211" \notin cache)
  /\ pc' = "undefined"
  /\ UNCHANGED <<sockVars, interfaces, cache, result, wifi, fault>>

\* WifiInfoUpdate(), up to the first loop.
AskInterfaces ==
  /\ pc = "resolve"
  /\ rx.at = "out"
  /\ rx.ret = "ok"
  /\ "nl80211" \in cache
  /\ RequestDump("interfaces", interfaces) \/ RequestLost("interfaces")
  /\ UNCHANGED <<interfaces, cache, wifi>>

\* The first loop is over: the stations of the interface noted last.
AskStations ==
  /\ pc = "interfaces"
  /\ rx.at = "out"
  /\ result = "ok"
  /\ wifi.ifindex # NoItem
  /\ \/ RequestDump("stations", StationsOf[wifi.ifindex])
     \/ RequestLost("stations")
  /\ UNCHANGED <<interfaces, cache, wifi>>

\* WifiInfoUpdate() returns.
Updated ==
  /\ rx.at = "out"
  /\ result = "ok"
  /\ \/ pc = "interfaces" /\ wifi.ifindex = NoItem
     \/ pc = "stations"
  /\ pc' = "ready"
  /\ UNCHANGED <<sockVars, interfaces, cache, result, wifi, fault>>

\* ~Wifi()
Destroy ==
  /\ pc = "ready"
  /\ pc' = "gone"
  /\ UNCHANGED <<sockVars, interfaces, cache, result, wifi, fault>>

Again ==
  /\ pc \in {"interfaces", "stations"}
  /\ result = "none"
  /\ Call
  /\ UNCHANGED progVars

Reading ==
  /\ Read \/ ReadOverrun \/ EndOfDatagram
  /\ UNCHANGED progVars

\* Mutant: the first message that has an attribute wins.
ParsingFirst ==
  LET item == Head(rx.buf).item
      got  == Handles(Cb, "VALID")
  IN  /\ Parse(Cb)
      /\ result' = IF Handles(Cb, "FINISH") THEN "ok" ELSE result
      /\ cache' = IF got /\ pc = "resolve" THEN cache \union {item} ELSE cache
      /\ wifi' = IF got /\ pc # "resolve"
                 THEN [f \in Fields |-> IF f \in Has[item] /\ wifi[f] = NoItem
                                        THEN item ELSE wifi[f]]
                 ELSE wifi
      /\ UNCHANGED <<interfaces, pc, fault>>

\* pickup_cb(), get_wifi_name() and get_wifi_info(): a message overwrites the
\* fields whose attributes it has.  finish_handler() ends the loop.
Parsing ==
  LET item == Head(rx.buf).item
      got  == Handles(Cb, "VALID")
  IN  /\ Parse(Cb)
      /\ result' = IF Handles(Cb, "FINISH") THEN "ok" ELSE result
      /\ cache' = IF got /\ pc = "resolve" THEN cache \union {item} ELSE cache
      /\ wifi' = IF got /\ pc # "resolve"
                 THEN [f \in Fields |-> IF f \in Has[item] THEN item
                                        ELSE wifi[f]]
                 ELSE wifi
      /\ UNCHANGED <<interfaces, pc, fault>>

Program == \/ Resolve \/ InitFails \/ AskInterfaces \/ AskStations \/ Updated
           \/ Destroy \/ Again \/ Reading \/ Parsing

Next == Program

Spec == Init /\ [][Next]_vars /\ WF_vars(Program)

-----------------------------------------------------------------------------
\* The last of these items that has the attribute, NoItem if none has.
LastWith(f, items) ==
  LET with == {i \in 1..Len(items) : f \in Has[items[i]]}
  IN  IF with = {} THEN NoItem
      ELSE items[CHOOSE i \in with : \A j \in with : j <= i]

\* What the constructor leaves in wifi_ when every request is answered: each
\* field is that of the last interface that has one, which need not be dev_,
\* nor one interface for all fields; signal and txrate are those of the last
\* station of the interface whose index is kept.
LastOneWins ==
  pc \in {"ready", "gone"} /\ fault = "none"
    => /\ \A f \in InterfaceFields : wifi[f] = LastWith(f, interfaces)
       /\ \A f \in StationFields :
            wifi[f] = IF wifi.ifindex = NoItem THEN NoItem
                      ELSE LastWith(f, StationsOf[wifi.ifindex])

\* WifiInfoUpdate() waits for the end of a dump.  When the kernel refuses the
\* request or never got it there is none: the constructor does not return.
FailedRequestHangs == fault \in {"refused", "unsent"} => pc \notin {"ready", "gone"}

\* Stations are asked for only after the last message of the dump of the
\* interfaces, and the constructor returns after that of the stations.
DumpsAreReadOut ==
  [][pc' # pc /\ pc \in {"interfaces", "stations"}
       => queue = <<>> /\ dump = NoDump /\ seqExpect = seqNext]_vars

\* Unless a request fails, the constructor returns.
ConstructorReturns ==
  [](pc = "interfaces" => <>(pc = "ready" \/ fault # "none"))
=============================================================================
