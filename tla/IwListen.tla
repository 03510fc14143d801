------------------------------ MODULE IwListen ------------------------------
(***************************************************************************)
(* The commands of iw that wait for events: event, connect -w, scan, cac.  *)
(* All of them use one netlink socket for everything: they resolve families  *)
(* and look up multicast groups on it, join these groups, run commands and *)
(* receive events.  Once the first group is joined an event may arrive     *)
(* between any two messages the program is waiting for.                    *)
(***************************************************************************)
EXTENDS NlSocket, FiniteSets

CONSTANTS
  Commands,    \* the commands that are given, of DOMAIN ScriptOf
  Groups,      \* the groups of __prepare_listen_events(), in order
  Families,    \* the kernel's generic netlink families, in dump order
  GroupsOf,    \* GroupsOf[f]: the names of the multicast groups of family f
  Bss,         \* what the kernel has to say in a scan dump
  MaxEvents    \* bound: multicast messages that have nothing to do with us

VARIABLES
  command,  \* the command
  pc,       \* the function the program is in
  script,   \* the steps still to be done
  todo,     \* the groups still to be looked up
  cache,    \* families in the cache that genl_ctrl_resolve() fills
  ctrlid,   \* what it returned: TRUE for an identifier, FALSE for an error
  grp,      \* handler_args: the multicast group found, or NoGroup
  joined,   \* the groups whose messages the socket receives
  err,      \* int err of the loop that waits: "none" (1), "ok" (0), "fail"
  printed,  \* the items the registered handler was called with
  heard,    \* wait_ev.cmd is set
  result,   \* kernel: announcement of the command's result
  truth,    \* history: what the kernel said to the latest request
  events    \* kernel: unrelated multicast messages sent so far

progVars == <<command, pc, script, todo, cache, ctrlid, grp, joined, err, printed,
              heard, result, truth, events>>
vars == <<sockVars, progVars>>

FamilySet == {Families[i] : i \in 1..Len(Families)}
GroupSet == {Groups[i] : i \in 1..Len(Groups)}

\* "config" is looked up first; it is the one group that has to be found.
ASSUME GroupsAssumption == Len(Groups) > 0 /\ Groups[1] = "config"
ASSUME FamiliesAssumption ==
  /\ Families \in Seq(Items)
  /\ {"nlctrl", "nl80211"} \subseteq FamilySet
  /\ {"result", "aborted", "noise"} \subseteq Items
ASSUME GroupsOfAssumption == GroupsOf \in [FamilySet -> SUBSET GroupSet]
ASSUME BssAssumption == Bss \in Seq(Items)
ASSUME MaxEventsAssumption == MaxEvents \in Nat

\* print_events(), iw_connect() with -w, handle_scan_combined(), handle_cac().
\* Where the groups cannot be joined a step is passed over: PrepareFails.
ScriptOf == [event   |-> <<"prepare", "listen">>,
             connect |-> <<"prepare", "command", "listen">>,
             scan    |-> <<"command", "prepare", "listen", "dump">>,
             cac     |-> <<"command", "prepare", "listen">>]
ASSUME CommandsAssumption == Commands \subseteq DOMAIN ScriptOf

\* The group that the kernel announces the command's result to.
ResultGroup == IF command = "scan" THEN "scan" ELSE "mlme"

NoGroup == <<"none", "none">>
GroupIds == {<<f, g>> : f \in FamilySet, g \in GroupSet}

\* The callbacks in force while nl_recvmsgs() runs.  __cache_pickup(): the
\* parser of the controller's cache refuses what is not a family.
PickupCb(item) == [VALID |-> IF item \in FamilySet THEN "OK" ELSE "FAIL"]
HandleCmdCb == [VALID |-> "SKIP", FINISH |-> "SKIP", ACK |-> "STOP",
                ERR |-> "STOP"]

\* Mutant: nl_get_multicast_id() with a handler of NL_CB_FINISH, which
\* unl_request() has.
MulticastIdFinishCb == HandleCmdCb
MulticastIdCb == [VALID |-> "SKIP", ACK |-> "STOP", ERR |-> "STOP"]

\* Mutant: __do_listen_events() with the library's sequence check.
ListenCheckedCb == [VALID |-> "SKIP"]
ListenCb == [SEQ_CHECK |-> "OK", VALID |-> "SKIP"]

CbAt(item) ==
  [init |-> PickupCb(item), resolve |-> PickupCb(item),
   lookup |-> MulticastIdCb, command |-> HandleCmdCb, dump |-> HandleCmdCb,
   listen |-> ListenCb]

\* Where nl_recvmsgs() is called until err (or wait_ev.cmd) is set.
Waiting == {"lookup", "command", "dump"}

Init ==
  /\ SockInit
  /\ command \in Commands
  /\ pc = "start"
  /\ script = ScriptOf[command]
  /\ todo = <<>>
  /\ cache = {}
  /\ ctrlid = FALSE
  /\ grp = NoGroup
  /\ joined = {}
  /\ err = "none"
  /\ printed = <<>>
  /\ heard = "nothing"
  /\ result = "none"
  /\ truth = "none"
  /\ events = 0

\* A request is sent and nl_recvmsgs() called for the first time.
Request(at) ==
  /\ pc' = at
  /\ err' = "none"
  /\ TakeSeq
  /\ rx' = Called
  /\ UNCHANGED seqExpect

\* nl_cache_refill(): the dump of all families, into an emptied cache.  The
\* kernel refuses a dump while another is running.
RequestFamilies(at) ==
  /\ Request(at)
  /\ cache' = {}
  /\ \/ StartDump(seqNext, Families) /\ truth' = "ok"
     \/ ~CanStartDump /\ Refuse(seqNext) /\ truth' = "fail"

\* nl80211_init() asks for the family nl80211.
Start ==
  /\ pc = "start"
  /\ RequestFamilies("init")
  /\ UNCHANGED <<command, script, todo, ctrlid, grp, joined, printed, heard, result,
                 events>>

\* genl_ctrl_resolve() returns: without nl80211 iw gives up.
Initialised ==
  /\ pc = "init"
  /\ rx.at = "out"
  /\ pc' = IF rx.ret = "ok" /\ "nl80211" \in cache THEN "next" ELSE "failed"
  /\ UNCHANGED <<sockVars, command, script, todo, cache, ctrlid, grp, joined, err,
                 printed, heard, result, truth, events>>

\* The next step of the command begins.
NextStep ==
  /\ pc = "next"
  /\ script # <<>> 
  /\ script' = Tail(script)
  /\ \/ /\ Head(script) = "prepare"
        /\ pc' = "group"
        /\ todo' = Groups
        /\ UNCHANGED <<sockVars, err, printed, heard, result, truth>>
     \/ /\ Head(script) = "listen"
        /\ pc' = "listen"
        /\ heard' = "nothing"
        /\ Call
        /\ UNCHANGED <<todo, err, printed, result, truth>>
     \/ /\ Head(script) = "command"      \* CMD_CONNECT, CMD_TRIGGER_SCAN
        /\ Request("command")
        /\ \/ Answer(seqNext, <<>>) /\ truth' = "ok" /\ result' = "due"
           \/ Refuse(seqNext) /\ truth' = "fail" /\ UNCHANGED result
        /\ UNCHANGED <<todo, printed, heard>>
     \/ /\ Head(script) = "dump"         \* CMD_GET_SCAN
        /\ Request("dump")
        /\ printed' = <<>>
        /\ \/ StartDump(seqNext, Bss) /\ truth' = "ok"
           \/ ~CanStartDump /\ Refuse(seqNext) /\ truth' = "fail"
        /\ UNCHANGED <<todo, heard, result>>
  /\ UNCHANGED <<command, cache, ctrlid, grp, joined, events>>

Finished ==
  /\ pc = "next"
  /\ script = <<>>
  /\ pc' = "done"
  /\ UNCHANGED <<sockVars, command, script, todo, cache, ctrlid, grp, joined, err,
                 printed, heard, result, truth, events>>

\* nl_get_multicast_id() resolves "nlctrl" ...
LookUp ==
  /\ pc = "group"
  /\ todo # <<>>
  /\ grp' = NoGroup
  /\ RequestFamilies("resolve")
  /\ UNCHANGED <<command, script, todo, ctrlid, joined, printed, heard, result, events>>

\* ... and, whatever came of that, asks it for nl80211.  The kernel knows no
\* family with the number an error makes.
AskFamily ==
  /\ pc = "resolve"
  /\ rx.at = "out"
  /\ ctrlid' = (rx.ret = "ok" /\ "nlctrl" \in cache)
  /\ Request("lookup")
  /\ IF ctrlid' THEN Answer(seqNext, <<"nl80211">>) /\ truth' = "ok"
                ELSE Refuse(seqNext) /\ truth' = "fail"
  /\ UNCHANGED <<command, script, todo, cache, grp, joined, printed, heard, result,
                 events>>

\* __prepare_listen_events() returns an error, and the groups that are left
\* are not looked up.  iw event and iw connect return it.  handle_cac() does
\* not look at it and listens all the same.  For a scan it is not
\* NL80211_CMD_SCAN_ABORTED: there is no wait, and the dump comes next.
PrepareFails ==
  /\ todo' = <<>>
  /\ pc' = IF command \in {"event", "connect"} THEN "failed" ELSE "next"
  /\ script' = IF command = "scan" THEN Tail(script) ELSE script
  /\ UNCHANGED joined

\* The group is joined, or passed over; only "config" is mandatory, but
\* nl_socket_add_membership() must succeed for every group that is found.
Join ==
  /\ pc = "lookup"
  /\ rx.at = "out"
  /\ err # "none"
  /\ LET found == err = "ok" /\ grp # NoGroup
     IN  \/ /\ found
            /\ joined' = joined \union {grp}
            /\ pc' = "group"
            /\ todo' = Tail(todo)
            /\ UNCHANGED script
         \/ /\ ~found /\ Head(todo) # "config"
            /\ pc' = "group"
            /\ todo' = Tail(todo)
            /\ UNCHANGED <<script, joined>>
         \/ /\ found \/ Head(todo) = "config"
            /\ PrepareFails
  /\ UNCHANGED <<sockVars, command, cache, ctrlid, grp, err, printed, heard, result,
                 truth, events>>

Prepared ==
  /\ pc = "group"
  /\ todo = <<>>
  /\ pc' = "next"
  /\ UNCHANGED <<sockVars, command, script, todo, cache, ctrlid, grp, joined, err,
                 printed, heard, result, truth, events>>

\* __do_listen_events() has no memory for its callbacks and returns at once,
\* which is an error of iw event only.  handle_cac() has callbacks of its own.
NotListening ==
  /\ pc = "next"
  /\ script # <<>> /\ Head(script) = "listen"
  /\ command # "cac"
  /\ script' = Tail(script)
  /\ pc' = IF command = "event" THEN "failed" ELSE "next"
  /\ UNCHANGED <<sockVars, command, todo, cache, ctrlid, grp, joined, err, printed,
                 heard, result, truth, events>>

\* Mutant: the loop ends with the first return of nl_recvmsgs().
CommandedEarly ==
  /\ pc \in {"command", "dump"}
  /\ rx.at = "out"
  /\ pc' = IF err = "fail" THEN "failed" ELSE "next"
  /\ UNCHANGED <<sockVars, command, script, todo, cache, ctrlid, grp, joined, err,
                 printed, heard, result, truth, events>>

\* handle_cmd() returns; an error ends the program.
Commanded ==
  /\ pc \in {"command", "dump"}
  /\ rx.at = "out"
  /\ err # "none"
  /\ pc' = IF err = "ok" THEN "next" ELSE "failed"
  /\ UNCHANGED <<sockVars, command, script, todo, cache, ctrlid, grp, joined, err,
                 printed, heard, result, truth, events>>

\* An aborted scan has no results to ask for.
Heard ==
  /\ pc = "listen"
  /\ rx.at = "out"
  /\ heard # "nothing"
  /\ pc' = IF heard = "aborted" THEN "done" ELSE "next"
  /\ UNCHANGED <<sockVars, command, script, todo, cache, ctrlid, grp, joined, err,
                 printed, heard, result, truth, events>>

\* while (...) nl_recvmsgs(...): what it returns is not looked at.
Again ==
  /\ \/ pc \in Waiting /\ err = "none"
     \/ pc = "listen" /\ heard = "nothing"
  /\ Call
  /\ UNCHANGED progVars

Reading ==
  /\ Read \/ ReadOverrun \/ EndOfDatagram
  /\ UNCHANGED progVars

\* A message is parsed: pickup_cb() adds a family to the cache,
\* family_handler() looks for the group in any family it is given,
\* wait_event() compares the command, the others store the answer.
Parsing ==
  /\ rx.at = "parse"
  /\ rx.buf # <<>>
  /\ LET item == Head(rx.buf).item
         cb   == CbAt(item)[pc]
     IN  /\ Parse(cb)
         /\ err' = IF Handles(cb, "ACK") \/ Handles(cb, "FINISH") THEN "ok"
                   ELSE IF Handles(cb, "ERR") THEN "fail" ELSE err
         /\ cache' = IF Handles(cb, "VALID") /\ pc \in {"init", "resolve"}
                     THEN cache \union ({item} \intersect FamilySet) ELSE cache
         /\ grp' = IF /\ Handles(cb, "VALID") /\ pc = "lookup"
                      /\ item \in FamilySet
                      /\ Head(todo) \in GroupsOf[item]
                   THEN <<item, Head(todo)>> ELSE grp
         /\ heard' = IF /\ Handles(cb, "VALID") /\ pc = "listen"
                        /\ item \in {"result", "aborted"} /\ command # "event"
                     THEN item ELSE heard
         /\ printed' = IF Handles(cb, "VALID") /\ pc = "dump"
                       THEN Append(printed, item) ELSE printed
  /\ UNCHANGED <<command, pc, script, todo, ctrlid, joined, result, truth, events>>

\* The kernel announces the result of the command it accepted.  The socket
\* gets the message only if it has joined the group by then.
Announce ==
  /\ result = "due"
  /\ IF <<"nl80211", ResultGroup>> \in joined
     THEN /\ Event("result") \/ (command = "scan" /\ Event("aborted"))
          /\ result' = "sent"
     ELSE UNCHANGED sockVars /\ result' = "missed"
  /\ UNCHANGED <<command, pc, script, todo, cache, ctrlid, grp, joined, err, printed,
                 heard, truth, events>>

\* Something else happens in a group that has been joined; it may be what
\* another program has asked for, and looks like the result then.
Noise ==
  /\ events < MaxEvents
  /\ joined # {}
  /\ pc \notin {"done", "failed"}
  /\ Event("noise") \/ Event("result")
  /\ events' = events + 1
  /\ UNCHANGED <<command, pc, script, todo, cache, ctrlid, grp, joined, err, printed,
                 heard, result, truth>>

Program == \/ Start \/ Initialised \/ NextStep \/ Finished \/ LookUp
           \/ AskFamily \/ Join \/ Prepared \/ NotListening \/ Commanded
           \/ Heard \/ Again \/ Reading \/ Parsing

Next == Program \/ Announce \/ Noise

\* The process is scheduled, and the kernel ends what it has accepted.
Spec == Init /\ [][Next]_vars /\ WF_vars(Program) /\ WF_vars(Announce)

-----------------------------------------------------------------------------
\* A loop that waits for an answer has it.
Concluded == pc \in Waiting /\ rx.at = "out" /\ err # "none"

\* However the events interleaved, a wait that ends has been ended by the
\* answer to its own request, and by then nothing is left of the answers to
\* the requests before it, not even to a dump abandoned half-way: only
\* events are in the queue.
EndsInStep ==
  Concluded => /\ err = truth
               /\ seqExpect = seqNext
               /\ dump = NoDump
               /\ \A i \in 1..Len(queue) : \A j \in 1..Len(queue[i]) :
                    queue[i][j].seq = 0

\* family_handler() looks for the group's name in every family it is given,
\* also in the remains of an abandoned dump; still a group is never joined
\* that belongs to another family.
JoinsOwnGroups == \A id \in joined : id[1] = "nl80211"

\* Events make nl_recvmsgs() return in the middle of a dump; still a scan
\* that ends well has shown all the kernel had, each once and in order.
DumpIsComplete ==
  pc = "done" /\ command = "scan" /\ heard # "aborted" => printed = Bss

\* When the result of the command is in the receive buffer once iw listens, the
\* wait for it ends, whatever else is announced meanwhile and however much of
\* that is dropped; only iw event goes on listening.
Announced ==
  \E i \in 1..Len(queue) : \E j \in 1..Len(queue[i]) : queue[i][j].item \in {"result", "aborted"}
ListenerHears ==
  [](pc = "listen" /\ command # "event" /\ Announced => <>(pc # "listen"))

\* iw connect -w waits for the connect to finish or fail: once the kernel
\* has announced the result to a group of nl80211 the wait ends.
ConnectWaitEnds ==
  [](pc = "listen" /\ result \in {"sent", "missed"} => <>(pc = "done"))
=============================================================================
