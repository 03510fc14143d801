------------------------------- MODULE IwMain -------------------------------
(***************************************************************************)
(* iw from its command line to its exit code: main() finds out how the     *)
(* device is identified, __handle_cmd() finds the command and the device,  *)
(* has the handler read the arguments (IwArgs), sends the message and      *)
(* waits.  Handlers call handle_cmd() themselves: those of the commands    *)
(* that are made of others, and two that ask something first.              *)
(*                                                                         *)
(* Waiting is short here: the kernel accepts or refuses.  NlRequest and    *)
(* IwListen are about how the answers and events arrive.                   *)
(***************************************************************************)
EXTENDS IwArgs, IwCommands

CONSTANTS
  CommandLines,  \* sets of command lines: the words, and what they mean
  Netdevs,       \* the interfaces
  Phys           \* the devices under /sys/class/ieee80211

ASSUME NamesAssumption == Netdevs \cap Phys = {}
ASSUME LinesAssumption ==
  \A lines \in CommandLines : \A l \in lines :
    l.words \in Seq({l.words[i] : i \in DOMAIN l.words}) /\ l.faulty \in BOOLEAN

VARIABLES
  line,          \* the command line
  ran,           \* the command found for it: none yet, NoCommand if there is none
  calls,         \* the calls of __handle_cmd() in progress
  registered,    \* registered_handler
  sent,          \* the requests that were answered, and how
  heap,          \* messages and callback sets that are allocated
  exit           \* the exit code

callVars == <<ran, calls, registered, sent, heap, exit>>
vars == <<line, callVars, argVars>>

NoCommand == Section("")
Running == "running"
Faulty == line.faulty  \* whether anything may fail with this command line
-----------------------------------------------------------------------------
\* What strtoul() finds behind "phy#", and strtoll() in the number of a wdev, in
\* the words that are numbers to the end; (unsigned long)-1 becomes a negative
\* devidx.
PhyIndex == ("phy#0" :> 0) @@ ("phy#-1" :> 0 - 1)
WdevIndex == ("5" :> 5) @@ ("-5" :> 0 - 5)
IndexOf(id) == IF id = "phy_idx" THEN PhyIndex ELSE WdevIndex
PhyHash == {"phy#0", "phy#-1", "phy#x"}

By(id) == CASE id = "none" -> "none" [] id = "netdev" -> "dev" [] id = "wdev" -> "wdev"
            [] OTHER -> "phy"

\* main(): how the device is identified, and the words from there on.
Detected(w) == IF w[1] \in Netdevs THEN "netdev" ELSE IF w[1] \in Phys THEN "phy_name" ELSE "none"
Identified(w) ==
  IF Len(w) > 1 /\ w[1] = "dev" THEN [id |-> "netdev", argv |-> Tail(w)]
  ELSE IF Len(w) > 1 /\ w[1] = "phy" THEN [id |-> "phy_name", argv |-> Tail(w)]
  ELSE IF Len(w) > 1 /\ w[1] \in PhyHash THEN [id |-> "phy_idx", argv |-> w]
  ELSE IF Len(w) > 1 /\ w[1] = "wdev" THEN [id |-> "wdev", argv |-> Tail(w)]
  ELSE [id |-> Detected(w), argv |-> w]

\* How the search for the device ends: "go", or what __handle_cmd() returns.
\* An interface may be gone since main() looked; -errno is 0 if nothing failed.
LookedUp(there) == IF ~there THEN {"error"} ELSE IF Faulty THEN {"go", "error"} ELSE {"go"}
Device(id, word) ==
  CASE id = "none"     -> {"go"}
    [] id = "netdev"   -> LookedUp(word \in Netdevs)
    [] id = "phy_name" -> LookedUp(word \in Phys)
    [] OTHER -> IF word \notin DOMAIN IndexOf(id) THEN {"1"}
                ELSE IF IndexOf(id)[word] < 0 THEN {"0", "error"} ELSE {"go"}

\* A command for a netdev may be given a wdev.
Fits(c, by) == c.idby = by \/ (c.idby = "dev" /\ by = "wdev")

\* Once a section matches, only one that is identified the same way replaces
\* it: which of them it is may depend on the order of the linker section.
Sections(by, word) ==
  LET named == {c \in Table : c.parent = "" /\ c.name = word}
      exact == {c \in named : c.idby = by}
  IN  IF exact # {} THEN exact ELSE named

\* Mutant: the kind of device is not compared.
SubcommandsOfAny(s, by, args) ==
  {c \in Table : /\ c.parent = s.name
                 /\ c.handler # "NULL"
                 /\ args # <<>> /\ c.name = args[1]
                 /\ Len(args) > 1 => c.args}
Subcommands(s, by, args) ==
  {c \in Table : /\ c.parent = s.name
                 /\ c.handler # "NULL"
                 /\ Fits(c, by)
                 /\ args # <<>> /\ c.name = args[1]
                 /\ Len(args) > 1 => c.args}

Usable(s, by, args) == /\ args # <<>> => s.args
                       /\ Fits(s, by)
                       /\ s.handler # "NULL"

\* The commands that may be found for the words w, with their arguments.
Found(by, w) ==
  LET matches == Sections(by, w[1])
      args == Tail(w)
      found(s) == IF Subcommands(s, by, args) # {}
                  THEN {[c |-> c, args |-> Tail(args)] : c \in Subcommands(s, by, args)}
                  ELSE IF Usable(s, by, args) THEN {[c |-> s, args |-> args]}
                  ELSE {[c |-> NoCommand, args |-> args]}
  IN  IF matches = {} THEN {[c |-> NoCommand, args |-> args]}
      ELSE UNION {found(s) : s \in matches}
Behind(id, w) == IF id = "none" THEN w ELSE Tail(w)
-----------------------------------------------------------------------------
\* A call of __handle_cmd(); at is where it is, done counts what its handler
\* has called, err is what came back.
CallOf(id, argv) ==
  [id |-> id, argv |-> argv, c |-> NoCommand, args |-> <<>>, at |-> "find",
   done |-> 0, err |-> "go", owns |-> 0]

Top == calls[Len(calls)]
Below == SubSeq(calls, 1, Len(calls) - 1)
Set(f) == calls' = Append(Below, f)

\* The call returns r, to the handler that made it or to main().
Returns(r) ==
  IF Below = <<>>
  THEN calls' = <<>> /\ exit' = (IF r = "3" THEN "0" ELSE r)
  ELSE /\ calls' = [Below EXCEPT ![Len(Below)].at = "handler", ![Len(Below)].err = r,
                                 ![Len(Below)].done = @ + 1]
       /\ exit' = exit

Parsed(c) == c.handler \in Commands

Init ==
  /\ \E lines \in CommandLines : line \in lines
  /\ ran = <<>>
  /\ calls = <<>>
  /\ registered = "none"
  /\ sent = <<>>
  /\ heap = 0
  /\ exit = Running
  /\ cmd = "none" /\ p = Parser(<<>>) /\ at = 1 /\ steps = 0

\* main(), up to the call; help and version need no socket.
Start ==
  /\ calls = <<>> /\ exit = Running
  /\ IF line.words = <<>> \/ line.words[1] \in {"help", "--version"}
     THEN exit' = "0" /\ calls' = calls
     ELSE \/ /\ LET i == Identified(line.words) IN calls' = <<CallOf(i.id, i.argv)>>
             /\ exit' = exit
          \/ /\ Faulty
             /\ exit' = "1" /\ calls' = calls
  /\ UNCHANGED <<line, ran, registered, sent, heap, argVars>>

Refuse(r) == Returns(r) /\ UNCHANGED <<heap, argVars>>

FindDevice ==
  /\ calls # <<>> /\ Top.at = "find"
  /\ IF Len(Top.argv) <= 1 /\ Top.id # "none"
     THEN Refuse("1") /\ ran' = IF Below = <<>> THEN <<NoCommand>> ELSE ran
     ELSE /\ \E d \in Device(Top.id, Top.argv[1]) :
               IF d # "go" THEN Refuse(d)
               ELSE Set([Top EXCEPT !.at = "command"]) /\ UNCHANGED <<heap, exit, argVars>>
          /\ ran' = ran
  /\ UNCHANGED <<line, registered, sent>>

\* The command; for one that sends a request, a message and two callback sets.
\* The allocation of the first, or of the others, may fail.
Allocated == IF Faulty THEN 0..3 ELSE {3}
FindCommand ==
  /\ calls # <<>> /\ Top.at = "command"
  /\ \E g \in Found(By(Top.id), Behind(Top.id, Top.argv)) :
       /\ ran' = IF Below = <<>> THEN <<g.c>> ELSE ran
       /\ LET f == [Top EXCEPT !.c = g.c, !.args = g.args, !.at = "handler"]
          IN  IF g.c = NoCommand THEN Refuse("1")
              ELSE IF g.c.cmd = "0" THEN Set(f) /\ UNCHANGED <<heap, exit, argVars>>
              ELSE \E n \in Allocated :
                     IF n = 0 THEN Refuse("2")
                     ELSE /\ heap' = heap + n
                          /\ Set([f EXCEPT !.owns = n, !.at = IF n < 3 THEN "out" ELSE @,
                                           !.err = IF n < 3 THEN "2" ELSE @])
                          /\ IF Parsed(g.c)
                             THEN cmd' = g.c.handler /\ p' = Parser(g.args) /\ at' = 1 /\ steps' = 0
                             ELSE UNCHANGED argVars
                          /\ exit' = exit
  /\ UNCHANGED <<line, registered, sent>>
-----------------------------------------------------------------------------
\* What a handler does next: it calls handle_cmd(), joins the groups, waits for
\* an event, watches events for good, has its message sent, or returns.
Makes(id, argv) == [do |-> "call", id |-> id, argv |-> argv]
Prepares == [do |-> "prepare"]
Listens == [do |-> "listen"]
Watches == [do |-> "watch"]
Sends == [do |-> "send"]
Gives(r) == [do |-> "return", r |-> r]
IfSound(f, next) == IF f.err = "0" THEN next ELSE Gives(f.err)

\* After "dev <cmd>".
More(f) == SubSeq(f.argv, 3, Len(f.argv))

handle_scan_combined(f) ==
  LET option == IF More(f) # <<>> /\ More(f)[1] \in {"-u", "-b"} THEN <<More(f)[1]>> ELSE <<>>
  IN  CASE f.done = 0 -> Makes(f.id, <<f.argv[1], "scan", "trigger">>
                                       \o SubSeq(More(f), 1 + Len(option), Len(More(f))))
        [] f.done = 1 -> IfSound(f, Listens)
        [] f.done = 2 -> IF f.err = "aborted" THEN Gives("0")
                         ELSE Makes(f.id, <<f.argv[1], "scan", "dump">> \o option)
        [] OTHER      -> Gives(f.err)

iw_connect(f) ==
  LET wait == More(f) # <<>> /\ More(f)[1] = "-w"
  IN  CASE f.done = 0 -> Prepares
        [] f.done = 1 -> IfSound(f, Makes(f.id, <<f.argv[1], "connect", "establish">>
                                               \o (IF wait THEN Tail(More(f)) ELSE More(f))))
        [] f.done = 2 -> IfSound(f, IF wait THEN Listens ELSE Gives("0"))
        [] OTHER      -> Gives("0")

\* Whether the dump showed a BSS that we are linked with is up to the kernel.
handle_link(f) ==
  CASE f.done = 0 -> {Makes(f.id, <<f.argv[1], "link", "get_bss">>)}
    [] f.done = 1 -> IF f.err # "0" THEN {Gives(f.err)}
                     ELSE {Gives("0"), Makes(f.id, <<f.argv[1], "link", "get_sta", Mac1>>)}
    [] OTHER      -> {Gives(f.err)}

\* The channel is parsed here and again by the command that is called.
CacTrigger(f, parsed) ==
  IF parsed # "0" THEN Gives(parsed)
  ELSE Makes(f.id, <<f.argv[1], "cac", "trigger">> \o More(f))
handle_cac(f) ==
  CASE f.done = 0 -> CacTrigger(f, handle_cac_trigger(Parser(More(f))).ret)
    [] f.done = 1 -> IfSound(f, Listens)
    [] OTHER      -> Gives("0")

handle_ftm_req(f) ==
  CASE f.done = 0 -> Makes(f.id, <<f.argv[1], "measurement", "ftm_request_send">> \o Tail(More(f)))
    [] f.done = 1 -> IfSound(f, Listens)
    [] OTHER      -> Gives("0")

\* "frame <type> <pattern>" once or more, then maybe "count <n>"; the device is
\* taken for the name of an interface, however it was identified.
handle_mgmt_dump(f) ==
  LET words == Tail(More(f))
      left == SubSeq(words, 3 * f.done + 1, Len(words))
  IN  IF Len(f.argv) < 6 THEN Gives("1")
      ELSE IF f.done > 0 /\ f.err = "heard" THEN Gives("0")
      ELSE IF f.done > 0 /\ f.err # "0" THEN Gives(f.err)
      ELSE IF Len(left) >= 3
           THEN IF left[1] # "frame" THEN Gives("1")
                ELSE Makes("netdev", <<f.argv[1], "mgmt", "reg", left[2], left[3]>>)
      ELSE IF left = <<>> THEN Watches
      ELSE IF Len(left) = 2 /\ left[1] = "count" THEN Listens
      ELSE Gives("1")

print_events(f) ==
  LET options == Tail(f.argv)
      times == {i \in DOMAIN options : options[i] \in {"-t", "-T", "-r"}}
  IN  CASE f.done = 0 -> IF \/ \E i \in DOMAIN options : options[i] \notin {"-f", "-t", "-T", "-r"}
                            \/ \E i, j \in times : i # j
                         THEN Gives("1") ELSE Prepares
        [] OTHER      -> IfSound(f, Watches)

\* Asks for the features first, and does not mind if there is no answer.
handle_info(f) == IF f.done = 0 THEN Makes("none", <<"features", "-q">>) ELSE Sends

\* Mutant: every failure of the dump counts as done.
handle_reg_getDone(f) == IF f.done = 0 THEN Makes("none", <<"reg", "dump">>) ELSE Gives("3")
\* Done with the dump, unless the kernel does not know it; its printer is still
\* registered then.
handle_reg_get(f) ==
  CASE f.done = 0 -> Makes("none", <<"reg", "dump">>)
    [] f.done > 0 /\ f.err = "EOPNOTSUPP" -> Sends
    [] OTHER -> IfSound(f, Gives("3"))

\* The commands that handlers call: the section and the name.  They send a
\* request, and none of them calls one itself.  All handlers that call one with
\* their own device are those of commands for a netdev that send nothing.
\* (There is no constant in it: TLC has the answer.)
Callees ==
  {<<"scan", "trigger">>, <<"scan", "dump">>, <<"connect", "establish">>, <<"link", "get_bss">>,
   <<"link", "get_sta">>, <<"cac", "trigger">>, <<"measurement", "ftm_request_send">>,
   <<"mgmt", "reg">>, <<"reg", "dump">>}
Callers == {"handle_scan_combined", "iw_connect", "handle_link", "handle_cac", "handle_ftm_req",
            "handle_mgmt_dump"}
\* The handlers of several steps.
Goers == Callers \cup {"print_events", "handle_info", "handle_reg_get"}
CalleesReachable ==
  /\ \A e \in Callees :
       /\ \E s \in Table : s.parent = "" /\ s.name = e[1]
       /\ \E c \in Table : c.parent = e[1] /\ c.name = e[2]
       /\ \A c \in Table : (c.parent = e[1] /\ c.name = e[2]) =>
            /\ c.handler \notin Goers \cup {"NULL"} /\ c.cmd # "0"
            /\ c.args = (e[2] \notin {"get_bss", "dump"} \/ e[1] = "scan")
            /\ c.idby = IF e[1] = "reg" THEN "none" ELSE "dev"
            /\ e = <<"scan", "dump">> => c.handler = "handle_scan_dump"
            /\ e = <<"reg", "dump">> => c.handler = "handle_reg_dump"
  /\ \E s \in Table : s.parent = "" /\ s.name = "features"
  /\ \A c \in Table :
       /\ c.parent # "features"
       /\ (c.parent = "" /\ c.name = "features") =>
            c.handler = "handle_features" /\ c.cmd # "0" /\ c.args /\ c.idby = "none"
       /\ c.handler \in Callers => c.idby = "dev" /\ c.cmd = "0"
       /\ c.handler = "handle_ftm_req" => c.parent # ""
       /\ c.cmd = "0" => c.handler \in Callers \cup {"print_events", "print_help", "NULL"}
ASSUME CalleesAssumption == CalleesReachable

\* The handlers that only look at the number of arguments.
OneStep(f) ==
  CASE f.c.handler = "handle_commands"         -> Gives("2")
    [] f.c.handler = "get_interface_meshparam" ->
         IF Len(f.args) # 1 THEN Gives("1")
         ELSE IF f.args[1] \in DOMAIN MeshParams THEN Sends ELSE Gives("2")
    [] f.c.handler = "handle_link_sta"         ->
         IF Len(f.args) = 1 THEN Sends ELSE Gives("1")
    [] f.c.handler = "handle_scan_dump"        ->
         IF Len(f.args) > 1 THEN Gives("1") ELSE Sends
    [] f.c.handler = "handle_stop_sched_scan"  -> IF f.args # <<>> THEN Gives("1") ELSE Sends
    [] OTHER                                   -> Sends

Continued(f) ==
  CASE f.c.handler = "handle_scan_combined" -> {handle_scan_combined(f)}
    [] f.c.handler = "iw_connect"           -> {iw_connect(f)}
    [] f.c.handler = "handle_link"          -> handle_link(f)
    [] f.c.handler = "handle_cac"           -> {handle_cac(f)}
    [] f.c.handler = "handle_ftm_req"       -> {handle_ftm_req(f)}
    [] f.c.handler = "handle_mgmt_dump"     -> {handle_mgmt_dump(f)}
    [] f.c.handler = "print_events"         -> {print_events(f)}
    [] f.c.handler = "handle_info"          -> {handle_info(f)}
    [] f.c.handler = "handle_reg_get"       -> {handle_reg_get(f)}
    [] OTHER                                -> {OneStep(f)}
-----------------------------------------------------------------------------
\* What register_handler() is told by the handlers that have a message sent.
ScanPrinters ==
  ("handle_scan_dump" :> "print_bss_handler") @@ ("handle_scan_for_link" :> "link_bss_handler")
PhyPrinters ==
  ("handle_info" :> "print_phy_handler") @@ ("handle_features" :> "print_feature_handler")
  @@ ("handle_channels" :> "print_channels_handler") @@ ("handle_get_txq" :> "print_txq_handler")
  @@ ("handle_coalesce_show" :> "print_coalesce_handler")
  @@ ("handle_wowlan_show" :> "print_wowlan_handler") @@ ("handle_reg_dump" :> "print_reg_handler")
StationPrinters ==
  [h \in {"station get", "station del", "handle_station_dump"} |-> "print_sta_handler"]
  @@ [h \in {"mpath get", "mpath set", "handle_mpath_dump"} |-> "print_mpath_handler"]
  @@ [h \in {"mpp get", "handle_mpp_dump"} |-> "print_mpp_handler"]
  @@ ("handle_link_sta" :> "print_link_sta")
NetdevPrinters ==
  [h \in {"handle_interface_info", "handle_dev_dump"} |-> "print_iface_handler"]
  @@ ("handle_survey_dump" :> "print_survey_handler") @@ ("handle_ftm_get_stats" :> "handle_ftm_stats")
  @@ ("get_power_save" :> "print_power_save_handler")
  @@ ("get_interface_meshparam" :> "print_mesh_param_handler")
  @@ ("nan add_func" :> "print_instance_id_handler")
  @@ [h \in {"handle_hwsim_getps", "hwsim setps"} |-> "print_hwsim_ps_handler"]
PrinterOf == ScanPrinters @@ PhyPrinters @@ StationPrinters @@ NetdevPrinters

\* Mutant: a handler that is registered stays.
RegisteredByFirst(c) ==
  IF registered = "none" /\ c.handler \in DOMAIN PrinterOf THEN PrinterOf[c.handler] ELSE registered

\* vendor recv and recvbin share their parser with send, which expects nothing.
RegisteredBy(c) ==
  IF c.name \in {"recv", "recvbin"} THEN "print_vendor_response"
  ELSE IF c.handler \in DOMAIN PrinterOf THEN PrinterOf[c.handler] ELSE registered

\* handle_cac() needs a word behind "cac"; its own callback set stays behind.
CacNeedsArguments(f) == f.c.handler = "handle_cac" /\ Len(f.argv) < 3

\* A handler whose arguments need no parser, or that goes on after a call.
Handle ==
  /\ calls # <<>> /\ Top.at = "handler" /\ ~Parsed(Top.c)
  /\ LET f == Top
         new == IF f.c.handler = "handle_cac" /\ f.done = 0 THEN 1 ELSE 0
     IN  IF CacNeedsArguments(f)
         THEN Returns("1") /\ heap' = heap + 1 /\ registered' = registered
         ELSE \E d \in Continued(f) :
                LET g == [f EXCEPT !.owns = @ + new]
                IN  /\ \/ /\ d.do = "call"
                          /\ calls' = Below \o <<[g EXCEPT !.at = "calling"], CallOf(d.id, d.argv)>>
                       \/ d.do \in {"prepare", "listen", "watch", "send"} /\ Set([g EXCEPT !.at = d.do])
                       \/ d.do = "return" /\ Set([g EXCEPT !.at = "out", !.err = d.r])
                    /\ registered' = IF d.do = "send" THEN RegisteredBy(f.c) ELSE registered
                    /\ heap' = heap + new
                    /\ exit' = exit
  /\ UNCHANGED <<line, ran, sent, argVars>>

\* One that parses its arguments, and its end.
Parse ==
  /\ calls # <<>> /\ Top.at = "handler" /\ Parsed(Top.c)
  /\ Step
  /\ UNCHANGED <<line, callVars>>

ParserDone ==
  /\ calls # <<>> /\ Top.at = "handler" /\ Parsed(Top.c)
  /\ Returned
  /\ IF p.ret = "undefined" THEN calls' = <<>> /\ exit' = "undefined"
     ELSE /\ Set([Top EXCEPT !.at = IF Accepted THEN "send" ELSE "out", !.err = p.ret])
          /\ exit' = exit
  /\ registered' = IF Accepted THEN RegisteredBy(Top.c) ELSE registered
  /\ UNCHANGED <<line, ran, sent, heap, argVars>>

\* __prepare_listen_events().
Prepare ==
  /\ calls # <<>> /\ Top.at = "prepare"
  /\ \E r \in IF Faulty THEN {"0", "error"} ELSE {"0"} :
       Set([Top EXCEPT !.at = "handler", !.err = r, !.done = @ + 1])
  /\ UNCHANGED <<line, ran, registered, sent, heap, exit, argVars>>

\* __do_listen_events(), whose handler is given its locals; those that use a
\* callback set of their own register nothing, and listen_events() does not if
\* it cannot join the groups.  A scan may be aborted.
Listen ==
  /\ calls # <<>> /\ Top.at = "listen"
  /\ \E r \in {"heard"} \cup {"aborted" : h \in {Top.c.handler} \cap {"handle_scan_combined"}} :
       Set([Top EXCEPT !.at = "handler", !.err = r, !.done = @ + 1])
  /\ \/ Top.c.handler \notin {"handle_cac", "handle_mgmt_dump"} /\ registered' = "wait_event"
     \/ /\ \/ Top.c.handler \in {"handle_cac", "handle_mgmt_dump"}
           \/ Faulty /\ Top.c.handler \in {"handle_scan_combined", "handle_ftm_req"}
        /\ registered' = registered
  /\ UNCHANGED <<line, ran, sent, heap, exit, argVars>>

Send ==
  /\ calls # <<>> /\ Top.at = "send"
  /\ \/ Set([Top EXCEPT !.at = "wait"])
     \/ Faulty /\ Set([Top EXCEPT !.at = "out", !.err = "error"])
  /\ UNCHANGED <<line, ran, registered, sent, heap, exit, argVars>>

\* The kernel's answer.
Answered ==
  /\ calls # <<>> /\ Top.at = "wait"
  /\ \E r \in IF Faulty THEN {"0", "EOPNOTSUPP", "error"} ELSE {"0"} :
       /\ sent' = Append(sent, [cmd |-> Top.c.cmd, r |-> r])
       /\ Set([Top EXCEPT !.at = "out", !.err = r])
  /\ UNCHANGED <<line, ran, registered, heap, exit, argVars>>

\* Mutant: a failed allocation returns past the label.
OutButAllocations ==
  /\ calls # <<>> /\ Top.at = "out"
  /\ Returns(Top.err)
  /\ heap' = IF Top.err = "2" THEN heap ELSE heap - Top.owns
  /\ UNCHANGED <<line, ran, registered, sent, argVars>>
\* The label out, and the return.
Out ==
  /\ calls # <<>> /\ Top.at = "out"
  /\ Returns(Top.err)
  /\ heap' = heap - Top.owns
  /\ UNCHANGED <<line, ran, registered, sent, argVars>>

Next == \/ Start \/ FindDevice \/ FindCommand \/ Handle \/ Parse \/ ParserDone
        \/ Prepare \/ Listen \/ Send \/ Answered \/ Out
Spec == Init /\ [][Next]_vars
-----------------------------------------------------------------------------
\* The state is what it should be.
TypeOK ==
  /\ ParserOK
  /\ ran = <<>> \/ (Len(ran) = 1 /\ ran[1] \in Table \cup {NoCommand})
  /\ Len(calls) \in 0..2
  /\ \A i \in DOMAIN calls : calls[i].owns \in 0..3
  /\ heap \in 0..6
  /\ exit \in {Running, "0", "error", "EOPNOTSUPP"} \cup Results
  /\ exit # Running => calls = <<>>

\* The command line reaches the command it names, if its device suits it.
Reaches(l) == ran = <<>> \/ ran[1] = IF l.suits THEN l.c ELSE NoCommand
\* What a handler calls is found, whatever order the linker gives the commands.
CallsReach ==
  \A i \in DOMAIN calls :
    (i > 1 /\ calls[i].at = "command") =>
      NoCommand \notin {g.c : g \in Found(By(calls[i].id), Behind(calls[i].id, calls[i].argv))}
\* Whatever order the linker gives the commands: a command line that the usage
\* text allows reaches the command it names, and no other; one whose device is
\* of another kind reaches none; and the commands that handlers call are found.
ReachesCommand ==
  /\ Reaches(line) \/ (line.byWdev /\ line.c.name = "info")
  /\ CallsReach

\* "Commands that use the netdev ('dev') can also be given the 'wdev' instead to
\* identify the device" (iw.c:228).
WdevStandsForNetdev == line.byWdev => Reaches(line)

\* A negative number of a device: __handle_cmd() returns -errno, which may be 0.
Negative(id, argv) == /\ id \in {"phy_idx", "wdev"} /\ Len(argv) > 1
                      /\ argv[1] \in DOMAIN IndexOf(id) /\ IndexOf(id)[argv[1]] < 0
NoRequest == \/ line.words = <<>> \/ line.words[1] \in {"help", "--version"}
             \/ Negative(Identified(line.words).id, Identified(line.words).argv)
\* iw succeeds only if it sent a request and the kernel accepted the last one,
\* or if there was nothing to send.  A negative number of a device is the
\* exception.
ZeroMeansDone ==
  exit = "0" => NoRequest \/ (sent # <<>> /\ sent[Len(sent)].r = "0")

\* Every message and callback set is given back, whichever way the calls end;
\* except by "cac" without arguments.
NothingKept ==
  exit \notin {Running, "undefined"} =>
    heap = 0 \/ (heap = 1 /\ ran # <<>> /\ ran[1].handler = "handle_cac"
                          /\ Len(Identified(line.words).argv) < 3)

\* The functions that print the answers to a request.
Printers ==
  ("GET_WIPHY" :> {"print_phy_handler", "print_channels_handler", "print_txq_handler"})
  @@ ("GET_PROTOCOL_FEATURES" :> {"print_feature_handler"})
  @@ ("GET_INTERFACE" :> {"print_iface_handler"}) @@ ("GET_REG" :> {"print_reg_handler"})
  @@ ("GET_SCAN" :> {"print_bss_handler", "link_bss_handler"})
  @@ ("GET_STATION" :> {"print_sta_handler", "print_link_sta"})
  @@ ("GET_MPATH" :> {"print_mpath_handler"}) @@ ("GET_MPP" :> {"print_mpp_handler"})
  @@ ("GET_SURVEY" :> {"print_survey_handler"}) @@ ("GET_COALESCE" :> {"print_coalesce_handler"})
  @@ ("GET_WOWLAN" :> {"print_wowlan_handler"}) @@ ("GET_POWER_SAVE" :> {"print_power_save_handler"})
  @@ ("GET_MESH_PARAMS" :> {"print_mesh_param_handler"})
  @@ ("GET_FTM_RESPONDER_STATS" :> {"handle_ftm_stats"})
  @@ ("ADD_NAN_FUNCTION" :> {"print_instance_id_handler"})
\* Every handler of such a request registers one of them (there is no constant in
\* it: TLC has the answer).
PrintersFit ==
  /\ \A c \in Table : c.cmd \in DOMAIN Printers =>
       /\ c.name \notin {"recv", "recvbin"}
       /\ \/ c.handler = "handle_commands"
          \/ c.handler = "handle_reg_get" /\ c.cmd = "GET_REG"
          \/ c.handler \in DOMAIN PrinterOf /\ PrinterOf[c.handler] \in Printers[c.cmd]
  /\ \A c \in Table :
       c.handler \in {"handle_reg_get", "handle_reg_dump"} => c.cmd \in DOMAIN Printers
  /\ {"handle_scan_dump", "handle_reg_dump"} \subseteq DOMAIN PrinterOf
  /\ "handle_reg_get" \notin DOMAIN PrinterOf
  /\ PrinterOf["handle_reg_dump"] = "print_reg_handler"
  /\ \A h \in DOMAIN PrinterOf : PrinterOf[h] # "wait_event"
  /\ "print_reg_handler" \in Printers["GET_REG"]
ASSUME PrintersAssumption == PrintersFit

\* The answer to a request meets the function that prints what it holds, and
\* never one that a command before it in the same run has left there, whose
\* data may be gone.
OwnPrinter ==
  (calls # <<>> /\ Top.at = "wait") =>
    /\ registered # "wait_event"
    /\ Top.c.cmd \in DOMAIN Printers => registered \in Printers[Top.c.cmd]
=============================================================================
