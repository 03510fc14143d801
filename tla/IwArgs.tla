------------------------------- MODULE IwArgs -------------------------------
(***************************************************************************)
(* A command line of iw on its way to a message: the handler of a command  *)
(* reads the arguments one stage, one word or one line at a time, and puts *)
(* attributes into the message.  __handle_cmd() (iw.c) looks at what it    *)
(* returns: only after a zero is the message sent, a one is answered with  *)
(* the usage of the command.                                               *)
(*                                                                         *)
(* IwUsage says for each command which command lines its usage text allows *)
(* and what they mean; the command lines that are tried here are these,    *)
(* and what becomes of them when they are cut off, or a word is replaced   *)
(* or added.                                                               *)
(***************************************************************************)
EXTENDS JoinArgs, NanArgs, FileArgs, IfaceArgs, SetArgs, IwUsage

CONSTANTS
  Commands,     \* the commands that are tried
  MaxSteps      \* more stages than a command line here needs

ASSUME CommandsAssumption == Commands \subseteq DOMAIN Usages
ASSUME MaxStepsAssumption == MaxSteps \in Nat

VARIABLES
  cmd,          \* the command
  p,            \* its parser
  at,           \* the stage that comes next
  steps         \* how many stages have been taken

argVars == <<cmd, p, at, steps>>
-----------------------------------------------------------------------------
\* What cmd->handler() does at a stage.
Joining(c) == c \in {"connect", "auth", "ibss join", "mesh join", "set mesh_param", "ap start"}
Join(c, s, q) ==
  CASE c = "connect"        -> iw_conn(s, q)
    [] c = "auth"           -> iw_auth(s, q)
    [] c = "ibss join"      -> join_ibss(s, q)
    [] c = "mesh join"      -> join_mesh(s, q)
    [] c = "set mesh_param" -> set_interface_meshparam(s, q)
    [] c = "ap start"       -> handle_start_ap(s, q)

Staged(c) == c \in {"scan trigger", "scan sched_start", "wowlan enable", "coalesce enable",
                    "ftm_request_send", "nan start", "nan config", "nan rm_func",
                    "nan add_func", "set bitrates", "interface add", "set monitor",
                    "switch freq", "switch channel", "set tidconf", "set retry",
                    "station del", "ftm start_responder"}
Stages(c, s, q) ==
  CASE c = "scan trigger"     -> handle_scan(s, q)
    [] c = "scan sched_start" -> handle_start_sched_scan(s, q)
    [] c = "wowlan enable"    -> handle_wowlan_enable(s, q)
    [] c = "coalesce enable"  -> handle_coalesce_enable(s, q)
    [] c = "ftm_request_send" -> handle_ftm_req_send(s, q)
    [] c = "nan start"        -> handle_nan_start(s, q)
    [] c = "nan config"       -> handle_nan_config(s, q)
    [] c = "nan rm_func"      -> handle_nan_rm_func(s, q)
    [] c = "nan add_func"     -> handle_nan_add_func(s, q)
    [] c = "set bitrates"     -> handle_bitrates(s, q)
    [] c = "interface add"    -> handle_interface_add(s, q)
    [] c = "set monitor"      -> handle_interface_set(s, q)
    [] c = "switch freq"      -> handle_chanfreq(s, q, FALSE)
    [] c = "switch channel"   -> handle_chanfreq(s, q, TRUE)
    [] c = "set tidconf"      -> handle_tid_config(s, q)
    [] c = "set retry"        -> handle_retry(s, q)
    [] c = "station del"      -> handle_station_del(s, q)
    [] c = "ftm start_responder" -> handle_ftm_start_responder(s, q)

\* Those that take one stage.
Short(c, q) ==
  CASE c = "set meshid"     -> handle_interface_meshid(q)
    [] c = "set type"       -> handle_interface_type(q)
    [] c = "set 4addr"      -> handle_interface_4addr(q)
    [] c = "set noack_map"  -> handle_interface_noack_map(q)
    [] c = "set peer"       -> handle_interface_wds_peer(q)
    [] c = "set mcast_rate" -> set_mcast_rate(q)
    [] c = "set name"       -> handle_name(q)
    [] c = "set freq"       -> handle_freq(q)
    [] c = "set channel"    -> handle_chan(q)
    [] c = "cac trigger"    -> handle_cac_trigger(q)
    [] c = "set frag"       -> handle_fragmentation(q)
    [] c = "set rts"        -> handle_rts(q)
    [] c = "set netns"      -> handle_netns(q)
    [] c = "set coverage"   -> handle_coverage(q)
    [] c = "set distance"   -> handle_distance(q)
    [] c = "set txpower"    -> handle_txpower(q)
    [] c = "set antenna"    -> handle_antenna(q)
    [] c = "set txq"        -> handle_set_txq(q)
    [] c = "set power_save" -> set_power_save(q)
    [] c \in {"station get", "mpath get", "mpp get"} -> OneAddress(q)
    [] c = "station set"    -> select_station_cmd(q)
    [] c = "mpath set"      -> handle_mpath_set(q)
    [] c = "mpath probe"    -> handle_mpath_probe(q)
    [] c = "reg set"        -> handle_reg_set(q)
    [] c = "cqm rssi"       -> iw_cqm_rssi(q)
    [] c = "ocb join"       -> join_ocb(q)
    [] c = "offchannel"     -> offchannel(q)
    [] c = "roc start"      -> handle_roc_start(q)
    [] c = "vendor send"    -> handle_vendor(q)
    [] c = "mgmt reg"       -> register_mgmt_frame(q)
    [] c = "hwsim setps"    -> handle_hwsim_setps(q)
    [] c = "hwsim stopqueues" -> handle_hwsim_stop_queues(q)
    [] c = "hwsim wakequeues" -> handle_hwsim_wake_queues(q)

\* The other handlers read all their arguments when they are first called.
OneStage(c) ==
  c \in {"set meshid", "set type", "set 4addr", "set noack_map", "set peer", "set mcast_rate",
         "set name", "set freq", "set channel", "cac trigger", "set frag", "set rts",
         "set netns", "set coverage", "set distance", "set txpower", "set antenna", "set txq",
         "set power_save", "station get", "mpath get", "mpp get", "station set", "mpath set",
         "mpath probe", "reg set", "cqm rssi", "ocb join", "offchannel", "roc start",
         "vendor send", "mgmt reg", "hwsim setps", "hwsim stopqueues", "hwsim wakequeues"}
ASSUME HandlersAssumption == \A c \in Commands : Joining(c) \/ Staged(c) \/ OneStage(c)

\* argv[argc] is in none of the tables that words are looked up in without a
\* look at argc; and a word for a rate mask is followed by what goes with it.
TablesFit ==
  /\ \A words \in {DOMAIN KeyOf, DOMAIN AkmOf, DOMAIN CipherOf, DOMAIN AuthOf,
                   DOMAIN MeshSettings, DOMAIN HiddenOf, DOMAIN IfTypes} : Null \notin words
  /\ \A w \in DOMAIN RateWords : RateWords[w][1] \in RateStates
  /\ "auto" \in DOMAIN PowerTypes /\ "auto" \notin DOMAIN Distances
ASSUME TablesAssumption == TablesFit

Handler(c, s, q) ==
  IF Joining(c) THEN Join(c, s, q) ELSE IF Staged(c) THEN Stages(c, s, q) ELSE Short(c, q)

-----------------------------------------------------------------------------
\* The next stage; Again keeps the parser at the one it is at.
Step ==
  /\ p.ret = "go"
  /\ steps < MaxSteps
  /\ p' = Handler(cmd, at, [p EXCEPT !.again = FALSE])
  /\ at' = IF p'.again THEN at ELSE at + 1
  /\ steps' = steps + 1
  /\ UNCHANGED cmd

-----------------------------------------------------------------------------
Returned == p.ret # "go"
Accepted == p.ret = "0"
Message == {p.msg[i] : i \in DOMAIN p.msg}

\* What a handler returns, and that it consumes no more words than there are.
Results == {"0", "1", "2", "EINVAL", "ENOBUFS", "ENOENT", "EPERM", "undefined"}
ParserOK ==
  /\ cmd \in Commands \cup {"none"}
  /\ p.ret \in Results \cup {"go"}
  /\ p.ret # "undefined" => p.pos \in 0..Len(p.argv)
  /\ at \in Nat \ {0}
  /\ steps \in 0..MaxSteps

\* Every handler returns: none goes round a loop without consuming a word or a
\* line.  MaxSteps is more than any command line here needs.
ParserReturns == steps = MaxSteps => Returned

\* The command line is accepted and the message says what u does, each
\* attribute once and no other.
Means(u) ==
  /\ Accepted
  /\ Message = u.e
  /\ \A i, j \in DOMAIN p.msg : p.msg[i] = p.msg[j] => i = j

\* Every parser comes to an end.  Of the command lines that the usage text allows
\* all but the exceptions named in Bent are accepted and sent as they are meant,
\* and none of the exceptions is; those of Beyond are sent as is said there.
SentAsMeant ==
  /\ ParserReturns
  /\ Returned =>
       /\ \A u \in Language[cmd] : p.argv = u.w => (Means(u) <=> ~Bent(cmd, u.w))
       /\ \A u \in Beyond[cmd] : p.argv = u.w => Means(u)

\* Only such command lines are accepted: whatever is misspelt, missing or too
\* much is refused, and never taken for something else or passed over, except
\* where Beyond, Lenient and Overlooks say so.
AcceptsOnlyUsage ==
  (Accepted /\ cmd \notin Lenient /\ ~Overlooked(cmd, p.argv))
    => p.argv \in {u.w : u \in Language[cmd] \cup Beyond[cmd]}

\* Only these read an argument that is not there.
ReadsOnlyArguments == p.ret = "undefined" => cmd \in ReadsBeyond
=============================================================================
