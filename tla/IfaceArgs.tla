----------------------------- MODULE IfaceArgs ------------------------------
(***************************************************************************)
(* The commands of interface.c: a new interface, its type and flags, the   *)
(* channel switch and the configuration per traffic identifier.            *)
(***************************************************************************)
EXTENDS RateArgs

mntr_flags == {"none", "fcsfail", "plcpfail", "control", "otherbss", "cook", "active"}
GroupIds == {"00112233445566770011223344556677"}

\* parse_mumimo_options(): at most one of them, in front of a flag.
MumimoOption(p, attr, values) ==
  IF Peek(p, 1) \in values THEN Shift(Put(p, <<attr, Peek(p, 1)>>), 2)
  ELSE Return(p, "1")
parse_mumimo_options(p) ==
  CASE Arg(p) = "mumimo-groupid" -> MumimoOption(p, "MU_MIMO_GROUP_DATA", GroupIds)
    [] Arg(p) = "mumimo-follow-mac" ->
         MumimoOption(p, "MU_MIMO_FOLLOW_MAC_ADDR", Macs)
    [] OTHER -> p

\* parse_mntr_flags(), an argument at a time; the flags are collected, and put
\* when no argument is left.
MntrFlag(p) ==
  LET q == parse_mumimo_options(p)
  IN  IF q.ret # "go" \/ Left(q) = 0 THEN q
      ELSE IF Arg(q) \notin mntr_flags THEN Return(q, "EINVAL")
      ELSE Shift([q EXCEPT !.loc.flags = Append(@, Arg(q))], 1)
PutFlags(p) == Put(p, <<"MNTR_FLAGS">> \o p.loc.flags)
Flags(p) == [p EXCEPT !.loc = [st |-> "flags", flags |-> <<>>]]

\* get_if_type(): the name of a type.  "ap" needs a daemon.
IfTypes ==
  ("ibss" :> "ADHOC") @@ ("ocb" :> "OCB") @@ ("monitor" :> "MONITOR")
  @@ ("__ap" :> "AP") @@ ("__ap_vlan" :> "AP_VLAN") @@ ("wds" :> "WDS")
  @@ ("managed" :> "STATION") @@ ("mp" :> "MESH_POINT") @@ ("__p2pcl" :> "P2P_CLIENT")
  @@ ("__p2pdev" :> "P2P_DEVICE") @@ ("__p2pgo" :> "P2P_GO") @@ ("__nan" :> "NAN")
IfType(p, k) ==
  IF Peek(p, k) \in DOMAIN IfTypes
  THEN Shift(Put(p, <<"IFTYPE", IfTypes[Peek(p, k)]>>), k + 1) ELSE Return(p, "2")

parse_4addr_flag(p, err) ==
  LET four == ("on" :> "1") @@ ("off" :> "0")
  IN  IF Left(p) = 0 THEN Return(p, "undefined")
      ELSE IF Arg(p) \notin DOMAIN four THEN Return(p, err)
      ELSE Shift(Put(p, <<"4ADDR", four[Arg(p)]>>), 1)

\* What may follow the type: addresses, and then one of the rest.
AddOption(p) ==
  LET q == Shift(p, 1)
  IN  CASE Left(p) = 0 -> p
        [] Word(p, "addr") -> IF Left(q) = 0 THEN Return(q, "undefined")
                              ELSE IF ~mac_addr_a2n(Arg(q)) THEN Return(q, "2")
                              ELSE Again([Shift(q, 1) EXCEPT !.loc.mac = <<Arg(q)>>])
        [] Word(p, "mesh_id") -> IF Left(q) = 0 THEN Return(q, "1")
                                 ELSE Shift([q EXCEPT !.loc.mesh_id = <<Arg(q)>>], 1)
        [] Word(p, "4addr") -> parse_4addr_flag(q, "2")
        [] Word(p, "flags") -> [q EXCEPT !.loc.st = "flags"]
        [] OTHER -> Return(p, "1")

AddFlags(p) ==
  IF p.loc.st # "flags" THEN p
  ELSE IF Left(p) = 0 THEN PutFlags(p)
  ELSE LET q == MntrFlag(p)
       IN  IF q.ret # "go" THEN Return(q, "2") ELSE Again(q)

AddEnd(p) ==
  LET If(attr, v) == IF v = <<>> THEN <<>> ELSE <<<<attr>> \o v>>
  IN  IF Left(p) > 0 THEN Return(p, "1")
      ELSE Return(PutAll(p, <<<<"IFNAME">> \o p.loc.name>> \o If("MESH_ID", p.loc.mesh_id)
                              \o If("MAC", p.loc.mac)), "0")

handle_interface_add(at, p) ==
  CASE at = 1 -> IF Left(p) = 0 THEN Return(p, "1")
                 ELSE Shift([p EXCEPT !.loc = [st |-> "add", name |-> <<Arg(p)>>,
                                               mac |-> <<>>, mesh_id |-> <<>>,
                                               flags |-> <<>>]], 1)
    [] at = 2 -> IF Left(p) < 2 \/ Arg(p) # "type" THEN Return(p, "1") ELSE IfType(p, 1)
    [] at = 3 -> AddOption(p)
    [] at = 4 -> AddFlags(p)
    [] OTHER  -> AddEnd(p)

\* set monitor
handle_interface_set(at, p) ==
  CASE at = 1 -> IF Left(p) = 0 THEN Return(p, "1")
                 ELSE Flags(Put(p, <<"IFTYPE", "MONITOR">>))
    [] OTHER  -> IF Left(p) = 0 THEN Return(PutFlags(p), "0")
                 ELSE LET q == MntrFlag(p)
                      IN  IF q.ret = "EINVAL" THEN Return(q, "2") ELSE Again(q)

-----------------------------------------------------------------------------
\* Commands of one argument.
handle_interface_meshid(p) == OneArg(p, TRUE, "MESH_ID", "1")
handle_interface_type(p) ==
  IF Left(p) = 0 THEN Return(p, "1")
  ELSE LET q == IfType(p, 0)
       IN  IF q.ret # "go" THEN q ELSE Return(q, IF Left(q) > 0 THEN "1" ELSE "0")
handle_interface_4addr(p) ==
  IF Left(p) # 1 THEN Return(p, "1")
  ELSE LET q == parse_4addr_flag(p, "1") IN IF q.ret # "go" THEN q ELSE Return(q, "0")
handle_interface_noack_map(p) == OneArg(p, IsNumber(Arg(p)), "NOACK_MAP", "1")
handle_interface_wds_peer(p) ==
  IF Left(p) > 0 /\ ~mac_addr_a2n(Arg(p)) THEN Return(p, "2")
  ELSE OneArg(p, TRUE, "MAC", "2")
set_mcast_rate(p) == OneArg(p, Arg(p) \in {"1", "2", "5.5"} \cup Numbers, "MCAST_RATE", "1")

\* switch freq, switch channel: a channel definition, which is put last.
ChanFreqOption(p) ==
  CASE Word(p, "beacons")  -> IF Left(p) < 2 THEN Return(p, "1")
                              ELSE NumberArg(Shift(p, 1), "CH_SWITCH_COUNT", "1")
    [] Word(p, "block-tx") -> Shift(Put(p, <<"CH_SWITCH_BLOCK_TX">>), 1)
    [] OTHER -> Return(p, "1")

KeepChandef(p, r) ==
  IF r.err # "0" THEN Return(p, r.err)
  ELSE Shift([p EXCEPT !.loc = [st |-> "chandef", def |-> r.def]], r.used)
handle_chanfreq(at, p, chan) ==
  CASE at = 1 -> KeepChandef(p, parse_freqchan(chan, Rest(p), FALSE))
    [] OTHER  -> IF Left(p) > 0 THEN Again(ChanFreqOption(p))
                 ELSE Return(PutAll(p, put_chandef(p.loc.def)), "0")

-----------------------------------------------------------------------------
\* set tidconf.  The entries of the configuration are counted in the message.
TidCount(p) == Len(SelectSeq(p.msg, LAMBDA e : e[1] = "TID_CONFIG" /\ Len(e) = 2))
TidAt(p, k) == <<"TID_CONFIG", ToString(TidCount(p) + k)>>
State(p, st) == [p EXCEPT !.loc = [st |-> st]]

TidAddr(p) ==
  CASE Word(p, "peer") ->
         IF Left(p) < 2 THEN Return(p, "1")
         ELSE IF ~mac_addr_a2n(Peek(p, 1)) THEN Return(p, "2")
         ELSE State(PutArg(Shift(p, 1), "MAC"), "TIDS")
    [] Word(p, "tids") -> State(p, "TIDS")
    [] OTHER -> Return(p, "1")

TidMask(p) ==
  IF Arg(p) # "tids" \/ Left(p) < 2 THEN Return(p, "1")
  ELSE IF ~IsNumber(Peek(p, 1)) THEN Return(p, "2")
  ELSE State(Shift(PutAll(p, <<TidAt(p, 1), TidAt(p, 1) \o <<"TIDS", Peek(p, 1)>>>>), 2),
             "CONF")

TidToggles == ("ampdu" :> "AMPDU_CTRL") @@ ("amsdu" :> "AMSDU_CTRL")
              @@ ("noack" :> "NOACK") @@ ("rtscts" :> "RTSCTS_CTRL")
toggle_tid_param == ("on" :> "ENABLE") @@ ("off" :> "DISABLE")
TidRetries == ("sretry" :> "RETRY_SHORT") @@ ("lretry" :> "RETRY_LONG")
TidRateType == ("auto" :> "AUTOMATIC") @@ ("fixed" :> "FIXED") @@ ("limit" :> "LIMITED")
TidPut(p, attr, v) == Shift(Put(p, TidAt(p, 0) \o <<attr, v>>), 2)

TidConf(p) ==
  LET w == Arg(p)
      v == Peek(p, 1)
      known == DOMAIN TidToggles \cup DOMAIN TidRetries \cup {"bitrates"}
  IN  CASE w = "tids" -> State(p, "TIDS")
        [] w = "override" -> Shift(Put(p, TidAt(p, 0) \o <<"OVERRIDE">>), 1)
        [] w \in known /\ Left(p) < 2 -> Return(p, "1")
        [] w \in DOMAIN TidToggles /\ Left(p) > 1 ->
             IF v \in DOMAIN toggle_tid_param
             THEN TidPut(p, TidToggles[w], toggle_tid_param[v]) ELSE Return(p, "2")
        [] w \in DOMAIN TidRetries /\ Left(p) > 1 ->
             IF IsNumber(v) THEN TidPut(p, TidRetries[w], v) ELSE Return(p, "2")
        [] w = "bitrates" /\ Left(p) > 1 ->
             IF v \notin DOMAIN TidRateType THEN Return(p, "2")
             ELSE LET q == TidPut(p, "TX_RATE_TYPE", TidRateType[v])
                  IN  IF v = "auto" THEN q ELSE RateStart(q)
        [] OTHER -> Return(p, "1")

\* The rates: what set_bitrates() returns is how many arguments it has used,
\* and less than two of them are an error.
RatesRead(q) ==
  IF q.ret # "go" THEN Return(q, "1")
  ELSE IF q.loc.st # "RATES_DONE" THEN q
  ELSE IF q.pos - q.loc.from < 2 THEN Return(q, "1")
  ELSE State(q, "CONF")
TidRates(p) == RatesRead(set_bitrates(p, TidAt(p, 0) \o <<"TX_RATE">>))

handle_tid_config(at, p) ==
  LET s == p.loc.st
  IN  CASE at = 1 -> State(p, "ADDR")
        [] at > 1 /\ s \in RateStates \cup {"NEXT"} -> Again(TidRates(p))
        [] at > 1 /\ s \notin RateStates \cup {"NEXT"} /\ Left(p) = 0 -> Return(p, "0")
        [] at > 1 /\ s = "ADDR" /\ Left(p) > 0 -> Again(TidAddr(p))
        [] at > 1 /\ s = "TIDS" /\ Left(p) > 0 -> Again(TidMask(p))
        [] at > 1 /\ s = "CONF" /\ Left(p) > 0 -> Again(TidConf(p))
=============================================================================
