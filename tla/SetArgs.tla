------------------------------ MODULE SetArgs -------------------------------
(***************************************************************************)
(* The commands that take a fixed and small number of arguments: most of   *)
(* set, and station, mpath, mpp, reg, cqm, ocb, offchannel, roc, vendor,   *)
(* mgmt reg, hwsim and ftm start_responder (phy.c, station.c, mpath.c,     *)
(* ...).  The text of a number stands for the number, as in ArgStream.     *)
(***************************************************************************)
EXTENDS ArgStream

\* What remains is one argument, a value out of a table; put as attr.
LastOf(p, table, attr, err) ==
  IF Arg(p) \notin DOMAIN table THEN Return(p, err)
  ELSE LET q == Shift(Put(p, <<attr, table[Arg(p)]>>), 1)
       IN  IF Left(q) > 0 THEN Return(q, "1") ELSE Return(q, "0")

\* The whole command is a channel definition, or one after a word.
ChannelDone(p, r) ==
  IF r.err # "0" THEN Return(p, r.err)
  ELSE Return(PutAll(Shift(p, r.used), put_chandef(r.def)), "0")
Channel(p, chan) == ChannelDone(p, parse_freqchan(chan, Rest(p), TRUE))

handle_name(p) == OneArg(p, TRUE, "WIPHY_NAME", "1")
handle_freq(p) == Channel(p, FALSE)
handle_chan(p) == Channel(p, TRUE)
handle_cac_trigger(p) ==
  IF Left(p) < 2 \/ Arg(p) \notin {"channel", "freq"} THEN Return(p, "1")
  ELSE Channel(Shift(p, 1), Arg(p) = "channel")

\* "off" stands for the largest threshold.
\* Mutant: what is behind the number is not looked at.
ThresholdUnchecked(t) == t # ""
Threshold(t) == t = "off" \/ IsNumber(t)
handle_fragmentation(p) == OneArg(p, Threshold(Arg(p)), "WIPHY_FRAG_THRESHOLD", "1")
handle_rts(p) == OneArg(p, Threshold(Arg(p)), "WIPHY_RTS_THRESHOLD", "1")

\* set retry: two words, each with a limit behind it.
RetryArg(p) ==
  LET w == Arg(p)
      l == p.loc
  IN  CASE w \in {"short", "long"} ->
             IF w \in l.have THEN Return(p, "1")
             ELSE Shift([p EXCEPT !.loc.st = w, !.loc.have = @ \cup {w}], 1)
        [] w \notin {"short", "long"} /\ ~IsNumber(w) -> Return(p, "1")
        [] IsNumber(w) /\ Num(w) \notin 1..255 -> Return(p, "EINVAL")
        [] OTHER -> IF l.st = "NONE" THEN Return(p, "1")
                    ELSE Shift([p EXCEPT !.loc.limit[l.st] = w], 1)

RetryEnd(p) ==
  LET Limit(w, attr) == IF w \in p.loc.have THEN <<<<attr, p.loc.limit[w]>>>> ELSE <<>>
  IN  IF p.loc.have = {} THEN Return(p, "1")
      ELSE Return(PutAll(p, Limit("short", "WIPHY_RETRY_SHORT")
                              \o Limit("long", "WIPHY_RETRY_LONG")), "0")

handle_retry(at, p) ==
  CASE at = 1 -> IF Left(p) \notin {2, 4} THEN Return(p, "1")
                 ELSE [p EXCEPT !.loc = [st |-> "NONE", have |-> {},
                                         limit |-> [w \in {"short", "long"} |-> "0"]]]
    [] OTHER  -> IF Left(p) > 0 THEN Again(RetryArg(p)) ELSE RetryEnd(p)

\* The file system: which name spaces there are.
Namespaces == {"ns0"}
handle_netns(p) ==
  CASE Left(p) = 1 -> OneArg(p, IsNumber(Arg(p)), "PID", "1")
    [] Left(p) = 2 /\ Arg(p) = "name" /\ Peek(p, 1) \in Namespaces ->
         Return(PutArg(Shift(p, 1), "NETNS_FD"), "0")
    [] OTHER -> Return(p, "1")

handle_coverage(p) ==
  OneArg(p, IsNumber(Arg(p)) /\ Num(Arg(p)) <= 255, "WIPHY_COVERAGE_CLASS", "1")

\* Distances in meters, as numbers of 32 bits; -1 is the largest of them.
Distances == ("0" :> 0) @@ ("451" :> 451) @@ ("114750" :> 114750)
             @@ ("114751" :> 114751) @@ ("4294967295" :> -1)
CoverageClass(d) == (d + 449) \div 450
handle_distance(p) ==
  LET class == CoverageClass(Distances[Arg(p)])
  IN  CASE Left(p) = 1 /\ Arg(p) = "auto" ->
             Return(Shift(Put(p, <<"WIPHY_DYN_ACK">>), 1), "0")
        [] Left(p) = 1 /\ Arg(p) \in DOMAIN Distances ->
             IF class > 255 THEN Return(p, "1")
             ELSE Return(Shift(Put(p, <<"WIPHY_COVERAGE_CLASS", ToString(class)>>), 1), "0")
        [] OTHER -> Return(p, "1")

PowerTypes == ("auto" :> "AUTOMATIC") @@ ("fixed" :> "FIXED") @@ ("limit" :> "LIMITED")
handle_txpower(p) ==
  LET type == PowerTypes[Arg(p)]
      q == Shift(Put(p, <<"WIPHY_TX_POWER_SETTING", type>>), 1)
  IN  CASE Left(p) \notin {1, 2} -> Return(p, "1")
        [] Left(p) \in {1, 2} /\ Arg(p) \notin DOMAIN PowerTypes -> Return(p, "2")
        [] Left(p) \in {1, 2} /\ Arg(p) = "auto" ->
             Return(q, IF Left(q) = 0 THEN "0" ELSE "1")
        [] OTHER -> IF ~IsNumber(Arg(q)) THEN Return(q, "2")
                    ELSE Return(PutArg(q, "WIPHY_TX_POWER_LEVEL"), "0")

Antennas(p, tx, rx) ==
  Return(Shift(PutAll(p, <<<<"WIPHY_ANTENNA_TX", tx>>, <<"WIPHY_ANTENNA_RX", rx>>>>),
               Left(p)), "0")
handle_antenna(p) ==
  CASE Left(p) = 1 /\ (Arg(p) = "all" \/ IsNumber(Arg(p))) -> Antennas(p, Arg(p), Arg(p))
    [] Left(p) = 2 /\ IsNumber(Arg(p)) /\ IsNumber(Peek(p, 1)) ->
         Antennas(p, Arg(p), Peek(p, 1))
    [] OTHER -> Return(p, "1")

TxqAttrs == ("limit" :> "TXQ_LIMIT") @@ ("memory_limit" :> "TXQ_MEMORY_LIMIT")
            @@ ("quantum" :> "TXQ_QUANTUM")
handle_set_txq(p) ==
  IF Left(p) # 2 \/ ~IsNumber(Peek(p, 1)) \/ Peek(p, 1) = "0" THEN Return(p, "1")
  ELSE IF Arg(p) \notin DOMAIN TxqAttrs THEN Return(p, "EPERM")
  ELSE Return(PutArg(Shift(p, 1), TxqAttrs[Arg(p)]), "0")

OnOff == ("on" :> "ENABLED") @@ ("off" :> "DISABLED")
set_power_save(p) ==
  IF Left(p) # 1 THEN Return(p, "1") ELSE LastOf(p, OnOff, "PS_STATE", "2")

-----------------------------------------------------------------------------
\* station get, mpath get, mpath del, mpp get: an address.
OneAddress(p) ==
  IF Left(p) = 0 THEN Return(p, "1")
  ELSE IF ~mac_addr_a2n(Arg(p)) THEN Return(p, "2")
  ELSE IF Left(p) > 1 THEN Return(p, "1")
  ELSE Return(PutArg(p, "MAC"), "0")

handle_station_del(at, p) ==
  CASE at = 1 -> IF Left(p) = 0 THEN Return(p, "1")
                 ELSE IF ~mac_addr_a2n(Arg(p)) THEN Return(p, "2")
                 ELSE PutArg(p, "MAC")
    [] at = 2 -> OptNumber(p, "subtype", "MGMT_SUBTYPE")
    [] at = 3 -> OptNumber(p, "reason-code", "REASON_CODE")
    [] OTHER  -> Return(p, IF Left(p) > 0 THEN "1" ELSE "0")

PlinkActions == ("open" :> "OPEN") @@ ("block" :> "BLOCK")
PowerModes == ("active" :> "ACTIVE") @@ ("light" :> "LIGHT_SLEEP") @@ ("deep" :> "DEEP_SLEEP")

\* The four station set commands of one value.
StationSet(p, table, attr) ==
  IF Left(p) < 3 THEN Return(p, "1")
  ELSE IF ~mac_addr_a2n(Arg(p)) THEN Return(p, "2")
  ELSE LastOf(Shift(PutArg(p, "MAC"), 1), table, attr, "2")

\* The transmit power is not checked to be a number.
TxPower(p) ==
  LET q == Shift(p, 2)
      auto == Arg(q) = "auto"
      n == IF auto THEN 1 ELSE 2
      setting == <<"STA_TX_POWER_SETTING", IF auto THEN "AUTOMATIC" ELSE "LIMITED">>
  IN  CASE Left(p) \notin {3, 4} -> Return(p, "1")
        [] Left(p) \in {3, 4} /\ ~mac_addr_a2n(Arg(p)) -> Return(p, "2")
        [] Left(p) \in {3, 4} /\ mac_addr_a2n(Arg(p)) ->
             IF Arg(q) \notin {"auto", "limit"} \/ (~auto /\ Left(q) # 2)
             THEN Return(q, "2")
             ELSE LET r == PutAll(q, <<<<"MAC", Arg(p)>>, setting>>
                                      \o (IF auto THEN <<>>
                                          ELSE <<<<"STA_TX_POWER", atoi(Peek(q, 1))>>>>))
                  IN  Return(Shift(r, n), IF Left(q) > n THEN "1" ELSE "0")

\* The number of the interface, or the weight.
AnyNumber == [t \in Numbers |-> t]
select_station_cmd(p) ==
  LET w == Peek(p, 1)
  IN  CASE w = "plink_action"    -> StationSet(p, PlinkActions, "STA_PLINK_ACTION")
        [] w = "vlan"            -> StationSet(p, AnyNumber, "STA_VLAN")
        [] w = "mesh_power_mode" -> StationSet(p, PowerModes, "LOCAL_MESH_POWER_MODE")
        [] w = "airtime_weight"  -> StationSet(p, AnyNumber, "AIRTIME_WEIGHT")
        [] w = "txpwr"           -> TxPower(p)
        [] OTHER                 -> Return(p, "1")

handle_mpath_set(p) ==
  IF Left(p) < 3 THEN Return(p, "1")
  ELSE IF ~mac_addr_a2n(Arg(p)) THEN Return(p, "2")
  ELSE IF Peek(p, 1) # "next_hop" THEN Return(p, "1")
  ELSE IF ~mac_addr_a2n(Peek(p, 2)) THEN Return(p, "2")
  ELSE IF Left(p) > 3 THEN Return(p, "1")
  ELSE Return(PutArg(Shift(PutArg(p, "MAC"), 1), "MPATH_NEXT_HOP"), "0")

\* What follows the frame does not matter.
handle_mpath_probe(p) ==
  IF Left(p) < 3 THEN Return(p, "1")
  ELSE IF ~mac_addr_a2n(Arg(p)) THEN Return(p, "2")
  ELSE IF Peek(p, 1) # "frame" THEN Return(p, "1")
  ELSE IF ~parse_hex(Peek(p, 2)).ok THEN Return(p, "2")
  ELSE Return(Shift(PutAll(p, <<<<"MAC", Arg(p)>>,
                                <<"FRAME">> \o parse_hex(Peek(p, 2)).val>>), 3), "0")

-----------------------------------------------------------------------------
\* Only the first two letters count.
Alpha2 == ("US" :> "US") @@ ("00" :> "00") @@ ("USA" :> "US")
handle_reg_set(p) ==
  IF Left(p) = 0 THEN Return(p, "1") ELSE LastOf(p, Alpha2, "REG_ALPHA2", "2")

RssiThresholds == [t \in {"-60", "-40"} |-> t]
iw_cqm_rssi(p) ==
  LET off == Arg(p) = "off"
      thold == IF off THEN "0" ELSE RssiThresholds[Arg(p)]
      hyst  == IF off \/ Left(p) = 1 THEN "0" ELSE atoi(Peek(p, 1))
  IN  IF Left(p) \notin {1, 2} THEN Return(p, "1")
      ELSE IF ~off /\ Arg(p) \notin DOMAIN RssiThresholds THEN Return(p, "EINVAL")
      ELSE Return(Shift(PutNested(p, "CQM", <<<<"RSSI_THOLD", thold>>, <<"RSSI_HYST", hyst>>>>),
                        Left(p)), "0")

\* What follows the channel definition does not matter.
join_ocb(p) ==
  IF Left(p) < 2 THEN Return(p, "1")
  ELSE ChannelDone(p, parse_freqchan(FALSE, Rest(p), FALSE))

FreqAndTime(p) ==
  IF Left(p) # 2 \/ ~IsNumber(Arg(p)) \/ ~IsNumber(Peek(p, 1)) THEN Return(p, "1")
  ELSE Return(PutArg(PutArg(p, "WIPHY_FREQ"), "DURATION"), "0")
offchannel(p) == FreqAndTime(p)
handle_roc_start(p) == FreqAndTime(p)

\* vendor send, recv, recvbin: the content of a file or, if there is none of
\* that name, the arguments; the first after which there are no more is the
\* name.  Numbers in hexadecimal begin with 0x.
VendorIds == {"0x001122", "0x1"}
VendorBytes == {"0x01", "0xff"}
VendorFiles == ("-" :> <<"0x01">>) @@ ("blob" :> <<"0x01", "0xff">>) @@ ("empty" :> <<>>)
read_hex(args) ==
  IF \A i \in DOMAIN args : args[i] \in VendorBytes THEN args ELSE <<"bad">>
handle_vendor(p) ==
  LET file == Peek(p, 2)
      data == IF file \in DOMAIN VendorFiles THEN VendorFiles[file]
              ELSE read_hex(Rest(Shift(p, 2)))
      ids  == <<<<"VENDOR_ID", Arg(p)>>, <<"VENDOR_SUBCMD", Peek(p, 1)>>>>
  IN  IF Left(p) < 3 THEN Return(p, "1")
      ELSE IF {Arg(p), Peek(p, 1)} \ VendorIds # {} THEN Return(p, "2")
      ELSE IF data = <<"bad">> THEN Return(PutAll(p, ids), "EINVAL")
      ELSE Return(PutAll(p, ids \o (IF data = <<>> THEN <<>>
                                    ELSE <<<<"VENDOR_DATA">> \o data>>)), "0")

FrameTypes == {"40", "d0"}
register_mgmt_frame(p) ==
  IF Left(p) < 2 THEN Return(p, "1")
  ELSE IF Arg(p) \notin FrameTypes \/ ~parse_hex(Peek(p, 1)).ok THEN Return(p, "2")
  ELSE Return(Shift(PutAll(p, <<<<"FRAME_TYPE", Arg(p)>>,
                                <<"FRAME_MATCH">> \o parse_hex(Peek(p, 1)).val>>), 2), "0")

TestData(p, block) == Return(Shift(PutNested(p, "TESTDATA", block), Left(p)), "0")
handle_hwsim_setps(p) ==
  IF Left(p) # 1 \/ ~IsNumber(Arg(p)) THEN Return(p, "1")
  ELSE TestData(p, <<<<"CMD", "SET_PS">>, <<"PS", Arg(p)>>>>)
NoArguments(p, block) == IF Left(p) > 0 THEN Return(p, "1") ELSE TestData(p, block)
handle_hwsim_stop_queues(p) == NoArguments(p, <<<<"CMD", "STOP_QUEUES">>>>)
handle_hwsim_wake_queues(p) == NoArguments(p, <<<<"CMD", "WAKE_QUEUES">>>>)

\* "lci=<hex>" and "civic=<hex>", each once at most.
FtmResponder == ("lci=01" :> <<"LCI", "01">>) @@ ("lci=0123" :> <<"LCI", "0123">>)
                @@ ("civic=02" :> <<"CIVICLOC", "02">>)
handle_ftm_start_responder(at, p) ==
  LET v == FtmResponder[Arg(p)]
      at0 == <<"FTM_RESPONDER">>
      twice == \E i \in DOMAIN p.msg : Len(p.msg[i]) = 3 /\ p.msg[i][2] = v[1]
  IN  CASE at = 1 -> PutAll(p, <<at0, at0 \o <<"ENABLED">>>>)
        [] at > 1 /\ Left(p) = 0 -> Return(p, "0")
        [] OTHER -> IF Arg(p) \notin DOMAIN FtmResponder \/ twice THEN Return(p, "1")
                    ELSE Again(Shift(Put(p, at0 \o v), 1))

\* set mesh_param is in JoinArgs, with mesh join.
=============================================================================
