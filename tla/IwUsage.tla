------------------------------ MODULE IwUsage ------------------------------
(***************************************************************************)
(* What the usage texts of iw promise (the COMMAND and TOPLEVEL lines of   *)
(* the sources): the command lines of each command, and the attributes     *)
(* that each part of them stands for.  A usage is a sequence of parts, a   *)
(* part a set of alternatives: words, and the attributes they mean.        *)
(***************************************************************************)
EXTENDS Naturals, Sequences, TLC

CONSTANTS
  MaxNear       \* the most words of a command line that is tried with an error

ASSUME MaxNearAssumption == MaxNear \in Nat

Junk == "?"           \* a word that no parser knows; a name may be spelt so
Mac1 == "02:00:00:00:00:01"

As(words, attrs) == [w |-> words, e |-> attrs]
Silent(attrs) == As(<<>>, attrs)
Opt(alts) == {Silent({})} \cup alts
Val(word, attr, vs) == {As(<<word, v>>, {attr \o <<v>>}) : v \in vs}
Arg1(attr, vs) == {As(<<v>>, {<<attr, v>>}) : v \in vs}
Words(table, attr) == {As(<<v>>, {<<attr, table[v]>>}) : v \in DOMAIN table}
Under(path, alts) == {As(a.w, {path \o x : x \in a.e}) : a \in alts}

Lines(parts) ==
  LET upto[n \in 0..Len(parts)] ==
        IF n = 0 THEN {Silent({})}
        ELSE {As(a.w \o b.w, a.e \cup b.e) : a \in upto[n - 1], b \in parts[n]}
  IN  upto[Len(parts)]

-----------------------------------------------------------------------------
Chandef(f, width, centres, type) ==
  {<<"WIPHY_FREQ", f>>, <<"CHANNEL_WIDTH", width>>}
    \cup {<<"CENTER_FREQ1", centres[1]>>}
    \cup (IF Len(centres) > 1 THEN {<<"CENTER_FREQ2", centres[2]>>} ELSE {})
    \cup {<<"CHANNEL_TYPE", t>> : t \in type}

\* The blocks of 80 MHz, and the middle of the one that a channel is in.
Block80 == ("5220" :> "5210") @@ ("5240" :> "5210") @@ ("5745" :> "5775")
           @@ ("5955" :> "5985") @@ ("6015" :> "5985") @@ ("6915" :> "6945")
           @@ ("6995" :> "7025")

\* "<freq> [NOHT|HT20|...]" and "<control freq> <width> <centre> <centre>".
Plain == {As(<<f>>, Chandef(f, "20_NOHT", <<f>>, {"NO_HT"})) :
            f \in {"2412", "2437", "5180", "5500", "5600"} \cup DOMAIN Block80}
Simple == {As(<<"2412", "NOHT">>, Chandef("2412", "20_NOHT", <<"2412">>, {"NO_HT"})),
           As(<<"2412", "HT20">>, Chandef("2412", "20", <<"2412">>, {"HT20"})),
           As(<<"2412", "HT40+">>, Chandef("2412", "40", <<"2422">>, {"HT40PLUS"})),
           As(<<"2437", "HT40-">>, Chandef("2437", "40", <<"2427">>, {"HT40MINUS"})),
           As(<<"2437", "10MHz">>, Chandef("2437", "10", <<"2437">>, {}))}
            \cup {As(<<f, "80MHz">>, Chandef(f, "80", <<Block80[f]>>, {})) : f \in DOMAIN Block80}
Widths == {As(<<"5180", "20">>, Chandef("5180", "20", <<"5180">>, {"HT20"})),
           As(<<"5180", "80", "5210">>, Chandef("5180", "80", <<"5210">>, {})),
           As(<<"5600", "160", "5570">>, Chandef("5600", "160", <<"5570">>, {})),
           As(<<"5180", "80+80", "5210", "5775">>,
              Chandef("5180", "80P80", <<"5210", "5775">>, {}))}
Freqs == Plain \cup Simple \cup Widths \cup {As(<<"5500", "160MHz">>, Chandef("5500", "160", <<"5570">>, {}))}
ByChannel == {As(<<x[1]>>, Chandef(x[2], "20_NOHT", <<x[2]>>, {"NO_HT"})) :
                x \in {<<"1", "2412">>, <<"36", "5180">>, <<"100", "5500">>}}
             \cup {As(<<"36", "HT40+">>, Chandef("5180", "40", <<"5190">>, {"HT40PLUS"})),
              As(<<"100", "80MHz">>, Chandef("5500", "80", <<"5530">>, {}))}
SomeFreqs == {a \in Freqs : a.w \in {<<"2412">>, <<"2412", "HT40+">>, <<"5180">>, <<"5180", "80", "5210">>}}

Key(n, idx, cipher, text, tx) ==
  {<<"KEYS", n, "IDX", idx>>, <<"KEYS", n, "CIPHER", cipher>>, <<"KEYS", n, "DATA", text>>}
    \cup (IF tx THEN {<<"KEYS", n, "DEFAULT">>} ELSE {})
Wep == {<<"PRIVACY">>}
\* The last key is the default one if none is marked.
WepKeys ==
  {As(<<k, "0:abcde">>, Wep \cup Key("1", "0", "WEP40", "0:abcde", TRUE)) : k \in {"key", "keys"}}
  \cup
  {As(<<"key", "d:1:6162636465">>, Wep \cup Key("1", "1", "WEP40", "d:1:6162636465", TRUE)),
   As(<<"keys", "0:abcde", "2:0123456789abc">>,
      Wep \cup Key("1", "0", "WEP40", "0:abcde", FALSE)
          \cup Key("2", "2", "WEP104", "2:0123456789abc", TRUE)),
   As(<<"key", "d:1:6162636465", "0:abcde">>,
      Wep \cup Key("1", "1", "WEP40", "d:1:6162636465", TRUE)
          \cup Key("2", "0", "WEP40", "0:abcde", FALSE))}
Psk == As(<<"key", "psk:good", "PSK", "CCMP", "TKIP">>,
          {<<"WPA_VERSIONS", "2">>, <<"PMK", "psk:good">>, <<"AUTH_TYPE", "OPEN">>,
           <<"AKM_SUITES", "000FAC02">>, <<"CIPHERS_PAIRWISE", "000FAC04">>,
           <<"CIPHER_GROUP", "000FAC02">>})
Protected(a, w, v) == As(Append(a.w, w), a.e \cup {<<"USE_MFP", v>>})
ConnectKeys ==
  LET keys == Opt(WepKeys \cup {Psk})
  IN  keys \cup {Protected(k, "mfp:req", "REQUIRED") : k \in keys}
           \cup {Protected(k, "mfp:no", "NO") : k \in keys}

Ssid1 == Arg1("SSID", {"net", Junk})
BeaconInt == Opt(Val("beacon-interval", <<"BEACON_INTERVAL">>, {"100"}))
BasicRate == Opt({As(<<"basic-rates", "1,5.5">>, {<<"BASIC_RATES", "1", "5.5">>})})
Mcast == Opt(Val("mcast-rate", <<"MCAST_RATE">>, {"5.5"}))
MeshSet ==
  {As(<<"mesh_ttl=5">>, {<<"MESH_PARAMS">>, <<"MESH_PARAMS", "mesh_ttl", "5">>}),
   As(<<"mesh_power_mode", "deep">>,
      {<<"MESH_PARAMS">>, <<"MESH_PARAMS", "mesh_power_mode", "deep">>}),
   As(<<"mesh_power_mode", "deep", "mesh_nolearn=1">>,
      {<<"MESH_PARAMS">>, <<"MESH_PARAMS", "mesh_power_mode", "deep">>,
       <<"MESH_PARAMS", "mesh_nolearn", "1">>})}
JoinUsages ==
  [c \in {"connect", "auth", "ibss join", "mesh join", "set mesh_param", "ap start"} |->
    CASE c = "connect" ->
           <<Ssid1, Opt(Arg1("WIPHY_FREQ", {"2412"})), Opt(Arg1("MAC", {Mac1})),
             ConnectKeys>>
      [] c = "auth" ->
           <<Ssid1, Arg1("MAC", {Mac1}),
             {As(<<"open", "2412">>, {<<"AUTH_TYPE", "OPEN_SYSTEM">>, <<"WIPHY_FREQ", "2412">>})}
             \cup {As(<<"shared", "2412">> \o k.w,
                      k.e \cup {<<"AUTH_TYPE", "SHARED_KEY">>, <<"WIPHY_FREQ", "2412">>}) :
                   k \in WepKeys}>>
      [] c = "ibss join" ->
           <<Ssid1, SomeFreqs, Opt({As(<<"fixed-freq">>, {<<"FREQ_FIXED">>})}),
             Opt(Arg1("MAC", {Mac1})), BeaconInt, BasicRate, Mcast, Opt(WepKeys)>>
      [] c = "mesh join" ->
           <<Arg1("MESH_ID", {"net", Junk}),
             Opt({As(<<"freq">> \o a.w, a.e) : a \in SomeFreqs}), BasicRate, Mcast, BeaconInt,
             Opt(Val("dtim-period", <<"DTIM_PERIOD">>, {"2"})),
             {Silent({<<"MESH_SETUP">>}),
              As(<<"vendor_sync", "on">>, {<<"MESH_SETUP">>, <<"MESH_SETUP", "VENDOR_SYNC", "1">>})},
             Opt(MeshSet)>>
      [] c = "set mesh_param" -> <<MeshSet>>
      [] c = "ap start" ->
           <<Ssid1, SomeFreqs,
             {As(<<"100", "2">>, {<<"BEACON_INTERVAL", "100">>, <<"DTIM_PERIOD", "2">>})},
             Opt({As(<<"zeroed-ssid">>, {<<"HIDDEN_SSID", "ZERO_CONTENTS">>})}),
             Val("head", <<"BEACON_HEAD">>, {"8000"}), Opt(Val("tail", <<"BEACON_TAIL">>, {"0011"})),
             Opt(Val("inactivity-time", <<"INACTIVITY_TIMEOUT">>, {"10"})), Opt(WepKeys)>>]

-----------------------------------------------------------------------------
FlagBits(flags) == {<<"SCAN_FLAGS", f>> : f \in flags}
Listed(attr, vs) == {<<attr>>} \cup {<<attr, v>> : v \in vs}
RandomMac == {As(<<"randomise">>, {<<"MAC", "0">>, <<"MAC_MASK", "multicast bit">>,
                                   <<"SCAN_FLAGS", "RANDOM_ADDR">>}),
              As(<<"randomise=a/m">>, {<<"MAC", "a">>, <<"MAC_MASK", "m">>,
                                       <<"SCAN_FLAGS", "RANDOM_ADDR">>})}
Wildcard == Silent(Listed("SCAN_SSIDS", {""}))

\* Without frequencies, co-located access points are looked for as well.
ScanTrigger ==
  <<{Silent(FlagBits({"COLOCATED_6GHZ"})),
     As(<<"freq", "2412", "5180">>, Listed("SCAN_FREQUENCIES", {"2412", "5180"}))},
    Opt({As(<<"duration", "5">>, {<<"MEASUREMENT_DURATION", "5">>}),
         As(<<"duration", "10", "duration-mandatory">>,
            {<<"MEASUREMENT_DURATION", "10">>, <<"MEASUREMENT_DURATION_MANDATORY">>})}),
    Opt({As(<<"ies", "00:11">>, {<<"IE", "00", "11">>}),
         As(<<"meshid", "net">>, {<<"IE", "114", "net">>}),
         As(<<"ies", "00:11", "meshid", "net">>, {<<"IE", "00", "11", "114", "net">>})}),
    Opt({As(<<"lowpri">>, FlagBits({"LOW_PRIORITY"})),
         As(<<"flush", "ap-force">>, FlagBits({"FLUSH", "AP"}))}),
    Opt(RandomMac),
    {Wildcard, As(<<"passive">>, {}), As(<<"ssid", "net", "b">>, Listed("SCAN_SSIDS", {"net", "b"}))}>>

Plan(a) == {<<"SCHED_SCAN_PLANS">> \o x : x \in {<<>>} \cup a}
\* SCHED_SCAN_OPTIONS
SchedScan ==
  <<{As(<<"interval", "10">>, {<<"SCHED_SCAN_INTERVAL", "10">>}),
     As(<<"scan_plans", "10:3", "20">>, Plan({<<"10", "3">>, <<"20">>}))},
    Opt(Val("delay", <<"SCHED_SCAN_DELAY">>, {"5"})),
    Opt({As(<<"freqs", "2412", "5180">>, Listed("SCAN_FREQUENCIES", {"2412", "5180"}))}),
    Opt({As(<<"matches", "ssid", "net", "ssid", "b">>, Listed("SCHED_SCAN_MATCH", {"net", "b"}))}),
    {Wildcard, As(<<"passive">>, {}), As(<<"active", "ssid", "net">>, Listed("SCAN_SSIDS", {"net"}))},
    Opt(RandomMac),
    Opt({As(<<"coloc", "flush">>, FlagBits({"COLOCATED_6GHZ", "FLUSH"}))})>>

Triggers1 == <<"WOWLAN_TRIGGERS">>
NetDetect ==
  LET few == <<SchedScan[1], SchedScan[3], SchedScan[4], SchedScan[5], SchedScan[7]>>
  IN  {As(<<"net-detect">> \o a.w, a.e \cup {<<>>}) : a \in Lines(few)}
TcpConf ==
  {<<>>, <<"SRC_IPV4", "10.0.0.1">>, <<"SRC_PORT", "80">>, <<"DST_IPV4", "10.0.0.1">>,
   <<"DST_PORT", "80">>, <<"DST_MAC", Mac1>>, <<"DATA_PAYLOAD", "00", "11">>,
   <<"DATA_INTERVAL", "5">>, <<"WAKE_MASK", "1", "0", "1">>, <<"WAKE_PAYLOAD", "dd", "0", "05">>,
   <<"DATA_PAYLOAD_SEQ", "1", "2", "0">>, <<"DATA_PAYLOAD_TOKEN", "1", "2", "00", "11">>}
PktPatterns ==
  {<<>>, <<"1", "MASK", "1", "1">>, <<"1", "PATTERN", "00", "11">>, <<"1", "OFFSET", "5">>,
   <<"2", "MASK", "1", "0", "1">>, <<"2", "PATTERN", "dd", "0", "05">>, <<"2", "OFFSET", "0">>}
Tcp == Under(<<"TCP_CONNECTION">>, {As(<<"tcp", "tcp.conf">>, TcpConf)})
Pats == Under(<<"PKT_PATTERN">>, {As(<<"patterns", "5+00:11", "dd:-:05">>, PktPatterns)})
Nets == Under(<<"NET_DETECT">>, NetDetect)

WowlanUsage ==
  <<{Silent({<<>>})}, Opt({As(<<"any">>, {<<"ANY">>})}),
    Opt({As(<<"disconnect", "magic-packet">>, {<<"DISCONNECT">>, <<"MAGIC_PKT">>})})>>
    \o <<Opt(Nets), Opt(Tcp), Opt(Pats)>>
Wowlan ==
  [i \in DOMAIN WowlanUsage |-> Under(Triggers1, WowlanUsage[i])]

Rule(n, delay, cond, pats) ==
  {<<"COALESCE_RULE", n>>, <<"COALESCE_RULE", n, "DELAY", delay>>,
   <<"COALESCE_RULE", n, "CONDITION", cond>>, <<"COALESCE_RULE", n, "PKT_PATTERN">>}
    \cup {<<"COALESCE_RULE", n, "PKT_PATTERN">> \o x : x \in pats}
Coalesce ==
  <<{As(<<"rules">>,
        {<<"COALESCE_RULE">>}
          \cup Rule("1", "10", "1", {<<"1", "MASK", "1", "1">>, <<"1", "PATTERN", "00", "11">>,
                                     <<"1", "OFFSET", "5">>, <<"2", "MASK", "1", "0", "1">>,
                                     <<"2", "PATTERN", "dd", "0", "05">>, <<"2", "OFFSET", "0">>})
          \cup Rule("2", "20", "0", {<<"3", "MASK", "1", "1">>, <<"3", "PATTERN", "00", "11">>,
                                     <<"3", "OFFSET", "0">>}))}>>

Peer(n, entries) == {<<"PEERS", n>> \o x : x \in {<<"ADDR", Mac1>>} \cup entries}
Ftm ==
  <<{As(<<"peers">>,
        {<<"PEERS">>}
        \cup Peer("2", {<<"FTM", "NUM_FTMR_RETRIES", "3">>, <<"FTM", "ASAP">>,
                        <<"FTM", "PREAMBLE", "VHT">>, <<"GET_AP_TSF">>,
                        <<"CHAN", "WIPHY_FREQ", "5180">>, <<"CHAN", "CENTER_FREQ1", "5210">>,
                        <<"CHAN", "CHANNEL_WIDTH", "80">>})
        \cup Peer("3", {<<"FTM", "PREAMBLE", "HT">>, <<"FTM", "REQUEST_LCI">>,
                        <<"FTM", "REQUEST_CIVICLOC">>, <<"CHAN", "WIPHY_FREQ", "2412">>,
                        <<"CHAN", "CHANNEL_WIDTH", "20">>})
        \cup Peer("4", {<<"FTM", "TRIGGER_BASED">>, <<"FTM", "PREAMBLE", "HE">>,
                        <<"CHAN", "WIPHY_FREQ", "5180">>, <<"CHAN", "CHANNEL_WIDTH", "160">>}))},
    Opt(Val("timeout=5", <<"TIMEOUT">>, {})
        \cup {As(<<"timeout=5">>, {<<"TIMEOUT", "5">>})}),
    Opt({As(a.w, {x \in a.e : x[1] # "SCAN_FLAGS"}) : a \in RandomMac})>>
ScanUsages ==
  ("scan trigger" :> ScanTrigger) @@ ("scan sched_start" :> SchedScan)
  @@ ("wowlan enable" :> Wowlan) @@ ("coalesce enable" :> Coalesce)
  @@ ("ftm_request_send" :> Ftm)

-----------------------------------------------------------------------------
Fn(x) == <<"NAN_FUNC">> \o x
NanBands == {As(<<"bands">>, {<<"BANDS">>}), As(<<"bands", "2GHz">>, {<<"BANDS", "2GHZ">>}),
             As(<<"bands", "2GHz", "5GHz">>, {<<"BANDS", "2GHZ", "5GHZ">>})}
NanPref == Val("pref", <<"NAN_MASTER_PREF">>, {"2"})
Publish == As(<<"type", "publish">>, {Fn(<<"TYPE", "publish">>)})
FollowUp1 == As(<<"type", "followup">>, {Fn(<<"TYPE", "followup">>)})
Subscribe == {As(<<"type", "subscribe">>, {Fn(<<"TYPE", "subscribe">>)}),
              As(<<"type", "subscribe", "active">>,
                 {Fn(<<"TYPE", "subscribe">>), Fn(<<"SUBSCRIBE_ACTIVE">>)})}
Published == {Publish,
              As(Publish.w \o <<"solicited", "bcast">>,
                 Publish.e \cup {Fn(<<"PUBLISH_TYPE", "SOLICITED">>), Fn(<<"PUBLISH_BCAST">>)}),
              As(Publish.w \o <<"solicited", "unsolicited">>,
                 Publish.e \cup {Fn(<<"PUBLISH_TYPE", "SOLICITED">>),
                                 Fn(<<"PUBLISH_TYPE", "UNSOLICITED">>)})}
NanName == Under(<<"NAN_FUNC">>, Val("name", <<"SERVICE_ID">>, {"net", Junk}))
NanInfo == Opt(Under(<<"NAN_FUNC">>, Val("info", <<"SERVICE_INFO">>, {"5"})))
FollowUpIds ==
  {As(<<"flw_up_id", "1", "flw_up_req_id", "2", "flw_up_dest", Mac1>>,
      {Fn(<<"FOLLOW_UP_ID", "1">>), Fn(<<"FOLLOW_UP_REQ_ID", "2">>), Fn(<<"FOLLOW_UP_DEST", Mac1>>)})}
NanRest ==
  <<Opt(Under(<<"NAN_FUNC">>, Val("ttl", <<"TTL">>, {"10"}))),
    Opt({As(<<"srf", "include", "list", "m1;m2">>,
            {Fn(<<"SRF", "INCLUDE">>), Fn(<<"SRF", "MAC_ADDRS", "m1", "m2">>)}),
         As(<<"srf", "exclude", "bf", "1", "5", "m1;m2">>,
            {Fn(<<"SRF", "BF_IDX", "1">>), Fn(<<"SRF", "BF", "5", "m1", "m2">>)})}),
    Opt({As(<<"rx_filter", "a:*:b">>, {Fn(<<"RX_MATCH_FILTER", "a", "", "b">>)})}),
    Opt({As(<<"tx_filter", "a:*:b">>, {Fn(<<"TX_MATCH_FILTER", "a", "", "b">>)})})>>
CloseRange == Opt({As(<<"close_range">>, {Fn(<<"CLOSE_RANGE">>)})})
NanAdd ==
  Lines(<<Published \cup Subscribe, CloseRange, NanName, NanInfo>> \o NanRest)
    \cup Lines(<<{FollowUp1}, CloseRange, NanName, NanInfo, FollowUpIds>>)
NanUsages ==
  ("nan start" :> <<NanPref, Opt(NanBands)>>)
  @@ ("nan config" :> <<Opt(NanPref), Opt(NanBands)>>)
  @@ ("nan rm_func" :> <<Val("cookie", <<"COOKIE">>, {"5"})>>)
  @@ ("nan add_func" :> <<NanAdd>>)

-----------------------------------------------------------------------------
None == "<<>>"
RateParts ==
  <<Opt({As(<<"legacy-2.4", "1", "5.5">>, {<<"2GHZ">>, <<"2GHZ", "LEGACY", "1", "5.5">>})}),
    Opt({As(<<"ht-mcs-5", "0", "2">>, {<<"5GHZ">>, <<"5GHZ", "HT", "0", "2">>})}),
    Opt({As(<<"vht-mcs-5", "1:0-7", "4:9">>,
            {<<"5GHZ">>, <<"5GHZ", "VHT", "<<0, 1, 2, 3, 4, 5, 6, 7>>", None, None, "<<9>>">>}),
         As(<<"vht-mcs-2.4", "1:8,9">>,
            {<<"2GHZ">>, <<"2GHZ", "VHT", "<<8, 9>>", None, None, None>>})})>>
GuardIntervals ==
  <<Opt({As(<<"sgi-2.4">>, {<<"2GHZ">>, <<"2GHZ", "GI", "FORCE_SGI">>})}),
    Opt({As(<<"lgi-5">>, {<<"5GHZ">>, <<"5GHZ", "GI", "FORCE_LGI">>})})>>
HeRates ==
  <<Opt({As(<<"he-mcs-6", "2:10-11">>,
            {<<"6GHZ">>, <<"6GHZ", "HE", None, "<<10, 11>>", None, None>>})})>>
HeIntervals ==
  LET gi5  == As(<<"he-gi-5", "1.6">>, {<<"5GHZ">>, <<"5GHZ", "HE_GI", "HE_GI_1_6">>})
      ltf6 == As(<<"he-ltf-6", "4">>, {<<"6GHZ">>, <<"6GHZ", "HE_LTF", "2">>})
  IN  <<Opt({gi5, As(<<"he-gi-2.4", "0.8">> \o gi5.w,
                     gi5.e \cup {<<"2GHZ">>, <<"2GHZ", "HE_GI", "HE_GI_0_8">>})}),
        Opt({ltf6, As(ltf6.w \o <<"he-ltf-5", "2">>,
                      ltf6.e \cup {<<"5GHZ">>, <<"5GHZ", "HE_LTF", "1">>})})>>
Bitrates ==
  LET parts == <<{Silent({<<>>})}>> \o RateParts \o HeRates \o GuardIntervals \o HeIntervals
  IN  [i \in DOMAIN parts |-> Under(<<"TX_RATES">>, parts[i])]

IfType1 == {As(<<"type", "monitor">>, {<<"IFTYPE", "MONITOR">>}),
            As(<<"type", "mp">>, {<<"IFTYPE", "MESH_POINT">>})}
GroupData == {<<"MU_MIMO_GROUP_DATA", "00112233445566770011223344556677">>}
MonitorFlags ==
  {As(<<>>, {<<"MNTR_FLAGS">>}), As(<<"fcsfail">>, {<<"MNTR_FLAGS", "fcsfail">>}),
   As(<<"fcsfail", "mumimo-groupid", "00112233445566770011223344556677">>,
      {<<"MNTR_FLAGS", "fcsfail">>} \cup GroupData),
   As(<<"mumimo-follow-mac", Mac1>>,
      {<<"MNTR_FLAGS">>, <<"MU_MIMO_FOLLOW_MAC_ADDR", Mac1>>}),
   As(<<"fcsfail", "mumimo-groupid", "00112233445566770011223344556677", "control">>,
      {<<"MNTR_FLAGS", "fcsfail", "control">>} \cup GroupData),
   As(<<"mumimo-follow-mac", Mac1, "active">>,
      {<<"MNTR_FLAGS", "active">>, <<"MU_MIMO_FOLLOW_MAC_ADDR", Mac1>>}),
   As(<<"none">>, {<<"MNTR_FLAGS", "none">>})}
IfFlags == {As(<<"flags">> \o a.w, a.e) : a \in MonitorFlags}
IfMesh == Val("mesh_id", <<"MESH_ID">>, {"net", Junk})
If4Addr == {As(<<"4addr", "on">>, {<<"4ADDR", "1">>})}
IfAddr == Val("addr", <<"MAC">>, {Mac1})
IfTyped == <<{As(<<v>>, {<<"IFNAME", v>>}) : v \in {"net", Junk}}, IfType1>>
InterfaceAdd == IfTyped \o <<Opt(IfMesh), Opt(If4Addr), Opt(IfFlags), Opt(IfAddr)>>
AddressFirst == IfTyped \o <<IfAddr, IfMesh \cup If4Addr \cup IfFlags>>

Csa == <<Opt(Val("beacons", <<"CH_SWITCH_COUNT">>, {"5"})),
         Opt({As(<<"block-tx">>, {<<"CH_SWITCH_BLOCK_TX">>})})>>

Tid(n, mask, settings) ==
  {<<"TID_CONFIG", n>>, <<"TID_CONFIG", n, "TIDS", mask>>}
    \cup {<<"TID_CONFIG", n>> \o x : x \in settings}
TidLimited ==
  {As(<<"bitrates", "limit">> \o a.w,
      {<<"TX_RATE_TYPE", "LIMITED">>, <<"TX_RATE">>} \cup {<<"TX_RATE">> \o x : x \in a.e}) :
   a \in {b \in Lines(RateParts \o GuardIntervals) : Len(b.w) <= 3}}
TidAuto == {As(<<"bitrates", "auto">>, {<<"TX_RATE_TYPE", "AUTOMATIC">>})}
TidSettings ==
  <<Opt({As(<<"override">>, {<<"OVERRIDE">>})}),
    Opt(Lines(<<Val("sretry", <<"RETRY_SHORT">>, {"5"}), Val("lretry", <<"RETRY_LONG">>, {"3"})>>)),
    Opt({As(<<"ampdu", "off">>, {<<"AMPDU_CTRL", "DISABLE">>}),
         As(<<"amsdu", "on", "rtscts", "on">>,
            {<<"AMSDU_CTRL", "ENABLE">>, <<"RTSCTS_CTRL", "ENABLE">>}),
         As(<<"noack", "off">>, {<<"NOACK", "DISABLE">>})})>>
TidEntry(n, mask, settings) ==
  {As(<<"tids", mask>> \o a.w, Tid(n, mask, a.e)) : a \in Lines(settings)}
TidSecond ==
  LET noack == Opt({As(<<"noack", "on">>, {<<"NOACK", "ENABLE">>})})
  IN  TidEntry("2", "2", <<noack, Opt(TidLimited)>>)
TidConf1 ==
  <<Opt({As(<<"peer", Mac1>>, {<<"MAC", Mac1>>})}),
    TidEntry("1", "1", Append(TidSettings, Opt(TidLimited \cup TidAuto)))
      \cup Lines(<<TidEntry("1", "1", Append(TidSettings, Opt(TidAuto))), TidSecond>>)
      \cup Lines(<<TidEntry("1", "1", <<TidLimited>>), TidSecond>>)>>
IfaceUsages ==
  ("set bitrates" :> Bitrates) @@ ("interface add" :> InterfaceAdd)
  @@ ("set monitor" :> <<{Silent({<<"IFTYPE", "MONITOR">>})},
                        {a \in MonitorFlags : a.w # <<>>}>>)
  @@ ("switch freq" :> <<Freqs>> \o Csa) @@ ("switch channel" :> <<ByChannel>> \o Csa)
  @@ ("set tidconf" :> TidConf1)
  @@ ("set meshid" :> <<Arg1("MESH_ID", {"net", Junk})>>)
  @@ ("set type" :> <<{As(<<"ibss">>, {<<"IFTYPE", "ADHOC">>}), As(<<"mp">>, {<<"IFTYPE", "MESH_POINT">>})}>>)
  @@ ("set 4addr" :> <<{As(<<"on">>, {<<"4ADDR", "1">>}), As(<<"off">>, {<<"4ADDR", "0">>})}>>)
  @@ ("set noack_map" :> <<Arg1("NOACK_MAP", {"3"})>>) @@ ("set peer" :> <<Arg1("MAC", {Mac1})>>)
  @@ ("set mcast_rate" :> <<Arg1("MCAST_RATE", {"5.5"})>>)

-----------------------------------------------------------------------------
StationWords(word, attr, table) ==
  {As(<<Mac1, word, v>>, {<<"MAC", Mac1>>, <<attr, table[v]>>}) : v \in DOMAIN table}
TxSetting(t, es) == {<<"MAC", Mac1>>, <<"STA_TX_POWER_SETTING", t>>} \cup es
StationSets ==
  StationWords("plink_action", "STA_PLINK_ACTION", ("open" :> "OPEN") @@ ("block" :> "BLOCK"))
  \cup StationWords("vlan", "STA_VLAN", "5" :> "5")
  \cup StationWords("mesh_power_mode", "LOCAL_MESH_POWER_MODE", "light" :> "LIGHT_SLEEP")
  \cup StationWords("airtime_weight", "AIRTIME_WEIGHT", "256" :> "256")
  \cup {As(<<Mac1, "txpwr", "auto">>, TxSetting("AUTOMATIC", {})),
        As(<<Mac1, "txpwr", "limit", "20">>, TxSetting("LIMITED", {<<"STA_TX_POWER", "20">>}))}
Ids == {<<"VENDOR_ID", "0x001122">>, <<"VENDOR_SUBCMD", "0x1">>}
VendorData(words, bytes) ==
  As(<<"0x001122", "0x1">> \o words, Ids \cup {<<"VENDOR_DATA">> \o b : b \in bytes})
Testmode(words, es) == As(words, {<<"TESTDATA">> \o x : x \in es \cup {<<>>}})
Pairs(a, attrA, b, attrB) == {As(<<a, b>>, {<<attrA, a>>, <<attrB, b>>})}

SetUsages ==
  ("set name" :> <<Arg1("WIPHY_NAME", {"net", Junk})>>)
  @@ ("set freq" :> <<Freqs>>) @@ ("set channel" :> <<ByChannel>>)
  @@ ("cac trigger" :> <<{As(<<"freq">> \o a.w, a.e) : a \in Freqs}
                          \cup {As(<<"channel">> \o a.w, a.e) : a \in ByChannel}>>)
  @@ ("set frag" :> <<Arg1("WIPHY_FRAG_THRESHOLD", {"off", "256"})>>)
  @@ ("set rts" :> <<Arg1("WIPHY_RTS_THRESHOLD", {"off", "256"})>>)
  @@ ("set retry" :> <<Lines(<<Opt(Val("short", <<"WIPHY_RETRY_SHORT">>, {"1", "255"})),
                               Opt(Val("long", <<"WIPHY_RETRY_LONG">>, {"3"}))>>)
                       \ {Silent({})}>>)
  @@ ("set netns" :> <<Arg1("PID", {"5"}) \cup Val("name", <<"NETNS_FD">>, {"ns0"})>>)
  @@ ("set coverage" :> <<Arg1("WIPHY_COVERAGE_CLASS", {"0", "255"})>>)
  @@ ("set distance" :> <<{As(<<"auto">>, {<<"WIPHY_DYN_ACK">>})}
                          \cup {As(<<x[1]>>, {<<"WIPHY_COVERAGE_CLASS", x[2]>>}) :
                                 x \in {<<"0", "0">>, <<"451", "2">>, <<"114750", "255">>}}>>)
  @@ ("set txpower" :> <<{As(<<"auto">>, {<<"WIPHY_TX_POWER_SETTING", "AUTOMATIC">>}),
                          As(<<"fixed", "2412">>, {<<"WIPHY_TX_POWER_SETTING", "FIXED">>,
                                                   <<"WIPHY_TX_POWER_LEVEL", "2412">>})}>>)
  @@ ("set antenna" :> <<Pairs("1", "WIPHY_ANTENNA_TX", "3", "WIPHY_ANTENNA_RX")
                         \cup {As(<<b>>, {<<"WIPHY_ANTENNA_TX", b>>, <<"WIPHY_ANTENNA_RX", b>>}) :
                                 b \in {"1", "3", "all"}}>>)
  @@ ("set txq" :> <<Val("limit", <<"TXQ_LIMIT">>, {"100"})
                     \cup Val("memory_limit", <<"TXQ_MEMORY_LIMIT">>, {"256"})
                     \cup Val("quantum", <<"TXQ_QUANTUM">>, {"256"})>>)
  @@ ("set power_save" :> <<Words(("on" :> "ENABLED") @@ ("off" :> "DISABLED"), "PS_STATE")>>)
  @@ [c \in {"station get", "mpath get", "mpp get"} |-> <<Arg1("MAC", {Mac1})>>]
  @@ ("station set" :> <<StationSets>>)
  @@ ("station del" :> <<Arg1("MAC", {Mac1}), Opt(Val("subtype", <<"MGMT_SUBTYPE">>, {"10"})),
                         Opt(Val("reason-code", <<"REASON_CODE">>, {"3"}))>>)
  @@ ("mpath set" :> <<Arg1("MAC", {Mac1}),
                       Val("next_hop", <<"MPATH_NEXT_HOP">>, {"02:00:00:00:00:02"})>>)
  @@ ("mpath probe" :> <<Arg1("MAC", {Mac1}), {As(<<"frame", "00:11">>, {<<"FRAME", "00", "11">>})}>>)
  @@ ("reg set" :> <<Words([c \in {"US", "00"} |-> c], "REG_ALPHA2")>>)
  @@ ("cqm rssi" :> <<{As(x[1], {<<"CQM">>, <<"CQM", "RSSI_THOLD", x[2]>>, <<"CQM", "RSSI_HYST", x[3]>>}) :
                        x \in {<<<<"off">>, "0", "0">>, <<<<"-60">>, "-60", "0">>, <<<<"-40">>, "-40", "0">>,
                                         <<<<"-40", "5">>, "-40", "5">>}}>>)
  @@ ("ocb join" :> <<{a \in Freqs : a.w = <<"2437", "10MHz">>}>>)
  @@ [c \in {"offchannel", "roc start"} |-> <<Pairs("2412", "WIPHY_FREQ", "100", "DURATION")>>]
  @@ ("vendor send" :> <<{VendorData(<<"0xff", "0x01">>, {<<"0xff", "0x01">>}),
                          VendorData(<<"0xff">>, {<<"0xff">>}),
                          VendorData(<<"blob">>, {<<"0x01", "0xff">>}),
                          VendorData(<<"empty">>, {})}>>)
  @@ ("mgmt reg" :> <<{As(<<"40", "00:11">>, {<<"FRAME_TYPE", "40">>, <<"FRAME_MATCH", "00", "11">>})}>>)
  @@ ("hwsim setps" :> <<{Testmode(<<"1">>, {<<"CMD", "SET_PS">>, <<"PS", "1">>})}>>)
  @@ ("hwsim stopqueues" :> <<{Testmode(<<>>, {<<"CMD", "STOP_QUEUES">>})}>>)
  @@ ("hwsim wakequeues" :> <<{Testmode(<<>>, {<<"CMD", "WAKE_QUEUES">>})}>>)
  @@ ("ftm start_responder" :>
        <<{Silent({<<"FTM_RESPONDER">>, <<"FTM_RESPONDER", "ENABLED">>})},
          Opt({As(<<"lci=0123">>, {<<"FTM_RESPONDER", "LCI", "0123">>})}),
          Opt({As(<<"civic=02">>, {<<"FTM_RESPONDER", "CIVICLOC", "02">>})})>>)

Usages == JoinUsages @@ ScanUsages @@ NanUsages @@ IfaceUsages @@ SetUsages
Language == [c \in DOMAIN Usages |-> Lines(Usages[c])]

\* Command lines that the usage text allows and that are refused, or sent with
\* another meaning:
\*   mfp without a PSK (connect.c:163);
\*   80MHz in the block that get_cf1() leaves out (util.c:1288);
\*   more than an address behind the type, or an address behind something else;
\*   rates of less than two words in tidconf, or with more tids behind them;
\*   the guard interval or training field of two bands: all get the last one;
\*   bands without a band, or a configuration of nothing (nan.c:55, 88);
\*   triggers behind net-detect, which drop the lists that it has read.
Mentions(w, words) == \E i \in DOMAIN w : w[i] \in words
Follows(w, first, rest) ==
  \E i, j \in DOMAIN w : i < j /\ w[i] \in first /\ w[j] \in rest
IfOptions == {"mesh_id", "4addr", "flags", "addr"}
Bent(c, w) ==
  CASE c = "connect" -> Mentions(w, {"mfp:req", "mfp:no"}) /\ ~Mentions(w, {"psk:good"})
    [] c \in {"set freq", "switch freq", "cac trigger"} -> Follows(w, {"6915"}, {"80MHz"})
    [] c = "interface add" -> Follows(w, IfOptions, IfOptions)
    [] c = "set tidconf" -> \E i \in DOMAIN w : w[i] = "limit" /\
                              (Len(w) < i + 2 \/ Follows(w, {"limit"}, {"tids"}))
    [] c = "set bitrates" -> Mentions(w, {"he-gi-2.4", "he-ltf-5"})
    [] c \in {"nan start", "nan config"} -> w = <<>> \/ w[Len(w)] = "bands"
    [] c = "wowlan enable" ->
         /\ Follows(w, {"net-detect"}, {"tcp", "patterns"})
         /\ ~Mentions(w, {"passive"}) \/ Mentions(w, {"scan_plans", "freqs", "matches", "coloc"})
    [] OTHER -> FALSE

\* Command lines that the usage text does not have, and that are taken for what
\* stands here: an address in front of other options, words that only begin
\* like a flag (scan.c:205), and a training field that is halved (bitrate.c:330).
Beyond ==
  ("interface add" :> Lines(AddressFirst))
  @@ ("scan sched_start" :>
        Lines(<<SchedScan[1], {Wildcard}, {As(<<"flushx">>, FlagBits({"FLUSH"})),
                                           As(<<"colocx">>, FlagBits({"COLOCATED_6GHZ"}))}>>))
  @@ ("set bitrates" :>
        {As(<<"he-ltf-6", "3">>,
            {<<"TX_RATES">>, <<"TX_RATES", "6GHZ">>, <<"TX_RATES", "6GHZ", "HE_LTF", "1">>})})
  @@ [c \in DOMAIN Usages |-> {}]

-----------------------------------------------------------------------------
\* What is tried: these command lines, and what is left of them when they are cut
\* off, or a word is replaced or added.
Added(w, i) == Append(SubSeq(w, 1, i), Junk) \o SubSeq(w, i + 1, Len(w))
Near(w) ==
  {SubSeq(w, 1, i) : i \in 0..Len(w)} \cup {Added(w, i) : i \in 0..Len(w)}
    \cup {[w EXCEPT ![i] = Junk] : i \in DOMAIN w}
Tried(c) == UNION {IF Len(u.w) <= MaxNear THEN Near(u.w) ELSE {u.w} :
                     u \in Language[c] \cup Beyond[c]}

\* Commands whose parsers pass over words wherever they stand, or leave a list
\* at any word: command lines that are cut short or misspelt may mean less.
Lenient ==
  {"scan trigger", "scan sched_start", "wowlan enable", "set bitrates", "set tidconf",
   "nan add_func"}

\* The words behind which other commands pass over a word, or take it for a
\* value that it does not spell (see the README).
Overlooks ==
  ("connect" :> {"mfp:req", "mfp:no"}) @@ ("mesh join" :> {"vendor_sync"})
  @@ ("coalesce enable" :> {"rules"}) @@ ("station set" :> {"limit"})
  @@ ("mpath probe" :> {"00:11"}) @@ ("mgmt reg" :> {"00:11"})
  @@ ("nan start" :> {"pref"}) @@ ("nan config" :> {"pref"}) @@ ("nan rm_func" :> {"cookie"})
  @@ ("cqm rssi" :> {"off", "-60", "-40"}) @@ ("ocb join" :> {"2437", "10MHz"})
  @@ ("vendor send" :> {"blob", "empty"}) @@ [c \in DOMAIN Usages |-> {}]
Overlooked(c, w) == \E i \in DOMAIN w : i > 1 /\ w[i] = Junk /\ w[i - 1] \in Overlooks[c]

\* Commands that read beyond the last word.
ReadsBeyond == {"ap start", "coalesce enable", "interface add", "ftm_request_send"}
=============================================================================
