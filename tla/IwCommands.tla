----------------------------- MODULE IwCommands -----------------------------
(***************************************************************************)
(* The commands of iw: what the COMMAND, TOPLEVEL, HIDDEN and SECTION      *)
(* lines of the sources put into the linker section "__cmd".  The linker   *)
(* is free to order it (the comment at iw.c:558 says so), so it is a set.  *)
(***************************************************************************)
EXTENDS Naturals

\* struct cmd.  idby is how the device of the command is identified; cmd "0"
\* sends no request of its own; args: the usage text has arguments, be they
\* none; handler names the function, or its arguments' parser in IwArgs.
Command(parent, name, idby, nlcmd, handler) ==
  [parent |-> parent, name |-> name, idby |-> idby, cmd |-> nlcmd, handler |-> handler,
   args |-> TRUE, dump |-> FALSE, hidden |-> FALSE]
Toplevel(name, idby, nlcmd, handler) == Command("", name, idby, nlcmd, handler)
Bare(c) == [c EXCEPT !.args = FALSE]
Dump(c) == [c EXCEPT !.dump = TRUE]
Hidden(c) == [c EXCEPT !.hidden = TRUE]
Section(name) == Hidden(Bare(Toplevel(name, "none", "0", "NULL")))
-----------------------------------------------------------------------------
\* ap.c
ap_section == {Section("ap")}
ap_start == {Command("ap", "start", "dev", "NEW_BEACON", "ap start")}
ap_stop == {Command("ap", "stop", "dev", "DEL_BEACON", "handle_stop_ap")}
\* bitrate.c
bitrates_command == {Command("set", "bitrates", "dev", "SET_TX_BITRATE_MASK", "set bitrates")}
\* coalesce.c
coalesce_section == {Section("coalesce")}
coalesce_enable == {Command("coalesce", "enable", "phy", "SET_COALESCE", "coalesce enable")}
coalesce_disable ==
  {Command("coalesce", "disable", "phy", "SET_COALESCE", "handle_coalesce_disable")}
coalesce_show == {Command("coalesce", "show", "phy", "GET_COALESCE", "handle_coalesce_show")}
\* connect.c
top_disconnect == {Bare(Toplevel("disconnect", "dev", "DISCONNECT", "disconnect"))}
top_connect == {Toplevel("connect", "dev", "0", "iw_connect"),
                Hidden(Command("connect", "establish", "dev", "CONNECT", "connect"))}
top_auth == {Toplevel("auth", "dev", "AUTHENTICATE", "auth")}
\* cqm.c
top_cqm == {Toplevel("cqm", "dev", "0", "NULL"),
            Command("cqm", "rssi", "dev", "SET_CQM", "cqm rssi")}
\* event.c
top_event == {Toplevel("event", "none", "0", "print_events")}
\* ftm.c
ftm_section == {Section("ftm")}
ftm_get_stats ==
  {Command("ftm", "get_stats", "dev", "GET_FTM_RESPONDER_STATS", "handle_ftm_get_stats")}
ftm_start_responder ==
  {Command("ftm", "start_responder", "dev", "SET_BEACON", "ftm start_responder")}
\* hwsim.c
hwsim_section == {Section("hwsim")}
hwsim_getps == {Command("hwsim", "getps", "phy", "TESTMODE", "handle_hwsim_getps")}
hwsim_setps == {Command("hwsim", "setps", "phy", "TESTMODE", "hwsim setps")}
hwsim_stopqueues == {Command("hwsim", "stopqueues", "phy", "TESTMODE", "hwsim stopqueues")}
hwsim_wakequeues == {Command("hwsim", "wakequeues", "phy", "TESTMODE", "hwsim wakequeues")}
\* ibss.c
ibss_section == {Section("ibss")}
ibss_leave == {Bare(Command("ibss", "leave", "dev", "LEAVE_IBSS", "leave_ibss")),
               Command("ibss", "join", "dev", "JOIN_IBSS", "ibss join")}
\* info.c
top_info_list_phy == {Bare(Toplevel("info", "phy", "GET_WIPHY", "handle_info")),
                      Dump(Bare(Toplevel("list", "none", "GET_WIPHY", "handle_info"))),
                      Dump(Bare(Toplevel("phy", "none", "GET_WIPHY", "handle_info")))}
top_commands == {Bare(Toplevel("commands", "none", "GET_WIPHY", "handle_commands"))}
top_features == {Toplevel("features", "none", "GET_PROTOCOL_FEATURES", "handle_features")}
\* interface.c
interface_section == {Section("interface")}
interface_add == {Command("interface", "add", "phy", "NEW_INTERFACE", "interface add"),
                  Command("interface", "add", "dev", "NEW_INTERFACE", "interface add")}
top_del ==
  {Bare(Toplevel("del", "dev", "DEL_INTERFACE", "handle_interface_del")),
   Hidden(Bare(Command("interface", "del", "dev", "DEL_INTERFACE", "handle_interface_del")))}
top_info == {Bare(Toplevel("info", "dev", "GET_INTERFACE", "handle_interface_info"))}
set_monitor == {Command("set", "monitor", "dev", "SET_INTERFACE", "set monitor")}
set_meshid == {Command("set", "meshid", "dev", "SET_INTERFACE", "set meshid")}
top_dev == {Dump(Bare(Toplevel("dev", "none", "GET_INTERFACE", "handle_dev_dump")))}
set_type == {Command("set", "type", "dev", "SET_INTERFACE", "set type")}
set_4addr == {Command("set", "4addr", "dev", "SET_INTERFACE", "set 4addr")}
set_noack_map == {Command("set", "noack_map", "dev", "SET_NOACK_MAP", "set noack_map")}
set_peer == {Command("set", "peer", "dev", "SET_WDS_PEER", "set peer")}
mcast_rate_command == {Command("set", "mcast_rate", "dev", "SET_MCAST_RATE", "set mcast_rate")}
switch_section == {Section("switch"),
                   Command("switch", "freq", "dev", "CHANNEL_SWITCH", "switch freq"),
                   Command("switch", "channel", "dev", "CHANNEL_SWITCH", "switch channel")}
set_tidconf == {Command("set", "tidconf", "dev", "SET_TID_CONFIG", "set tidconf")}
\* iw.c
top_help == {Toplevel("help", "none", "0", "print_help")}
\* link.c
top_link ==
  {Bare(Toplevel("link", "dev", "0", "handle_link")),
   Hidden(Command("link", "get_sta", "dev", "GET_STATION", "handle_link_sta")),
   Dump(Hidden(Bare(Command("link", "get_bss", "dev", "GET_SCAN", "handle_scan_for_link"))))}
\* measurements.c
measurement_section == {Section("measurement")}
measurement_ftm_request ==
  {Command("measurement", "ftm_request", "dev", "0", "handle_ftm_req"),
   Hidden(Command("measurement", "ftm_request_send", "dev", "PEER_MEASUREMENT_START",
                  "ftm_request_send"))}
\* mesh.c
mesh_section == {Section("mesh")}
set_mesh_param == {Command("set", "mesh_param", "dev", "SET_MESH_PARAMS", "set mesh_param")}
get_mesh_param ==
  {Command("get", "mesh_param", "dev", "GET_MESH_PARAMS", "get_interface_meshparam")}
mesh_join == {Command("mesh", "join", "dev", "JOIN_MESH", "mesh join")}
mesh_leave == {Bare(Command("mesh", "leave", "dev", "LEAVE_MESH", "leave_mesh"))}
\* mgmt.c
mgmt_section == {Section("mgmt")}
mgmt_reg == {Hidden(Command("mgmt", "reg", "dev", "REGISTER_FRAME", "mgmt reg"))}
mgmt_dump == {Command("mgmt", "dump", "dev", "0", "handle_mgmt_dump")}
\* mpath.c
mpath_section == {Section("mpath")}
mpath_probe == {Command("mpath", "probe", "dev", "PROBE_MESH_LINK", "mpath probe")}
mpath_get == {Command("mpath", "get", "dev", "GET_MPATH", "mpath get"),
              Command("mpath", "del", "dev", "DEL_MPATH", "mpath get")}
mpath_new == {Command("mpath", "new", "dev", "NEW_MPATH", "mpath set"),
              Command("mpath", "set", "dev", "SET_MPATH", "mpath set")}
mpath_dump == {Dump(Bare(Command("mpath", "dump", "dev", "GET_MPATH", "handle_mpath_dump")))}
\* mpp.c
mpp_section == {Section("mpp")}
mpp_get == {Command("mpp", "get", "dev", "GET_MPP", "mpp get")}
mpp_dump == {Dump(Bare(Command("mpp", "dump", "dev", "GET_MPP", "handle_mpp_dump")))}
\* nan.c
nan_section == {Section("nan")}
nan_start == {Command("nan", "start", "wdev", "START_NAN", "nan start")}
nan_stop == {Command("nan", "stop", "wdev", "STOP_NAN", "handle_nan_stop")}
nan_config == {Command("nan", "config", "wdev", "CHANGE_NAN_CONFIG", "nan config")}
nan_rm_func == {Command("nan", "rm_func", "wdev", "DEL_NAN_FUNCTION", "nan rm_func")}
nan_add_func == {Command("nan", "add_func", "wdev", "ADD_NAN_FUNCTION", "nan add_func")}
\* ocb.c
ocb_section == {Section("ocb")}
ocb_join == {Command("ocb", "join", "dev", "JOIN_OCB", "ocb join")}
ocb_leave == {Bare(Command("ocb", "leave", "dev", "LEAVE_OCB", "leave_ocb"))}
\* offch.c
top_offchannel == {Toplevel("offchannel", "dev", "REMAIN_ON_CHANNEL", "offchannel")}
\* p2p.c
p2p_section == {Section("p2p")}
p2p_start == {Command("p2p", "start", "wdev", "START_P2P_DEVICE", "handle_p2p_start")}
p2p_stop == {Command("p2p", "stop", "wdev", "STOP_P2P_DEVICE", "handle_p2p_stop")}
\* phy.c
top_channels == {Bare(Toplevel("channels", "phy", "GET_WIPHY", "handle_channels"))}
set_name == {Command("set", "name", "phy", "SET_WIPHY", "set name")}
set_freq == {Command("set", "freq", "phy", "SET_WIPHY", "set freq"),
             Command("set", "freq", "dev", "SET_WIPHY", "set freq")}
set_channel == {Command("set", "channel", "phy", "SET_WIPHY", "set channel"),
                Command("set", "channel", "dev", "SET_WIPHY", "set channel")}
top_cac == {Toplevel("cac", "dev", "0", "handle_cac"),
            Command("cac", "trigger", "dev", "RADAR_DETECT", "cac trigger")}
set_frag == {Command("set", "frag", "phy", "SET_WIPHY", "set frag")}
set_rts == {Command("set", "rts", "phy", "SET_WIPHY", "set rts")}
set_retry == {Command("set", "retry", "phy", "SET_WIPHY", "set retry")}
set_netns == {Command("set", "netns", "phy", "SET_WIPHY_NETNS", "set netns")}
set_coverage == {Command("set", "coverage", "phy", "SET_WIPHY", "set coverage")}
set_distance == {Command("set", "distance", "phy", "SET_WIPHY", "set distance")}
set_txpower == {Command("set", "txpower", "phy", "SET_WIPHY", "set txpower"),
                Command("set", "txpower", "dev", "SET_WIPHY", "set txpower")}
set_antenna == {Command("set", "antenna", "phy", "SET_WIPHY", "set antenna")}
set_txq == {Command("set", "txq", "phy", "SET_WIPHY", "set txq")}
get_txq == {Command("get", "txq", "phy", "GET_WIPHY", "handle_get_txq")}
\* ps.c
power_save_command == {Command("set", "power_save", "dev", "SET_POWER_SAVE", "set power_save")}
get_power_save == {Command("get", "power_save", "dev", "GET_POWER_SAVE", "get_power_save")}
\* reg.c
reg_section == {Section("reg")}
reg_set == {Command("reg", "set", "none", "REQ_SET_REG", "reg set")}
reg_get == {Bare(Command("reg", "get", "none", "GET_REG", "handle_reg_get")),
            Bare(Command("reg", "get", "phy", "GET_REG", "handle_reg_dump")),
            Dump(Hidden(Bare(Command("reg", "dump", "none", "GET_REG", "handle_reg_dump"))))}
reg_reload == {Bare(Command("reg", "reload", "none", "RELOAD_REGDB", "handle_reg_reload"))}
\* roc.c
roc_section == {Section("roc")}
roc_start == {Command("roc", "start", "dev", "REMAIN_ON_CHANNEL", "roc start")}
\* scan.c
top_scan == {Toplevel("scan", "dev", "0", "handle_scan_combined"),
             Dump(Command("scan", "dump", "dev", "GET_SCAN", "handle_scan_dump")),
             Command("scan", "trigger", "dev", "TRIGGER_SCAN", "scan trigger")}
scan_abort == {Command("scan", "abort", "dev", "ABORT_SCAN", "handle_scan_abort")}
scan_sched_start ==
  {Command("scan", "sched_start", "dev", "START_SCHED_SCAN", "scan sched_start"),
   Command("scan", "sched_stop", "dev", "STOP_SCHED_SCAN", "handle_stop_sched_scan")}
\* sections.c
sections == {Section("get"), Section("set")}
\* station.c; select_station_cmd() tells those named "set" apart.
station_section == {Section("station")}
station_get == {Command("station", "get", "dev", "GET_STATION", "station get")}
station_del == {Command("station", "del", "dev", "DEL_STATION", "station del")}
station_set_plink == {Command("station", "set", "dev", "SET_STATION", "station set")}
station_set_vlan == {Command("station", "set", "dev", "SET_STATION", "station set")}
station_set_mesh_power_mode == {Command("station", "set", "dev", "SET_STATION", "station set")}
station_set_airtime_weight == {Command("station", "set", "dev", "SET_STATION", "station set")}
station_set_txpwr == {Command("station", "set", "dev", "SET_STATION", "station set")}
station_dump == {Dump(Command("station", "dump", "dev", "GET_STATION", "handle_station_dump"))}
\* survey.c
survey_section == {Section("survey")}
survey_dump ==
  {Dump(Bare(Command("survey", "dump", "dev", "GET_SURVEY", "handle_survey_dump")))}
\* vendor.c
vendor_section == {Section("vendor")}
vendor_send == {Command("vendor", "send", "dev", "VENDOR", "vendor send"),
                Command("vendor", "recv", "dev", "VENDOR", "vendor send"),
                Command("vendor", "recvbin", "dev", "VENDOR", "vendor send")}
\* wowlan.c
wowlan_section == {Section("wowlan")}
wowlan_enable == {Command("wowlan", "enable", "phy", "SET_WOWLAN", "wowlan enable")}
wowlan_disable == {Command("wowlan", "disable", "phy", "SET_WOWLAN", "handle_wowlan_disable")}
wowlan_show == {Command("wowlan", "show", "phy", "GET_WOWLAN", "handle_wowlan_show")}
-----------------------------------------------------------------------------
Table ==
  UNION {ap_section, ap_start, ap_stop, bitrates_command, coalesce_section, coalesce_enable,
         coalesce_disable, coalesce_show, top_disconnect, top_connect, top_auth,
         top_cqm, top_event, ftm_section, ftm_get_stats, ftm_start_responder,
         hwsim_section, hwsim_getps, hwsim_setps, hwsim_stopqueues,
         hwsim_wakequeues, ibss_section, ibss_leave, top_info_list_phy,
         top_commands, top_features, interface_section, interface_add, top_del,
         top_info, set_monitor, set_meshid, top_dev, set_type, set_4addr,
         set_noack_map, set_peer, mcast_rate_command, switch_section, set_tidconf,
         top_help, top_link, measurement_section, measurement_ftm_request,
         mesh_section, set_mesh_param, get_mesh_param, mesh_join, mesh_leave,
         mgmt_section, mgmt_reg, mgmt_dump, mpath_section, mpath_probe, mpath_get,
         mpath_new, mpath_dump, mpp_section, mpp_get, mpp_dump, nan_section,
         nan_start, nan_stop, nan_config, nan_rm_func, nan_add_func, ocb_section,
         ocb_join, ocb_leave, top_offchannel, p2p_section, p2p_start, p2p_stop,
         top_channels, set_name, set_freq, set_channel, top_cac, set_frag, set_rts,
         set_retry, set_netns, set_coverage, set_distance, set_txpower, set_antenna,
         set_txq, get_txq, power_save_command, get_power_save, reg_section, reg_set,
         reg_get, reg_reload, roc_section, roc_start, top_scan, scan_abort,
         scan_sched_start, sections, station_section, station_get, station_del,
         station_set_plink, station_set_vlan, station_set_mesh_power_mode,
         station_set_airtime_weight, station_set_txpwr, station_dump,
         survey_section, survey_dump, vendor_section, vendor_send, wowlan_section,
         wowlan_enable, wowlan_disable, wowlan_show}
=============================================================================
