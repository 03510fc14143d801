--------------------------- MODULE MCWifiClient ----------------------------
(* Three interfaces: a client that is connected, a P2P device, which has no
   index and no name, and an access point that has two stations. *)
EXTENDS WifiClient

MCFamilies == <<"nlctrl", "nl80211">>
MCWorlds == {<<>>, <<"p2p">>, <<"ap0">>, <<"wlan0", "p2p", "ap0">>,
             <<"ap0", "p2p", "wlan0">>, <<"wlan0", "ap0", "p2p">>}
MCStationsOf == [i \in {"wlan0", "p2p", "ap0"} |->
                   CASE i = "wlan0" -> <<"bss">>
                     [] i = "ap0"   -> <<"sta1", "sta2">>
                     [] OTHER       -> <<>>]
MCItems == {"nlctrl", "nl80211", "wlan0", "p2p", "ap0", "bss", "sta1", "sta2"}
MCHas == [x \in MCItems |->
            CASE x = "wlan0" -> {"ifname", "ifindex", "mac", "ssid", "freq"}
              [] x = "ap0"   -> {"ifname", "ifindex", "mac"}
              [] x = "p2p"   -> {"mac"}
              [] x = "sta2"  -> {"signal"}
              [] OTHER       -> {"signal", "txrate"}]
=============================================================================
