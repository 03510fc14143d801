------------------------------ MODULE MCIwMain ------------------------------
(* Command lines of iw: every command with all the arguments that IwUsage has
   for it, and with few arguments behind every way to identify a device. *)
EXTENDS IwMain

MCCommands == DOMAIN Usages

Names(c) == IF c.parent = "" THEN <<c.name>> ELSE <<c.parent, c.name>>
Line(ids, c, args, suits, faulty) ==
  [words |-> ids \o Names(c) \o args, c |-> c, args |-> args, suits |-> suits, faulty |-> faulty,
   byWdev |-> suits /\ c.idby = "dev" /\ ids # <<>> /\ ids[1] = "wdev"]

Usual(c) == CASE c.idby = "none" -> <<>> [] c.idby = "phy" -> <<"phy", "phy0">>
              [] c.idby = "dev" -> <<"dev", "wlan0">> [] c.idby = "wdev" -> <<"wdev", "5">>

\* One command for each parser, with everything that is tried with it.
Parsers == {CHOOSE c \in Table : c.handler = h : h \in Commands}
ArgumentLines == {{Line(Usual(c), c, a, TRUE, FALSE) : a \in Tried(c.handler)} : c \in Parsers}

\* The ways to identify a device, and what is identified.
Devices ==
  (<<>> :> "none") @@ (<<"dev", "wlan0">> :> "dev") @@ (<<"wlan0">> :> "dev")
  @@ (<<"dev", "event">> :> "dev") @@ (<<"phy", "phy0">> :> "phy") @@ (<<"phy0">> :> "phy")
  @@ (<<"phy#0">> :> "phy") @@ (<<"wdev", "5">> :> "wdev")
  @@ (<<"phy#x">> :> "nothing") @@ (<<"wdev", "x">> :> "nothing") @@ (<<"dev", "eth9">> :> "nothing")
  @@ (<<"phy", "phy9">> :> "nothing") @@ (<<"phy#-1">> :> "nothing") @@ (<<"wdev", "-5">> :> "nothing")

FewArguments(c) ==
  CASE Parsed(c) -> LET taken == {u.w : u \in {v \in Language[c.handler] : ~Bent(c.handler, v.w)}}
                    IN  {CHOOSE w \in taken : \A x \in taken : Len(w) <= Len(x)}
    [] c.handler = "iw_connect" -> {<<"net">>, <<"-w", "net">>, <<"-w">>}
    [] c.handler = "handle_scan_combined" -> {<<>>, <<"-u">>, <<"-u", "passive">>}
    [] c.handler = "handle_cac" -> {<<>>, <<"channel", "36">>, <<"freq", Junk>>}
    [] c.handler = "handle_ftm_req" -> {<<"peers">>}
    [] c.handler = "handle_mgmt_dump" ->
         {<<"frame", "40", "00:11">>, <<"frame", "40", "00:11", "frame", "40", "00:11">>,
          <<"frame", "40", "00:11", "count", "5">>, <<"frame", "40", "00:11", Junk>>, <<"frame">>}
    [] c.handler = "print_events" -> {<<>>, <<"-t", "-f">>, <<"-t", "-r">>, <<Junk>>}
    [] c.handler = "get_interface_meshparam" -> {<<>>, <<"mesh_ttl">>, <<Junk>>}
    [] c.handler = "handle_scan_dump" -> {<<>>, <<"-u">>, <<"-u", "-b">>}
    [] c.handler = "handle_stop_sched_scan" -> {<<>>, <<Junk>>}
    [] OTHER -> IF c.args THEN {<<>>} ELSE {<<>>, <<Junk>>}

Suited(c, kind) == \E d \in Table : Names(d) = Names(c) /\ Fits(d, kind)
\* A device that is called like a command hides it.
Suits(c, ids, a) == /\ Fits(c, Devices[ids])
                    /\ a # <<>> => c.args
                    /\ ids = <<>> => Names(c)[1] \notin Netdevs \cup Phys
Visible == {c \in Table : ~c.hidden /\ c.handler \notin {"NULL", "print_help"}}
DeviceLines ==
  {{Line(ids, c, a, Suits(c, ids, a), TRUE) : a \in FewArguments(c)} :
     <<ids, c>> \in {x \in (DOMAIN Devices) \X Visible :
                       Fits(x[2], Devices[x[1]]) \/ ~Suited(x[2], Devices[x[1]])}}

Nothing == [words |-> <<>>, c |-> NoCommand, args |-> <<>>, suits |-> TRUE, faulty |-> TRUE,
            byWdev |-> FALSE]
OtherLines == {Nothing, [Nothing EXCEPT !.words = <<"help">>],
               [Nothing EXCEPT !.words = <<"--version">>], [Nothing EXCEPT !.words = <<"wlan0">>],
               [Nothing EXCEPT !.words = <<"dev", "wlan0">>],
               [Nothing EXCEPT !.words = <<"dev", "wlan0", "set">>],
               [Nothing EXCEPT !.words = <<"nosuch">>]}

MCDevices == DeviceLines \cup {OtherLines}
MCLines == MCDevices \cup ArgumentLines
=============================================================================
