------------------------------ MODULE JoinArgs ------------------------------
(***************************************************************************)
(* The commands whose arguments come in a fixed order, most of them        *)
(* optional: connect, auth, ibss join, mesh join, ap start and their keys  *)
(* (connect.c, ibss.c, mesh.c, ap.c, util.c).  Each handler is the         *)
(* sequence of its stages; a stage maps the parser to the parser.          *)
(***************************************************************************)
EXTENDS ArgStream

\* "[d:]index:data", the data in text or in hexadecimal digits.
KeyOf ==
  ("0:abcde"        :> [tx |-> FALSE, idx |-> "0", cipher |-> "WEP40",  ok |-> TRUE])
  @@ ("d:1:6162636465" :> [tx |-> TRUE, idx |-> "1", cipher |-> "WEP40", ok |-> TRUE])
  @@ ("2:0123456789abc" :> [tx |-> FALSE, idx |-> "2", cipher |-> "WEP104", ok |-> TRUE])
  @@ ("3:xyzxyzxyzx"  :> [tx |-> FALSE, idx |-> "3", cipher |-> "WEP40", ok |-> FALSE])
\* "psk:data", 64 hexadecimal digits or something else.
PskOf == ("psk:good" :> TRUE) @@ ("psk:short" :> FALSE)
AkmOf == ("PSK" :> "000FAC02") @@ ("FT/PSK" :> "000FAC03")
         @@ ("PSK/SHA-256" :> "000FAC06")
CipherOf == ("TKIP" :> "000FAC02") @@ ("CCMP" :> "000FAC04")
            @@ ("GCMP" :> "000FAC08")

\* The four arguments of the psk form; one that is not understood ends it.
SuiteArg(p, table, attr) ==
  IF p.ret # "go" THEN p
  ELSE IF Arg(p) \in DOMAIN table THEN Shift(Put(p, <<attr, table[Arg(p)]>>), 1)
  ELSE Return(p, "2")

PskKeys(p) ==
  IF Left(p) < 4 THEN Return(p, "2")
  ELSE IF ~PskOf[Arg(p)] THEN Return(Put(p, <<"WPA_VERSIONS", "2">>), "EINVAL")
  ELSE LET p1 == PutAll(Shift(p, 1), <<<<"WPA_VERSIONS", "2">>, <<"PMK", Arg(p)>>,
                                       <<"AUTH_TYPE", "OPEN">>>>)
       IN  SuiteArg(SuiteArg(SuiteArg(p1, AkmOf, "AKM_SUITES"),
                             CipherOf, "CIPHERS_PAIRWISE"),
                    CipherOf, "CIPHER_GROUP")

\* Mutant: without a default key none is chosen at the end.
OneKeyNoDefault(p) ==
  LET n   == p.loc.n + 1
      at  == <<"KEYS", ToString(n)>>
      k   == KeyOf[Arg(p)]
      p1  == PutAll(p, (IF k.tx THEN <<at \o <<"DEFAULT">>>> ELSE <<>>)
                         \o <<at \o <<"IDX", k.idx>>, at \o <<"CIPHER", k.cipher>>>>)
      end == [Shift(Put(p1, at \o <<"DATA", Arg(p)>>), 1)
                EXCEPT !.loc = [st |-> "keys", n |-> n, tx |-> p.loc.tx \/ k.tx]]
  IN  IF Arg(p) \notin DOMAIN KeyOf \/ ~k.ok THEN Return(p, "2")
      ELSE IF Left(end) > 0 THEN Again(end) ELSE end


\* One pass of the loop over the keys.  loc is what it keeps: the number of
\* the key, and have_default.
OneKey(p) ==
  LET n   == p.loc.n + 1
      at  == <<"KEYS", ToString(n)>>
      k   == KeyOf[Arg(p)]
      tx  == p.loc.tx \/ k.tx
      p1  == PutAll(p, (IF k.tx THEN <<at \o <<"DEFAULT">>>> ELSE <<>>)
                         \o <<at \o <<"IDX", k.idx>>, at \o <<"CIPHER", k.cipher>>>>)
      p2  == Shift(Put(p1, at \o <<"DATA", Arg(p)>>), 1)
      p3  == IF ~tx /\ Left(p2) = 0 THEN Put(p2, at \o <<"DEFAULT">>) ELSE p2
      end == [p3 EXCEPT !.loc = [st |-> "keys", n |-> n, tx |-> tx]]
  IN  IF Arg(p) \notin DOMAIN KeyOf \/ ~k.ok THEN Return(p, "2")
      ELSE IF Left(end) > 0 THEN Again(end) ELSE end

parse_keys(p) ==
  IF p.loc.st = "keys" THEN OneKey(p)
  ELSE IF Left(p) = 0 THEN Return(p, "1")
  ELSE IF Arg(p) \in DOMAIN PskOf THEN PskKeys(p)
  ELSE OneKey([Put(p, <<"PRIVACY">>) EXCEPT !.loc = [st |-> "keys", n |-> 0,
                                                  tx |-> FALSE]])

\* Mutant: the word is consumed twice.
KeyWordTwice(p) ==
  IF Left(p) = 0 THEN Return(p, "0")
  ELSE IF Arg(p) \notin {"key", "keys"} THEN Return(p, "1")
  ELSE Shift(p, 2)


\* "key" or "keys" before them; without it the command is complete.
KeyWord(p) ==
  IF Left(p) = 0 THEN Return(p, "0")
  ELSE IF Arg(p) \notin {"key", "keys"} THEN Return(p, "1")
  ELSE Shift(p, 1)

-----------------------------------------------------------------------------
\* Stages that several handlers have.
Ssid(p) == PutArg(p, "SSID")
OptFreq(p) == IF IsNumber(Arg(p)) THEN PutArg(p, "WIPHY_FREQ") ELSE p
OptBssid(p) == IF mac_addr_a2n(Arg(p)) THEN PutArg(p, "MAC") ELSE p

\* parse_freqchan() of what follows the first k arguments, and put_chandef().
PutChandef(p, k, r) ==
  IF r.err # "0" THEN Return(p, r.err)
  ELSE PutAll(Shift(p, k + r.used), put_chandef(r.def))
FreqChan(p, k) == PutChandef(p, k, parse_freqchan(FALSE, Rest(Shift(p, k)), FALSE))

\* Rates in Mbps, sent in units of 500 kbps or of 100 kbps; the text stands
\* for the value.
Rates == {"1", "2", "5.5"}
BasicRates(p) ==
  LET list == Parts(Peek(p, 1))
  IN  IF ~Option(p, "basic-rates") THEN p
      ELSE IF \E i \in DOMAIN list : list[i] \notin Rates THEN Return(p, "1")
      ELSE Shift(Put(p, <<"BASIC_RATES">> \o list), 2)
McastRate(p) ==
  IF ~Option(p, "mcast-rate") THEN p
  ELSE IF Peek(p, 1) \notin Rates \cup Numbers THEN Return(p, "1")
  ELSE Shift(Put(p, <<"MCAST_RATE", Peek(p, 1)>>), 2)
BeaconInterval(p) == OptNumber(p, "beacon-interval", "BEACON_INTERVAL")
DtimPeriod(p) == OptNumber(p, "dtim-period", "DTIM_PERIOD")

MfpOf == ("mfp:req" :> "REQUIRED") @@ ("mfp:opt" :> "OPTIONAL") @@ ("mfp:no" :> "NO")
Mfp(p) == IF Left(p) = 0 THEN Return(p, "0")
          ELSE IF Arg(p) \in DOMAIN MfpOf
          THEN Return(Shift(Put(p, <<"USE_MFP", MfpOf[Arg(p)]>>), 1), "0")
          ELSE Return(p, "EINVAL")

\* iw_auth(): the rest of its arguments, all of which it wants.
AuthOf == ("open" :> "OPEN_SYSTEM") @@ ("shared" :> "SHARED_KEY")
AuthBssid(p) == IF mac_addr_a2n(Arg(p)) THEN PutArg(p, "MAC") ELSE Return(p, "1")
AuthType(p) ==
  IF Arg(p) \in DOMAIN AuthOf
  THEN Shift(Put(p, <<"AUTH_TYPE", AuthOf[Arg(p)]>>), 1) ELSE Return(p, "1")
AuthFreq(p) ==
  LET q == PutArg(p, "WIPHY_FREQ")
      needsKey == Has(p, <<"AUTH_TYPE", "SHARED_KEY">>)
  IN  IF ~IsNumber(Arg(p)) THEN Return(p, "1")
      ELSE IF needsKey # (Left(q) > 0) THEN Return(q, "1") ELSE q

FixedFreq(p) == IF Word(p, "fixed-freq") THEN Shift(Put(p, <<"FREQ_FIXED">>), 1) ELSE p

-----------------------------------------------------------------------------
\* join_mesh() and set_interface_meshparam().
MeshFreq(p) == IF Option(p, "freq") THEN FreqChan(p, 1) ELSE p

MeshSetup(p) ==
  LET p1 == Put(p, <<"MESH_SETUP">>)
      p2 == IF Option(p1, "vendor_sync")
            THEN Shift(Put(p1, <<"MESH_SETUP", "VENDOR_SYNC",
                                 IF Peek(p1, 1) = "on" THEN "1" ELSE "0">>), 2)
            ELSE p1
  IN  IF Left(p2) = 0 THEN Return(p2, "0") ELSE Put(p2, <<"MESH_PARAMS">>)

\* Some parameters, and the values their parse_fn takes.
MeshParams == [mesh_ttl        |-> {"0", "5", "100"},
               mesh_nolearn    |-> {"0", "1"},
               mesh_power_mode |-> {"active", "light", "deep"}]
\* "name=value"; without '=' the value is the next argument.
MeshSettings == ("mesh_ttl=5" :> <<"mesh_ttl", "5">>)
                @@ ("mesh_nolearn=1" :> <<"mesh_nolearn", "1">>)
                @@ ("mesh_nolearn=5" :> <<"mesh_nolearn", "5">>)
                @@ ("mesh_x=5" :> <<"mesh_x", "5">>)

MeshParam(p) ==
  LET joined == Arg(p) \in DOMAIN MeshSettings
      name   == IF joined THEN MeshSettings[Arg(p)][1] ELSE Arg(p)
      value  == IF joined THEN MeshSettings[Arg(p)][2] ELSE Peek(p, 1)
      q      == Shift(Put(p, <<"MESH_PARAMS", name, value>>), IF joined THEN 1 ELSE 2)
  IN  IF (~joined /\ Left(p) < 2) \/ name \notin DOMAIN MeshParams
           \/ value \notin MeshParams[name]
      THEN Return(p, "2")
      ELSE IF Left(q) > 0 THEN Again(q) ELSE Return(q, "0")

\* handle_start_ap().  What follows the channel is read without a look at
\* argc, until the beacon head has been found.
ApBeacon(p) == NumberArg(p, "BEACON_INTERVAL", "EINVAL")
ApDtim(p) == NumberArg(p, "DTIM_PERIOD", "EINVAL")
HiddenOf == ("hidden-ssid" :> "ZERO_LEN") @@ ("zeroed-ssid" :> "ZERO_CONTENTS")
HexData == {"0011", "8000"}

ApHead(p) ==
  LET q == IF Arg(p) \in DOMAIN HiddenOf
           THEN Shift(Put(p, <<"HIDDEN_SSID", HiddenOf[Arg(p)]>>), 1) ELSE p
  IN  IF Left(q) = 0 THEN Return(q, "undefined")
      ELSE IF Arg(q) # "head" THEN Return(q, "1")
      ELSE IF Left(q) = 1 THEN Return(q, "undefined")
      ELSE IF Peek(q, 1) \notin HexData THEN Return(q, "EINVAL")
      ELSE Shift(Put(q, <<"BEACON_HEAD", Peek(q, 1)>>), 2)
ApTail(p) ==
  IF Left(p) = 0 THEN Return(p, "0")
  ELSE IF Arg(p) # "tail" THEN p
  ELSE IF Peek(p, 1) \notin HexData THEN Return(p, "EINVAL")
  ELSE Shift(Put(p, <<"BEACON_TAIL", Peek(p, 1)>>), 2)
ApInactivity(p) ==
  IF Left(p) = 0 THEN Return(p, "0")
  ELSE IF Arg(p) # "inactivity-time" THEN p
  ELSE IF ~IsNumber(Peek(p, 1)) THEN Return(p, "EINVAL")
  ELSE Shift(Put(p, <<"INACTIVITY_TIMEOUT", Peek(p, 1)>>), 2)

-----------------------------------------------------------------------------
\* The handlers.  Those that end with the keys do not look at what a psk key
\* leaves over.
Done(p) == Return(p, "0")

iw_conn(at, p) ==
  CASE at = 1 -> Need(p, 1)
    [] at = 2 -> OptBssid(OptFreq(Ssid(p)))
    [] at = 3 -> KeyWord(p)
    [] at = 4 -> parse_keys(p)
    [] OTHER  -> Mfp(p)

iw_auth(at, p) ==
  CASE at = 1 -> Need(p, 4)
    [] at = 2 -> AuthBssid(Ssid(p))
    [] at = 3 -> AuthType(p)
    [] at = 4 -> AuthFreq(p)
    [] at = 5 -> KeyWord(p)
    [] at = 6 -> parse_keys(p)
    [] OTHER  -> Done(p)

join_ibss(at, p) ==
  CASE at = 1 -> Need(p, 2)
    [] at = 2 -> FreqChan(Ssid(p), 0)
    [] at = 3 -> OptBssid(FixedFreq(p))
    [] at = 4 -> BeaconInterval(p)
    [] at = 5 -> BasicRates(p)
    [] at = 6 -> McastRate(p)
    [] at = 7 -> KeyWord(p)
    [] at = 8 -> parse_keys(p)
    [] OTHER  -> Done(p)

join_mesh(at, p) ==
  CASE at = 1 -> Need(p, 1)
    [] at = 2 -> MeshFreq(PutArg(p, "MESH_ID"))
    [] at = 3 -> BasicRates(p)
    [] at = 4 -> McastRate(p)
    [] at = 5 -> BeaconInterval(p)
    [] at = 6 -> DtimPeriod(p)
    [] at = 7 -> MeshSetup(p)
    [] OTHER  -> MeshParam(p)

set_interface_meshparam(at, p) ==
  CASE at = 1 -> Put(Need(p, 1), <<"MESH_PARAMS">>)
    [] OTHER  -> MeshParam(p)

handle_start_ap(at, p) ==
  CASE at = 1 -> Need(p, 6)
    [] at = 2 -> FreqChan(Ssid(p), 0)
    [] at = 3 -> ApBeacon(p)
    [] at = 4 -> ApDtim(p)
    [] at = 5 -> ApHead(p)
    [] at = 6 -> ApTail(p)
    [] at = 7 -> ApInactivity(p)
    [] at = 8 -> KeyWord(p)
    [] at = 9 -> parse_keys(p)
    [] OTHER  -> Done(p)
=============================================================================
