------------------------------ MODULE NanArgs -------------------------------
(***************************************************************************)
(* The arguments of the nan commands (nan.c).  The attributes of a         *)
(* function are collected in a message of their own that is put into the   *)
(* message at the end, under NAN_FUNC.                                     *)
(***************************************************************************)
EXTENDS ArgStream

BandOf == ("2ghz" :> "2GHZ") @@ ("2GHz" :> "2GHZ") @@ ("5GHz" :> "5GHZ")
MasterPref(p) == Shift(Put(p, <<"NAN_MASTER_PREF", atoi(Peek(p, 1))>>), 2)

\* "bands" and all that follows it; alone it is not understood.
parse_bands(p) ==
  LET names == Rest(Shift(p, 1))
  IN  IF Left(p) = 0 THEN p
      ELSE IF ~Option(p, "bands") \/ \E i \in DOMAIN names : names[i] \notin DOMAIN BandOf
      THEN Return(p, "EINVAL")
      ELSE Shift(Put(p, <<"BANDS">> \o [i \in DOMAIN names |-> BandOf[names[i]]]),
                 Left(p))

handle_nan_start(at, p) ==
  CASE at = 1 -> IF ~Option(p, "pref") THEN Return(p, "EINVAL") ELSE MasterPref(p)
    [] at = 2 -> parse_bands(p)
    [] OTHER  -> Return(p, "0")

handle_nan_config(at, p) ==
  CASE at = 1 -> IF Left(p) < 2 THEN Return(p, "EINVAL")
                 ELSE IF Option(p, "pref") THEN MasterPref(p) ELSE p
    [] at = 2 -> parse_bands(p)
    [] OTHER  -> Return(p, "0")

handle_nan_rm_func(at, p) ==
  IF Left(p) = 2 /\ Arg(p) = "cookie"
  THEN Return(Shift(Put(p, <<"COOKIE", atoi(Peek(p, 1))>>), 2), "0")
  ELSE Return(p, "EINVAL")

-----------------------------------------------------------------------------
Func(attr) == <<"NAN_FUNC", attr>>
FuncTypes == {"publish", "subscribe", "followup"}
Type(p, type) == Has(p, Func("TYPE") \o <<type>>)
\* An option with one argument, sent as a number where it is one.
FuncNumbers == {"ttl", "flw_up_id", "flw_up_req_id"}
FuncOption(p, word, attr) ==
  LET value == IF word \in FuncNumbers THEN atoi(Peek(p, 1)) ELSE Peek(p, 1)
  IN  IF Option(p, word) THEN Shift(Put(p, Func(attr) \o <<value>>), 2) ELSE p

FuncType(p) ==
  IF ~Option(p, "type") \/ Peek(p, 1) \notin FuncTypes THEN Return(p, "EINVAL")
  ELSE Shift(Put(p, Func("TYPE") \o <<Peek(p, 1)>>), 2)

\* active of a subscription; the kind of a publication, and bcast, which only
\* a solicited one may have.
Solicited(p) == Flag(p, "solicited", Func("PUBLISH_TYPE") \o <<"SOLICITED">>)
Unsolicited(p) == Flag(p, "unsolicited", Func("PUBLISH_TYPE") \o <<"UNSOLICITED">>)
FuncKind(p) ==
  CASE Type(p, "subscribe") -> Flag(p, "active", Func("SUBSCRIBE_ACTIVE"))
    [] Type(p, "publish")   -> Unsolicited(Solicited(p))
    [] OTHER                -> p
FuncBcast(p) ==
  IF ~Type(p, "publish") \/ ~Option(p, "bcast") THEN p
  ELSE IF ~Has(p, Func("PUBLISH_TYPE") \o <<"SOLICITED">>) THEN Return(p, "EINVAL")
  ELSE Flag(p, "bcast", Func("PUBLISH_BCAST"))

\* The name is sent as the first bytes of its SHA-256 digest.
FuncName(p) ==
  LET q == Flag(p, "close_range", Func("CLOSE_RANGE"))
  IN  IF ~Option(q, "name") THEN Return(q, "EINVAL")
      ELSE FuncOption(q, "name", "SERVICE_ID")

FollowUp(p) ==
  LET q == FuncOption(FuncOption(p, "flw_up_id", "FOLLOW_UP_ID"),
                      "flw_up_req_id", "FOLLOW_UP_REQ_ID")
  IN  IF ~Type(p, "followup") THEN p
      ELSE IF Option(q, "flw_up_dest") /\ ~mac_addr_a2n(Peek(q, 1))
      THEN Return(q, "ENOBUFS")
      ELSE FuncOption(q, "flw_up_dest", "FOLLOW_UP_DEST")

\* The filter: which stations are meant, as a Bloom filter or as a list.
Stations(t) == Parts(t)
MacList == {"m1;m2", "m1"}
SrfMaxLen == 100
Srf(p, attrs, used) ==
  Shift(PutAll(p, [i \in DOMAIN attrs |-> Func("SRF") \o attrs[i]]), used)

parse_srf(p) ==
  LET include == IF Arg(p) = "include" THEN <<<<"INCLUDE">>>> ELSE <<>>
      bytes   == Peek(p, 3)
  IN  CASE Arg(p) \notin {"include", "exclude"} -> Return(p, "EINVAL")
        [] Arg(p) \in {"include", "exclude"} /\ Peek(p, 1) = "bf" ->
             IF Left(p) < 5 \/ Num(atoi(bytes)) \notin 1..SrfMaxLen
                  \/ Peek(p, 4) \notin MacList
             THEN Return(p, "EINVAL")
             ELSE Srf(p, include \o <<<<"BF_IDX", atoi(Peek(p, 2))>>,
                                      <<"BF", bytes>> \o Stations(Peek(p, 4))>>, 5)
        [] Arg(p) \in {"include", "exclude"} /\ Peek(p, 1) = "list" ->
             IF Peek(p, 2) \notin MacList THEN Return(p, "EINVAL")
             ELSE Srf(p, include \o <<<<"MAC_ADDRS">> \o Stations(Peek(p, 2))>>, 3)
        [] OTHER -> Return(p, "EINVAL")

FuncSrf(p) == IF Left(p) >= 4 /\ Arg(p) = "srf" THEN parse_srf(Shift(p, 1)) ELSE p

parse_match_filter(p, word, attr) ==
  IF Option(p, word)
  THEN Shift(Put(p, Func(attr) \o [i \in DOMAIN Parts(Peek(p, 1)) |->
                                     IF Parts(Peek(p, 1))[i] = "*" THEN ""
                                     ELSE Parts(Peek(p, 1))[i]]), 2)
  ELSE p

\* A follow-up has none of what comes last.
handle_nan_add_func(at, p) ==
  CASE at = 1 -> FuncType(p)
    [] at = 2 -> FuncKind(p)
    [] at = 3 -> FuncBcast(p)
    [] at = 4 -> FuncName(p)
    [] at = 5 -> FollowUp(FuncOption(p, "info", "SERVICE_INFO"))
    [] at = 6 /\ ~Type(p, "followup") -> FuncOption(p, "ttl", "TTL")
    [] at = 7 /\ ~Type(p, "followup") -> FuncSrf(p)
    [] at = 8 /\ ~Type(p, "followup") ->
         parse_match_filter(parse_match_filter(p, "rx_filter", "RX_MATCH_FILTER"),
                            "tx_filter", "TX_MATCH_FILTER")
    [] OTHER -> Return(p,
                       IF Left(p) > 0 THEN "EINVAL" ELSE "0")
=============================================================================
