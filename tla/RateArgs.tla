------------------------------ MODULE RateArgs ------------------------------
(***************************************************************************)
(* Rate masks (bitrate.c): the words of set bitrates, each for a band, and *)
(* the values that follow them.                                            *)
(***************************************************************************)
EXTENDS ArgStream

\* What a word announces, and for which band.
RateWords ==
  ("legacy-2.4" :> <<"LEGACY", "2GHZ">>) @@ ("legacy-5" :> <<"LEGACY", "5GHZ">>)
  @@ ("ht-mcs-2.4" :> <<"HT", "2GHZ">>)   @@ ("ht-mcs-5" :> <<"HT", "5GHZ">>)
  @@ ("vht-mcs-2.4" :> <<"VHT", "2GHZ">>) @@ ("vht-mcs-5" :> <<"VHT", "5GHZ">>)
  @@ ("he-mcs-2.4" :> <<"HE", "2GHZ">>)   @@ ("he-mcs-5" :> <<"HE", "5GHZ">>)
  @@ ("he-mcs-6" :> <<"HE", "6GHZ">>)
  @@ ("sgi-2.4" :> <<"SGI", "2GHZ">>)     @@ ("sgi-5" :> <<"SGI", "5GHZ">>)
  @@ ("lgi-2.4" :> <<"LGI", "2GHZ">>)     @@ ("lgi-5" :> <<"LGI", "5GHZ">>)
  @@ ("he-gi-2.4" :> <<"HE_GI", "2GHZ">>) @@ ("he-gi-5" :> <<"HE_GI", "5GHZ">>)
  @@ ("he-gi-6" :> <<"HE_GI", "6GHZ">>)
  @@ ("he-ltf-2.4" :> <<"HE_LTF", "2GHZ">>) @@ ("he-ltf-5" :> <<"HE_LTF", "5GHZ">>)
  @@ ("he-ltf-6" :> <<"HE_LTF", "6GHZ">>)
RateKinds == <<"LEGACY", "HT", "VHT", "HE", "SGI", "LGI", "HE_GI", "HE_LTF">>
\* The words that may come only once.
OnceKinds == {"LEGACY", "HT", "VHT", "HE"}

\* "NSS:MCSx,MCSy" or "NSS:MCSx-MCSy".
ChunkOf ==
  ("1:0-7" :> [nss |-> 1, range |-> TRUE, mcs |-> <<0, 7>>])
  @@ ("2:10-11" :> [nss |-> 2, range |-> TRUE, mcs |-> <<10, 11>>])
  @@ ("1:8,9" :> [nss |-> 1, range |-> FALSE, mcs |-> <<8, 9>>])
  @@ ("1:7-0" :> [nss |-> 1, range |-> TRUE, mcs |-> <<7, 0>>])
  @@ ("4:9" :> [nss |-> 4, range |-> FALSE, mcs |-> <<9>>])
  @@ ("9:0-7" :> [nss |-> 9, range |-> TRUE, mcs |-> <<0, 7>>])
MaxNss == 8
MaxMcs(kind) == IF kind = "HE" THEN 11 ELSE 9

parse_rate_chunk(t, kind) ==
  LET c == ChunkOf[t]
      set == IF c.range THEN c.mcs[1]..c.mcs[2] ELSE {c.mcs[i] : i \in DOMAIN c.mcs}
      ok == /\ c.nss \in 1..MaxNss
            /\ c.range => c.mcs[1] <= c.mcs[2]
            /\ \A i \in DOMAIN c.mcs : c.mcs[i] <= MaxMcs(kind)
  IN  IF t \in DOMAIN ChunkOf /\ ok THEN {<<c.nss, m>> : m \in set} ELSE {}

\* setup_vht(), setup_he(): the MCS indices of each number of streams, in the
\* order of the indices; empty if a chunk is not understood.
Streams == 4      \* what the chunks here speak of, of MaxNss
McsOrder == <<0, 1, 2, 3, 4, 5, 6, 7, 8, 9, 10, 11>>
SetUp(chunks, kind) ==
  LET all == UNION {parse_rate_chunk(chunks[i], kind) : i \in DOMAIN chunks}
      Of(n) == SelectSeq(McsOrder, LAMBDA m : <<n, m>> \in all)
  IN  IF \E i \in DOMAIN chunks : parse_rate_chunk(chunks[i], kind) = {} THEN <<>>
      ELSE [n \in 1..Streams |-> ToString(Of(n))]

HeGi == ("0.8" :> "HE_GI_0_8") @@ ("1.6" :> "HE_GI_1_6") @@ ("3.2" :> "HE_GI_3_2")
HeLtf == ("0" :> "0") @@ ("1" :> "0") @@ ("2" :> "1") @@ ("3" :> "1") @@ ("4" :> "2")

-----------------------------------------------------------------------------
\* at: where the rates go in the message.  Outside of set bitrates the parser
\* stops before an argument that is not its own.
TxRates == <<"TX_RATES">>

\* loc: the state (what the last word announced), the band, the words met, the
\* values of each, the one guard interval and training field of all bands, and
\* where it began.
RateStart(p) ==
  [p EXCEPT !.loc = [st |-> "NONE", band |-> "2GHZ", have |-> {},
                     values |-> [k \in OnceKinds |-> [b \in {"2GHZ", "5GHZ", "6GHZ"} |-> <<>>]],
                     gi |-> "0.8", ltf |-> "0", from |-> p.pos]]

Value(p) == [Shift(p, 1) EXCEPT !.loc.values[p.loc.st][p.loc.band] = Append(@, Arg(p))]

RateArg(p, at) ==
  LET w == Arg(p)
      s == p.loc.st
  IN  CASE w \in DOMAIN RateWords ->
             IF RateWords[w] \in p.loc.have /\ RateWords[w][1] \in OnceKinds
             THEN Return(p, "1")
             ELSE [Shift(p, 1) EXCEPT !.loc.st = RateWords[w][1],
                                      !.loc.band = RateWords[w][2],
                                      !.loc.have = @ \cup {RateWords[w]}]
        [] w \notin DOMAIN RateWords /\ s = "LEGACY" ->
             IF w \in {"1", "5.5", "10"} THEN Value(p) ELSE Return(p, "1")
        [] w \notin DOMAIN RateWords /\ s = "HT" ->
             IF IsNumber(w) /\ Num(w) <= 255 THEN Value(p) ELSE Return(p, "1")
        [] w \notin DOMAIN RateWords /\ s \in {"VHT", "HE"} -> Value(p)
        [] w \notin DOMAIN RateWords /\ s \in {"SGI", "LGI"} -> Shift(p, 1)
        [] w \notin DOMAIN RateWords /\ s = "HE_GI" ->
             Shift([p EXCEPT !.loc.gi = w], 1)
        [] w \notin DOMAIN RateWords /\ s = "HE_LTF" ->
             IF w \in DOMAIN HeLtf THEN Shift([p EXCEPT !.loc.ltf = HeLtf[w]], 1)
             ELSE Return(p, "1")
        [] OTHER -> IF at = TxRates THEN Return(p, "1")
                    ELSE [p EXCEPT !.loc.st = "NEXT"]

\* What a band gets of each kind of word.
RateAttr(l, kind, band) ==
  LET v == IF kind \in OnceKinds THEN l.values[kind][band] ELSE <<>>
  IN  CASE kind \in {"LEGACY", "HT"} -> <<kind>> \o v
        [] kind \in {"VHT", "HE"} -> <<kind>> \o SetUp(v, kind)
        [] kind = "SGI"    -> <<"GI", "FORCE_SGI">>
        [] kind = "LGI"    -> <<"GI", "FORCE_LGI">>
        [] kind = "HE_GI"  -> <<"HE_GI", HeGi[l.gi]>>
        [] kind = "HE_LTF" -> <<"HE_LTF", l.ltf>>

RateBand(l, at, band) ==
  LET kinds == SelectSeq(RateKinds, LAMBDA k : <<k, band>> \in l.have)
  IN  IF kinds = <<>> THEN <<>>
      ELSE <<at \o <<band>>>>
             \o [i \in DOMAIN kinds |-> at \o <<band>> \o RateAttr(l, kinds[i], band)]

RateEnd(p, at) ==
  LET l == p.loc
      bad == \E h \in l.have : /\ h[1] \in {"VHT", "HE"}
                               /\ SetUp(l.values[h[1]][h[2]], h[1]) = <<>>
      both == \E b \in {"2GHZ", "5GHZ"} : {<<"SGI", b>>, <<"LGI", b>>} \subseteq l.have
  IN  IF bad THEN Return(p, "EINVAL")
      ELSE IF both \/ l.gi \notin DOMAIN HeGi THEN Return(p, "1")
      ELSE PutAll(p, <<at>> \o RateBand(l, at, "2GHZ") \o RateBand(l, at, "5GHZ")
                       \o RateBand(l, at, "6GHZ"))

\* One argument, or the end.
RateStates == {"NONE", "LEGACY", "HT", "VHT", "HE", "SGI", "LGI", "HE_GI", "HE_LTF"}
set_bitrates(p, at) ==
  IF p.loc.st \in RateStates /\ Left(p) > 0 THEN RateArg(p, at)
  ELSE [RateEnd(p, at) EXCEPT !.loc.st = "RATES_DONE"]

RatesAgain(q) ==
  IF q.ret = "go" /\ q.loc.st = "RATES_DONE" THEN Return(q, "0") ELSE Again(q)
handle_bitrates(at, p) ==
  CASE at = 1 -> RateStart(p)
    [] OTHER  -> RatesAgain(set_bitrates(p, TxRates))
=============================================================================
