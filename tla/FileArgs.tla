------------------------------ MODULE FileArgs ------------------------------
(***************************************************************************)
(* The commands that read a file: wowlan enable, coalesce enable and       *)
(* measurement ftm_request_send (wowlan.c, coalesce.c, measurements.c).  A *)
(* file is a sequence of lines, a line the sequence of its fields.         *)
(***************************************************************************)
EXTENDS ScanArgs

Addresses == {"10.0.0.1"}
AMac == "02:00:00:00:00:01"

Files ==
  ("tcp.conf" :> << <<"source=", "10.0.0.1", "80">>, <<"#">>,
                    <<"dest=", "10.0.0.1", "80", AMac>>, <<"data=", "00:11">>,
                    <<"data.interval=", "5">>, <<"wake=", "dd:-:05">>,
                    <<"data.seq=", "1", "2">>, <<"data.tok=", "1", "2", "00:11">> >>)
  @@ ("tcp.dest" :> << <<"source=", "10.0.0.1">>, <<"dest=", "10.0.0.1", "80">> >>)
  @@ ("tcp.seq" :> << <<"data.seq=", "1", "2", "3">>, <<"data.seq=", "1">> >>)
  @@ ("tcp.bad" :> << <<"wake=", "-:xyz">> >>)
  @@ ("rules" :> << <<"delay=", "10">>, <<"condition=", "1">>,
                    <<"patterns=", "5+00:11", "dd:-:05">>,
                    <<"delay=", "20">>, <<"condition=", "0">>, <<"patterns=", "00:11">> >>)
  @@ ("rules.cut" :> << <<"delay=", "10">>, <<"condition=", "1">> >>)
  @@ ("rules.delay" :> << <<"delay=", "x">> >>)
  @@ ("rules.cond" :> << <<"delay=", "10">>, <<"patterns=", "00:11">> >>)
  @@ ("rules.note" :> << <<"#">>, <<"delay=", "10">> >>)
  @@ ("rules.pat" :> << <<"delay=", "10">>, <<"condition=", "1">>,
                        <<"patterns=", "00:11", "x+00:11">> >>)
  @@ ("peers" :> << <<"#">>, <<AMac, "bw=80", "cf=5180", "cf1=5210", "retries=3", "asap",
                               "ap-tsf">>,
                    <<AMac, "bw=20", "cf=2412", "preamble=ht", "lci", "civic">>,
                    <<AMac, "bw=160", "cf=5180", "tb">> >>)
  @@ ("peers.blank" :> << <<AMac, "bw=20", "cf=2412">>, <<"">> >>)
  @@ ("peers.num" :> << <<AMac, "bw=20", "cf=x">> >>)
  @@ ("peers.word" :> << <<AMac, "bw=20", "wide">> >>)
  @@ ("peers.bw" :> << <<AMac, "cf=2412">> >>)

\* What a line puts, under its attribute.
Good(entries) == [ok |-> TRUE, put |-> entries]
Bad == [ok |-> FALSE, put |-> <<>>]
Field(line, k) == IF k <= Len(line) THEN line[k] ELSE Null

-----------------------------------------------------------------------------
\* wowlan_parse_tcp_file()
TcpLine(line) ==
  LET f(k) == Field(line, k)
      Number(k) == atoi(f(k))
      hex == parse_hex_mask(f(Len(line)), f(1) = "wake=")
      Start == IF Len(line) < 4 THEN "0" ELSE Number(4)
  IN  CASE f(1) = "source=" ->
             IF f(2) \notin Addresses THEN Bad
             ELSE Good(<<<<"SRC_IPV4", f(2)>>>>
                       \o (IF Len(line) > 2 THEN <<<<"SRC_PORT", Number(3)>>>> ELSE <<>>))
        [] f(1) = "dest=" ->
             IF Len(line) < 4 \/ f(2) \notin Addresses \/ ~mac_addr_a2n(f(4)) THEN Bad
             ELSE Good(<<<<"DST_IPV4", f(2)>>, <<"DST_PORT", Number(3)>>,
                         <<"DST_MAC", f(4)>>>>)
        [] f(1) = "data=" ->
             IF ~hex.ok THEN Bad ELSE Good(<<<<"DATA_PAYLOAD">> \o hex.val>>)
        [] f(1) = "data.interval=" -> Good(<<<<"DATA_INTERVAL", Number(2)>>>>)
        [] f(1) = "wake=" ->
             IF ~hex.ok THEN Bad
             ELSE Good(<<<<"WAKE_MASK">> \o hex.mask, <<"WAKE_PAYLOAD">> \o hex.val>>)
        [] f(1) = "data.seq=" ->
             IF Len(line) < 3 THEN Bad
             ELSE Good(<<<<"DATA_PAYLOAD_SEQ", Number(2), Number(3), Start>>>>)
        [] f(1) = "data.tok=" ->
             IF Len(line) < 4 \/ ~hex.ok THEN Bad
             ELSE Good(<<<<"DATA_PAYLOAD_TOKEN", Number(2), Number(3)>> \o hex.val>>)
        [] f(1) = "#" -> Good(<<>>)
        [] OTHER -> Bad

Triggers == <<"WOWLAN_TRIGGERS">>
wowlan_parse_tcp_file(p, file) ==
  LET at == Triggers \o <<"TCP_CONNECTION">>
      lines == Files[file]
      Under(es) == [i \in DOMAIN es |-> at \o es[i]]
      put[n \in 0..Len(lines)] ==
        IF n = 0 THEN <<>> ELSE put[n - 1] \o Under(TcpLine(lines[n]).put)
  IN  IF file \notin DOMAIN Files \/ \E n \in DOMAIN lines : ~TcpLine(lines[n]).ok
      THEN Return(p, "1")
      ELSE PutAll(p, <<at>> \o put[Len(lines)])

\* "[offset+]bytes"
PatternOf == ("5+00:11" :> <<"5", "00:11">>) @@ ("x+00:11" :> <<"x", "00:11">>)
OffsetBytes(t) == IF t \in DOMAIN PatternOf THEN PatternOf[t] ELSE <<"0", t>>
PatternAt(offset, hex) ==
  IF ~IsNumber(offset) \/ ~hex.ok THEN Bad
  ELSE Good(<<<<"MASK">> \o hex.mask, <<"PATTERN">> \o hex.val, <<"OFFSET", offset>>>>)
Pattern(t) == PatternAt(OffsetBytes(t)[1], parse_hex_mask(OffsetBytes(t)[2], TRUE))

TriggerOf ==
  ("any" :> "ANY") @@ ("disconnect" :> "DISCONNECT") @@ ("magic-packet" :> "MAGIC_PKT")
  @@ ("gtk-rekey-failure" :> "GTK_REKEY_FAILURE")
  @@ ("eap-identity-request" :> "EAP_IDENT_REQUEST")
  @@ ("4way-handshake" :> "4WAY_HANDSHAKE") @@ ("rfkill-release" :> "RFKILL_RELEASE")

WowlanArg(p) ==
  LET w == Arg(p)
  IN  CASE w \in DOMAIN TriggerOf -> Shift(Put(p, Triggers \o <<TriggerOf[w]>>), 1)
        [] w = "tcp" -> IF Left(p) < 2 THEN Return(p, "1")
                        ELSE Shift(wowlan_parse_tcp_file(p, Peek(p, 1)), 2)
        [] w = "patterns" ->
             Shift([p EXCEPT !.loc = [st |-> "PAT", patterns |-> <<>>]], 1)
        [] w = "net-detect" ->
             IF Left(p) < 2 THEN Return(p, "1")
             ELSE SchedStart(Shift(Put(p, Triggers \o <<"NET_DETECT">>), 1))
        [] OTHER -> Return(p, "1")

OnePattern(p, r, n) ==
  IF ~r.ok THEN Return(p, "1")
  ELSE Shift([p EXCEPT !.loc.patterns =
                Append(@, [i \in DOMAIN r.put |-> <<n>> \o r.put[i]])], 1)
WowlanPattern(p) == OnePattern(p, Pattern(Arg(p)), ToString(Len(p.loc.patterns) + 1))

WowlanEnd(p) ==
  LET at == Triggers \o <<"PKT_PATTERN">>
      pats == p.loc.patterns
      flat[n \in 0..Len(pats)] ==
        IF n = 0 THEN <<>> ELSE flat[n - 1] \o [i \in DOMAIN pats[n] |-> at \o pats[n][i]]
  IN  IF p.loc.st = "PAT" THEN Return(PutAll(p, <<at>> \o flat[Len(pats)]), "0")
      ELSE Return(p, "0")

\* wowlan_parse_net_detect() runs the other automaton to where it stops.
handle_wowlan_enable(at, p) ==
  CASE at = 1 -> Put(p, Triggers)
    [] at > 1 /\ p.loc.st \in {"TOPLEVEL", "MATCH", "FREQS", "ACTIVE", "PLANS"} ->
         Again(parse_sched_scan(p, Triggers \o <<"NET_DETECT">>))
    [] at > 1 /\ p.loc.st \in {"start", "DONE", "NOT_OURS"} /\ Left(p) > 0 ->
         Again(WowlanArg([p EXCEPT !.loc = [st |-> "start"]]))
    [] at > 1 /\ p.loc.st = "PAT" /\ Left(p) > 0 -> Again(WowlanPattern(p))
    [] OTHER -> WowlanEnd(p)

-----------------------------------------------------------------------------
\* handle_coalesce_enable(): rules of three lines each.
RuleAt(p, k) == <<"COALESCE_RULE", ToString(k)>>

Numbered(pats, base) ==
  LET Of(i) == [j \in DOMAIN pats[i].put |->
                  <<"PKT_PATTERN", ToString(base + i)>> \o pats[i].put[j]]
      flat[n \in 0..Len(pats)] == IF n = 0 THEN <<>> ELSE flat[n - 1] \o Of(n)
  IN  IF \E i \in DOMAIN pats : ~pats[i].ok THEN Bad ELSE Good(flat[Len(pats)])
CoalescePatterns(line, base) ==
  Numbered([i \in 1..(Len(line) - 1) |-> Pattern(line[i + 1])], base)

\* One line, in the state loc.st, and what it puts under its rule.
InRule(p, st, rule, es, k) ==
  [PutAll(p, [i \in DOMAIN es |-> RuleAt(p, rule) \o es[i]]) EXCEPT
     !.loc.st = st, !.loc.n = @ + 1, !.loc.rule = rule, !.loc.pats = @ + k]
PatternLine(p, line, pats) ==
  IF ~pats.ok THEN Return(p, "1")
  ELSE InRule(p, "DELAY", p.loc.rule, <<<<"PKT_PATTERN">>>> \o pats.put, Len(line) - 1)
OneLine(p, l, line) ==
  CASE l.st = "DELAY" /\ line[1] = "delay=" /\ IsNumber(Field(line, 2)) ->
         InRule(p, "CONDITION", l.rule + 1, <<<<>>, <<"DELAY", line[2]>>>>, 0)
    [] l.st = "CONDITION" /\ line[1] = "condition=" /\ IsNumber(Field(line, 2)) ->
         InRule(p, "PATTERNS", l.rule, <<<<"CONDITION", line[2]>>>>, 0)
    [] l.st = "PATTERNS" /\ line[1] = "patterns=" ->
         PatternLine(p, line, CoalescePatterns(line, l.pats))
    [] OTHER -> Return(p, "1")
CoalesceLine(p) == OneLine(p, p.loc, p.loc.lines[p.loc.n + 1])

handle_coalesce_enable(at, p) ==
  CASE at = 1 -> IF Left(p) = 0 THEN Return(p, "undefined")
                 ELSE IF Arg(p) \notin DOMAIN Files THEN Return(p, "1")
                 ELSE Shift([Put(p, <<"COALESCE_RULE">>) EXCEPT
                               !.loc = [st |-> "DELAY", lines |-> Files[Arg(p)], n |-> 0,
                                        rule |-> 0, pats |-> 0]], 1)
    [] at > 1 /\ p.loc.n < Len(p.loc.lines) -> Again(CoalesceLine(p))
    [] OTHER -> Return(p, IF p.loc.st = "DELAY" THEN "0" ELSE "1")

-----------------------------------------------------------------------------
\* parse_ftm_target(): the fields of a line, "name=value" or a word.
FtmField ==
  ("bw=20" :> <<"bw", "20">>) @@ ("bw=80" :> <<"bw", "80">>) @@ ("bw=160" :> <<"bw", "160">>)
  @@ ("cf=2412" :> <<"cf", "2412">>) @@ ("cf=5180" :> <<"cf", "5180">>)
  @@ ("cf=x" :> <<"cf", "x">>) @@ ("cf1=5210" :> <<"cf1", "5210">>)
  @@ ("retries=3" :> <<"retries", "3">>) @@ ("preamble=ht" :> <<"preamble", "ht">>)
FtmNumbers == ("retries" :> "NUM_FTMR_RETRIES") @@ ("bursts_exp" :> "NUM_BURSTS_EXP")
FtmFlags == ("asap" :> "ASAP") @@ ("civic" :> "REQUEST_CIVICLOC") @@ ("lci" :> "REQUEST_LCI")
put_preamble == ("legacy" :> "LEGACY") @@ ("ht" :> "HT") @@ ("vht" :> "VHT") @@ ("dmg" :> "DMG")
FtmChannel == ("cf" :> "WIPHY_FREQ") @@ ("cf1" :> "CENTER_FREQ1") @@ ("cf2" :> "CENTER_FREQ2")

FtmWord(t) ==
  LET named == t \in DOMAIN FtmField
      name  == IF named THEN FtmField[t][1] ELSE t
      value == IF named THEN FtmField[t][2] ELSE ""
  IN  CASE name \in DOMAIN FtmChannel -> IF IsNumber(value) THEN Good(<<>>) ELSE Bad
        [] name \in {"bw", "ap-tsf"} -> Good(<<>>)
        [] name \in DOMAIN FtmNumbers ->
             IF IsNumber(value) THEN Good(<<<<FtmNumbers[name], value>>>>) ELSE Bad
        [] name \in DOMAIN FtmFlags -> Good(<<<<FtmFlags[name]>>>>)
        [] name = "preamble" -> IF value \in DOMAIN put_preamble
                                THEN Good(<<<<"PREAMBLE", put_preamble[value]>>>>) ELSE Bad
        [] name = "tb" -> Good(<<<<"TRIGGER_BASED">>, <<"PREAMBLE", "HE">>>>)
        [] name = "non_tb" -> Good(<<<<"NON_TRIGGER_BASED">>, <<"PREAMBLE", "HE">>>>)
        [] OTHER -> Bad

\* The preamble that goes with a width, if none is given.
PreambleOf(w) == CASE w \in {"20_NOHT", "5", "10"} -> "LEGACY"
                   [] w \in {"20", "40"} -> "HT"
                   [] OTHER -> "VHT"

parse_ftm_target(line) ==
  LET words == Tail(line)
      Given(name) == {i \in DOMAIN words : /\ words[i] \in DOMAIN FtmField
                                           /\ FtmField[words[i]][1] = name}
      ValueOf(name) == FtmField[words[CHOOSE i \in Given(name) :
                                        \A j \in Given(name) : j <= i]][2]
      put[n \in 0..Len(words)] ==
        IF n = 0 THEN <<>> ELSE put[n - 1] \o FtmWord(words[n]).put
      ftm == put[Len(words)]
      preamble == \E i \in DOMAIN ftm : ftm[i][1] = "PREAMBLE"
      Under(at, es) == [i \in DOMAIN es |-> at \o es[i]]
      Chan(name) == IF Given(name) = {} THEN <<>>
                    ELSE <<<<"CHAN", FtmChannel[name], ValueOf(name)>>>>
  IN  IF ~mac_addr_a2n(line[1]) \/ \E i \in DOMAIN words : ~FtmWord(words[i]).ok
      THEN [ret |-> "1", put |-> <<>>]
      ELSE IF ~preamble /\ Given("bw") = {} THEN [ret |-> "undefined", put |-> <<>>]
      ELSE [ret |-> "go",
            put |-> <<<<"ADDR", line[1]>>>>
                    \o Under(<<"FTM">>, ftm)
                    \o (IF preamble THEN <<>>
                        ELSE <<<<"FTM", "PREAMBLE", PreambleOf(str_to_bw(ValueOf("bw")))>>>>)
                    \o (IF \E i \in DOMAIN words : words[i] = "ap-tsf"
                        THEN <<<<"GET_AP_TSF">>>> ELSE <<>>)
                    \o Chan("cf") \o Chan("cf1") \o Chan("cf2")
                    \o (IF Given("bw") = {} THEN <<>>
                        ELSE <<<<"CHAN", "CHANNEL_WIDTH", str_to_bw(ValueOf("bw"))>>>>)]

\* parse_ftm_config(), a line at a time.
FtmPeer(p, n, r) ==
  IF r.ret # "go" THEN Return(p, r.ret)
  ELSE PutAll(p, [i \in DOMAIN r.put |-> <<"PEERS", ToString(n)>> \o r.put[i]])
FtmLine(p, n, line) ==
  IF line[1] = "#" THEN p ELSE FtmPeer(p, n, parse_ftm_target(line))
parse_ftm_config(p) ==
  FtmLine([p EXCEPT !.loc.n = @ + 1], p.loc.n + 1, p.loc.lines[p.loc.n + 1])

TimeoutOf == ("timeout=5" :> "5") @@ ("timeout=x" :> "x")
FtmOption(p) ==
  LET w == Arg(p)
  IN  CASE w \in DOMAIN Randomise -> parse_random_mac_addr(Shift(p, 1), Randomise[w])
        [] w \in DOMAIN TimeoutOf ->
             IF IsNumber(TimeoutOf[w]) THEN Shift(Put(p, <<"TIMEOUT", TimeoutOf[w]>>), 1)
             ELSE Return(p, "1")
        [] OTHER -> Return(p, "1")

FtmOpen(p) ==
  IF p.loc.file \notin DOMAIN Files THEN Return(p, "ENOENT")
  ELSE [Put(p, <<"PEERS">>) EXCEPT
          !.loc = [st |-> "lines", lines |-> Files[p.loc.file], n |-> 0]]

handle_ftm_req_send(at, p) ==
  CASE at = 1 -> IF Left(p) = 0 THEN Return(p, "1")
                 ELSE Shift([p EXCEPT !.loc = [st |-> "options", file |-> Arg(p)]], 1)
    [] at > 1 /\ p.loc.st = "options" ->
         IF Left(p) > 0 THEN Again(FtmOption(p)) ELSE Again(FtmOpen(p))
    [] at > 1 /\ p.loc.st = "lines" /\ p.loc.n < Len(p.loc.lines) ->
         Again(parse_ftm_config(p))
    [] OTHER -> Return(p, "0")
=============================================================================
