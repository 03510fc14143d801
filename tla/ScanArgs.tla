------------------------------ MODULE ScanArgs ------------------------------
(***************************************************************************)
(* The arguments of scan trigger, of scan sched_start and of the network   *)
(* detection of wowlan enable: two automata over the arguments (scan.c).   *)
(* loc is the automaton's state: what it expects next, the options it has  *)
(* met and the lists it has built; the attributes in these lists are told  *)
(* apart by their values, not by the numbers that serve as their types.    *)
(***************************************************************************)
EXTENDS ArgStream

FlagNames == <<"LOW_PRIORITY", "FLUSH", "AP", "RANDOM_ADDR", "COLOCATED_6GHZ">>
\* One attribute, whose bits stand here one by one.
FlagsAttr(flags) ==
  LET set == SelectSeq(FlagNames, LAMBDA f : f \in flags)
  IN  [i \in DOMAIN set |-> <<"SCAN_FLAGS", set[i]>>]
List(attr, values) == <<<<attr>>>> \o [i \in DOMAIN values |-> <<attr, values[i]>>]

\* What both automata keep.
Scanner == [st |-> "NONE", have |-> {}, flags |-> {}, ssids |-> <<>>, freqs |-> <<>>,
            matches |-> <<>>, plans |-> <<>>, i |-> 0, ies |-> <<>>, meshid |-> <<>>,
            duration |-> "0", err |-> "ENOBUFS"]
Go(p, st) == [p EXCEPT !.loc.st = st]
Met(p, option) == [p EXCEPT !.loc.have = @ \cup {option}]
Flagged(p, f) == [p EXCEPT !.loc.flags = @ \cup {f}]
Add(p, list) == Shift([p EXCEPT !.loc[list] = Append(@, Arg(p)), !.loc.i = @ + 1], 1)

-----------------------------------------------------------------------------
\* handle_scan()
ScanFlagOf == ("lowpri" :> "LOW_PRIORITY") @@ ("flush" :> "FLUSH")
              @@ ("ap-force" :> "AP") @@ ("coloc" :> "COLOCATED_6GHZ")

ScanOption(p) ==
  LET w == Arg(p)
      q == Shift(p, 1)
      r == parse_random_mac_addr(q, Randomise[w])
  IN  CASE w = "freq"     -> Go(Met(q, "freqs"), "FREQ")
        [] w = "ssid"     -> Go(Met(q, "ssids"), "SSID")
        [] w = "passive"  -> Go(Met(q, "passive"), "DONE")
        [] w = "ies"      -> Go(q, "IES")
        [] w = "meshid"   -> Go(q, "MESHID")
        [] w = "duration" -> Go(q, "DURATION")
        [] w = "duration-mandatory"   -> Met(q, w)
        [] w \in DOMAIN ScanFlagOf -> Flagged(q, ScanFlagOf[w])
        [] w \in DOMAIN Randomise  ->
             IF r.ret # "go" THEN r
             ELSE [Flagged(r, "RANDOM_ADDR") EXCEPT !.loc.err = "0"]
        [] OTHER -> Return(q, "1")

\* The next argument, in the state loc.st.
ScanArg(p) ==
  LET s == p.loc.st
      w == Arg(p)
  IN  CASE s = "NONE" -> ScanOption(p)
        [] s = "DONE" -> Return(p, "1")
        [] s = "SSID" -> Add(p, "ssids")
        [] s = "FREQ" -> IF IsNumber(w) THEN Add(p, "freqs") ELSE Go(p, "NONE")
        [] s = "IES"  ->
             IF ~parse_hex(w).ok THEN Return(p, p.loc.err)
             ELSE Go(Shift([p EXCEPT !.loc.ies = parse_hex(w).val], 1), "NONE")
        [] s = "MESHID" ->
             Go(Shift([p EXCEPT !.loc.meshid = <<"114", w>>], 1), "NONE")
        [] s = "DURATION" ->
             Go(Shift([p EXCEPT !.loc.duration = atoi(w)], 1), "NONE")

ScanEnd(p) ==
  LET l     == p.loc
      flags == l.flags \cup (IF "freqs" \in l.have THEN {} ELSE {"COLOCATED_6GHZ"})
      ie    == l.ies \o l.meshid
      ssids == IF "ssids" \in l.have THEN l.ssids ELSE <<"">>
      q     == PutAll(p,
                 (IF ie # <<>> THEN <<<<"IE">> \o ie>> ELSE <<>>)
                 \o (IF "passive" \in l.have THEN <<>> ELSE List("SCAN_SSIDS", ssids))
                 \o (IF "freqs" \in l.have THEN List("SCAN_FREQUENCIES", l.freqs) ELSE <<>>)
                 \o FlagsAttr(flags)
                 \o (IF l.duration # "0" THEN <<<<"MEASUREMENT_DURATION", l.duration>>>>
                     ELSE <<>>))
  IN  CASE "duration-mandatory" \notin l.have -> Return(q, "0")
        [] "duration-mandatory" \in l.have /\ l.duration # "0" ->
             Return(Put(q, <<"MEASUREMENT_DURATION_MANDATORY">>), "0")
        [] OTHER -> Return(q, "EINVAL")

handle_scan(at, p) ==
  CASE at = 1 -> [p EXCEPT !.loc = Scanner]
    [] OTHER  -> IF Left(p) > 0 THEN Again(ScanArg(p)) ELSE ScanEnd(p)

-----------------------------------------------------------------------------
\* parse_sched_scan().  An argument that it does not know is left for the
\* caller; what has been collected in the lists is then not put.
SchedStart(p) == [p EXCEPT !.loc = [Scanner EXCEPT !.st = "TOPLEVEL"]]
Unless(p, options, q) ==
  IF p.loc.have \cap options # {} THEN Return(p, "EINVAL") ELSE q
Enter(p, st, option) ==
  [Shift(Go(Met(p, option), st), 1) EXCEPT !.loc.i = 0]
\* Only the beginning of these words is compared; x is for all that may follow.
SchedFlagOf == ("coloc" :> "COLOCATED_6GHZ") @@ ("colocx" :> "COLOCATED_6GHZ")
               @@ ("flush" :> "FLUSH") @@ ("flushx" :> "FLUSH")

SchedNumber(p, option, attr, least) ==
  LET v == Peek(p, 1)
      q == Shift(PutAll(p, <<attr \o <<v>>>>), 2)
  IN  IF Left(p) < 2 \/ ~IsNumber(v) \/ (least /\ v = "0") THEN Return(p, "EINVAL")
      ELSE IF v = "0" THEN q ELSE Met(q, option)

SchedOption(p, at) ==
  LET w == Arg(p)
      r == parse_random_mac_addr(Shift(p, 1), Randomise[w])
  IN  CASE w = "interval" ->
             Unless(p, {"interval", "scan_plans"},
                    SchedNumber(p, w, at \o <<"SCHED_SCAN_INTERVAL">>, TRUE))
        [] w = "delay" ->
             Unless(p, {"delay"}, SchedNumber(p, w, at \o <<"SCHED_SCAN_DELAY">>, FALSE))
        [] w = "scan_plans" ->
             Unless(p, {"interval", w}, Enter(p, "PLANS", w))
        [] w = "matches" -> Unless(p, {"matchset"}, Enter(p, "MATCH", w))
        [] w = "freqs"   -> Unless(p, {w}, Enter(p, "FREQS", w))
        [] w = "active"  -> Unless(p, {w, "passive"}, Enter(p, "ACTIVE", w))
        [] w = "passive" -> Unless(p, {w, "active"}, Shift(Met(p, w), 1))
        [] w \in DOMAIN SchedFlagOf -> Shift(Flagged(p, SchedFlagOf[w]), 1)
        [] w \in DOMAIN Randomise   ->
             IF r.ret # "go" THEN r ELSE Flagged(r, "RANDOM_ADDR")
        [] OTHER -> Go(p, "NOT_OURS")

\* Another argument ends a list, which must not be empty.
SchedListEnd(p) == IF p.loc.i = 0 THEN Return(p, "EINVAL") ELSE Go(p, "TOPLEVEL")
SchedSsid(p, list, have) ==
  IF Left(p) < 2 THEN Return(p, "EINVAL") ELSE Met(Add(Shift(p, 1), list), have)

\* "interval:iterations", and last an interval alone.
PlanOf == ("10:3" :> <<"10", "3">>) @@ ("20" :> <<"20">>) @@ ("10" :> <<"10">>)
SchedPlan(p) ==
  IF Arg(p) \notin DOMAIN PlanOf THEN Return(p, "EINVAL")
  ELSE LET q == Add(p, "plans")
       IN  IF Len(PlanOf[Arg(p)]) = 1 THEN Go(q, "TOPLEVEL") ELSE q

SchedArg(p, at) ==
  LET s == p.loc.st
  IN  CASE s = "TOPLEVEL" -> SchedOption(p, at)
        [] s = "MATCH"  -> IF Arg(p) = "ssid" THEN SchedSsid(p, "matches", "matchset")
                           ELSE SchedListEnd(p)
        [] s = "ACTIVE" -> IF Arg(p) = "ssid" THEN SchedSsid(p, "ssids", "ssids")
                           ELSE SchedListEnd(p)
        [] s = "FREQS"  -> IF IsNumber(Arg(p)) THEN Add(p, "freqs") ELSE SchedListEnd(p)
        [] s = "PLANS"  -> SchedPlan(p)

SchedEnd(p, at) ==
  LET l == p.loc
      plans == [i \in DOMAIN l.plans |-> <<"SCHED_SCAN_PLANS">> \o PlanOf[l.plans[i]]]
      If(option, entries) == IF option \in l.have THEN entries ELSE <<>>
      all == (IF "passive" \in l.have THEN <<>>
              ELSE List("SCAN_SSIDS", IF "ssids" \in l.have THEN l.ssids ELSE <<"">>))
             \o If("freqs", List("SCAN_FREQUENCIES", l.freqs))
             \o If("matchset", List("SCHED_SCAN_MATCH", l.matches))
             \o If("scan_plans", <<<<"SCHED_SCAN_PLANS">>>> \o plans)
             \o FlagsAttr(l.flags)
  IN  Go(PutAll(p, [i \in DOMAIN all |-> at \o all[i]]), "DONE")

\* One pass of the loop, and what follows it.
parse_sched_scan(p, at) == IF Left(p) > 0 THEN SchedArg(p, at) ELSE SchedEnd(p, at)

\* handle_start_sched_scan(): what is left over does not matter.
handle_start_sched_scan(at, p) ==
  CASE at = 1 -> SchedStart(p)
    [] OTHER  -> LET q == parse_sched_scan(p, <<>>)
                 IN  IF q.loc.st \in {"DONE", "NOT_OURS"} THEN Return(q, "0") ELSE Again(q)
=============================================================================
