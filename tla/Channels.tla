------------------------------ MODULE Channels ------------------------------
(***************************************************************************)
(* Channels and frequencies (util.c): the conversions between the two, and *)
(* the channel definitions that commands take as arguments.                *)
(***************************************************************************)
EXTENDS Integers, Sequences, FiniteSets, TLC

\* The numbers that occur in arguments, and their text.
NumVals == {0, 1, 2, 3, 5, 10, 20, 36, 40, 80, 100, 160, 255, 256, 2412, 2437,
            5180, 5210, 5220, 5240, 5500, 5570, 5600, 5745, 5775, 5955, 6015, 6915, 6995}
Numbers == {ToString(n) : n \in NumVals}
Num(t) == CHOOSE n \in NumVals : ToString(n) = t
\* strtoul() that consumes the whole argument.
IsNumber(t) == t \in Numbers

-----------------------------------------------------------------------------
Bands == {"2GHZ", "5GHZ", "6GHZ", "60GHZ", "S1GHZ"}

ieee80211_channel_to_frequency(chan, band) ==
  CASE chan <= 0 -> 0
    [] chan > 0 /\ band = "2GHZ" -> IF chan = 14 THEN 2484
                                    ELSE IF chan < 14 THEN 2407 + chan * 5 ELSE 0
    [] chan > 0 /\ band = "5GHZ" -> chan * 5 + (IF chan \in 182..196 THEN 4000
                                                ELSE 5000)
    [] chan > 0 /\ band = "6GHZ" -> IF chan = 2 THEN 5935
                                    ELSE IF chan <= 253 THEN 5950 + chan * 5 ELSE 0
    [] chan > 0 /\ band = "60GHZ" -> IF chan < 7 THEN 56160 + chan * 2160 ELSE 0
    [] OTHER -> 0

\* C divides towards zero.
Quotient(a, b) == IF a >= 0 THEN a \div b ELSE -((-a) \div b)

ieee80211_frequency_to_channel(freq) ==
  CASE freq = 2484 -> 14
    [] freq = 5935 -> 2
    [] freq < 2484 -> Quotient(freq - 2407, 5)
    [] freq \in 4910..4980 -> (freq - 4000) \div 5
    [] freq \in 2485..5949 /\ freq \notin 4910..4980 /\ freq # 5935 ->
         Quotient(freq - 5000, 5)
    [] freq \in 5950..45000 -> (freq - 5950) \div 5
    [] freq \in 58320..70200 -> (freq - 56160) \div 2160
    [] OTHER -> 0

\* The channels of each band that have a frequency: the way back finds them.
ChannelsComeBack ==
  \A band \in Bands, chan \in 1..253 :
    (band = "5GHZ" => chan <= 196) =>
      LET freq == ieee80211_channel_to_frequency(chan, band)
      IN  freq = 0 \/ ieee80211_frequency_to_channel(freq) = chan
ASSUME ChannelsAssumption == ChannelsComeBack

-----------------------------------------------------------------------------
bwmap == ("5" :> "5") @@ ("10" :> "10") @@ ("20" :> "20") @@ ("40" :> "40")
         @@ ("80" :> "80") @@ ("80+80" :> "80P80") @@ ("160" :> "160")
str_to_bw(t) == IF t \in DOMAIN bwmap THEN bwmap[t] ELSE "20_NOHT"

\* How many centre frequencies follow a width.
CentresOf(w) == CASE w = "80P80" -> 2
                  [] w \in {"40", "80", "160"} -> 1
                  [] OTHER -> 0

\* parse_freqs() on the arguments a: what chandef becomes, how many arguments
\* were used, and the return value.
Centres(def, a, good) ==
  [def EXCEPT !.center_freq1 = IF 1 \in good THEN Num(a[2]) ELSE @,
              !.center_freq2 = IF 2 \in good THEN Num(a[3]) ELSE @]
WithWidth(def, a, w, n) ==
  LET good == {k \in 1..n : k < Len(a) /\ \A j \in 1..k : IsNumber(a[j + 1])}
  IN  [def |-> Centres([def EXCEPT !.width = w], a, good),
       used |-> IF w = "20_NOHT" THEN 0 ELSE 1 + Cardinality(good),
       err |-> IF Cardinality(good) < n THEN "1" ELSE "0"]
parse_freqs(def, a) ==
  IF a = <<>> THEN [def |-> def, used |-> 0, err |-> "0"]
  ELSE WithWidth(def, a, str_to_bw(a[1]), CentresOf(str_to_bw(a[1])))

chanmode ==
  ("HT20" :> [width |-> "20", freq1_diff |-> 0])
  @@ ("HT40+" :> [width |-> "40", freq1_diff |-> 10])
  @@ ("HT40-" :> [width |-> "40", freq1_diff |-> -10])
  @@ ("NOHT" :> [width |-> "20_NOHT", freq1_diff |-> 0])
  @@ ("5MHz" :> [width |-> "5", freq1_diff |-> 0])
  @@ ("10MHz" :> [width |-> "10", freq1_diff |-> 0])
  @@ ("80MHz" :> [width |-> "80", freq1_diff |-> 0])
  @@ ("160MHz" :> [width |-> "160", freq1_diff |-> 0])

bw80 == {5180, 5260, 5500, 5580, 5660, 5745, 5955, 6035, 6115, 6195, 6275,
         6355, 6435, 6515, 6595, 6675, 6755, 6835, 6195, 6995}
vht160 == {5180, 5500}

Middle(freq, bands, bw, off) ==
  IF \E b \in bands : freq \in b..(b + bw - 1)
  THEN (CHOOSE b \in bands : freq \in b..(b + bw - 1)) + off ELSE freq
get_cf1(mode, freq) ==
  CASE mode.width = "80"  -> Middle(freq, bw80, 80, 30)
    [] mode.width = "160" -> Middle(freq, vht160, 160, 70)
    [] OTHER -> freq + mode.freq1_diff

\* parse_freqchan() on the arguments a, the first of which is there: chandef,
\* how many arguments were used, and the return value.  Called with a null
\* pointer for parsed (exact), it refuses arguments that are left.
IsNum(a, k) == k <= Len(a) /\ IsNumber(a[k])

ChanFreq(chan, n) ==
  IF chan THEN ieee80211_channel_to_frequency(n, IF n <= 14 THEN "2GHZ" ELSE "5GHZ") ELSE n
WithMode(def, mode) ==
  [def EXCEPT !.center_freq1 = get_cf1(mode, def.control_freq), !.width = mode.width]
Definition(freq) ==
  [control_freq |-> freq, width |-> "20_NOHT", center_freq1 |-> freq, center_freq2 |-> 0]
OneMore(res) == [res EXCEPT !.used = 1 + @]
Chosen(chan, def, a) ==
  IF Len(a) > 1 /\ a[2] \in DOMAIN chanmode
  THEN [def |-> WithMode(def, chanmode[a[2]]), used |-> 2, err |-> "0"]
  ELSE IF chan THEN [def |-> def, used |-> 1, err |-> "0"]
  ELSE OneMore(parse_freqs(def, Tail(a)))
\* With a null pointer, what is left counts against the definition.
AllUsed(res, exact, n) == IF exact /\ res.used # n THEN [res EXCEPT !.err = "1"] ELSE res

parse_freqchan(chan, a, exact) ==
  IF ~IsNum(a, 1) THEN [def |-> <<>>, used |-> 0, err |-> "1"]
  ELSE AllUsed(Chosen(chan, Definition(ChanFreq(chan, Num(a[1]))), a), exact, Len(a))

\* The attributes that put_chandef() puts.
put_chandef(def) ==
  LET type == CASE def.width = "20_NOHT" -> <<<<"CHANNEL_TYPE", "NO_HT">>>>
                [] def.width = "20" -> <<<<"CHANNEL_TYPE", "HT20">>>>
                [] def.width = "40" ->
                     <<<<"CHANNEL_TYPE", IF def.control_freq > def.center_freq1
                                         THEN "HT40MINUS" ELSE "HT40PLUS">>>>
                [] OTHER -> <<>>
      Centre(attr, f) == IF f # 0 THEN <<<<attr, ToString(f)>>>> ELSE <<>>
  IN  <<<<"WIPHY_FREQ", ToString(def.control_freq)>>,
        <<"CHANNEL_WIDTH", def.width>>>>
        \o type
        \o Centre("CENTER_FREQ1", def.center_freq1)
        \o Centre("CENTER_FREQ2", def.center_freq2)
=============================================================================
