----------------------------- MODULE IePrinters -----------------------------
(***************************************************************************)
(* The printers of information elements of scan.c and util.c, as far as    *)
(* they read: which bytes behind the pointer they are given, and how the   *)
(* ones with a loop move pointer and length on.  What they print is left   *)
(* out.  A printer is handed what is left of an element:                   *)
(*   off   the pointer, as an offset into the element                      *)
(*   len   the length, a uint8_t                                           *)
(*   read  how far the element has been read in the last step              *)
(*   st    the place in the printer; "done" when it has returned           *)
(* and each of its steps gives the set of what may come next: the bytes    *)
(* that are read for a count or a length can be anything.                  *)
(***************************************************************************)
EXTENDS Integers, FiniteSets

CONSTANTS
  Counts,       \* the 16-bit counts and lengths that are tried
  Nibbles       \* the lengths of 4 bits

ASSUME CountsAssumption == \A n \in Counts : n \in Nat /\ n < 65536
ASSUME NibblesAssumption == Nibbles \subseteq 0..15

Later(a, b) == IF a < b THEN b ELSE a
-----------------------------------------------------------------------------
\* struct ie_print: the tables are sets of them, each with its index.
Printer(tag, f, least, most) == [tag |-> tag, print |-> f, minlen |-> least, maxlen |-> most]
Tags(table) == {p.tag : p \in table}
Of(table, tag) == CHOOSE p \in table : p.tag = tag

ieprinters ==
  {Printer(0, "ssid", 0, 32), Printer(1, "supprates", 0, 255), Printer(3, "ds", 1, 1),
   Printer(5, "tim", 4, 255), Printer(6, "ibssatim", 2, 2), Printer(7, "country", 3, 255),
   Printer(11, "bss_load", 5, 5), Printer(32, "powerconstraint", 1, 1),
   Printer(35, "tpcreport", 2, 2), Printer(42, "erp", 1, 255),
   Printer(45, "ht_capa", 26, 26), Printer(47, "erp", 1, 255),
   Printer(51, "ap_channel_report", 1, 255), Printer(59, "supp_op_classes", 1, 255),
   Printer(66, "measurement_pilot_tx", 1, 255), Printer(74, "obss_scan_params", 14, 255),
   Printer(61, "ht_op", 22, 22), Printer(62, "secchan_offs", 1, 1),
   Printer(191, "vht_capa", 12, 255), Printer(192, "vht_oper", 5, 255),
   Printer(48, "rsn", 2, 255), Printer(50, "supprates", 0, 255),
   Printer(70, "rm_enabled_capabilities", 5, 5), Printer(113, "mesh_conf", 7, 7),
   Printer(114, "ssid", 0, 32), Printer(127, "capabilities", 0, 255),
   Printer(107, "interworking", 0, 255), Printer(108, "11u_advert", 0, 255),
   Printer(111, "11u_rcon", 2, 255), Printer(195, "tx_power_envelope", 2, 5)}
\* Those with BIT(PRINT_LINK).
LinkTags == {0, 114}

wifiprinters ==
  {Printer(1, "wpa", 2, 255), Printer(2, "wmm", 1, 255), Printer(4, "wps", 0, 255)}
wfa_printers ==
  {Printer(9, "p2p", 2, 255), Printer(16, "hs20_ind", 1, 255),
   Printer(18, "osen", 1, 255), Printer(28, "owe_tarns", 7, 255)}
ext_printers == {Printer(35, "he_capa", 21, 54)}

-----------------------------------------------------------------------------
\* Printers without a loop: how far they read, for each outcome of the bytes
\* they look at.  Behind is further than any element goes; it stands for an
\* index behind the end of a table of names, too.
Behind == 256

\* print_ht_mcs() and print_vht_info() of util.c, from the pointer they get.
McsIndex == 76 \div 8 + 1
HtMcs == Later(McsIndex, 13)
VhtMcs == 8

Ds == 1
Tim == 4
BssLoad == 5
ObssScanParams == 14
HtOp == 6
MeshConf == 7
RmCapabilities == 5
HtCapa == 3 + HtMcs
VhtCapa == 4 + VhtMcs
VhtOper == 5
Fixed ==
  [ds |-> Ds, tim |-> Tim, ibssatim |-> 2, bss_load |-> BssLoad, powerconstraint |-> 1,
   tpcreport |-> 1, erp |-> 1, ht_capa |-> HtCapa, obss_scan_params |-> ObssScanParams,
   ht_op |-> HtOp, secchan_offs |-> 1, vht_capa |-> VhtCapa, vht_oper |-> VhtOper,
   rm_enabled_capabilities |-> RmCapabilities, mesh_conf |-> MeshConf, hs20_ind |-> 1]

\* print_capabilities(): every byte has eight flags.  Its walk over the other
\* elements, for the one of VHT, looks at tags and lengths only, and is left out.
Capabilities(len) == len

\* print_supprates(), print_ssid(), print_ap_channel_report().
Supprates(len) == len
Ssid(len) == len
ChannelReport(len) == Later(1, len)

\* print_interworking(): the venue group is there or not, so is the HESSID.
Interworking(len) == IF len \in {3, 7, 9} THEN len ELSE IF len >= 1 THEN 1 ELSE 0

\* print_tx_power_envelope(): a count of 0 to 7 is looked up among four names.
PowerNames == 4
TxPower(len) ==
  {1} \cup {IF count + 1 > PowerNames THEN Behind ELSE 2 + count :
              count \in {c \in 0..7 : c + 2 = len}}

\* print_wifi_wmm() and print_wifi_wmm_param().
WmmParam == 19
\* Mutant: one byte less is taken to be enough.
WmmShort(len) == {Later(1, len)} \cup (IF len >= WmmParam THEN {1 + WmmParam} ELSE {})
Wmm(len) == {Later(1, len)} \cup (IF len - 1 >= WmmParam THEN {1 + WmmParam} ELSE {})

\* print_11u_rcon(): three identifiers, the length of the third from the others.
Rcon(len) ==
  {LET ln2 == IF ln1 > 0 THEN len - 2 - ln0 - ln1 ELSE 0
       shown == {n \in {IF ln0 > 0 THEN 2 + ln0 ELSE 2,
                        IF ln1 > 0 THEN 2 + ln0 + ln1 ELSE 2,
                        IF ln2 > 0 THEN 2 + ln0 + ln1 + ln2 ELSE 2} : n <= len}
   IN  IF \E n \in shown : \A k \in shown : k <= n
       THEN CHOOSE n \in shown : \A k \in shown : k <= n ELSE 2 :
     ln0 \in Nibbles, ln1 \in Nibbles}

\* print_wifi_owe_tarns(): an SSID, and what may follow it.
Owe(len) ==
  IF len < 7 THEN {0}
  ELSE {7} \cup {IF len >= s + 9 THEN s + 9 ELSE 7 + s : s \in {k \in Counts : k <= len - 7}}

\* __print_he_capa(): three sets of MCS at fixed places, the next one read only
\* if something follows it, then thresholds up to the end.  bw: the widths that
\* the element says are supported.
HeFixed == 17
HeSets(bw, mcs_len) ==
  LET aborts == {i \in bw : 4 * i >= mcs_len}
      sets == {i \in bw : \A k \in aborts : i < k}
      used == 4 * Cardinality(sets)
  IN  [sets |-> sets, complete |-> aborts = {}, used |-> used]
HeRead(len, mcs_len) ==
  {LET h == HeSets(bw, mcs_len)
       top == IF h.sets = {} THEN HeFixed
              ELSE HeFixed + 4 * (CHOOSE i \in h.sets : \A k \in h.sets : k <= i)
   IN  IF h.complete /\ h.used < mcs_len THEN len ELSE top : bw \in SUBSET (1..3)}
HeCapability(len) == HeRead(len, len - HeFixed)

\* How far a printer without a loop reads.
Reads(f, len) ==
  CASE f \in DOMAIN Fixed -> {Fixed[f]}
    [] f = "ssid" -> {Ssid(len)}
    [] f = "supprates" -> {Supprates(len)}
    [] f = "capabilities" -> {Capabilities(len)}
    [] f = "ap_channel_report" -> {ChannelReport(len)}
    [] f = "interworking" -> {Interworking(len)}
    [] f = "tx_power_envelope" -> TxPower(len)
    [] f = "wmm" -> Wmm(len)
    [] f = "11u_rcon" -> Rcon(len)
    [] f = "owe_tarns" -> Owe(len)
    [] f = "he_capa" -> HeCapability(len)

-----------------------------------------------------------------------------
U8 == 256
\* data += n; len -= n.
Skip(w, n) == [w EXCEPT !.off = @ + n, !.len = (@ - n) % U8]
\* data[0] to data[n - 1] are read.
ReadTo(w, n) == [w EXCEPT !.read = Later(@, w.off + n)]
Take(w, n) == Skip(ReadTo(w, n), n)
At(w, st) == [w EXCEPT !.st = st]
Done(w) == {At(w, "done")}
\* The bytes that are left are printed as a bogus tail.
BogusTail(w) == Done(Take(w, w.len))

\* print_country().
Country(w) ==
  CASE w.st = "start" -> {At(Take(w, 3), "triplets")}
    [] w.st = "triplets" -> IF w.len >= 3 THEN {Take(w, 3)} ELSE Done(w)

\* print_cipher() and print_auth(): an OUI and a type.
CipherSuite == 4
AkmSuite == 4

\* _print_rsn_ie(): a list of suites with its count before it.
Suites(w, size, next) ==
  IF w.len < 2 THEN Done(w)
  ELSE BogusTail(ReadTo(w, 2))
       \cup {At(Take(w, 2 + size * count), next) :
               count \in {c \in Counts : 2 + size * c <= w.len}}
\* Mutant: the length stays behind the pointer.
PmkidsKeepLen(w) ==
  IF w.len < 2 THEN {At(w, "mgmt")}
  ELSE BogusTail(ReadTo(w, 2))
       \cup {[At(Skip(ReadTo(w, 2), 2 + 16 * count), "mgmt") EXCEPT !.len = w.len - 2] :
               count \in {c \in Counts : 2 + 16 * c <= w.len}}
Pmkids(w) ==
  IF w.len < 2 THEN {At(w, "mgmt")}
  ELSE BogusTail(ReadTo(w, 2))
       \cup {At(Skip(ReadTo(w, 2), 2 + 16 * count), "mgmt") :
               count \in {c \in Counts : 2 + 16 * c <= w.len}}
_print_rsn_ie(w, is_osen) ==
  CASE w.st = "start" -> {At(IF is_osen THEN w ELSE Take(w, 2), "group")}
    [] w.st = "group" -> IF w.len < 4 THEN Done(w)
                         ELSE {At(Take(w, CipherSuite), "pairwise")}
    [] w.st = "pairwise" -> Suites(w, CipherSuite, "auth")
    [] w.st = "auth" -> Suites(w, AkmSuite, "capa")
    [] w.st = "capa" -> {At(IF w.len >= 2 THEN Take(w, 2) ELSE w, "pmkid")}
    [] w.st = "pmkid" -> Pmkids(w)
    [] w.st = "mgmt" -> BogusTail(IF w.len >= 4 THEN Take(w, CipherSuite) ELSE w)

\* print_11u_advert(): pairs.
Advert(w) == IF w.len > 1 THEN {At(Take(w, 2), "pairs")} ELSE Done(w)

\* print_supp_op_classes(): classes, and behind a 130 extensions.
OpClasses(w) ==
  CASE w.st = "start" -> {At(Take(w, 1), "classes")}
    [] w.st = "classes" -> IF w.len = 0 THEN Done(w)
                           ELSE {Take(w, 1), At(Take(w, 1), "extensions")} \cup Done(Take(w, 1))
    [] w.st = "extensions" -> IF w.len = 0 THEN Done(w) ELSE {Take(w, 1)}

\* print_measurement_pilot_tx(): elements of a vendor.
Pilot(w) ==
  CASE w.st = "start" -> IF w.len <= 1 THEN Done(ReadTo(w, 1)) ELSE {At(Take(w, 1), "elements")}
    [] w.st = "elements" ->
         IF w.len < 5 THEN Done(w)
         ELSE LET h == Take(w, 2)
              IN  Done(h) \cup
                  {Take(h, sub) : sub \in {s \in Counts : s < U8 /\ s >= 3 /\ s <= h.len}}

\* print_wifi_wps(): for each type how much of an attribute of length sub is read.
WpsTypes ==
  {"version", "text", "passwd_id", "byte", "uuid", "vendor_ext", "device_type",
   "methods", "other"}
WpsReads(type, sub) ==
  CASE type \in {"text", "other"} -> sub
    [] type \in {"version", "byte"} -> IF sub < 1 THEN 0 ELSE 1
    [] type = "passwd_id" -> IF sub = 2 THEN 2 ELSE 0
    [] type = "uuid" -> IF sub = 16 THEN 16 ELSE 0
    [] type = "vendor_ext" -> IF sub = 6 THEN 6 ELSE 0
    [] type = "device_type" -> IF sub = 8 THEN 8 ELSE 0
    [] type = "methods" -> IF sub < 2 THEN 0 ELSE 2
\* Mutant: the four bytes before an attribute are not consumed.
WpsNoHeader(w) ==
  IF w.len < 4 THEN BogusTail(w)
  ELSE BogusTail(ReadTo(w, 4))
       \cup UNION {{At(Skip(ReadTo(w, 4 + n), sub), "attributes") :
                      n \in {WpsReads(type, sub) : type \in WpsTypes}} :
                     sub \in {k \in Counts : k <= w.len - 4}}
Wps(w) ==
  IF w.len < 4 THEN BogusTail(w)
  ELSE LET Attribute(n, sub) == At(Skip(ReadTo(w, 4 + n), sub + 4), "attributes")
           inside == {sub \in Counts : sub <= w.len - 4}
       IN  BogusTail(ReadTo(w, 4))
           \cup UNION {{Attribute(n, sub) : n \in {WpsReads(type, sub) : type \in WpsTypes}} :
                         sub \in inside}

\* print_p2p().
P2pTypes == {"capability", "device_info", "other"}
P2pReads(type, sub) ==
  CASE type = "capability" -> IF sub < 2 THEN 0 ELSE 2
    [] type = "device_info" -> IF sub < 17 THEN 0 ELSE sub
    [] type = "other" -> sub
P2p(w) ==
  IF w.len < 3 THEN BogusTail(w)
  ELSE LET Attribute(n, sub) == At(Skip(ReadTo(w, 3 + n), sub + 3), "attributes")
           inside == {sub \in Counts : sub <= w.len - 3}
       IN  BogusTail(ReadTo(w, 3))
           \cup UNION {{Attribute(n, sub) : n \in {P2pReads(type, sub) : type \in P2pTypes}} :
                         sub \in inside}

\* One step of the printer f.
PrintStep(f, v) ==
  LET w == [v EXCEPT !.read = 0] IN
  CASE f = "country" -> Country(w)
    [] f \in {"rsn", "wpa"} -> _print_rsn_ie(w, FALSE)
    [] f = "osen" -> _print_rsn_ie(w, TRUE)
    [] f = "11u_advert" -> Advert(w)
    [] f = "supp_op_classes" -> OpClasses(w)
    [] f = "measurement_pilot_tx" -> Pilot(w)
    [] f = "wps" -> Wps(w)
    [] f = "p2p" -> P2p(w)
    [] f = "raw" -> Done(ReadTo(w, w.len))
    [] OTHER -> UNION {Done(ReadTo(w, n)) : n \in Reads(f, w.len)}

\* print_ie(): an element whose length the table does not allow is printed raw.
print_ie(p, len) == IF len \in p.minlen..p.maxlen THEN p.print ELSE "raw"
=============================================================================
