------------------------------ MODULE BssPrint ------------------------------
(***************************************************************************)
(* What iw does with the entries of a scan dump: print_bss_handler() of    *)
(* scan.c, for "iw dev x scan dump", and link_bss_handler() with           *)
(* handle_link() of link.c, for "iw dev x link".  Both have print_ies()    *)
(* walk over the information elements; IePrinters says what is done with   *)
(* one of them.                                                            *)
(*                                                                         *)
(* The kernel chooses which attributes an entry has, how long its elements *)
(* are together, and what is in them.                                      *)
(***************************************************************************)
EXTENDS IePrinters, Sequences

CONSTANTS
  Modes,        \* the commands that are run, out of "scan" and "link"
  PrintOptions, \* the options that each of them is given
  ElementLens,  \* the lengths of one element, for each command
  MaxAfter,     \* so many bytes follow an element at most
  MaxEntries,   \* so many entries are dumped at most, for each command
  Bssids

ASSUME ModesAssumption == Modes \subseteq {"scan", "link"}
ASSUME ElementLensAssumption == \A c \in Modes : ElementLens[c] \subseteq 0..255
ASSUME OptionsAssumption ==
  \A c \in Modes : PrintOptions[c] \subseteq [unknown : BOOLEAN, show_both_ie_sets : BOOLEAN]
ASSUME MaxAfterAssumption == MaxAfter \in Nat

VARIABLES
  mode,         \* which command
  params,       \* struct scan_params: its options -u and -b
  entries,      \* so many entries have been dumped
  entry,        \* the attributes of the entry that is printed
  todo,         \* the sets of elements that are still to be printed
  shown,        \* those that have been
  left,         \* ielen of print_ies(); -1 outside of it
  ie,           \* the element that is printed, or none
  w,            \* the pointer and the length of its printer
  lr,           \* struct link_result
  said,         \* what link has said of entries: <<word, bssid>>
  pc

printVars == <<mode, params, entries, entry, todo, shown, left, ie, w, lr, said, pc>>
-----------------------------------------------------------------------------
\* Entries, as the kernel has them; link does not look at the beacon's elements.
Statuses == {"none", "associated", "authenticated", "ibss_joined", "unknown"}
Entries == [has : {{}, {"IES"}}, bssid : Bssids, status : Statuses]
NoEntry == [has |-> {}, bssid |-> CHOOSE b \in Bssids : TRUE, status |-> "none"]

\* Elements: a tag, and for 221 and 255 what follows it.
Vendors == [tag : {221}, oui : {"ms"}, sub : Tags(wifiprinters) \cup {3}]
           \cup [tag : {221}, oui : {"wfa"}, sub : Tags(wfa_printers) \cup {3}]
           \cup [tag : {221}, oui : {"other"}, sub : {0}]
Extensions == [tag : {255}, oui : {"none"}, sub : {35, 36}]
Plain == [tag : Tags(ieprinters) \cup {2}, oui : {"none"}, sub : {0}]
Elements == Vendors \cup Extensions \cup Plain
NoElement == [kind |-> CHOOSE e \in Plain : e.tag = 2, len |-> 0, print |-> "none"]

\* Handed(f, base, len): printer f gets what follows the first base bytes,
\* read of which are looked at before.
Handed(f, base, looked) == [print |-> f, base |-> base, looked |-> looked]
Ignored(looked) == Handed("none", 0, looked)

\* print_vendor(): an element that is too short is always printed, those of
\* Microsoft and of the Wi-Fi Alliance by their tables, the rest if asked for.
print_vendor(e, len, unknown) ==
  LET table == IF e.oui = "ms" THEN wifiprinters ELSE wfa_printers
  IN  IF len < 3 THEN Handed("raw", 0, 0)
      ELSE IF len >= 4 /\ e.oui \in {"ms", "wfa"}
      THEN IF e.sub \in Tags(table) /\ mode = "scan"
           THEN Handed(print_ie(Of(table, e.sub), len - 4), 4, 4)
           ELSE IF unknown THEN Handed("raw", 4, 4) ELSE Ignored(4)
      ELSE IF unknown THEN Handed("raw", 3, 3) ELSE Ignored(IF len >= 4 THEN 3 ELSE 0)

\* print_extension().
print_extension(e, len, unknown) ==
  IF len < 1 THEN Ignored(0)
  ELSE IF e.sub \in Tags(ext_printers) /\ mode = "scan"
  THEN Handed(print_ie(Of(ext_printers, e.sub), len - 1), 1, 1)
  ELSE IF unknown THEN Handed("raw", 1, 1) ELSE Ignored(1)

\* print_ies(): which printer gets the element.
Chosen(e, len, unknown) ==
  IF e.tag \in Tags(ieprinters) /\ (mode = "scan" \/ e.tag \in LinkTags)
  THEN Handed(print_ie(Of(ieprinters, e.tag), len), 0, 0)
  ELSE IF e.tag = 221 THEN print_vendor(e, len, unknown)
  ELSE IF e.tag = 255 THEN print_extension(e, len, unknown)
  ELSE IF unknown THEN Handed("raw", 0, 0) ELSE Ignored(0)

-----------------------------------------------------------------------------
NoResult == [link_found |-> FALSE, anything_found |-> FALSE, bssid |-> NoEntry.bssid]
NoWalk == [st |-> "done", off |-> 0, len |-> 0, read |-> 0]

PrintInit ==
  /\ mode \in Modes
  /\ params \in PrintOptions[mode]
  /\ entries = 0
  /\ entry = NoEntry
  /\ todo = <<>>
  /\ shown = <<>>
  /\ left = -1
  /\ ie = NoElement
  /\ w = NoWalk
  /\ lr = NoResult
  /\ said = <<>>
  /\ pc = "dump"

\* Mutant: show is not used up.
ScanSetsAll(has) ==
  (IF "IES" \in has THEN <<"IES">> ELSE <<>>)
  \o (IF "BEACON_IES" \in has THEN <<"BEACON_IES">> ELSE <<>>)

\* The sets that print_bss_handler() prints: show is used up by the first.
ScanSets(has) ==
  LET show == IF params.show_both_ie_sets THEN 2 ELSE 1
      after == IF "IES" \in has THEN show - 1 ELSE show
  IN  (IF "IES" \in has THEN <<"IES">> ELSE <<>>)
      \o (IF "BEACON_IES" \in has /\ after > 0 THEN <<"BEACON_IES">> ELSE <<>>)

\* An entry of the dump.  An entry that link skips is not kept.
ScanEntry ==
  /\ mode = "scan"
  /\ pc = "dump" /\ entries < MaxEntries[mode]
  /\ \E has \in SUBSET {"IES", "BEACON_IES"} :
       /\ entry' = [NoEntry EXCEPT !.has = has]
       /\ todo' = ScanSets(has)
  /\ shown' = <<>>
  /\ entries' = entries + 1
  /\ pc' = "sets"
  /\ UNCHANGED <<mode, params, left, ie, w, lr, said>>

Words == [associated |-> "Connected to", authenticated |-> "Authenticated with",
          ibss_joined |-> "Joined IBSS"]
LinkEntry ==
  /\ mode = "link"
  /\ pc = "dump" /\ entries < MaxEntries[mode]
  /\ \E e \in Entries :
       /\ entry' = e
       /\ said' = IF e.status \in DOMAIN Words
                  THEN Append(said, <<Words[e.status], e.bssid>>) ELSE said
       /\ IF e.status \in {"associated", "ibss_joined"}
          THEN /\ lr' = [lr EXCEPT !.anything_found = TRUE]
               /\ todo' = IF "IES" \in e.has THEN <<"IES">> ELSE <<>>
               /\ pc' = "sets"
          ELSE UNCHANGED <<lr, todo, pc>>
  /\ shown' = <<>>
  /\ entries' = entries + 1
  /\ UNCHANGED <<mode, params, left, ie, w>>

\* The lengths of a set: two elements of which one is short, and what else may
\* be behind them.
LeftSizes == {len + 2 + k : len \in ElementLens[mode], k \in 0..MaxAfter} \cup {0, 1}

\* The next set of elements.
PrintIes ==
  /\ pc = "sets" /\ todo # <<>>
  /\ left' \in LeftSizes
  /\ shown' = Append(shown, Head(todo))
  /\ todo' = Tail(todo)
  /\ pc' = "walk"
  /\ UNCHANGED <<mode, params, entries, entry, ie, w, lr, said>>

\* Mutant: whatever has been found is remembered.
EntryDoneAny ==
  /\ pc = "sets" /\ todo = <<>>
  /\ lr' = IF mode = "link"
           THEN [lr EXCEPT !.link_found = TRUE, !.bssid = entry.bssid] ELSE lr
  /\ pc' = "dump"
  /\ UNCHANGED <<mode, params, entries, entry, todo, shown, left, ie, w, said>>

\* The handler returns; only an association is remembered by link.
EntryDone ==
  /\ pc = "sets" /\ todo = <<>>
  /\ lr' = IF mode = "link" /\ entry.status = "associated"
           THEN [lr EXCEPT !.link_found = TRUE, !.bssid = entry.bssid] ELSE lr
  /\ pc' = "dump"
  /\ UNCHANGED <<mode, params, entries, entry, todo, shown, left, ie, w, said>>

\* An element that lies within the set; or the length behind its tag is too much
\* for it.
NextElement ==
  /\ pc = "walk"
  /\ left >= 2
  /\ \E e \in Elements, len \in ElementLens[mode] :
       /\ left - 2 - len \in 0..MaxAfter
       /\ LET h == Chosen(e, len, params.unknown)
          IN  /\ ie' = [kind |-> e, len |-> len, print |-> h.print]
              /\ w' = [st |-> IF h.print = "none" THEN "done" ELSE "start",
                       off |-> h.base, len |-> len - h.base, read |-> h.looked]
  /\ pc' = "element"
  /\ UNCHANGED <<mode, params, entries, entry, todo, shown, left, lr, said>>
EndOfElements ==
  /\ pc = "walk"
  /\ left - 2 < 255
  /\ left' = -1
  /\ pc' = "sets"
  /\ UNCHANGED <<mode, params, entries, entry, todo, shown, ie, w, lr, said>>

\* A step of the printer, and its return to print_ies().
PrintElement ==
  /\ pc = "element" /\ w.st # "done"
  /\ w' \in PrintStep(ie.print, w)
  /\ UNCHANGED <<mode, params, entries, entry, todo, shown, left, ie, lr, said, pc>>
ElementDone ==
  /\ pc = "element" /\ w.st = "done"
  /\ left' = left - (ie.len + 2)
  /\ ie' = NoElement
  /\ w' = NoWalk
  /\ pc' = "walk"
  /\ UNCHANGED <<mode, params, entries, entry, todo, shown, lr, said>>

\* The dump has ended: handle_link() has found something or not.
DumpDone ==
  /\ pc = "dump"
  /\ pc' = IF mode = "link" /\ lr.link_found THEN "station" ELSE "end"
  /\ said' = IF mode = "link" /\ ~lr.link_found /\ ~lr.anything_found
             THEN Append(said, <<"Not connected", lr.bssid>>) ELSE said
  /\ UNCHANGED <<mode, params, entries, entry, todo, shown, left, ie, w, lr>>

\* The dump ends with an error, after whatever entries came before it: both
\* commands return it, and link neither says that there is no connection nor asks
\* for the statistics.
DumpFails ==
  /\ pc = "dump"
  /\ pc' = "failed"
  /\ UNCHANGED <<mode, params, entries, entry, todo, shown, left, ie, w, lr, said>>

\* The second request of link, and its answer.
LinkStation ==
  /\ pc = "station"
  /\ said' = Append(said, <<"station", lr.bssid>>)
  /\ pc' = "end"
  /\ UNCHANGED <<mode, params, entries, entry, todo, shown, left, ie, w, lr>>

PrintNext ==
  \/ ScanEntry \/ LinkEntry \/ PrintIes \/ EntryDone
  \/ NextElement \/ EndOfElements \/ PrintElement \/ ElementDone
  \/ DumpDone \/ DumpFails \/ LinkStation

PrintSpec == PrintInit /\ [][PrintNext]_printVars
-----------------------------------------------------------------------------
\* No printer looks behind the element it is given, whatever its length is and
\* whatever lengths and counts are in it: the smallest length that the tables
\* allow is enough for what the printer reads unasked, and the loops stop in
\* time.
ReadsInside == pc = "element" => w.read <= ie.len

\* Pointer and remaining length of a printer belong together at every step, the
\* length being a uint8_t that would wrap around silently.
PointerInStep == pc = "element" => w.off + w.len = ie.len

\* Without -b one set of elements is shown, the probe response's if there is
\* one; with -b all there are.
SetsShown ==
  (mode = "scan" /\ pc = "dump" /\ entries > 0) =>
    IF params.show_both_ie_sets
    THEN {shown[i] : i \in DOMAIN shown} = entry.has
    ELSE shown = IF "IES" \in entry.has THEN <<"IES">>
                 ELSE IF "BEACON_IES" \in entry.has THEN <<"BEACON_IES">> ELSE <<>>

\* What iw link says hangs together over all entries of the dump: it asks for
\* the statistics of an access point it has called connected, and says "Not
\* connected" only if it has said nothing of the kind before.  A dump
\* that does not fail leads to one or the other, or to a cell it has joined.
LinkIsConsistent ==
  LET Said(word) == {i \in DOMAIN said : said[i][1] = word}
  IN  /\ \A i \in Said("station") :
           \E k \in Said("Connected to") : k < i /\ said[k][2] = said[i][2]
      /\ Said("Not connected") # {} => Said("Connected to") \cup Said("Joined IBSS") = {}
      /\ (mode = "link" /\ pc = "end") =>
           \/ Said("Not connected") # {}
           \/ Said("Joined IBSS") # {}
           \/ Said("station") # {}

\* No loop goes round without consuming something, not at an element of length
\* zero either: as long as a printer stays in a loop its length shrinks, and
\* print_ies() has less before it after every element.
LoopsConsume ==
  [][/\ w.st \notin {"start", "done"} /\ w'.st = w.st => w'.len < w.len
     /\ (left >= 0 /\ left' # left) => left' < left]_printVars
=============================================================================
