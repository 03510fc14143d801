----------------------------- MODULE MCBssPrint -----------------------------
(* Lengths around every bound of the tables and of the printers' own checks, *)
(* and the longest element there is.                                        *)
EXTENDS BssPrint

MCElementLens ==
  [scan |-> (0..16) \cup {19, 20, 21, 22, 23, 25, 26, 32, 33, 54, 55, 255},
   link |-> {0, 2, 5, 33}]
MCOptions ==
  [scan |-> {[unknown |-> b, show_both_ie_sets |-> b] : b \in BOOLEAN},
   link |-> {[unknown |-> FALSE, show_both_ie_sets |-> FALSE]}]
MCMaxEntries == [scan |-> 1, link |-> 2]
MCCounts == (0..20) \cup {34, 62, 63, 251, 255, 65535}
=============================================================================
