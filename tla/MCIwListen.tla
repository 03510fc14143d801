----------------------------- MODULE MCIwListen -----------------------------
(* Instances of IwListen.  The three families stand for those without groups
   (nl80211's controller), ours, and one that has groups of the same names,
   as nl802154 has. *)
EXTENDS IwListen

MCFamilies == <<"nlctrl", "nl80211", "nl802154">>
MCItems == {"nlctrl", "nl802154", "nl80211", "result", "aborted", "noise", "bss1", "bss2"}
MCGroups == <<"config", "scan", "mlme">>
MCGroupsOf == [f \in FamilySet |-> CASE f = "nl80211"  -> GroupSet
                                     [] f = "nl802154" -> {"config", "scan"}
                                     [] OTHER          -> {}]
MCBss == <<"bss1", "bss2">>
=============================================================================
