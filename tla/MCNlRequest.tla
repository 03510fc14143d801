---------------------------- MODULE MCNlRequest -----------------------------
(* Instances of NlRequest: the requests the repository makes through each
   function, and dumps of up to three items. *)
EXTENDS NlRequestInv

MCKinds == [c \in Callers |->
              CASE c = "nl_cache_refill"     -> {"dump"}
                [] c = "nl_get_multicast_id" -> {"get"}
                [] c = "nl_wait_for_ack"     -> {"set"}
                [] OTHER                     -> {"get", "set", "dump"}]

MCReplies == {<<>>, <<"a">>, <<"a", "b">>, <<"b", "a", "b">>}
=============================================================================
