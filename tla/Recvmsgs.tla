------------------------------ MODULE Recvmsgs ------------------------------
(***************************************************************************)
(* What one pass of the parsing loop of recvmsgs() (libnl-tiny/nl.c) does  *)
(* with one netlink message.  The payload of a message is an opaque item:  *)
(* the loop looks at its type, sequence number and flags only.             *)
(*                                                                         *)
(* A callback handle (struct nl_cb) is a function from the slots that are  *)
(* set to the code their handler returns: the kinds NL_CB_DEFAULT, VERBOSE *)
(* and DEBUG install no handler in this library, so a slot is in the       *)
(* domain only when nl_cb_set() or nl_cb_err() put a custom handler there. *)
(***************************************************************************)
EXTENDS Naturals, Sequences

\* NL_OK, NL_SKIP, NL_STOP, and every negative code a handler may return.
Codes == {"OK", "SKIP", "STOP", "FAIL"}

\* The slots of struct nl_cb: cb_set[] and, as "ERR", cb_err.
Slots == {"VALID", "FINISH", "OVERRUN", "SKIPPED", "ACK", "MSG_IN",
          "INVALID", "SEQ_CHECK", "SEND_ACK", "ERR"}

\* The classes of message the loop tells apart.  An NLMSG_ERROR is one of
\* three: ACK carries error 0, ERR another error, SHORT a truncated nlmsgerr.
Types == {"DATA", "DONE", "NOOP", "OVERRUN", "ACK", "ERR", "SHORT"}

\* Mutant: NLMSG_DONE is not counted.
TerminatorsButDone == {"NOOP", "OVERRUN", "ACK", "ERR", "SHORT"}

\* The types that end the answer to a request, where s_seq_expect advances.
Terminators == Types \ {"DATA"}

\* The slot whose handler a message of each type runs ...
SlotOf == [DATA |-> "VALID", DONE |-> "FINISH", NOOP |-> "SKIPPED",
           OVERRUN |-> "OVERRUN", ACK |-> "ACK", ERR |-> "ERR",
           SHORT |-> "INVALID"]

\* ... and what the loop does when no handler is there.
CodeOf == [DATA |-> "OK", DONE |-> "OK", NOOP |-> "SKIP",
           OVERRUN |-> "FAIL", ACK |-> "OK", ERR |-> "FAIL",
           SHORT |-> "FAIL"]

\* NL_CB_CALL: the handler's code, or the loop's own when the slot is empty.
CallOr(cb, slot, code) == IF slot \in DOMAIN cb THEN cb[slot] ELSE code

\* The first of two calls that does not say "proceed" decides.
Then(first, second) == IF first # "OK" THEN first ELSE second

\* Mutant: sequence numbers are not checked.
ScreenedLoosely(cb, expect, m) == CallOr(cb, "MSG_IN", "OK")

\* NL_CB_MSG_IN and the sequence check, the user's or the loop's own.
Screened(cb, expect, m) ==
  Then(CallOr(cb, "MSG_IN", "OK"),
       CallOr(cb, "SEQ_CHECK",
              IF m.seq = expect THEN "OK" ELSE CallOr(cb, "INVALID", "FAIL")))

\* NL_CB_SEND_ACK for a message that wants an acknowledgement.
Acknowledged(cb, m) == IF m.ack THEN CallOr(cb, "SEND_ACK", "OK") ELSE "OK"

\* The branch on nlmsg_type.  cb_err stopping makes recvmsgs() return the
\* kernel's error; a slot's handler stopping makes it return 0.
Dispatched(cb, m) ==
  LET code == CallOr(cb, SlotOf[m.type], CodeOf[m.type])
  IN  IF m.type = "ERR" /\ code = "STOP" THEN "FAIL" ELSE code

Verdict(cb, expect, m) ==
  Then(Screened(cb, expect, m), Then(Acknowledged(cb, m), Dispatched(cb, m)))

\* The handler of the message's own slot is called.
Runs(cb, expect, m) ==
  /\ Screened(cb, expect, m) = "OK"
  /\ Acknowledged(cb, m) = "OK"
  /\ SlotOf[m.type] \in DOMAIN cb

\* Mutants: the count goes the wrong way; the multipart flag is not looked at.
ExpectAfterDown(cb, expect, m) ==
  IF Screened(cb, expect, m) = "OK" /\ m.type \in Terminators
  THEN expect - 1 ELSE expect
MultiAfterNever(cb, expect, multi, m) == FALSE

\* s_seq_expect and the local multipart after the message.
ExpectAfter(cb, expect, m) ==
  IF Screened(cb, expect, m) = "OK" /\ m.type \in Terminators
  THEN expect + 1 ELSE expect

MultiAfter(cb, expect, multi, m) ==
  IF Screened(cb, expect, m) # "OK" THEN multi
  ELSE IF m.type = "DONE" /\ Acknowledged(cb, m) = "OK" THEN FALSE
  ELSE multi \/ m.multi
=============================================================================
