------------------------------ MODULE Request -------------------------------
(***************************************************************************)
(* What a caller of a netlink request relies on, whichever function of the *)
(* library or of the programs it goes through: the kernel decides how the  *)
(* request ends and which items answer it, the caller is given exactly     *)
(* these items, in order, then this outcome, before it asks again.  Once a *)
(* request could not be sent, though, no later one is answered: it fails,  *)
(* or its caller waits for good.                                           *)
(***************************************************************************)
EXTENDS Naturals, Sequences

CONSTANT Items

VARIABLES
  phase,      \* "idle" or "waiting"
  outcome,    \* how the kernel decided the request
  produced,   \* the items with which it answers
  received,   \* the items given to the caller so far
  result,     \* what the caller has been told: "none" until it is
  deaf        \* whether a request could not be sent

vars == <<phase, outcome, produced, received, result, deaf>>

Outcomes == {"ok", "fail"}

Init ==
  /\ phase = "idle"
  /\ outcome = "fail"
  /\ produced = <<>>
  /\ received = <<>>
  /\ result = "fail"
  /\ deaf = FALSE

Ask ==
  /\ phase = "idle"
  /\ phase' = "waiting"
  /\ outcome' \in Outcomes
  /\ produced' \in Seq(Items)
  /\ outcome' = "fail" => produced' = <<>>
  /\ received' = <<>>
  /\ result' = "none"
  /\ UNCHANGED deaf

\* The request never reached the kernel.
NotSent ==
  /\ phase = "idle"
  /\ received' = <<>>
  /\ result' = "fail"
  /\ deaf' = TRUE
  /\ UNCHANGED <<phase, outcome, produced>>

Receive ==
  /\ phase = "waiting"
  /\ ~deaf
  /\ result = "none"
  /\ Len(received) < Len(produced)
  /\ received' = Append(received, produced[Len(received) + 1])
  /\ UNCHANGED <<phase, outcome, produced, result, deaf>>

Conclude ==
  /\ phase = "waiting"
  /\ ~deaf
  /\ result = "none"
  /\ received = produced
  /\ result' = outcome
  /\ UNCHANGED <<phase, outcome, produced, received, deaf>>

GiveUp ==
  /\ phase = "waiting"
  /\ deaf
  /\ result = "none"
  /\ result' = "fail"
  /\ UNCHANGED <<phase, outcome, produced, received, deaf>>

Return ==
  /\ phase = "waiting"
  /\ result # "none"
  /\ phase' = "idle"
  /\ UNCHANGED <<outcome, produced, received, result, deaf>>

Next == Ask \/ NotSent \/ Receive \/ Conclude \/ GiveUp \/ Return

Spec == Init /\ [][Next]_vars /\ WF_vars(Receive \/ Conclude \/ Return)
=============================================================================
