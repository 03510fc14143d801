------------------------------ MODULE MsgTree ------------------------------
(***************************************************************************)
(* What building a message promises: a message is a forest of attributes,  *)
(* written in the order in which a reader meets them, each with the number *)
(* of nests around it.  Putting an attribute appends it inside the nests   *)
(* that are open, or fails and leaves everything as it was.                *)
(***************************************************************************)
EXTENDS Naturals, Sequences

CONSTANTS Request, Blocks, Leaves, Nests, Payloads

VARIABLES
  forest,  \* forest[m]: the attributes, as [type, size, depth]
  depth,   \* depth[m]: the number of open nests
  phase

vars == <<forest, depth, phase>>

Messages == Blocks \union {Request}

Node(type, n, d) == [type |-> type, size |-> n, depth |-> d]

\* The attributes of a forest, d nests further down.
Deeper(f, d) == [i \in DOMAIN f |-> [f[i] EXCEPT !.depth = @ + d]]

Init ==
  /\ forest = [m \in Messages |-> <<>>]
  /\ depth = [m \in Messages |-> 0]
  /\ phase = "alloc"

Begin == phase = "alloc" /\ phase' = "build" /\ UNCHANGED <<forest, depth>>

Put(m, type, n) ==
  /\ forest' = [forest EXCEPT ![m] = Append(@, Node(type, n, depth[m]))]
  /\ UNCHANGED depth

Start(m, type) ==
  /\ forest' = [forest EXCEPT ![m] = Append(@, Node(type, 0, depth[m]))]
  /\ depth' = [depth EXCEPT ![m] = @ + 1]

End(m) ==
  /\ depth[m] > 0
  /\ depth' = [depth EXCEPT ![m] = @ - 1]
  /\ UNCHANGED forest

\* A finished message becomes the content of a new nest, or is dropped.
Graft(m, type, b) ==
  /\ m # b /\ b # Request /\ depth[b] = 0
  /\ \/ forest' = [forest EXCEPT
           ![m] = Append(@, Node(type, 0, depth[m]))
                    \o Deeper(forest[b], depth[m] + 1),
           ![b] = <<>>]
     \/ forest' = [forest EXCEPT ![b] = <<>>]
  /\ UNCHANGED depth

Stop ==
  /\ \/ phase' = "sent" /\ depth[Request] = 0
     \/ phase' = "given up"
  /\ UNCHANGED <<forest, depth>>

Build ==
  \E m \in Messages :
    \/ \E type \in Leaves, n \in Payloads : Put(m, type, n)
    \/ \E type \in Nests : Start(m, type)
    \/ End(m)
    \/ \E type \in Nests, b \in Blocks : Graft(m, type, b)

Next ==
  \/ Begin
  \/ phase = "build" /\ Stop
  \/ phase = "build" /\ Build /\ UNCHANGED phase

Spec == Init /\ [][Next]_vars
=============================================================================
