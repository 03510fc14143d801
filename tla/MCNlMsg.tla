------------------------------ MODULE MCNlMsg ------------------------------
(***************************************************************************)
(* Instances of NlMsg, and the forest a reader finds in a message with     *)
(* nla_for_each_attr() and nla_for_each_nested().  It is kept in a         *)
(* variable, so that it is computed once in a state.                       *)
(***************************************************************************)
EXTENDS NlMsg

VARIABLE forest

\* The header at o; nla_nest_end() has still to write that of an open nest.
HeaderAt(x, o) ==
  IF o \in Opened(x) THEN [x.mem[o] EXCEPT !.len = NlmsgTail(x) - o] ELSE x.mem[o]

\* The attributes from o to end.  A walk that does not stop at the end, or
\* finds no header, leaves a node that no forest has.
RECURSIVE Nodes(_, _, _, _)
Nodes(x, o, end, d) ==
  IF o \in DOMAIN x.mem /\ NlaOk(HeaderAt(x, o), end - o)
  THEN LET h == HeaderAt(x, o)
           nest == h.type \in Nests
       IN  <<[type |-> h.type, size |-> IF nest THEN 0 ELSE h.len - NlaHdr,
              depth |-> d]>>
             \o (IF nest THEN Nodes(x, o + NlaHdr, o + h.len, d + 1) ELSE <<>>)
             \o Nodes(x, NlaNext(o, h), end, d)
  ELSE IF o = end THEN <<>>
       ELSE <<[type |-> "leftover", size |-> 0, depth |-> d]>>

Forest == [m \in Messages |-> Nodes(msgs[m], First(m), NlmsgTail(msgs[m]), 0)]

MCInit == MsgInit /\ forest = Forest
MCNext == MsgNext /\ forest' = Forest'
MCSpec == MCInit /\ [][MCNext]_<<msgVars, forest>>

Tree == INSTANCE MsgTree WITH
  depth <- [m \in Messages |-> Len(msgs[m].open)]

\* What a reader of a message finds in it is what was put there, in the order
\* and the nests in which it was put, after every step: through paddings,
\* nests that are still open, lengths that nla_nest_end() corrects, and
\* attributes that were copied from another message.  (attr.c:400-432,
\* 614-666; attr.h:455-512, 703-718)
Implements == Tree!Spec
=============================================================================
