------------------------------- MODULE NlList -------------------------------
(***************************************************************************)
(* The circular doubly linked lists of libnl-tiny (netlink/list.h), on a   *)
(* memory m: m.next and m.prev are the two pointers of each node, m.live   *)
(* the nodes that are allocated.  A list is a head, which is a node        *)
(* itself, and the nodes linked with it.                                   *)
(***************************************************************************)
EXTENDS Integers, Sequences, FiniteSets

\* Access to memory that has been freed leaves m.ok false for ever.
Touch(m, nodes) == [m EXCEPT !.ok = IF nodes \subseteq m.live THEN @ ELSE FALSE]

\* nl_init_list_head()
InitList(m, n) ==
  [m EXCEPT !.next[n] = n, !.prev[n] = n]

\* Mutant: linked in front of the first node.
AddHead(m, n, head) ==
  LET first == m.next[head]
  IN  [Touch(m, {n, head, first}) EXCEPT
         !.next[head] = n, !.next[n] = first,
         !.prev[n] = head, !.prev[first] = n]

\* nl_list_add_tail(), through __nl_list_add()
AddTail(m, n, head) ==
  LET last == m.prev[head]
  IN  [Touch(m, {n, head, last}) EXCEPT
         !.next[last] = n, !.next[n] = head,
         !.prev[n] = last, !.prev[head] = n]

\* Mutant: the pointer back is forgotten.
DelForward(m, n) ==
  [Touch(m, {n, m.next[n], m.prev[n]}) EXCEPT
     !.next[m.prev[n]] = m.next[n]]

\* nl_list_del(): the node keeps its own pointers.
Del(m, n) ==
  [Touch(m, {n, m.next[n], m.prev[n]}) EXCEPT
     !.next[m.prev[n]] = m.next[n],
     !.prev[m.next[n]] = m.prev[n]]

\* nl_list_empty(), which is also asked of a node that is no head.
Empty(m, n) == m.next[n] = n

\* The nodes that the walk of a list comes to, from its head on, in as many
\* steps as there are nodes.
Walk(m, head) ==
  LET pos[i \in 0..Cardinality(DOMAIN m.next)] ==
        IF i = 0 THEN head ELSE m.next[pos[i - 1]]
  IN  pos

\* The nodes nl_list_for_each_entry() visits, in order; <<>> if it would not
\* come back to the head.
Items(m, head) ==
  LET pos == Walk(m, head)
      ends == {i \in DOMAIN pos \ {0} : pos[i] = head}
      turn == CHOOSE i \in ends : \A j \in ends : i <= j
  IN  IF ends = {} THEN <<>> ELSE [i \in 1..turn - 1 |-> pos[i]]
=============================================================================
