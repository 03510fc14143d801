---------------------------- MODULE FamilyStore -----------------------------
(***************************************************************************)
(* What the users of family caches rely on: a cache is a sequence of       *)
(* families in the order in which the kernel listed them; a look-up finds  *)
(* the first one of a name; the memory of a family that somebody holds, or *)
(* that is in a cache, does not become another family.                     *)
(***************************************************************************)
EXTENDS Naturals, Sequences, SequencesExt

CONSTANTS Objects, Caches, NameOf

VARIABLES
  open,    \* the caches that exist
  items,   \* items[c]: the families in cache c
  held     \* held[o]: how many references to o the program owns

vars == <<open, items, held>>

Cached(o) == \E c \in Caches : Contains(items[c], o)

Init ==
  /\ open = {}
  /\ items = [c \in Caches |-> <<>>]
  /\ held = [o \in Objects |-> 0]

Open(c) ==
  /\ c \notin open
  /\ open' = open \union {c}
  /\ UNCHANGED <<items, held>>

\* Only an empty cache goes away: no family is lost with it.
Close(c) ==
  /\ c \in open
  /\ items[c] = <<>>
  /\ open' = open \ {c}
  /\ UNCHANGED <<items, held>>

\* A family the kernel lists, in memory that nobody uses.
Learn(c, o) ==
  /\ c \in open
  /\ held[o] = 0
  /\ ~Cached(o)
  /\ items' = [items EXCEPT ![c] = Append(@, o)]
  /\ UNCHANGED <<open, held>>

\* A family leaves the cache it is in.
Forget(c, o) ==
  /\ \E i \in DOMAIN items[c] :
       /\ items[c][i] = o
       /\ items' = [items EXCEPT ![c] = RemoveAt(@, i)]
  /\ UNCHANGED <<open, held>>

\* The first family of that name is found, and is the caller's.
Find(c, name) ==
  /\ c \in open
  /\ LET list == items[c]
     IN  \E i \in DOMAIN list :
           /\ NameOf[list[i]] = name
           /\ \A j \in 1..i - 1 : NameOf[list[j]] # name
           /\ held' = [held EXCEPT ![list[i]] = @ + 1]
  /\ UNCHANGED <<open, items>>

\* The program makes a family of its own.
Create(o) ==
  /\ held[o] = 0
  /\ ~Cached(o)
  /\ held' = [held EXCEPT ![o] = 1]
  /\ UNCHANGED <<open, items>>

\* The program puts a family it owns into a cache.
Insert(c, o) ==
  /\ c \in open
  /\ held[o] > 0
  /\ ~Cached(o)
  /\ items' = [items EXCEPT ![c] = Append(@, o)]
  /\ UNCHANGED <<open, held>>

GiveBack(o) ==
  /\ held[o] > 0
  /\ held' = [held EXCEPT ![o] = @ - 1]
  /\ UNCHANGED <<open, items>>

Next ==
  \/ \E c \in Caches : Open(c) \/ Close(c)
  \/ \E c \in Caches, o \in Objects : Learn(c, o) \/ Forget(c, o) \/ Insert(c, o)
  \/ \E c \in Caches, name \in {NameOf[o] : o \in Objects} : Find(c, name)
  \/ \E o \in Objects : Create(o) \/ GiveBack(o)

Spec == Init /\ [][Next]_vars
=============================================================================
