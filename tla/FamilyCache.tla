---------------------------- MODULE FamilyCache -----------------------------
(***************************************************************************)
(* Reference-counted objects and the caches that list them (libnl-tiny     *)
(* object.c, cache.c), used for generic netlink families (genl_ctrl.c).    *)
(*                                                                         *)
(* mem is the heap.  Its nodes are the caches (each the head of its own    *)
(* list, c_items) and the objects (linked by ce_list).  A program makes    *)
(* calls in any order; the calls that walk a list while it changes, or     *)
(* that read messages in between, take several steps (call).               *)
(*                                                                         *)
(* An object stands for a family of one name, NameOf[o]; allocation picks  *)
(* any object that is not in use.                                          *)
(***************************************************************************)
EXTENDS NlList

CONSTANTS
  Objects, Caches,
  NameOf,     \* NameOf[o]: gf_name of the family
  NoCache,    \* NULL
  MaxHeld     \* bound: references to one object a program owns at a time

Nodes == Objects \union Caches

ASSUME FiniteAssumption == IsFiniteSet(Nodes)
ASSUME NodesAssumption == Objects \intersect Caches = {} /\ NoCache \notin Nodes
ASSUME MaxHeldAssumption == MaxHeld \in Nat

VARIABLES
  mem,    \* the heap
  held,   \* held[o]: how many references the program owns
  call    \* the call in progress

vars == <<mem, held, call>>

NoCall == [op |-> "idle", cache |-> NoCache, pos |-> NoCache, tmp |-> NoCache,
           fresh |-> FALSE]

Init ==
  /\ mem = [live |-> {},
            next |-> [n \in Nodes |-> n],
            prev |-> [n \in Nodes |-> n],
            refcnt |-> [o \in Objects |-> 0],
            cache |-> [o \in Objects |-> NoCache],
            nitems |-> [c \in Caches |-> 0],
            ok |-> TRUE]
  /\ held = [o \in Objects |-> 0]
  /\ call = NoCall

-----------------------------------------------------------------------------
(* Objects *)

\* free(): what the memory holds afterwards does not matter, Touch() tells
\* whether anybody reads it.
Freed(m, n) ==
  InitList([Touch(m, {n}) EXCEPT !.live = @ \ {n}], n)

\* nl_object_alloc()
NlObjectAlloc(m, o) ==
  [InitList([m EXCEPT !.live = @ \union {o}], o) EXCEPT
     !.refcnt[o] = 1,
     !.cache[o] = NoCache]

\* nl_object_get()
NlObjectGet(m, o) ==
  [Touch(m, {o}) EXCEPT !.refcnt[o] = @ + 1]

\* nl_object_free(): an object in a cache is removed from it, whose
\* nl_object_put() frees it a first time.
NlObjectFree(m, o) ==
  [Freed(m, o) EXCEPT
     !.ok = IF m.cache[o] = NoCache THEN @ ELSE FALSE,
     !.refcnt[o] = 0]

\* nl_object_put()
NlObjectPut(m, o) ==
  LET less == [Touch(m, {o}) EXCEPT !.refcnt[o] = @ - 1]
  IN  IF less.refcnt[o] <= 0 THEN NlObjectFree(less, o) ELSE less

-----------------------------------------------------------------------------
(* Caches *)

\* nl_cache_alloc()
NlCacheAlloc(m, c) ==
  [InitList([m EXCEPT !.live = @ \union {c}], c) EXCEPT
     !.nitems[c] = 0]

\* Mutants: the object is not counted; the list has no reference of its own.
NlCacheAddUncounted(m, c, o) ==
  [AddTail(NlObjectGet(m, o), o, c) EXCEPT !.cache[o] = c]
NlCacheAddBorrowed(m, c, o) ==
  [AddTail(m, o, c) EXCEPT
     !.cache[o] = c,
     !.nitems[c] = @ + 1]

\* nl_cache_add() of an object that is in no list
NlCacheAdd(m, c, o) ==
  [AddTail(NlObjectGet(m, o), o, c) EXCEPT
     !.cache[o] = c,
     !.nitems[c] = @ + 1]

\* Mutant: the reference of the list is not given back.
NlCacheRemoveLeaking(m, o) ==
  LET c == m.cache[o]
  IN  IF c = NoCache
      THEN Touch(m, {o})
      ELSE [Del(Touch(m, {o}), o) EXCEPT
              !.cache[o] = NoCache,
              !.nitems[c] = @ - 1]

\* nl_cache_remove()
NlCacheRemove(m, o) ==
  LET c == m.cache[o]
      out == [Del(Touch(m, {o}), o) EXCEPT !.cache[o] = NoCache]
  IN  IF c = NoCache
      THEN Touch(m, {o})
      ELSE [Touch(NlObjectPut(out, o), {c}) EXCEPT
              !.nitems[c] = @ - 1]

\* genl_ctrl_search_by_name(): the families the look-up of a name returns.
Matches(m, c, name) ==
  LET list == Items(m, c)
      found == {i \in DOMAIN list : NameOf[list[i]] = name}
  IN  {list[i] : i \in {j \in found : \A k \in found : j <= k}}

-----------------------------------------------------------------------------
(* The library in the middle of a call *)

Clearing == {"clear", "refill", "free"}

\* nl_cache_clear() as a part of call op: the loop starts at the first object.
StartClear(op, c, fresh) ==
  [op |-> op, cache |-> c, pos |-> mem.next[c], tmp |-> mem.next[mem.next[c]],
   fresh |-> fresh]

\* Mutant: the loop that is not safe against the removal of its object.
ClearStepUnsafe ==
  /\ call.op \in Clearing
  /\ call.pos # call.cache
  /\ mem' = NlCacheRemove(mem, call.pos)
  /\ call' = [call EXCEPT !.pos = mem'.next[call.pos],
                          !.tmp = mem'.next[mem'.next[call.pos]]]
  /\ UNCHANGED held

\* One pass of nl_list_for_each_entry_safe() in nl_cache_clear()
ClearStep ==
  /\ call.op \in Clearing
  /\ call.pos # call.cache
  /\ mem' = Touch(NlCacheRemove(mem, call.pos), {call.tmp})
  /\ call' = [call EXCEPT !.pos = call.tmp, !.tmp = mem'.next[call.tmp]]
  /\ UNCHANGED held

\* The end of nl_cache_clear(), and what follows it: nl_cache_refill() reads
\* the dump, nl_cache_free() frees the cache.
ClearEnd ==
  /\ call.op \in Clearing
  /\ call.pos = call.cache
  /\ call' = IF call.op = "refill"
             THEN [NoCall EXCEPT !.op = "fill", !.cache = call.cache,
                                 !.fresh = call.fresh]
             ELSE NoCall
  /\ mem' = IF call.op = "free" THEN Freed(mem, call.cache) ELSE mem
  /\ UNCHANGED held

\* ctrl_msg_parser() of a complete message: the object is the parser's, then
\* the list has a reference too, then the parser gives its own back.
ParseFamily(o) ==
  /\ call.op = "fill"
  /\ o \notin mem.live
  /\ mem' = NlObjectPut(NlCacheAdd(NlObjectAlloc(mem, o), call.cache, o), o)
  /\ UNCHANGED <<held, call>>

\* nl_cache_refill() returns an error: a cache that nl_cache_alloc_and_fill()
\* has just made is freed again, with what is in it.
Failed == IF call.fresh THEN StartClear("free", call.cache, TRUE) ELSE NoCall

\* ctrl_msg_parser() of a message that lacks an attribute: the error ends
\* nl_recvmsgs().
ParseIncomplete(o) ==
  /\ call.op = "fill"
  /\ o \notin mem.live
  /\ mem' = NlObjectPut(NlObjectAlloc(mem, o), o)
  /\ call' = Failed
  /\ UNCHANGED held

\* nl_recvmsgs() returns: the dump is complete; an error was read.
FillEnd ==
  /\ call.op = "fill"
  /\ call' \in {NoCall, Failed}
  /\ UNCHANGED <<mem, held>>

-----------------------------------------------------------------------------
(* The calls of a program.  A request that cannot be sent leaves everything *)
(* as it was.                                                              *)

Idle == call.op = "idle"

\* nl_cache_alloc()
CacheAlloc(c) ==
  /\ Idle
  /\ c \notin mem.live
  /\ mem' = NlCacheAlloc(mem, c)
  /\ UNCHANGED <<held, call>>

\* genl_ctrl_alloc_cache(), nl_cache_alloc_and_fill()
CtrlAllocCache(c) ==
  /\ Idle
  /\ c \notin mem.live
  /\ mem' = NlCacheAlloc(mem, c)
  /\ call' = [op |-> "refill", cache |-> c, pos |-> c, tmp |-> c, fresh |-> TRUE]
  /\ UNCHANGED held

\* nl_cache_clear(), nl_cache_refill() and nl_cache_free() begin.
StartClearing(c) ==
  /\ Idle
  /\ c \in mem.live
  /\ \E op \in Clearing : call' = StartClear(op, c, FALSE)
  /\ UNCHANGED <<mem, held>>

\* genl_ctrl_search_by_name(); not found, it changes nothing.
Search(c, name) ==
  /\ Idle
  /\ c \in mem.live
  /\ \E o \in Matches(mem, c, name) :
       /\ held[o] < MaxHeld
       /\ mem' = NlObjectGet(mem, o)
       /\ held' = [held EXCEPT ![o] = @ + 1]
  /\ UNCHANGED call

\* genl_family_alloc()
FamilyAlloc(o) ==
  /\ Idle
  /\ o \notin mem.live
  /\ MaxHeld > 0
  /\ mem' = NlObjectAlloc(mem, o)
  /\ held' = [held EXCEPT ![o] = 1]
  /\ UNCHANGED call

\* genl_family_put()
FamilyPut(o) ==
  /\ Idle
  /\ held[o] > 0
  /\ mem' = NlObjectPut(mem, o)
  /\ held' = [held EXCEPT ![o] = @ - 1]
  /\ UNCHANGED call

\* nl_cache_add(): an object that has been in a list (nl_list_del() leaves its
\* pointers) is cloned.  The clone of a family has copies of the list heads
\* in it, which still belong to the lists of the original: from there on the
\* behaviour of the code is undefined, and nothing is claimed about it.
CacheAdd(c, o) ==
  /\ Idle
  /\ c \in mem.live
  /\ held[o] > 0
  /\ IF Empty(mem, o)
     THEN mem' = NlCacheAdd(mem, c, o) /\ UNCHANGED call
     ELSE call' = [NoCall EXCEPT !.op = "undefined"] /\ UNCHANGED mem
  /\ UNCHANGED held

\* nl_cache_remove() of an object the program owns a reference to
CacheRemove(o) ==
  /\ Idle
  /\ held[o] > 0
  /\ mem' = NlCacheRemove(mem, o)
  /\ UNCHANGED <<held, call>>

Names == {NameOf[o] : o \in Objects}

Next ==
  \/ ClearStep
  \/ ClearEnd
  \/ FillEnd
  \/ \E o \in Objects : ParseFamily(o) \/ ParseIncomplete(o)
  \/ \E c \in Caches : CacheAlloc(c) \/ CtrlAllocCache(c) \/ StartClearing(c)
  \/ \E c \in Caches, name \in Names : Search(c, name)
  \/ \E o \in Objects : FamilyAlloc(o) \/ FamilyPut(o) \/ CacheRemove(o)
  \/ \E c \in Caches, o \in Objects : CacheAdd(c, o)

\* The process is scheduled: a loop that can make a pass makes it.
Spec == Init /\ [][Next]_vars /\ WF_vars(ClearStep \/ ClearEnd)

-----------------------------------------------------------------------------
(* Properties *)

Heaps ==
  [live : SUBSET Nodes, next : [Nodes -> Nodes], prev : [Nodes -> Nodes],
   refcnt : [Objects -> Nat], cache : [Objects -> Caches \union {NoCache}],
   nitems : [Caches -> Nat], ok : BOOLEAN]

\* c_nitems and ce_refcnt, which the code declares signed, are never negative.
TypeOK ==
  /\ mem \in Heaps
  /\ held \in [Objects -> Nat]
  /\ call \in [op : {"idle", "fill", "undefined"} \union Clearing,
               cache : Caches \union {NoCache}, pos : Nodes \union {NoCache},
               tmp : Nodes \union {NoCache}, fresh : BOOLEAN]

\* No freed memory is read or written and nothing is freed twice, in any
\* order of calls: in particular by the pointer that nl_cache_clear() keeps
\* across nl_cache_remove(), and by nl_object_put() of an object whose cache
\* has gone.
MemorySafe == mem.ok

\* ce_refcnt of an object is the number of references there are: those the
\* program owns and the one of the cache it is in.  So a family that was
\* looked up outlives its cache, and one that nobody refers to is free.
RefsCounted ==
  \A o \in Objects :
    IF o \in mem.live
    THEN /\ mem.refcnt[o] = held[o] + (IF mem.cache[o] = NoCache THEN 0 ELSE 1)
         /\ mem.refcnt[o] > 0
    ELSE held[o] = 0 /\ mem.cache[o] = NoCache

\* Each cache lists exactly the objects that say they are in it, once, the
\* pointers back agree, and c_nitems is their number.
RingsHold ==
  \A c \in Caches \intersect mem.live :
    LET list == Items(mem, c)
    IN  /\ {list[i] : i \in DOMAIN list} = {o \in Objects : mem.cache[o] = c}
        /\ Len(list) = mem.nitems[c]
        /\ \A i \in 1..Len(list) - 1 : mem.prev[list[i + 1]] = list[i]
        /\ mem.prev[c] = IF list = <<>> THEN c ELSE list[Len(list)]

\* nl_cache_clear() comes to its end.
ClearEnds == call.op \in Clearing ~> call.op \notin Clearing

\* Pointers, counts and loops implement sequences of families.
Store == INSTANCE FamilyStore WITH
  open <- mem.live \intersect Caches,
  items <- [c \in Caches |-> Items(mem, c)],
  held <- held
Implements == Store!Spec
=============================================================================
