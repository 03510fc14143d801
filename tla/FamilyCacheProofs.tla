------------------------- MODULE FamilyCacheProofs --------------------------
(***************************************************************************)
(* What the functions of object.c and cache.c do to the heap, for any      *)
(* finite sets of objects and of caches.                                   *)
(*                                                                         *)
(* Whole says of a heap what a call of the library relies on and           *)
(* restores, with own[o] the number of references to o that the callers    *)
(* of the library have.  There is a lemma that says so for each function.  *)
(* Whole alone is not inductive: nl_cache_clear() keeps two pointers while *)
(* nl_cache_remove() frees objects.  CallOK adds what they point to, and   *)
(* the theorems on memory, references and rings follow from it.            *)
(*                                                                         *)
(* ListInv ties each ring to the sequence that a caller sees: walking the  *)
(* pointers from a cache meets its families in the order they were added.  *)
(* With it every step is one of FamilyStore, or none.                      *)
(***************************************************************************)
EXTENDS FamilyCache, FiniteSetTheorems, SequenceTheorems, WellFoundedInduction,
        TLAPS

USE NodesAssumption, MaxHeldAssumption DEF Nodes

InCache(m, c) == {o \in Objects : m.cache[o] = c}
Cached(m) == {o \in Objects : m.cache[o] # NoCache}

\* The nodes that are in a ring, and the head of the ring they are in.
Linked(m) == (m.live \intersect Caches) \union Cached(m)
Home(m, n) == IF n \in Caches THEN n ELSE m.cache[n]

\* The nodes that a walk from a cache can come to, the cache freed or not.
Reached(m) == Cached(m) \union Caches

Counted(m, own) ==
  \A o \in Objects :
    IF o \in m.live
    THEN /\ m.refcnt[o] = own[o] + (IF m.cache[o] = NoCache THEN 0 ELSE 1)
         /\ m.refcnt[o] > 0
    ELSE own[o] = 0 /\ m.cache[o] = NoCache

\* The pointers of linked nodes are each other's inverse and stay in the ring.
Rings(m) ==
  /\ \A o \in Cached(m) : m.cache[o] \in m.live
  /\ \A n \in Linked(m) :
       /\ m.next[n] \in Linked(m) /\ m.prev[m.next[n]] = n
       /\ m.prev[n] \in Linked(m) /\ m.next[m.prev[n]] = n
       /\ Home(m, m.next[n]) = Home(m, n)
       /\ Home(m, m.prev[n]) = Home(m, n)

\* No ring goes round without a cache: along next, objects come in an order.
Ordered(m, rank) ==
  \A o \in Cached(m) : m.next[o] \in Objects => rank[o] < rank[m.next[o]]
Ranked(m) == \E rank \in [Objects -> Nat] : Ordered(m, rank)

Sized(m) ==
  \A c \in m.live \intersect Caches : m.nitems[c] = Cardinality(InCache(m, c))

Owners == [Objects -> Nat]
OneMore(own, o) == [own EXCEPT ![o] = @ + 1]

Sound(m, own) ==
  m \in Heaps /\ m.ok /\ Counted(m, own) /\ Rings(m) /\ Ranked(m)

Whole(m, own) == Sound(m, own) /\ Sized(m)

-----------------------------------------------------------------------------
(* Allocation and references *)

LEMMA TouchLive ==
  ASSUME NEW m \in Heaps, NEW nodes, nodes \subseteq m.live
  PROVE  Touch(m, nodes) = m
BY DEF Touch, Heaps

LEMMA FreedFields ==
  ASSUME NEW m \in Heaps, NEW n \in Nodes, n \in m.live
  PROVE  LET h == Freed(m, n)
         IN  /\ h \in Heaps
             /\ h.live = m.live \ {n} /\ h.ok = m.ok
             /\ h.next = [m.next EXCEPT ![n] = n]
             /\ h.prev = [m.prev EXCEPT ![n] = n]
             /\ h.refcnt = m.refcnt /\ h.cache = m.cache /\ h.nitems = m.nitems
<1>1. Touch(m, {n}) = m
  BY TouchLive
<1> DEFINE g == [m EXCEPT !.live = @ \ {n}]
           next == [m.next EXCEPT ![n] = n]
           prev == [m.prev EXCEPT ![n] = n]
           h == Freed(m, n)
<1>2. next \in [Nodes -> Nodes] /\ prev \in [Nodes -> Nodes]
  BY DEF Heaps
<1>3. /\ g \in Heaps /\ g.live = m.live \ {n} /\ g.ok = m.ok
      /\ g.next = m.next /\ g.prev = m.prev
      /\ g.refcnt = m.refcnt /\ g.cache = m.cache /\ g.nitems = m.nitems
  BY DEF Heaps
<1>4. h = InitList(g, n)
  BY <1>1, Zenon DEF Freed
<1> HIDE DEF g
<1>5. h = [g EXCEPT !.next = next, !.prev = prev]
  BY <1>3, <1>4, Zenon DEF InitList
<1> HIDE DEF next, prev, h
<1>6. /\ h \in Heaps
      /\ h.live = g.live /\ h.ok = g.ok /\ h.next = next /\ h.prev = prev
      /\ h.refcnt = g.refcnt /\ h.cache = g.cache /\ h.nitems = g.nitems
  BY <1>2, <1>3, <1>5 DEF Heaps
<1> QED
  BY <1>3, <1>6 DEF h, next, prev

LEMMA AddTailFields ==
  ASSUME NEW m \in Heaps, NEW n \in Nodes, NEW head \in Nodes,
         {n, head, m.prev[head]} \subseteq m.live
  PROVE  LET h == AddTail(m, n, head)
             last == m.prev[head]
         IN  /\ h \in Heaps
             /\ h.live = m.live /\ h.ok = m.ok
             /\ h.next = [m.next EXCEPT ![last] = n, ![n] = head]
             /\ h.prev = [m.prev EXCEPT ![n] = last, ![head] = n]
             /\ h.refcnt = m.refcnt /\ h.cache = m.cache /\ h.nitems = m.nitems
<1>1. Touch(m, {n, head, m.prev[head]}) = m
  BY TouchLive
<1> DEFINE last == m.prev[head]
           next == [m.next EXCEPT ![last] = n, ![n] = head]
           prev == [m.prev EXCEPT ![n] = last, ![head] = n]
           h == AddTail(m, n, head)
<1>2. next \in [Nodes -> Nodes] /\ prev \in [Nodes -> Nodes]
  BY DEF Heaps
<1>3. h = [m EXCEPT !.next[last] = n, !.next[n] = head,
                    !.prev[n] = last, !.prev[head] = n]
  BY <1>1, Zenon DEF AddTail
<1>4. h = [m EXCEPT !.next = next, !.prev = prev]
  BY <1>3 DEF Heaps
<1> HIDE DEF next, prev, h
<1>5. /\ h \in Heaps
      /\ h.live = m.live /\ h.ok = m.ok /\ h.next = next /\ h.prev = prev
      /\ h.refcnt = m.refcnt /\ h.cache = m.cache /\ h.nitems = m.nitems
  BY <1>2, <1>4 DEF Heaps
<1> QED
  BY <1>5 DEF h, next, prev, last

LEMMA DelFields ==
  ASSUME NEW m \in Heaps, NEW n \in Nodes,
         {n, m.next[n], m.prev[n]} \subseteq m.live
  PROVE  LET h == Del(m, n)
         IN  /\ h \in Heaps
             /\ h.live = m.live /\ h.ok = m.ok
             /\ h.next = [m.next EXCEPT ![m.prev[n]] = m.next[n]]
             /\ h.prev = [m.prev EXCEPT ![m.next[n]] = m.prev[n]]
             /\ h.refcnt = m.refcnt /\ h.cache = m.cache /\ h.nitems = m.nitems
<1>1. Touch(m, {n, m.next[n], m.prev[n]}) = m
  BY TouchLive
<1> DEFINE next == [m.next EXCEPT ![m.prev[n]] = m.next[n]]
           prev == [m.prev EXCEPT ![m.next[n]] = m.prev[n]]
           h == Del(m, n)
<1>2. next \in [Nodes -> Nodes] /\ prev \in [Nodes -> Nodes]
  BY DEF Heaps
<1>3. h = [m EXCEPT !.next = next, !.prev = prev]
  BY <1>1, Zenon DEF Del
<1> HIDE DEF next, prev, h
<1>4. /\ h \in Heaps
      /\ h.live = m.live /\ h.ok = m.ok /\ h.next = next /\ h.prev = prev
      /\ h.refcnt = m.refcnt /\ h.cache = m.cache /\ h.nitems = m.nitems
  BY <1>2, <1>3 DEF Heaps
<1> QED
  BY <1>4 DEF h, next, prev

\* Recounted(m, o, k) is m with the reference count k for o.
Recounted(m, o, k) == [m EXCEPT !.refcnt[o] = k]

LEMMA RecountedFields ==
  ASSUME NEW m \in Heaps, NEW o \in Objects, NEW k \in Nat
  PROVE  LET h == Recounted(m, o, k)
         IN  /\ h \in Heaps
             /\ h.live = m.live /\ h.ok = m.ok /\ h.nitems = m.nitems
             /\ h.next = m.next /\ h.prev = m.prev /\ h.cache = m.cache
             /\ h.refcnt = [m.refcnt EXCEPT ![o] = k]
             /\ h.refcnt[o] = k
<1>1. [m.refcnt EXCEPT ![o] = k] \in [Objects -> Nat]
  BY DEF Heaps
<1> QED
  BY <1>1 DEF Recounted, Heaps

LEMMA GetRecounts ==
  ASSUME NEW m \in Heaps, NEW o \in Objects, o \in m.live
  PROVE  /\ m.refcnt[o] + 1 \in Nat
         /\ NlObjectGet(m, o) = Recounted(m, o, m.refcnt[o] + 1)
<1>1. Touch(m, {o}) = m
  BY TouchLive
<1>2. m.refcnt[o] \in Nat
  BY DEF Heaps
<1>3. [m EXCEPT !.refcnt[o] = @ + 1] = Recounted(m, o, m.refcnt[o] + 1)
  BY Zenon DEF Recounted
<1>4. NlObjectGet(m, o) = Recounted(m, o, m.refcnt[o] + 1)
  BY <1>1, <1>3, Zenon DEF NlObjectGet
<1> QED
  BY <1>2, <1>4

LEMMA PutRecounts ==
  ASSUME NEW m \in Heaps, NEW o \in Objects, o \in m.live, m.refcnt[o] > 0
  PROVE  /\ m.refcnt[o] - 1 \in Nat
         /\ NlObjectPut(m, o) = LET less == Recounted(m, o, m.refcnt[o] - 1)
                                IN  IF m.refcnt[o] = 1
                                    THEN NlObjectFree(less, o) ELSE less
<1>1. Touch(m, {o}) = m
  BY TouchLive
<1>2. m.refcnt[o] \in Nat
  BY DEF Heaps
<1>3. m.refcnt[o] - 1 \in Nat /\ (m.refcnt[o] - 1 <= 0 <=> m.refcnt[o] = 1)
  BY <1>2
<1> DEFINE k == m.refcnt[o] - 1
           less == Recounted(m, o, k)
<1>4. [m EXCEPT !.refcnt[o] = @ - 1] = less
  BY Zenon DEF Recounted
<1>5. k \in Nat /\ (k <= 0 <=> m.refcnt[o] = 1)
  BY <1>3
<1> HIDE DEF k
<1>6. less.refcnt[o] = k
  <2>1. less.refcnt = [m.refcnt EXCEPT ![o] = k]
    BY <1>5, RecountedFields
  <2> QED
    BY <2>1 DEF Heaps
<1> HIDE DEF less
<1>7. NlObjectPut(m, o) = IF less.refcnt[o] <= 0 THEN NlObjectFree(less, o) ELSE less
  BY <1>1, <1>4 DEF NlObjectPut
<1> QED
  BY <1>5, <1>6, <1>7 DEF less, k

\* nl_object_alloc() of unused memory gives its caller the only reference.
LEMMA AllocIsWhole ==
  ASSUME NEW m, NEW own \in Owners, Whole(m, own), NEW o \in Objects \ m.live
  PROVE  /\ Whole(NlObjectAlloc(m, o), [own EXCEPT ![o] = 1])
         /\ o \in NlObjectAlloc(m, o).live
         /\ NlObjectAlloc(m, o).live = m.live \union {o}
         /\ NlObjectAlloc(m, o).cache = m.cache /\ m.cache[o] = NoCache
         /\ Linked(NlObjectAlloc(m, o)) = Linked(m)
         /\ \A n \in Reached(m) : NlObjectAlloc(m, o).next[n] = m.next[n]
<1> DEFINE h == NlObjectAlloc(m, o)
           refs == [own EXCEPT ![o] = 1]
<1>1. /\ m \in Heaps /\ m.ok /\ Counted(m, own) /\ Rings(m) /\ Ranked(m) /\ Sized(m)
      /\ m.cache[o] = NoCache
  BY DEF Whole, Sound, Counted
<1>2. /\ h.live = m.live \union {o} /\ h.ok = m.ok /\ h.nitems = m.nitems
      /\ h.next = [m.next EXCEPT ![o] = o]
      /\ h.prev = [m.prev EXCEPT ![o] = o]
      /\ h.refcnt = [m.refcnt EXCEPT ![o] = 1]
      /\ h.cache = [m.cache EXCEPT ![o] = NoCache]
      /\ h \in Heaps
  BY <1>1 DEF NlObjectAlloc, InitList, Heaps
<1> HIDE DEF h
<1>3. h.cache = m.cache
  BY <1>1, <1>2 DEF Heaps
<1>4. Counted(h, refs)
  BY <1>1, <1>2, <1>3 DEF Counted, Heaps, Owners
<1>5. Linked(h) = Linked(m) /\ Cached(h) = Cached(m) /\ o \notin Linked(m)
  BY <1>1, <1>2, <1>3 DEF Linked, Cached
<1>6. Rings(h)
  BY <1>1, <1>2, <1>3, <1>5 DEF Rings, Home, Heaps, Linked, Cached
<1>7. Ranked(h)
  <2>1. PICK rank \in [Objects -> Nat] : Ordered(m, rank)
    BY <1>1 DEF Ranked
  <2>2. Ordered(h, rank)
    BY <1>1, <1>2, <1>5, <2>1 DEF Ordered, Heaps, Cached
  <2> QED
    BY <2>2 DEF Ranked
<1>8. Sized(h)
  BY <1>1, <1>2, <1>3 DEF Sized, InCache
<1>9. \A n \in Reached(m) : h.next[n] = m.next[n]
  BY <1>1, <1>2 DEF Heaps, Reached, Cached
<1> QED
  BY <1>1, <1>2, <1>3, <1>4, <1>5, <1>6, <1>7, <1>8, <1>9 DEF Whole, Sound, h

\* A heap that differs in reference counts and in unlinked memory only has
\* the same rings.
LEMMA SameRings ==
  ASSUME NEW m, NEW h, m \in Heaps, h \in Heaps, Rings(m), Ranked(m),
         h.cache = m.cache,
         m.live \intersect Caches = h.live \intersect Caches,
         \A n \in Linked(m) : h.next[n] = m.next[n] /\ h.prev[n] = m.prev[n]
  PROVE  Rings(h) /\ Ranked(h)
<1>1. Linked(h) = Linked(m) /\ Cached(h) = Cached(m)
  BY DEF Linked, Cached
<1>2. Rings(h)
  BY <1>1 DEF Rings, Home, Linked, Cached, Heaps
<1>3. PICK rank \in [Objects -> Nat] : Ordered(m, rank)
  BY DEF Ranked
<1>4. Ordered(h, rank)
  BY <1>1, <1>3 DEF Ordered, Linked
<1> QED
  BY <1>2, <1>4 DEF Ranked

\* nl_object_get() gives its caller one more reference.
LEMMA GetIsSound ==
  ASSUME NEW m, NEW own \in Owners, Sound(m, own),
         NEW o \in Objects, o \in m.live
  PROVE  /\ Sound(NlObjectGet(m, o), OneMore(own, o))
         /\ NlObjectGet(m, o).live = m.live
         /\ NlObjectGet(m, o).cache = m.cache
         /\ NlObjectGet(m, o).nitems = m.nitems
         /\ NlObjectGet(m, o).next = m.next
<1> DEFINE h == NlObjectGet(m, o)
           refs == OneMore(own, o)
<1>1. m \in Heaps /\ m.ok /\ Counted(m, own) /\ Rings(m) /\ Ranked(m)
  BY DEF Sound
<1>2. /\ h.live = m.live /\ h.ok /\ h.nitems = m.nitems
      /\ h.next = m.next /\ h.prev = m.prev /\ h.cache = m.cache
      /\ h.refcnt = [m.refcnt EXCEPT ![o] = @ + 1]
      /\ h \in Heaps
  BY <1>1, GetRecounts, RecountedFields
<1> HIDE DEF h
<1>3. Counted(h, refs)
  BY <1>1, <1>2 DEF Counted, Heaps, Owners, OneMore
<1>4. Rings(h) /\ Ranked(h)
  BY <1>1, <1>2, SameRings
<1> QED
  BY <1>2, <1>3, <1>4 DEF Sound, h

\* nl_object_put() takes one reference from its caller.  The object is freed
\* with the last one, and then it is in no cache.
LEMMA PutIsSound ==
  ASSUME NEW m, NEW own \in Owners, NEW o \in Objects,
         Sound(m, OneMore(own, o))
  PROVE  /\ Sound(NlObjectPut(m, o), own)
         /\ NlObjectPut(m, o).live \in {m.live, m.live \ {o}}
         /\ NlObjectPut(m, o).cache = m.cache
         /\ NlObjectPut(m, o).nitems = m.nitems
         /\ \A n \in Reached(m) : NlObjectPut(m, o).next[n] = m.next[n]
<1> DEFINE h == NlObjectPut(m, o)
           more == OneMore(own, o)
<1>1. /\ m \in Heaps /\ m.ok /\ Counted(m, more) /\ Rings(m) /\ Ranked(m)
      /\ more \in Owners /\ more = [own EXCEPT ![o] = @ + 1]
  BY DEF Sound, OneMore, Owners
<1> HIDE DEF more
<1>2. /\ o \in m.live
      /\ m.refcnt[o] = more[o] + (IF m.cache[o] = NoCache THEN 0 ELSE 1)
      /\ m.refcnt[o] \in Nat /\ own[o] \in Nat /\ more[o] = own[o] + 1
  BY <1>1 DEF Counted, Heaps, Owners
<1> DEFINE less == Recounted(m, o, m.refcnt[o] - 1)
<1>6. /\ less \in Heaps
      /\ less.live = m.live /\ less.ok /\ less.nitems = m.nitems
      /\ less.next = m.next /\ less.prev = m.prev /\ less.cache = m.cache
      /\ less.refcnt = [m.refcnt EXCEPT ![o] = m.refcnt[o] - 1]
      /\ h = IF m.refcnt[o] = 1 THEN NlObjectFree(less, o) ELSE less
  BY <1>1, <1>2, PutRecounts, RecountedFields DEF Counted
<1> HIDE DEF less
<1>3. CASE m.refcnt[o] > 1
  <2>1. /\ h.live = m.live /\ h.ok /\ h.nitems = m.nitems
        /\ h.next = m.next /\ h.prev = m.prev /\ h.cache = m.cache
        /\ h.refcnt = [m.refcnt EXCEPT ![o] = @ - 1]
        /\ h \in Heaps
    BY <1>1, <1>2, <1>3, <1>6
  <2> HIDE DEF h
  <2>2. Counted(h, own)
    BY <1>1, <1>2, <1>3, <2>1 DEF Counted, Heaps, Owners
  <2>3. Rings(h) /\ Ranked(h)
    BY <1>1, <2>1, SameRings
  <2> QED
    BY <1>1, <2>1, <2>2, <2>3 DEF Sound, h
<1>4. CASE m.refcnt[o] = 1
  <2>1. own[o] = 0 /\ m.cache[o] = NoCache
    BY <1>2, <1>4
  <2>2. /\ h.live = m.live \ {o} /\ h.ok /\ h.nitems = m.nitems
        /\ h.next = [m.next EXCEPT ![o] = o]
        /\ h.prev = [m.prev EXCEPT ![o] = o]
        /\ h.cache = m.cache
        /\ h.refcnt = [m.refcnt EXCEPT ![o] = 0]
        /\ h \in Heaps
    <3>1. h = NlObjectFree(less, o) /\ Touch(less, {o}) = less
      BY <1>2, <1>4, <1>6, TouchLive
    <3>2. less.cache[o] = NoCache
      BY <1>6, <2>1
    <3> DEFINE f == Freed(less, o)
    <3>3. o \in Nodes /\ o \in less.live
      BY <1>2, <1>6
    <3>4. /\ f \in Heaps
          /\ f.live = less.live \ {o} /\ f.ok = less.ok
          /\ f.next = [less.next EXCEPT ![o] = o]
          /\ f.prev = [less.prev EXCEPT ![o] = o]
          /\ f.refcnt = less.refcnt /\ f.cache = less.cache
          /\ f.nitems = less.nitems
      BY <1>6, <3>3, FreedFields
    <3>5. h = [f EXCEPT !.ok = IF less.cache[o] = NoCache THEN @ ELSE FALSE,
                        !.refcnt[o] = 0]
      BY <3>1, Zenon DEF NlObjectFree
    <3> HIDE DEF f
    <3>6. h = [f EXCEPT !.refcnt[o] = 0]
      BY <3>2, <3>4, <3>5 DEF Heaps
    <3>7. h = Recounted(f, o, 0)
      BY <3>6 DEF Recounted
    <3> HIDE DEF h
    <3>8. /\ h \in Heaps
           /\ h.live = f.live /\ h.ok = f.ok /\ h.nitems = f.nitems
           /\ h.next = f.next /\ h.prev = f.prev /\ h.cache = f.cache
           /\ h.refcnt = [f.refcnt EXCEPT ![o] = 0]
      BY <3>4, <3>7, RecountedFields
    <3>9. f.refcnt = [m.refcnt EXCEPT ![o] = m.refcnt[o] - 1]
      BY <1>6, <3>4
    <3>10. h.refcnt = [m.refcnt EXCEPT ![o] = 0]
      <4>1. m.refcnt \in [Objects -> Nat]
        BY <1>1 DEF Heaps
      <4> QED
        BY <3>8, <3>9, <4>1
    <3> QED
      BY <1>6, <3>4, <3>8, <3>10
  <2> HIDE DEF h
  <2>3. Counted(h, own)
    BY <1>1, <2>1, <2>2 DEF Counted, Heaps, Owners
  <2>4. o \notin Linked(m)
    BY <2>1 DEF Linked, Cached
  <2>5. \A n \in Linked(m) : h.next[n] = m.next[n] /\ h.prev[n] = m.prev[n]
    BY <1>1, <2>2, <2>4 DEF Heaps, Linked, Cached
  <2>6. Rings(h) /\ Ranked(h)
    <3>1. m.live \intersect Caches = h.live \intersect Caches
      BY <2>2
    <3> QED
      BY <1>1, <2>2, <2>5, <3>1, SameRings
  <2>7. \A n \in Reached(m) : h.next[n] = m.next[n]
    BY <1>1, <2>1, <2>2 DEF Heaps, Reached, Cached
  <2> QED
    BY <2>2, <2>3, <2>6, <2>7 DEF Sound, h
<1>5. m.refcnt[o] > 1 \/ m.refcnt[o] = 1
  BY <1>1, <1>2 DEF Counted
<1> QED
  BY <1>3, <1>4, <1>5

\* Neither changes what the caches list.
LEMMA GetIsWhole ==
  ASSUME NEW m, NEW own \in Owners, Whole(m, own),
         NEW o \in Objects, o \in m.live
  PROVE  /\ Whole(NlObjectGet(m, o), OneMore(own, o))
         /\ NlObjectGet(m, o).live = m.live
         /\ NlObjectGet(m, o).cache = m.cache
         /\ NlObjectGet(m, o).next = m.next
<1> DEFINE h == NlObjectGet(m, o)
<1>1. /\ Sound(h, OneMore(own, o)) /\ h.live = m.live
      /\ h.cache = m.cache /\ h.nitems = m.nitems /\ h.next = m.next
  BY GetIsSound DEF Whole
<1> HIDE DEF h
<1>2. Sized(h)
  BY <1>1 DEF Whole, Sized, InCache
<1> QED
  BY <1>1, <1>2 DEF Whole, h

LEMMA PutIsWhole ==
  ASSUME NEW m, NEW own \in Owners, NEW o \in Objects,
         Whole(m, OneMore(own, o))
  PROVE  /\ Whole(NlObjectPut(m, o), own)
         /\ NlObjectPut(m, o).live \in {m.live, m.live \ {o}}
         /\ NlObjectPut(m, o).cache = m.cache
         /\ \A n \in Reached(m) : NlObjectPut(m, o).next[n] = m.next[n]
<1> DEFINE h == NlObjectPut(m, o)
<1>1. /\ Sound(h, own) /\ h.live \in {m.live, m.live \ {o}}
      /\ h.cache = m.cache /\ h.nitems = m.nitems
      /\ \A n \in Reached(m) : h.next[n] = m.next[n]
  BY PutIsSound DEF Whole
<1> HIDE DEF h
<1>2. Sized(h)
  BY <1>1 DEF Whole, Sized, InCache
<1> QED
  BY <1>1, <1>2 DEF Whole, h

-----------------------------------------------------------------------------
(* Lists *)

\* nl_cache_add() of an object outside of any cache, which has a reference
\* of its own afterwards.
LEMMA AddIsWhole ==
  ASSUME NEW m, NEW own \in Owners, Whole(m, own),
         NEW o \in Objects, o \in m.live, m.cache[o] = NoCache,
         NEW c \in Caches, c \in m.live
  PROVE  /\ Whole(NlCacheAdd(m, c, o), own)
         /\ NlCacheAdd(m, c, o).live = m.live
         /\ NlCacheAdd(m, c, o).cache = [m.cache EXCEPT ![o] = c]
         /\ NlCacheAdd(m, c, o).next = [m.next EXCEPT ![m.prev[c]] = o, ![o] = c]
<1> DEFINE g == NlObjectGet(m, o)
           h == NlCacheAdd(m, c, o)
           last == m.prev[c]
<1>1. m \in Heaps /\ m.ok /\ Counted(m, own) /\ Rings(m) /\ Ranked(m) /\ Sized(m)
  BY DEF Whole, Sound
<1>2. /\ c \in Linked(m) /\ o \notin Linked(m)
      /\ last \in Linked(m) /\ m.next[last] = c /\ last # o
      /\ last \in m.live /\ last \in Nodes /\ Home(m, last) = c
  BY <1>1 DEF Rings, Linked, Home, Cached, Counted
<1>3. /\ h.live = m.live /\ h.ok
      /\ h.next = [m.next EXCEPT ![last] = o, ![o] = c]
      /\ h.prev = [m.prev EXCEPT ![o] = last, ![c] = o]
      /\ h.refcnt = [m.refcnt EXCEPT ![o] = @ + 1]
      /\ h.cache = [m.cache EXCEPT ![o] = c]
      /\ h.nitems = [m.nitems EXCEPT ![c] = @ + 1]
      /\ h \in Heaps
  <2> DEFINE got == NlObjectGet(m, o)
  <2>1. /\ got \in Heaps /\ got.live = m.live /\ got.ok /\ got.nitems = m.nitems
        /\ got.next = m.next /\ got.prev = m.prev /\ got.cache = m.cache
        /\ got.refcnt = [m.refcnt EXCEPT ![o] = @ + 1]
    BY <1>1, GetRecounts, RecountedFields
  <2> HIDE DEF got
  <2> DEFINE added == AddTail(got, o, c)
             cache == [m.cache EXCEPT ![o] = c]
             nitems == [m.nitems EXCEPT ![c] = @ + 1]
  <2>2. o \in Nodes /\ c \in Nodes /\ {o, c, got.prev[c]} \subseteq got.live
    BY <1>2, <2>1
  <2>3. /\ added \in Heaps
        /\ added.live = got.live /\ added.ok = got.ok
        /\ added.next = [got.next EXCEPT ![got.prev[c]] = o, ![o] = c]
        /\ added.prev = [got.prev EXCEPT ![o] = got.prev[c], ![c] = o]
        /\ added.refcnt = got.refcnt /\ added.cache = got.cache
        /\ added.nitems = got.nitems
    BY <2>1, <2>2, AddTailFields
  <2>4. h = [added EXCEPT !.cache[o] = c, !.nitems[c] = @ + 1]
    BY Zenon DEF NlCacheAdd, got
  <2> HIDE DEF added
  <2>5. cache \in [Objects -> Caches \union {NoCache}] /\ nitems \in [Caches -> Nat]
    BY <1>1 DEF Heaps
  <2>6. h = [added EXCEPT !.cache = cache, !.nitems = nitems]
    <3>1. added.cache = m.cache /\ added.nitems = m.nitems
      BY <2>1, <2>3
    <3> QED
      BY <2>4, <3>1, Zenon
  <2> HIDE DEF cache, nitems, h
  <2>7. /\ h \in Heaps
        /\ h.live = added.live /\ h.ok = added.ok
        /\ h.next = added.next /\ h.prev = added.prev /\ h.refcnt = added.refcnt
        /\ h.cache = cache /\ h.nitems = nitems
    BY <2>3, <2>5, <2>6 DEF Heaps
  <2> QED
    BY <2>1, <2>3, <2>7 DEF cache, nitems
<1> HIDE DEF h, last
<1>4. Counted(h, own)
  BY <1>1, <1>3 DEF Counted, Heaps, Owners
<1>5. Linked(h) = Linked(m) \union {o} /\ Cached(h) = Cached(m) \union {o}
  BY <1>1, <1>3 DEF Linked, Cached, Heaps
<1>6. Rings(h)
  <2>1. \A x \in Cached(h) : h.cache[x] \in h.live
    BY <1>1, <1>3, <1>5 DEF Rings, Cached, Heaps
  <2>2. ASSUME NEW n \in Linked(m), n # last
        PROVE  h.next[n] = m.next[n] /\ h.next[n] # o
    <3>1. n \in Nodes /\ n # o /\ m.next[n] \in Linked(m)
      BY <1>1, <1>2, <2>2 DEF Rings, Linked, Cached
    <3>2. h.next[n] = m.next[n]
      BY <1>1, <1>3, <2>2, <3>1 DEF Heaps
    <3> QED
      BY <1>2, <3>1, <3>2
  <2>3. ASSUME NEW n \in Linked(m), n # c
        PROVE  h.prev[n] = m.prev[n] /\ h.prev[n] # o
    <3>1. n \in Nodes /\ n # o /\ m.prev[n] \in Linked(m)
      BY <1>1, <1>2, <2>3 DEF Rings, Linked, Cached
    <3>2. h.prev[n] = m.prev[n]
      BY <1>1, <1>3, <2>3, <3>1 DEF Heaps
    <3> QED
      BY <1>2, <3>1, <3>2
  <2>4. h.next[last] = o /\ h.next[o] = c /\ h.prev[c] = o /\ h.prev[o] = last
    BY <1>1, <1>2, <1>3 DEF Heaps, Linked
  <2>5. /\ \A n \in Linked(m) : Home(h, n) = Home(m, n)
        /\ Home(h, o) = c /\ Home(h, c) = c
    BY <1>1, <1>2, <1>3 DEF Home, Linked, Cached, Heaps
  <2>6. \A n \in Linked(m) : n # last => m.next[n] # c
    BY <1>1, <1>2 DEF Rings, last
  <2>7. \A n \in Linked(m) : n # c => m.prev[n] # last
    BY <1>1, <1>2 DEF Rings
  <2>8. ASSUME NEW n \in Linked(h)
        PROVE  /\ h.next[n] \in Linked(h) /\ h.prev[h.next[n]] = n
               /\ h.prev[n] \in Linked(h) /\ h.next[h.prev[n]] = n
               /\ Home(h, h.next[n]) = Home(h, n)
               /\ Home(h, h.prev[n]) = Home(h, n)
    <3>1. CASE n = o
      BY <1>2, <1>5, <2>4, <2>5, <3>1
    <3>2. CASE n \in Linked(m)
      <4>1. /\ h.next[n] \in Linked(h) /\ h.prev[h.next[n]] = n
            /\ Home(h, h.next[n]) = Home(h, n)
        <5>1. CASE n = last
          BY <1>2, <1>5, <2>4, <2>5, <5>1
        <5>2. CASE n # last
          BY <1>1, <1>5, <2>2, <2>3, <2>5, <2>6, <3>2, <5>2 DEF Rings
        <5> QED
          BY <5>1, <5>2
      <4>2. /\ h.prev[n] \in Linked(h) /\ h.next[h.prev[n]] = n
            /\ Home(h, h.prev[n]) = Home(h, n)
        <5>1. CASE n = c
          BY <1>2, <1>5, <2>4, <2>5, <5>1
        <5>2. CASE n # c
          BY <1>1, <1>5, <2>2, <2>3, <2>5, <2>7, <3>2, <5>2 DEF Rings
        <5> QED
          BY <5>1, <5>2
      <4> QED
        BY <4>1, <4>2
    <3> QED
      BY <1>5, <2>8, <3>1, <3>2
  <2> QED
    BY <2>1, <2>8 DEF Rings
<1>7. Ranked(h)
  <2>1. PICK rank \in [Objects -> Nat] : Ordered(m, rank)
    BY <1>1 DEF Ranked
  <2> DEFINE below == IF last \in Objects THEN rank[last] ELSE 0
             higher == [rank EXCEPT ![o] = below + 1]
  <2>2. higher \in [Objects -> Nat] /\ o \notin Cached(m)
    BY <1>2 DEF Linked
  <2>3. ASSUME NEW x \in Cached(h), h.next[x] \in Objects
        PROVE  higher[x] < higher[h.next[x]]
    <3>1. CASE x = o
      BY <1>1, <1>2, <1>3, <2>3, <3>1 DEF Heaps
    <3>2. CASE x = last
      <4>1. h.next[x] = o /\ x # o /\ x \in Objects
        BY <1>1, <1>2, <1>3, <2>3, <3>2 DEF Heaps, Cached
      <4>2. higher[x] = rank[x] /\ higher[o] = rank[x] + 1 /\ rank[x] \in Nat
        BY <2>1, <3>2, <4>1
      <4> QED
        BY <4>1, <4>2
    <3>3. CASE x # o /\ x # last
      <4>1. x \in Cached(m) /\ h.next[x] = m.next[x] /\ m.next[x] # o /\ x \in Objects
        BY <1>1, <1>2, <1>3, <1>5, <3>3 DEF Heaps, Cached, Rings, Linked
      <4> QED
        BY <2>1, <2>3, <3>3, <4>1 DEF Ordered
    <3> QED
      BY <3>1, <3>2, <3>3
  <2>4. Ordered(h, higher)
    BY <2>3 DEF Ordered
  <2> QED
    BY <2>2, <2>4 DEF Ranked
<1>8. Sized(h)
  <2>1. ASSUME NEW d \in h.live \intersect Caches
        PROVE  h.nitems[d] = Cardinality(InCache(h, d))
    <3>1. IsFiniteSet(InCache(m, d)) /\ o \notin InCache(m, d)
      BY FiniteAssumption, FS_Subset DEF InCache
    <3>2. CASE d = c
      <4>1. InCache(h, d) = InCache(m, d) \union {o}
        BY <1>1, <1>3, <3>2 DEF InCache, Heaps
      <4>2. Cardinality(InCache(h, d)) = Cardinality(InCache(m, d)) + 1
        BY <3>1, <4>1, FS_AddElement
      <4> QED
        BY <1>1, <1>3, <3>2, <4>2 DEF Sized, Heaps
    <3>3. CASE d # c
      <4>1. InCache(h, d) = InCache(m, d)
        BY <1>1, <1>3, <3>3 DEF InCache, Heaps
      <4> QED
        BY <1>1, <1>3, <2>1, <3>3, <4>1 DEF Sized, Heaps
    <3> QED
      BY <3>2, <3>3
  <2> QED
    BY <2>1 DEF Sized
<1> QED
  BY <1>3, <1>4, <1>6, <1>7, <1>8 DEF Whole, Sound, h, last

\* An object is never linked with itself.
LEMMA NoSelfLoop ==
  ASSUME NEW m, m \in Heaps, Rings(m), Ranked(m), NEW o \in Cached(m)
  PROVE  m.next[o] # o /\ m.prev[o] # o
<1>1. PICK rank \in [Objects -> Nat] : Ordered(m, rank)
  BY DEF Ranked
<1>2. o \in Objects /\ rank[o] \in Nat
  BY DEF Cached
<1>3. m.next[o] # o
  BY <1>1, <1>2 DEF Ordered
<1> QED
  BY <1>3 DEF Rings, Linked

\* Unlinked(m, o): nl_cache_remove() before it gives back the reference of
\* the list, which is its caller's in between.
Unlinked(m, o) == [Del(m, o) EXCEPT !.cache[o] = NoCache]

LEMMA UnlinkIsSound ==
  ASSUME NEW m, NEW own \in Owners, Sound(m, own), NEW o \in Cached(m)
  PROVE  LET h == Unlinked(m, o)
         IN  /\ Sound(h, OneMore(own, o))
             /\ h.live = m.live /\ h.nitems = m.nitems
             /\ h.cache = [m.cache EXCEPT ![o] = NoCache]
             /\ h.next = [m.next EXCEPT ![m.prev[o]] = m.next[o]]
             /\ Linked(h) = Linked(m) \ {o}
<1> DEFINE h == Unlinked(m, o)
           p == m.prev[o]
           q == m.next[o]
           refs == OneMore(own, o)
<1>1. m \in Heaps /\ m.ok /\ Counted(m, own) /\ Rings(m) /\ Ranked(m)
  BY DEF Sound
<1>2. /\ o \in Objects /\ o \in Nodes /\ o \in m.live /\ m.cache[o] # NoCache
      /\ o \in Linked(m)
      /\ p \in Linked(m) /\ q \in Linked(m) /\ p \in Nodes /\ q \in Nodes
      /\ p \in m.live /\ q \in m.live
      /\ p # o /\ q # o /\ m.next[p] = o /\ m.prev[q] = o
      /\ Home(m, p) = Home(m, o) /\ Home(m, q) = Home(m, o)
  BY <1>1, NoSelfLoop DEF Counted, Cached, Rings, Linked
<1>3. /\ h.live = m.live /\ h.ok /\ h.nitems = m.nitems
      /\ h.next = [m.next EXCEPT ![p] = q]
      /\ h.prev = [m.prev EXCEPT ![q] = p]
      /\ h.refcnt = m.refcnt
      /\ h.cache = [m.cache EXCEPT ![o] = NoCache]
      /\ h \in Heaps
  <2> DEFINE d == Del(m, o)
             cache == [m.cache EXCEPT ![o] = NoCache]
  <2>1. /\ d \in Heaps
        /\ d.live = m.live /\ d.ok = m.ok
        /\ d.next = [m.next EXCEPT ![p] = q]
        /\ d.prev = [m.prev EXCEPT ![q] = p]
        /\ d.refcnt = m.refcnt /\ d.cache = m.cache /\ d.nitems = m.nitems
    <3>1. {o, m.next[o], m.prev[o]} \subseteq m.live
      BY <1>2
    <3> QED
      BY <1>1, <1>2, <3>1, DelFields
  <2>2. cache \in [Objects -> Caches \union {NoCache}]
    BY <1>1 DEF Heaps
  <2>3. h = [d EXCEPT !.cache = cache]
    BY <2>1, Zenon DEF Unlinked
  <2> HIDE DEF d, cache, h
  <2>4. /\ h \in Heaps
        /\ h.live = d.live /\ h.ok = d.ok /\ h.nitems = d.nitems
        /\ h.next = d.next /\ h.prev = d.prev /\ h.refcnt = d.refcnt
        /\ h.cache = cache
    BY <2>1, <2>2, <2>3 DEF Heaps
  <2> QED
    BY <1>1, <2>1, <2>4 DEF cache
<1> HIDE DEF h, p, q
<1>4. Counted(h, refs)
  BY <1>1, <1>2, <1>3 DEF Counted, Heaps, Owners, OneMore
<1>5. Linked(h) = Linked(m) \ {o} /\ Cached(h) = Cached(m) \ {o}
  BY <1>1, <1>2, <1>3 DEF Linked, Cached, Heaps
<1>6. Rings(h)
  <2>1. \A x \in Cached(h) : h.cache[x] \in h.live
    BY <1>1, <1>3, <1>5 DEF Rings, Cached, Heaps
  <2>2. ASSUME NEW n \in Linked(h), n # p
        PROVE  h.next[n] = m.next[n] /\ m.next[n] # o /\ m.next[n] # q
    <3>1. n \in Nodes /\ n \in Linked(m) /\ n # o
      BY <1>5, <2>2 DEF Linked, Cached
    <3>2. h.next[n] = m.next[n]
      BY <1>1, <1>3, <2>2, <3>1 DEF Heaps
    <3>3. m.next[n] # o /\ m.next[n] # q
      BY <1>1, <1>2, <2>2, <3>1 DEF Rings, p
    <3> QED
      BY <3>2, <3>3
  <2>3. ASSUME NEW n \in Linked(h), n # q
        PROVE  h.prev[n] = m.prev[n] /\ m.prev[n] # o /\ m.prev[n] # p
    <3>1. n \in Nodes /\ n \in Linked(m) /\ n # o
      BY <1>5, <2>3 DEF Linked, Cached
    <3>2. h.prev[n] = m.prev[n]
      BY <1>1, <1>3, <2>3, <3>1 DEF Heaps
    <3>3. m.prev[n] # o /\ m.prev[n] # p
      BY <1>1, <1>2, <2>3, <3>1 DEF Rings, q
    <3> QED
      BY <3>2, <3>3
  <2>4. h.next[p] = q /\ h.prev[q] = p
    BY <1>1, <1>2, <1>3 DEF Heaps
  <2>5. \A n \in Linked(h) : Home(h, n) = Home(m, n) /\ n \in Linked(m)
    BY <1>1, <1>3, <1>5 DEF Home, Linked, Cached, Heaps
  <2>6. p \in Linked(h) /\ q \in Linked(h)
    BY <1>2, <1>5
  <2>7. ASSUME NEW n \in Linked(h)
        PROVE  /\ h.next[n] \in Linked(h) /\ h.prev[h.next[n]] = n
               /\ Home(h, h.next[n]) = Home(h, n)
    <3>1. CASE n = p
      BY <1>2, <2>4, <2>5, <2>6, <3>1
    <3>2. CASE n # p
      <4>1. h.next[n] = m.next[n] /\ m.next[n] # o /\ m.next[n] # q
        BY <2>2, <3>2
      <4>2. /\ m.next[n] \in Linked(m) /\ m.prev[m.next[n]] = n
            /\ Home(m, m.next[n]) = Home(m, n)
        BY <1>1, <2>5 DEF Rings
      <4> QED
        BY <1>5, <2>3, <2>5, <4>1, <4>2
    <3> QED
      BY <3>1, <3>2
  <2>8. ASSUME NEW n \in Linked(h)
        PROVE  /\ h.prev[n] \in Linked(h) /\ h.next[h.prev[n]] = n
               /\ Home(h, h.prev[n]) = Home(h, n)
    <3>1. CASE n = q
      BY <1>2, <2>4, <2>5, <2>6, <3>1
    <3>2. CASE n # q
      <4>1. h.prev[n] = m.prev[n] /\ m.prev[n] # o /\ m.prev[n] # p
        BY <2>3, <3>2
      <4>2. /\ m.prev[n] \in Linked(m) /\ m.next[m.prev[n]] = n
            /\ Home(m, m.prev[n]) = Home(m, n)
        BY <1>1, <2>5 DEF Rings
      <4> QED
        BY <1>5, <2>2, <2>5, <4>1, <4>2
    <3> QED
      BY <3>1, <3>2
  <2> QED
    BY <2>1, <2>7, <2>8 DEF Rings
<1>7. Ranked(h)
  <2>1. PICK rank \in [Objects -> Nat] : Ordered(m, rank)
    BY <1>1 DEF Ranked
  <2>2. ASSUME NEW x \in Cached(h), h.next[x] \in Objects
        PROVE  rank[x] < rank[h.next[x]]
    <3>1. x \in Cached(m) /\ x \in Objects /\ x \in Nodes
      BY <1>5 DEF Cached
    <3>2. CASE x = p
      <4>1. h.next[x] = q /\ q \in Objects
        BY <1>1, <1>2, <1>3, <2>2, <3>2 DEF Heaps
      <4>2. rank[x] < rank[o] /\ rank[o] < rank[q]
        BY <1>2, <2>1, <3>1, <3>2, <4>1 DEF Ordered, q
      <4>3. rank[x] \in Nat /\ rank[o] \in Nat /\ rank[q] \in Nat
        BY <1>2, <3>1, <4>1
      <4> QED
        BY <4>1, <4>2, <4>3
    <3>3. CASE x # p
      <4>1. h.next[x] = m.next[x]
        BY <1>1, <1>3, <3>1, <3>3 DEF Heaps
      <4> QED
        BY <2>1, <2>2, <3>1, <4>1 DEF Ordered
    <3> QED
      BY <3>2, <3>3
  <2> QED
    BY <2>2 DEF Ranked, Ordered
<1> QED
  BY <1>3, <1>4, <1>5, <1>6, <1>7 DEF Sound, h, p, q

LEMMA SizeIsPositive ==
  ASSUME NEW m, m \in Heaps, NEW c \in Caches, NEW o \in InCache(m, c)
  PROVE  /\ Cardinality(InCache(m, c)) \in Nat \ {0}
         /\ Cardinality(InCache(m, c) \ {o}) = Cardinality(InCache(m, c)) - 1
<1>1. IsFiniteSet(InCache(m, c))
  BY FiniteAssumption, FS_Subset DEF InCache
<1>2. Cardinality(InCache(m, c)) \in Nat /\ Cardinality(InCache(m, c)) # 0
  BY <1>1, FS_CardinalityType, FS_EmptySet
<1> QED
  BY <1>1, <1>2, FS_RemoveElement

\* nl_cache_remove() takes an object out of its cache, if it is in one, with
\* the reference of the list.
LEMMA RemoveIsWhole ==
  ASSUME NEW m, NEW own \in Owners, Whole(m, own),
         NEW o \in Objects, o \in m.live
  PROVE  LET h == NlCacheRemove(m, o)
         IN  /\ Whole(h, own)
             /\ h.live \in {m.live, m.live \ {o}}
             /\ h.cache = [m.cache EXCEPT ![o] = NoCache]
             /\ o \in Cached(m) =>
                  \A n \in Reached(m) \ {o} :
                     h.next[n] = IF n = m.prev[o] THEN m.next[o] ELSE m.next[n]
             /\ o \notin Cached(m) => h = m
<1> DEFINE h == NlCacheRemove(m, o)
           c == m.cache[o]
<1>1. /\ m \in Heaps /\ m.ok /\ Counted(m, own) /\ Rings(m) /\ Ranked(m)
      /\ Sized(m) /\ Sound(m, own) /\ Touch(m, {o}) = m
  BY TouchLive DEF Whole, Sound
<1>2. CASE c = NoCache
  <2>1. h = m
    BY <1>1, <1>2 DEF NlCacheRemove
  <2>2. m.cache = [m.cache EXCEPT ![o] = NoCache]
    BY <1>1, <1>2 DEF Heaps
  <2> QED
    BY <1>1, <1>2, <2>1, <2>2 DEF Cached
<1>3. CASE c # NoCache
  <2> DEFINE out == Unlinked(m, o)
             put == NlObjectPut(out, o)
             nitems == [m.nitems EXCEPT ![c] = @ - 1]
  <2>1. o \in Cached(m) /\ c \in Caches /\ c \in m.live /\ o \in InCache(m, c)
    BY <1>1, <1>3 DEF Cached, Rings, Heaps, InCache
  <2>2. /\ Sound(out, OneMore(own, o))
        /\ out.live = m.live /\ out.nitems = m.nitems
        /\ out.cache = [m.cache EXCEPT ![o] = NoCache]
        /\ out.next = [m.next EXCEPT ![m.prev[o]] = m.next[o]]
        /\ Linked(out) = Linked(m) \ {o}
    BY <1>1, <2>1, UnlinkIsSound
  <2>3. h = [Touch(put, {c}) EXCEPT !.nitems[c] = @ - 1]
    BY <1>1, <1>3, Zenon DEF NlCacheRemove, Unlinked
  <2> HIDE DEF out
  <2>5. /\ Sound(put, own)
        /\ put.live \in {m.live, m.live \ {o}}
        /\ put.cache = out.cache /\ put.nitems = m.nitems
        /\ \A n \in Reached(out) : put.next[n] = out.next[n]
    <3>1. \A w \in Owners : \A p \in Objects : \A x : Sound(x, OneMore(w, p)) =>
             /\ Sound(NlObjectPut(x, p), w)
             /\ NlObjectPut(x, p).live \in {x.live, x.live \ {p}}
      BY PutIsSound
    <3>2. \A w \in Owners : \A p \in Objects : \A x : Sound(x, OneMore(w, p)) =>
             /\ NlObjectPut(x, p).cache = x.cache
             /\ NlObjectPut(x, p).nitems = x.nitems
      BY PutIsSound
    <3>3. \A w \in Owners : \A p \in Objects : \A x : Sound(x, OneMore(w, p)) =>
             \A n \in Reached(x) : NlObjectPut(x, p).next[n] = x.next[n]
      BY PutIsSound
    <3>4. Sound(out, OneMore(own, o))
      BY <2>2
    <3>5. put = NlObjectPut(out, o)
      OBVIOUS
    <3> HIDE DEF put
    <3>6. Sound(put, own)
      BY <3>1, <3>4, <3>5
    <3>7. put.live \in {out.live, out.live \ {o}}
      BY <3>1, <3>4, <3>5
    <3>8. put.cache = out.cache /\ put.nitems = out.nitems
      BY <3>2, <3>4, <3>5
    <3>9. \A n \in Reached(out) : put.next[n] = out.next[n]
      BY <3>3, <3>4, <3>5
    <3> QED
      BY <2>2, <3>6, <3>7, <3>8, <3>9
  <2> HIDE DEF put
  <2>6. /\ put \in Heaps /\ put.ok /\ Counted(put, own) /\ Rings(put)
        /\ Ranked(put) /\ Touch(put, {c}) = put
    BY <2>1, <2>5, TouchLive DEF Sound
  <2>7. nitems \in [Caches -> Nat]
    <3>1. m.nitems[c] = Cardinality(InCache(m, c))
      BY <1>1, <2>1 DEF Sized
    <3>2. Cardinality(InCache(m, c)) \in Nat \ {0}
      BY <1>1, <2>1, SizeIsPositive
    <3>3. m.nitems[c] - 1 \in Nat
      BY <3>1, <3>2
    <3>4. m.nitems \in [Caches -> Nat]
      BY <1>1 DEF Heaps
    <3> QED
      BY <2>1, <3>3, <3>4
  <2>8. h = [put EXCEPT !.nitems = nitems]
    BY <2>3, <2>5, <2>6, Zenon
  <2> HIDE DEF nitems, h
  <2>9. /\ h \in Heaps
        /\ h.live = put.live /\ h.ok = put.ok /\ h.nitems = nitems
        /\ h.next = put.next /\ h.prev = put.prev /\ h.refcnt = put.refcnt
        /\ h.cache = put.cache
    BY <2>6, <2>7, <2>8 DEF Heaps
  <2>10. Counted(h, own) /\ Rings(h) /\ Ranked(h) /\ h.ok
    <3>1. Rings(h) /\ Ranked(h)
      BY <2>6, <2>9, SameRings
    <3>2. Counted(h, own)
      BY <2>6, <2>9 DEF Counted
    <3> QED
      BY <2>6, <2>9, <3>1, <3>2
  <2>11. Sized(h)
    <3>1. ASSUME NEW d \in h.live \intersect Caches
          PROVE  h.nitems[d] = Cardinality(InCache(h, d))
      <4>1. d \in m.live /\ d \in Caches
        BY <2>5, <2>9
      <4>2. CASE d = c
        <5>1. InCache(h, d) = InCache(m, c) \ {o}
          BY <1>1, <1>3, <2>2, <2>5, <2>9, <4>2 DEF InCache, Heaps
        <5>2. h.nitems[d] = m.nitems[c] - 1
          BY <1>1, <2>1, <2>9, <4>2 DEF nitems, Heaps
        <5> QED
          BY <1>1, <2>1, <4>1, <5>1, <5>2, SizeIsPositive DEF Sized
      <4>3. CASE d # c
        <5>1. InCache(h, d) = InCache(m, d)
          BY <1>1, <2>2, <2>5, <2>9, <4>1, <4>3 DEF InCache, Heaps
        <5>2. h.nitems[d] = m.nitems[d]
          BY <1>1, <2>9, <4>1, <4>3 DEF nitems, Heaps
        <5> QED
          BY <1>1, <4>1, <5>1, <5>2 DEF Sized
      <4> QED
        BY <4>2, <4>3
    <3> QED
      BY <3>1 DEF Sized
  <2>12. \A n \in Reached(m) \ {o} :
            h.next[n] = IF n = m.prev[o] THEN m.next[o] ELSE m.next[n]
    <3>1. \A n \in Reached(m) : n \in Nodes
      BY DEF Reached, Cached
    <3>2. Reached(m) \ {o} \subseteq Reached(out)
      BY <1>1, <2>2 DEF Reached, Cached, Heaps
    <3> QED
      BY <1>1, <2>2, <2>5, <2>9, <3>1, <3>2 DEF Heaps
  <2>13. h.cache = [m.cache EXCEPT ![o] = NoCache]
    BY <2>2, <2>5, <2>9
  <2> QED
    BY <1>3, <2>1, <2>5, <2>9, <2>10, <2>11, <2>12, <2>13 DEF Whole, Sound, h
<1> QED
  BY <1>2, <1>3

-----------------------------------------------------------------------------
(* Caches *)

\* Every set of natural numbers that is not empty has a least element.
LEMMA LeastNat ==
  ASSUME NEW T \in SUBSET Nat, T # {}
  PROVE  \E x \in T : \A y \in T : x <= y
<1> DEFINE R == OpToRel(<, Nat)
<1>1. IsWellFoundedOn(R, Nat)
  BY NatLessThanWellFounded
<1>2. \A y, x \in Nat : <<y, x>> \in R <=> y < x
  BY DEF OpToRel
<1> HIDE DEF R
<1>3. PICK x \in T : \A y \in T : <<y, x>> \notin R
  BY <1>1, WFMin
<1>4. ASSUME NEW y \in T PROVE x <= y
  <2>1. x \in Nat /\ y \in Nat
    OBVIOUS
  <2>2. ~(y < x)
    BY <1>2, <1>3, <2>1
  <2> QED
    BY <2>1, <2>2
<1> QED
  BY <1>4

\* A head that is linked with itself is the head of an empty list: otherwise
\* the first object of the list would come after another one.
LEMMA EmptyRing ==
  ASSUME NEW m, m \in Heaps, Rings(m), Ranked(m),
         NEW c \in Caches, c \in m.live, m.next[c] = c
  PROVE  InCache(m, c) = {}
<1> SUFFICES ASSUME InCache(m, c) # {} PROVE FALSE
  OBVIOUS
<1>1. PICK rank \in [Objects -> Nat] : Ordered(m, rank)
  BY DEF Ranked
<1>2. PICK o \in InCache(m, c) : \A x \in InCache(m, c) : rank[o] <= rank[x]
  <2> DEFINE T == {rank[x] : x \in InCache(m, c)}
  <2>1. T \in SUBSET Nat /\ T # {}
    BY DEF InCache
  <2>2. PICK r \in T : \A y \in T : r <= y
    BY <2>1, LeastNat
  <2> QED
    BY <2>2
<1>3. /\ o \in Linked(m) /\ c \in Linked(m) /\ o \notin Caches
      /\ o \in Objects /\ Home(m, o) = c
  BY DEF InCache, Linked, Cached, Home
<1>4. /\ m.prev[o] \in Linked(m) /\ m.next[m.prev[o]] = o
      /\ Home(m, m.prev[o]) = c
  BY <1>3 DEF Rings
<1>5. m.prev[o] \notin Caches
  BY <1>3, <1>4 DEF Home
<1>6. m.prev[o] \in InCache(m, c) /\ m.prev[o] \in Cached(m)
  BY <1>4, <1>5 DEF Home, Linked, Cached, InCache
<1>7. rank[m.prev[o]] < rank[o]
  BY <1>1, <1>3, <1>4, <1>6 DEF Ordered
<1>8. rank[m.prev[o]] \in Nat /\ rank[o] \in Nat
  BY <1>3, <1>6 DEF InCache
<1> QED
  BY <1>2, <1>6, <1>7, <1>8

\* nl_cache_alloc() of unused memory makes an empty list.
LEMMA CacheAllocIsWhole ==
  ASSUME NEW m, NEW own \in Owners, Whole(m, own), NEW c \in Caches \ m.live
  PROVE  /\ Whole(NlCacheAlloc(m, c), own)
         /\ NlCacheAlloc(m, c).live = m.live \union {c}
         /\ NlCacheAlloc(m, c).next[c] = c
         /\ NlCacheAlloc(m, c).next = [m.next EXCEPT ![c] = c]
         /\ NlCacheAlloc(m, c).cache = m.cache
         /\ InCache(m, c) = {}
<1> DEFINE h == NlCacheAlloc(m, c)
<1>1. m \in Heaps /\ m.ok /\ Counted(m, own) /\ Rings(m) /\ Ranked(m) /\ Sized(m)
  BY DEF Whole, Sound
<1>2. /\ h.live = m.live \union {c} /\ h.ok = m.ok
      /\ h.next = [m.next EXCEPT ![c] = c]
      /\ h.prev = [m.prev EXCEPT ![c] = c]
      /\ h.refcnt = m.refcnt /\ h.cache = m.cache
      /\ h.nitems = [m.nitems EXCEPT ![c] = 0]
      /\ h \in Heaps
  BY <1>1 DEF NlCacheAlloc, InitList, Heaps
<1> HIDE DEF h
<1>3. Linked(h) = Linked(m) \union {c} /\ Cached(h) = Cached(m) /\ c \notin Linked(m)
  BY <1>1, <1>2 DEF Linked, Cached
<1>4. InCache(m, c) = {}
  BY <1>1 DEF InCache, Rings, Cached
<1>5. Counted(h, own)
  BY <1>1, <1>2 DEF Counted
<1>6. /\ \A n \in Linked(m) : n \in Nodes /\ h.next[n] = m.next[n] /\ h.prev[n] = m.prev[n]
      /\ h.next[c] = c /\ h.prev[c] = c
  BY <1>1, <1>2, <1>3 DEF Heaps, Linked, Cached
<1>7. Rings(h)
  <2>1. \A x \in Cached(h) : h.cache[x] \in h.live
    BY <1>1, <1>2, <1>3 DEF Rings
  <2>2. \A n \in Linked(h) : Home(h, n) = Home(m, n)
    BY <1>2 DEF Home
  <2> QED
    BY <1>1, <1>3, <1>6, <2>1, <2>2 DEF Rings
<1>8. Ranked(h)
  <2>1. PICK rank \in [Objects -> Nat] : Ordered(m, rank)
    BY <1>1 DEF Ranked
  <2>2. Ordered(h, rank)
    BY <1>3, <1>6, <2>1 DEF Ordered, Linked
  <2> QED
    BY <2>2 DEF Ranked
<1>9. Sized(h)
  <2>1. \A d \in Caches : InCache(h, d) = InCache(m, d)
    BY <1>2 DEF InCache
  <2>2. h.nitems[c] = Cardinality(InCache(h, c))
    <3>1. InCache(h, c) = {}
      BY <1>4, <2>1
    <3>2. h.nitems[c] = 0
      BY <1>1, <1>2 DEF Heaps
    <3> QED
      BY <3>1, <3>2, FS_EmptySet
  <2>3. \A d \in m.live \intersect Caches : h.nitems[d] = m.nitems[d]
    BY <1>1, <1>2 DEF Heaps
  <2> QED
    BY <1>1, <1>2, <2>1, <2>2, <2>3 DEF Sized
<1> QED
  BY <1>1, <1>2, <1>4, <1>5, <1>6, <1>7, <1>8, <1>9 DEF Whole, Sound, h

\* free() of a cache whose list is empty leaves no pointer to it.
LEMMA CacheFreeIsWhole ==
  ASSUME NEW m, NEW own \in Owners, Whole(m, own),
         NEW c \in Caches, c \in m.live, m.next[c] = c
  PROVE  Whole(Freed(m, c), own)
<1> DEFINE h == Freed(m, c)
<1>1. m \in Heaps /\ m.ok /\ Counted(m, own) /\ Rings(m) /\ Ranked(m) /\ Sized(m)
  BY DEF Whole, Sound
<1>2. /\ h \in Heaps
      /\ h.live = m.live \ {c} /\ h.ok = m.ok
      /\ h.next = [m.next EXCEPT ![c] = c]
      /\ h.prev = [m.prev EXCEPT ![c] = c]
      /\ h.refcnt = m.refcnt /\ h.cache = m.cache /\ h.nitems = m.nitems
  BY <1>1, FreedFields
<1> HIDE DEF h
<1>3. InCache(m, c) = {} /\ c \in Linked(m) /\ m.prev[c] = c
  BY <1>1, EmptyRing DEF Linked, Rings
<1>4. Linked(h) = Linked(m) \ {c} /\ Cached(h) = Cached(m)
  BY <1>1, <1>2 DEF Linked, Cached
<1>5. Counted(h, own)
  BY <1>1, <1>2 DEF Counted
<1>6. \A n \in Linked(h) : /\ n \in Linked(m)
                           /\ h.next[n] = m.next[n] /\ h.prev[n] = m.prev[n]
                           /\ m.next[n] # c /\ m.prev[n] # c
  BY <1>1, <1>2, <1>3, <1>4 DEF Heaps, Linked, Cached, Rings
<1>7. Rings(h)
  <2>1. \A x \in Cached(h) : h.cache[x] \in h.live
    BY <1>1, <1>2, <1>3, <1>4 DEF Rings, Cached, InCache
  <2>2. \A n : Home(h, n) = Home(m, n)
    BY <1>2 DEF Home
  <2> QED
    BY <1>1, <1>4, <1>6, <2>1, <2>2 DEF Rings
<1>8. Ranked(h)
  <2>1. PICK rank \in [Objects -> Nat] : Ordered(m, rank)
    BY <1>1 DEF Ranked
  <2>2. Cached(h) \subseteq Linked(h)
    BY DEF Linked
  <2>3. Ordered(h, rank)
    BY <1>4, <1>6, <2>1, <2>2 DEF Ordered
  <2> QED
    BY <2>3 DEF Ranked
<1>9. Sized(h)
  BY <1>1, <1>2 DEF Sized, InCache
<1> QED
  BY <1>1, <1>2, <1>5, <1>7, <1>8, <1>9 DEF Whole, Sound, h

-----------------------------------------------------------------------------
(* The walk of a list *)

Step(next, head, p, i) == IF i = 0 THEN head ELSE next[p[i - 1]]
IsWalk(next, head, N, p) == p = [i \in 0..N |-> Step(next, head, p, i)]

\* A walk of any number of steps exists: otherwise take the shortest that
\* does not, and add its last step to the one before.
LEMMA WalkExists ==
  ASSUME NEW next \in [Nodes -> Nodes], NEW head \in Nodes, NEW N \in Nat
  PROVE  \E p : IsWalk(next, head, N, p)
<1> DEFINE Walked(k) == \E p \in [0..k -> Nodes] :
                           \A i \in 0..k : p[i] = Step(next, head, p, i)
           Bad == {k \in Nat : ~Walked(k)}
<1>1. Bad = {}
  <2> SUFFICES ASSUME Bad # {} PROVE FALSE
    OBVIOUS
  <2>1. PICK k \in Bad : \A j \in Bad : k <= j
    BY LeastNat
  <2>8. \A j : j \in Bad <=> j \in Nat /\ ~Walked(j)
    OBVIOUS
  <2> HIDE DEF Walked, Bad
  <2>2. k # 0
    <3> DEFINE p == [i \in 0..0 |-> head]
    <3>1. p \in [0..0 -> Nodes] /\ \A i \in 0..0 : p[i] = Step(next, head, p, i)
      BY DEF Step
    <3>2. Walked(0)
      BY <3>1 DEF Walked
    <3> QED
      BY <2>8, <3>2
  <2>3. k - 1 \in Nat /\ k \in Nat /\ k - 1 \notin Bad
    BY <2>1, <2>2, <2>8
  <2>4. PICK p \in [0..k-1 -> Nodes] :
          \A i \in 0..k-1 : p[i] = Step(next, head, p, i)
    BY <2>3, <2>8 DEF Walked
  <2> DEFINE q == [i \in 0..k |-> IF i = k THEN next[p[k - 1]] ELSE p[i]]
  <2>5. q \in [0..k -> Nodes]
    BY <2>3
  <2>6. \A i \in 0..k : q[i] = Step(next, head, q, i)
    <3> SUFFICES ASSUME NEW i \in 0..k PROVE q[i] = Step(next, head, q, i)
      OBVIOUS
    <3>1. CASE i = k
      BY <2>2, <2>3, <3>1 DEF Step
    <3>2. CASE i # k
      BY <2>3, <2>4, <3>2 DEF Step
    <3> QED
      BY <3>1, <3>2
  <2>7. Walked(k)
    BY <2>5, <2>6 DEF Walked
  <2> QED
    BY <2>7, <2>8
<1>2. Walked(N)
  BY <1>1
<1>3. PICK p \in [0..N -> Nodes] : \A i \in 0..N : p[i] = Step(next, head, p, i)
  BY <1>2
<1>4. IsWalk(next, head, N, p)
  BY <1>3 DEF IsWalk
<1> QED
  BY <1>4

Steps(m, head, N) ==
  CHOOSE p : p = [i \in 0..N |-> IF i = 0 THEN head ELSE m.next[p[i - 1]]]

LEMMA WalkDef ==
  ASSUME NEW m, NEW head
  PROVE  Walk(m, head) = Steps(m, head, Cardinality(DOMAIN m.next))
BY DEF Walk, Steps

LEMMA WalkSteps ==
  ASSUME NEW m, m \in Heaps, NEW head \in Nodes
  PROVE  \E N \in Nat :
           /\ N = Cardinality(Nodes)
           /\ DOMAIN Walk(m, head) = 0..N
           /\ \A i \in 0..N : Walk(m, head)[i] = Step(m.next, head, Walk(m, head), i)
<1> DEFINE N == Cardinality(DOMAIN m.next)
           p == Walk(m, head)
<1>1. m.next \in [Nodes -> Nodes] /\ DOMAIN m.next = Nodes
  BY DEF Heaps
<1>2. N \in Nat
  BY <1>1, FiniteAssumption, FS_CardinalityType
<1>3. p = Steps(m, head, N)
  BY WalkDef
<1> HIDE DEF N, p
<1>4. \E q : IsWalk(m.next, head, N, q)
  BY <1>1, <1>2, WalkExists
<1>5. p = [i \in 0..N |-> Step(m.next, head, p, i)]
  BY <1>3, <1>4, Zenon DEF Steps, Step, IsWalk
<1>6. DOMAIN p = 0..N /\ \A i \in 0..N : p[i] = Step(m.next, head, p, i)
  BY <1>5
<1>7. N = Cardinality(Nodes)
  BY <1>1, Zenon DEF N
<1> QED
  BY <1>2, <1>6, <1>7 DEF p

\* A walk that starts at the head of a list stays in its ring.
LEMMA WalkStays ==
  ASSUME NEW m, m \in Heaps, Rings(m), NEW c \in Caches, c \in m.live,
         NEW k \in DOMAIN Walk(m, c)
  PROVE  Walk(m, c)[k] \in InCache(m, c) \union {c}
<1> DEFINE p == Walk(m, c)
<1>1. PICK N \in Nat : /\ DOMAIN p = 0..N
                      /\ \A i \in 0..N : p[i] = Step(m.next, c, p, i)
  BY WalkSteps
<1> HIDE DEF p
<1> DEFINE In(n) == n \in Linked(m) /\ Home(m, n) = c
           Bad == {i \in 0..N : ~In(p[i])}
<1>2. Bad = {}
  <2> SUFFICES ASSUME Bad # {} PROVE FALSE
    OBVIOUS
  <2>1. PICK i \in Bad : \A j \in Bad : i <= j
    <3>1. Bad \in SUBSET Nat
      OBVIOUS
    <3> HIDE DEF Bad
    <3> QED
      BY <3>1, LeastNat
  <2>2. In(c)
    BY DEF Linked, Home
  <2>3. i # 0
    BY <1>1, <2>1, <2>2 DEF Step
  <2>4. i - 1 \in 0..N /\ i - 1 \notin Bad
    BY <2>1, <2>3
  <2>5. In(p[i - 1])
    BY <2>4
  <2>6. p[i] = m.next[p[i - 1]]
    BY <1>1, <2>1, <2>3 DEF Step
  <2>7. In(p[i])
    BY <2>5, <2>6 DEF Rings
  <2> QED
    BY <2>1, <2>7
<1>3. In(p[k])
  BY <1>1, <1>2 DEF p
<1>4. \A n : In(n) => n \in InCache(m, c) \union {c}
  BY DEF Linked, Home, InCache, Cached
<1> QED
  BY <1>3, <1>4 DEF p

\* What a list has in it says that it is in the list.
LEMMA ItemsAreCached ==
  ASSUME NEW m, m \in Heaps, Rings(m), NEW c \in Caches, c \in m.live,
         NEW i \in DOMAIN Items(m, c)
  PROVE  Items(m, c)[i] \in InCache(m, c)
<1> DEFINE pos == Walk(m, c)
           ends == {j \in DOMAIN pos \ {0} : pos[j] = c}
           turn == CHOOSE j \in ends : \A k \in ends : j <= k
<1>1. Items(m, c) = IF ends = {} THEN <<>> ELSE [j \in 1..turn - 1 |-> pos[j]]
  BY DEF Items
<1>2. PICK N \in Nat : DOMAIN pos = 0..N
  BY WalkSteps
<1> HIDE DEF pos
<1>3. ends # {}
  BY <1>1
<1>4. turn \in ends /\ \A k \in ends : turn <= k
  <2>1. ends \in SUBSET Nat
    BY <1>2
  <2>2. \E j \in ends : \A k \in ends : j <= k
    BY <1>3, <2>1, LeastNat
  <2> QED
    BY <2>2
<1>5. turn \in 1..N
  BY <1>2, <1>4
<1> HIDE DEF turn
<1>6. Items(m, c) = [j \in 1..turn - 1 |-> pos[j]]
  BY <1>1, <1>3
<1>7. i \in 1..turn - 1 /\ Items(m, c)[i] = pos[i]
  BY <1>6
<1>8. i \in DOMAIN pos \ {0}
  BY <1>2, <1>5, <1>7
<1>9. pos[i] # c
  BY <1>4, <1>5, <1>7, <1>8
<1> QED
  BY <1>7, <1>8, <1>9, WalkStays DEF pos

-----------------------------------------------------------------------------
(* The lists as sequences                                                  *)

\* Strung(m, c, s): the objects in cache c are those of s, once each, and next
\* leads from the head of the list through s and back to the head.
Place(c, s, i) == IF i \in 1..Len(s) THEN s[i] ELSE c
Closed(m, c, s) ==
  \A i \in 0..Len(s) : m.next[Place(c, s, i)] = Place(c, s, i + 1)
Holds(m, c, s) ==
  /\ \A i \in 1..Len(s) : s[i] \in InCache(m, c)
  /\ \A o \in InCache(m, c) : \E i \in 1..Len(s) : s[i] = o
  /\ \A i, j \in 1..Len(s) : s[i] = s[j] => i = j
Strung(m, c, s) ==
  /\ s \in Seq(Objects)
  /\ Len(s) = Cardinality(InCache(m, c))
  /\ Holds(m, c, s)
  /\ Closed(m, c, s)

\* The walk of NlList has steps enough to come back to the head.
LEMMA RingIsSmall ==
  ASSUME NEW m, NEW c \in Caches
  PROVE  /\ IsFiniteSet(InCache(m, c))
         /\ Cardinality(InCache(m, c)) \in Nat /\ Cardinality(Nodes) \in Nat
         /\ Cardinality(InCache(m, c)) < Cardinality(Nodes)
<1>1. IsFiniteSet(InCache(m, c)) /\ Cardinality(InCache(m, c)) <= Cardinality(Nodes)
      /\ (Cardinality(Nodes) = Cardinality(InCache(m, c)) => Nodes = InCache(m, c))
  <2>1. InCache(m, c) \in SUBSET Nodes
    BY DEF InCache
  <2> QED
    BY <2>1, FiniteAssumption, FS_Subset
<1>2. Nodes # InCache(m, c)
  BY DEF InCache
<1>3. Cardinality(InCache(m, c)) \in Nat /\ Cardinality(Nodes) \in Nat
  BY <1>1, FiniteAssumption, FS_CardinalityType
<1> QED
  BY <1>1, <1>2, <1>3

\* The walk goes from place to place: take the first step that does not.
LEMMA WalkIsStrung ==
  ASSUME NEW m, m \in Heaps, NEW c \in Caches, NEW s, Strung(m, c, s),
         NEW N \in Nat, Len(s) + 1 <= N, NEW p,
         \A i \in 0..N : p[i] = Step(m.next, c, p, i),
         NEW k \in 0..Len(s) + 1
  PROVE  p[k] = Place(c, s, k)
<1>0. Len(s) \in Nat
  BY DEF Strung
<1> DEFINE Bad == {i \in 0..Len(s) + 1 : p[i] # Place(c, s, i)}
<1> SUFFICES ASSUME Bad # {} PROVE FALSE
  OBVIOUS
<1>1. PICK i \in Bad : \A j \in Bad : i <= j
  <2>1. Bad \in SUBSET Nat
    BY <1>0
  <2> HIDE DEF Bad
  <2> QED
    BY <2>1, LeastNat
<1>2. i \in 0..Len(s) + 1 /\ p[i] # Place(c, s, i)
  BY <1>1
<1>3. i # 0
  <2>1. p[0] = c
    BY DEF Step
  <2>2. Place(c, s, 0) = c
    BY DEF Place
  <2> QED
    BY <1>2, <2>1, <2>2
<1>4. /\ i - 1 \in 0..Len(s) /\ i \in 0..N /\ i - 1 \notin Bad /\ (i - 1) + 1 = i
      /\ i - 1 \in 0..Len(s) + 1
  BY <1>0, <1>1, <1>2, <1>3
<1>5. p[i - 1] = Place(c, s, i - 1)
  BY <1>4
<1>6. m.next[Place(c, s, i - 1)] = Place(c, s, i)
  BY <1>4 DEF Strung, Closed
<1>7. p[i] = m.next[p[i - 1]]
  BY <1>3, <1>4 DEF Step
<1> QED
  BY <1>2, <1>5, <1>6, <1>7

\* What NlList says a list has in it, is the one sequence it is strung along.
LEMMA StrungItems ==
  ASSUME NEW m, m \in Heaps, NEW c \in Caches, NEW s, Strung(m, c, s)
  PROVE  Items(m, c) = s
<1> DEFINE pos == Walk(m, c)
           L == Len(s)
           ends == {j \in DOMAIN pos \ {0} : pos[j] = c}
           turn == CHOOSE j \in ends : \A k \in ends : j <= k
<1>1. Items(m, c) = IF ends = {} THEN <<>> ELSE [j \in 1..turn - 1 |-> pos[j]]
  BY DEF Items
<1>2. PICK N \in Nat : /\ N = Cardinality(Nodes)
                      /\ DOMAIN pos = 0..N
                      /\ \A i \in 0..N : pos[i] = Step(m.next, c, pos, i)
  BY WalkSteps
<1>3. L \in Nat /\ L + 1 <= N
  <2>1. L = Cardinality(InCache(m, c))
    BY DEF Strung
  <2>2. /\ Cardinality(InCache(m, c)) \in Nat
        /\ Cardinality(InCache(m, c)) < Cardinality(Nodes)
    BY RingIsSmall
  <2> HIDE DEF L
  <2> QED
    BY <1>2, <2>1, <2>2
<1> HIDE DEF pos
<1>4. \A k \in 0..L + 1 : pos[k] = Place(c, s, k)
  BY <1>2, <1>3, WalkIsStrung
<1>5. \A k \in 1..L : pos[k] = s[k] /\ pos[k] # c
  <2>1. \A k \in 1..L : s[k] \in Objects
    BY DEF Strung
  <2>2. \A k \in 1..L : pos[k] = s[k]
    BY <1>3, <1>4 DEF Place
  <2> QED
    BY <2>1, <2>2
<1>6. pos[L + 1] = c
  BY <1>3, <1>4 DEF Place
<1> HIDE DEF L
<1>7. L + 1 \in ends
  BY <1>2, <1>3, <1>6
<1>8. ASSUME NEW k \in ends PROVE L + 1 <= k
  <2>1. k \in 0..N /\ k # 0 /\ pos[k] = c
    BY <1>2
  <2>2. k \notin 1..L
    BY <1>5, <2>1
  <2> QED
    BY <1>3, <2>1, <2>2
<1>9. turn = L + 1
  <2>1. \E j \in ends : \A k \in ends : j <= k
    BY <1>7, <1>8
  <2>2. turn \in ends /\ \A k \in ends : turn <= k
    BY <2>1
  <2>3. turn \in Nat
    BY <1>2, <2>2
  <2> HIDE DEF turn, ends
  <2> QED
    BY <1>3, <1>7, <1>8, <2>2, <2>3
<1> HIDE DEF turn
<1>10. Items(m, c) = [j \in 1..L |-> s[j]]
  <2>1. ends # {} /\ turn - 1 = L
    BY <1>3, <1>7, <1>9
  <2>2. Items(m, c) = [j \in 1..L |-> pos[j]]
    BY <1>1, <2>1
  <2> QED
    BY <1>5, <2>2
<1>11. s = [j \in 1..L |-> s[j]]
  BY DEF Strung, L
<1> QED
  BY <1>10, <1>11

\* The caches together.
Listed(m) == \A c \in Caches : Strung(m, c, Items(m, c))

LEMMA PlaceIsReached ==
  ASSUME NEW m, NEW c \in Caches, NEW s, Strung(m, c, s), NEW i \in Int
  PROVE  /\ Place(c, s, i) \in Reached(m)
         /\ m.cache[Place(c, s, i)] = c \/ Place(c, s, i) = c
BY DEF Place, Strung, Holds, InCache, Reached, Cached

\* Heaps that agree on next and cache of the nodes that walks come to list the
\* same objects.
LEMMA SameItems ==
  ASSUME NEW m, NEW h, m \in Heaps, h \in Heaps, Listed(m), h.cache = m.cache,
         \A n \in Reached(m) : h.next[n] = m.next[n]
  PROVE  Listed(h) /\ \A c \in Caches : Items(h, c) = Items(m, c)
<1> SUFFICES ASSUME NEW c \in Caches
             PROVE  Strung(h, c, Items(m, c)) /\ Items(h, c) = Items(m, c)
  BY DEF Listed
<1> DEFINE s == Items(m, c)
<1>1. Strung(m, c, s)
  BY DEF Listed
<1> HIDE DEF s
<1>2. InCache(h, c) = InCache(m, c)
  BY DEF InCache
<1>3. \A i \in 0..Len(s) : h.next[Place(c, s, i)] = Place(c, s, i + 1)
  BY <1>1, PlaceIsReached DEF Strung, Closed
<1>4. Strung(h, c, s)
  BY <1>1, <1>2, <1>3 DEF Strung, Closed, Holds
<1> QED
  BY <1>4, StrungItems DEF s

\* nl_cache_add() appends.
LEMMA AddItems ==
  ASSUME NEW m, NEW own \in Owners, Whole(m, own), Listed(m),
         NEW o \in Objects, o \in m.live, m.cache[o] = NoCache,
         NEW c \in Caches, c \in m.live
  PROVE  /\ Listed(NlCacheAdd(m, c, o))
         /\ Items(NlCacheAdd(m, c, o), c) = Append(Items(m, c), o)
         /\ \A d \in Caches \ {c} : Items(NlCacheAdd(m, c, o), d) = Items(m, d)
<1> DEFINE h == NlCacheAdd(m, c, o)
           last == m.prev[c]
<1>1. /\ h.cache = [m.cache EXCEPT ![o] = c]
      /\ h.next = [m.next EXCEPT ![last] = o, ![o] = c]
      /\ Whole(h, own)
  BY AddIsWhole
<1>2. m \in Heaps /\ h \in Heaps /\ Rings(m)
  BY <1>1 DEF Whole, Sound
<1> HIDE DEF h
<1>3. c \in Linked(m) /\ last \in Linked(m) /\ m.next[last] = c /\ last # o
  BY <1>2 DEF Rings, Linked, Cached
<1>4. \A n \in Reached(m) : n \in Nodes /\ n # o
  BY DEF Reached, Cached
<1>5. ASSUME NEW d \in Caches \ {c}
      PROVE  Strung(h, d, Items(m, d))
  <2> DEFINE s == Items(m, d)
  <2>1. Strung(m, d, s)
    BY DEF Listed
  <2> HIDE DEF s
  <2>2. InCache(h, d) = InCache(m, d)
    BY <1>1, <1>2 DEF InCache, Heaps
  <2>3. ASSUME NEW i \in 0..Len(s)
        PROVE  h.next[Place(d, s, i)] = Place(d, s, i + 1)
    <3> DEFINE n == Place(d, s, i)
               q == Place(d, s, i + 1)
    <3>1. /\ n \in Reached(m) /\ m.next[n] = q
          /\ m.cache[q] = d \/ q = d
      BY <2>1, <2>3, PlaceIsReached DEF Strung, Closed
    <3> HIDE DEF n, q
    <3>2. q # c
      BY <1>3, <2>1, <3>1, PlaceIsReached DEF q, Place, Strung
    <3>3. n # last
      BY <1>3, <3>1, <3>2
    <3>4. h.next[n] = m.next[n]
      BY <1>1, <1>2, <1>4, <3>1, <3>3 DEF Heaps
    <3> QED
      BY <3>1, <3>4 DEF n, q
  <2>4. Strung(h, d, s)
    BY <2>1, <2>2, <2>3 DEF Strung, Closed, Holds
  <2> QED
    BY <2>4 DEF s
<1>6. Strung(h, c, Append(Items(m, c), o))
  <2> DEFINE s == Items(m, c)
             z == Append(s, o)
             L == Len(s)
  <2>1. Strung(m, c, s)
    BY DEF Listed
  <2> HIDE DEF s
  <2>2. /\ s \in Seq(Objects) /\ L \in Nat /\ z \in Seq(Objects) /\ Len(z) = L + 1
        /\ \A i \in 1..L : z[i] = s[i]
        /\ z[L + 1] = o
    BY <2>1, AppendProperties DEF Strung
  <2> HIDE DEF z
  <2>3. InCache(h, c) = InCache(m, c) \union {o} /\ o \notin InCache(m, c)
    BY <1>1, <1>2 DEF InCache, Heaps
  <2>4. Len(z) = Cardinality(InCache(h, c))
    <3>1. Cardinality(InCache(m, c) \union {o}) = Cardinality(InCache(m, c)) + 1
      BY <2>3, RingIsSmall, FS_AddElement
    <3> QED
      BY <2>1, <2>2, <2>3, <3>1 DEF Strung
  <2> HIDE DEF L
  <2>5. Holds(h, c, z)
    <3>0. L = Len(s)
      BY DEF L
    <3>1. \A i \in 1..Len(z) : i \in 1..L \/ i = L + 1
      BY <2>2
    <3>2. \A i \in 1..L : z[i] \in InCache(m, c) /\ z[i] # o /\ i \in 1..Len(z)
      BY <2>1, <2>2, <2>3, <3>0 DEF Strung, Holds
    <3>3. \A i \in 1..Len(z) : z[i] \in InCache(h, c)
      BY <2>2, <2>3, <3>1, <3>2
    <3>4. \A x \in InCache(h, c) : \E i \in 1..Len(z) : z[i] = x
      <4> SUFFICES ASSUME NEW x \in InCache(h, c)
                   PROVE  \E i \in 1..Len(z) : z[i] = x
        OBVIOUS
      <4>1. CASE x = o
        <5>1. L + 1 \in 1..Len(z)
          BY <2>2
        <5> QED
          BY <2>2, <4>1, <5>1
      <4>2. CASE x \in InCache(m, c)
        <5>1. PICK i \in 1..L : s[i] = x
          BY <2>1, <3>0, <4>2 DEF Strung, Holds
        <5> QED
          BY <2>2, <3>2, <5>1
      <4> QED
        BY <2>3, <4>1, <4>2
    <3>5. \A i, j \in 1..Len(z) : z[i] = z[j] => i = j
      <4> SUFFICES ASSUME NEW i \in 1..Len(z), NEW j \in 1..Len(z), z[i] = z[j]
                   PROVE  i = j
        OBVIOUS
      <4>1. CASE i \in 1..L /\ j \in 1..L
        BY <2>1, <2>2, <3>0, <4>1 DEF Strung, Holds
      <4>2. CASE i = L + 1 \/ j = L + 1
        BY <2>2, <3>1, <3>2, <4>2
      <4> QED
        BY <3>1, <4>1, <4>2
    <3> QED
      BY <3>3, <3>4, <3>5 DEF Holds
  <2>6. Closed(h, c, z)
    <3>0. L = Len(s)
      BY DEF L
    <3>1. last = Place(c, s, L)
      <4>1. m.next[Place(c, s, L)] = c
        BY <2>1, <2>2, <3>0 DEF Strung, Closed, Place
      <4>2. Place(c, s, L) \in Linked(m)
        <5>1. Place(c, s, L) = c \/ Place(c, s, L) \in Cached(m)
          BY <2>1, <2>2, <3>0 DEF Place, Strung, Holds, InCache, Cached
        <5> QED
          BY <1>3, <5>1 DEF Linked
      <4> QED
        BY <1>2, <4>1, <4>2 DEF Rings
    <3> SUFFICES ASSUME NEW i \in 0..Len(z)
                 PROVE  h.next[Place(c, z, i)] = Place(c, z, i + 1)
      BY DEF Closed
    <3>2. CASE i = L + 1
      <4>1. Place(c, z, i) = o /\ Place(c, z, i + 1) = c
        BY <2>2, <3>2 DEF Place
      <4> QED
        BY <1>1, <1>2, <4>1 DEF Heaps
    <3>3. CASE i = L
      <4>1. Place(c, z, i) = last /\ Place(c, z, i + 1) = o
        BY <2>2, <3>0, <3>1, <3>3 DEF Place
      <4>2. last \in Nodes
        BY <1>3 DEF Linked, Cached
      <4> QED
        BY <1>1, <1>2, <1>3, <4>1, <4>2 DEF Heaps
    <3>4. CASE i \in 0..L - 1
      <4>1. /\ Place(c, z, i) = Place(c, s, i) /\ Place(c, z, i + 1) = Place(c, s, i + 1)
            /\ i + 1 \in 1..L /\ i \in 0..Len(s)
        BY <2>2, <3>0, <3>4 DEF Place
      <4>2. Place(c, s, i + 1) # c
        BY <2>2, <3>0, <4>1 DEF Place
      <4>3. m.next[Place(c, s, i)] = Place(c, s, i + 1)
        BY <2>1, <4>1 DEF Strung, Closed
      <4>4. Place(c, s, i) # last /\ Place(c, s, i) \in Nodes /\ Place(c, s, i) # o
        BY <1>3, <1>4, <2>1, <4>2, <4>3, PlaceIsReached
      <4>5. h.next[Place(c, s, i)] = m.next[Place(c, s, i)]
        BY <1>1, <1>2, <4>4 DEF Heaps
      <4> QED
        BY <4>1, <4>3, <4>5
    <3>5. i \in 0..L - 1 \/ i = L \/ i = L + 1
      BY <2>2
    <3> QED
      BY <3>2, <3>3, <3>4, <3>5
  <2>7. Strung(h, c, z)
    BY <2>2, <2>4, <2>5, <2>6 DEF Strung
  <2> QED
    BY <2>7 DEF s, z
<1>7. \A d \in Caches \ {c} : Items(h, d) = Items(m, d)
  BY <1>2, <1>5, StrungItems
<1>8. Items(h, c) = Append(Items(m, c), o)
  BY <1>2, <1>6, StrungItems
<1>9. Listed(h)
  BY <1>5, <1>6, <1>7, <1>8 DEF Listed
<1> QED
  BY <1>7, <1>8, <1>9 DEF h

\* A sequence without its k-th element.
Without(s, k) == SubSeq(s, 1, k - 1) \o SubSeq(s, k + 1, Len(s))

LEMMA WithoutFields ==
  ASSUME NEW S, NEW s \in Seq(S), NEW k \in 1..Len(s)
  PROVE  /\ Without(s, k) \in Seq(S)
         /\ Len(Without(s, k)) = Len(s) - 1
         /\ \A i \in 1..Len(s) - 1 :
               Without(s, k)[i] = IF i < k THEN s[i] ELSE s[i + 1]
<1> DEFINE front == SubSeq(s, 1, k - 1)
           back == SubSeq(s, k + 1, Len(s))
<1>1. Len(s) \in Nat /\ k \in Nat /\ 1 <= k /\ k <= Len(s)
  OBVIOUS
<1>2. /\ front \in Seq(S) /\ Len(front) = k - 1
      /\ \A i \in 1..k - 1 : front[i] = s[i]
  <2>1. \A i \in 1..k - 1 : s[i] \in S
    BY <1>1
  <2>2. 1 \in Int /\ k - 1 \in Int
    BY <1>1
  <2> QED
    BY <1>1, <2>1, <2>2, SubSeqProperties
<1>3. /\ back \in Seq(S) /\ Len(back) = Len(s) - k
      /\ \A i \in 1..Len(s) - k : back[i] = s[k + i]
  <2>1. \A i \in k + 1..Len(s) : s[i] \in S
    BY <1>1
  <2>2. k + 1 \in Int /\ Len(s) \in Int
    BY <1>1
  <2>3. /\ back \in Seq(S)
        /\ Len(back) = IF k + 1 <= Len(s) THEN Len(s) - (k + 1) + 1 ELSE 0
        /\ \A i \in 1..Len(s) - (k + 1) + 1 : back[i] = s[(k + 1) + i - 1]
    BY <2>1, <2>2, SubSeqProperties
  <2>4. Len(s) - (k + 1) + 1 = Len(s) - k
    BY <1>1
  <2>5. \A i \in 1..Len(s) - k : (k + 1) + i - 1 = k + i
    BY <1>1
  <2> HIDE DEF back
  <2> QED
    BY <1>1, <2>3, <2>4, <2>5
<1> HIDE DEF front, back
<1>4. /\ front \o back \in Seq(S) /\ Len(front \o back) = Len(s) - 1
      /\ \A i \in 1..Len(s) - 1 :
           (front \o back)[i] = IF i <= k - 1 THEN front[i] ELSE back[i - (k - 1)]
  <2>1. /\ front \o back \in Seq(S) /\ Len(front \o back) = Len(front) + Len(back)
        /\ \A i \in 1..Len(front) + Len(back) :
             (front \o back)[i] = IF i <= Len(front) THEN front[i]
                                  ELSE back[i - Len(front)]
    BY <1>2, <1>3, ConcatProperties
  <2>2. Len(front) = k - 1 /\ Len(front) + Len(back) = Len(s) - 1
    BY <1>1, <1>2, <1>3
  <2> QED
    BY <2>1, <2>2
<1>5. Without(s, k) = front \o back
  BY DEF Without, front, back
<1>6. ASSUME NEW i \in 1..Len(s) - 1
      PROVE  Without(s, k)[i] = IF i < k THEN s[i] ELSE s[i + 1]
  <2>1. CASE i < k
    BY <1>1, <1>2, <1>4, <1>5, <2>1
  <2>2. CASE ~(i < k)
    <3>1. i - (k - 1) \in 1..Len(s) - k /\ k + (i - (k - 1)) = i + 1 /\ ~(i <= k - 1)
      BY <1>1, <2>2
    <3> QED
      BY <1>3, <1>4, <1>5, <2>2, <3>1
  <2> QED
    BY <2>1, <2>2
<1> QED
  BY <1>4, <1>5, <1>6

\* nl_cache_remove() of an object in a cache takes it out of the sequence.
LEMMA RemoveItems ==
  ASSUME NEW m, NEW own \in Owners, Whole(m, own), Listed(m),
         NEW o \in Objects, o \in m.live, NEW c \in Caches, m.cache[o] = c
  PROVE  /\ Listed(NlCacheRemove(m, o))
         /\ \E k \in 1..Len(Items(m, c)) :
              /\ Items(m, c)[k] = o
              /\ Items(NlCacheRemove(m, o), c) = Without(Items(m, c), k)
         /\ \A d \in Caches \ {c} : Items(NlCacheRemove(m, o), d) = Items(m, d)
<1> DEFINE h == NlCacheRemove(m, o)
           p == m.prev[o]
           s == Items(m, c)
           L == Len(s)
<1>1. m \in Heaps /\ Rings(m) /\ o \in Cached(m) /\ c # NoCache
  BY DEF Whole, Sound, Cached
<1>2. /\ h.cache = [m.cache EXCEPT ![o] = NoCache]
      /\ \A n \in Reached(m) \ {o} :
           h.next[n] = IF n = p THEN m.next[o] ELSE m.next[n]
      /\ Whole(h, own)
  BY <1>1, RemoveIsWhole
<1> HIDE DEF h
<1>3. h \in Heaps
  BY <1>2 DEF Whole, Sound
<1>4. p \in Linked(m) /\ m.next[p] = o
  BY <1>1 DEF Rings, Linked
<1>5. ASSUME NEW d \in Caches \ {c}
      PROVE  Strung(h, d, Items(m, d))
  <2> DEFINE r == Items(m, d)
  <2>1. Strung(m, d, r)
    BY DEF Listed
  <2> HIDE DEF r
  <2>2. InCache(h, d) = InCache(m, d)
    BY <1>1, <1>2 DEF InCache, Heaps
  <2>3. ASSUME NEW i \in 0..Len(r)
        PROVE  h.next[Place(d, r, i)] = Place(d, r, i + 1)
    <3> DEFINE n == Place(d, r, i)
               q == Place(d, r, i + 1)
    <3>1. /\ n \in Reached(m) /\ m.next[n] = q
          /\ m.cache[q] = d \/ q = d
          /\ m.cache[n] = d \/ n = d
      BY <2>1, <2>3, PlaceIsReached DEF Strung, Closed
    <3> HIDE DEF n, q
    <3>2. q # o /\ n # o
      BY <3>1
    <3>3. n # p
      BY <1>4, <3>1, <3>2
    <3> QED
      BY <1>2, <3>1, <3>2, <3>3 DEF n, q
  <2>4. Strung(h, d, r)
    BY <2>1, <2>2, <2>3 DEF Strung, Closed, Holds
  <2> QED
    BY <2>4 DEF r
<1>6. Strung(m, c, s)
  BY DEF Listed
<1> HIDE DEF s
<1>7. PICK k \in 1..L : s[k] = o
  BY <1>1, <1>6 DEF Strung, Holds, InCache
<1> DEFINE z == Without(s, k)
<1>8. /\ s \in Seq(Objects) /\ L \in Nat
      /\ z \in Seq(Objects) /\ Len(z) = L - 1
      /\ \A i \in 1..L - 1 : z[i] = IF i < k THEN s[i] ELSE s[i + 1]
  BY <1>6, WithoutFields DEF Strung
<1> HIDE DEF z
<1>9. \A i \in 1..L : s[i] = o => i = k
  BY <1>6, <1>7 DEF Strung, Holds
<1>10. InCache(h, c) = InCache(m, c) \ {o} /\ o \in InCache(m, c)
  BY <1>1, <1>2 DEF InCache, Heaps
<1>11. Len(z) = Cardinality(InCache(h, c))
  BY <1>1, <1>6, <1>8, <1>10, SizeIsPositive DEF Strung
<1>12. Holds(h, c, z)
  <2>1. \A i \in 1..Len(z) : /\ i \in 1..L /\ i + 1 \in 1..L /\ i \in 1..L - 1
                             /\ i < k => i # k
                             /\ ~(i < k) => i + 1 # k
    BY <1>8
  <2>2. ASSUME NEW i \in 1..Len(z) PROVE z[i] \in InCache(h, c)
    <3>1. \A j \in 1..L : j # k => s[j] \in InCache(m, c) \ {o}
      BY <1>6, <1>9 DEF Strung, Holds
    <3>2. CASE i < k
      BY <1>8, <1>10, <2>1, <3>1, <3>2
    <3>3. CASE ~(i < k)
      BY <1>8, <1>10, <2>1, <3>1, <3>3
    <3> QED
      BY <3>2, <3>3
  <2>3. ASSUME NEW x \in InCache(h, c) PROVE \E i \in 1..Len(z) : z[i] = x
    <3>1. PICK j \in 1..L : s[j] = x
      BY <1>6, <1>10 DEF Strung, Holds
    <3>2. j # k
      BY <1>7, <1>10, <3>1
    <3>3. CASE j < k
      <4>1. j \in 1..L - 1
        BY <1>8, <3>3
      <4> QED
        BY <1>8, <3>1, <3>3, <4>1
    <3>4. CASE ~(j < k)
      <4>1. j - 1 \in 1..L - 1 /\ ~(j - 1 < k) /\ (j - 1) + 1 = j
        BY <1>8, <3>2, <3>4
      <4> QED
        BY <1>8, <3>1, <4>1
    <3> QED
      BY <3>3, <3>4
  <2>4. ASSUME NEW i \in 1..Len(z), NEW j \in 1..Len(z), z[i] = z[j]
        PROVE  i = j
    <3>1. \A a, b \in 1..L : s[a] = s[b] => a = b
      BY <1>6 DEF Strung, Holds
    <3> DEFINE A == IF i < k THEN i ELSE i + 1
               B == IF j < k THEN j ELSE j + 1
    <3>2. A \in 1..L /\ B \in 1..L /\ z[i] = s[A] /\ z[j] = s[B]
      BY <1>8, <2>1
    <3>3. A = B
      BY <2>4, <3>1, <3>2
    <3> QED
      BY <1>8, <3>3
  <2> QED
    BY <2>2, <2>3, <2>4 DEF Holds
<1>13. Closed(h, c, z)
  <2>1. ASSUME NEW i \in 0..L
        PROVE  Place(c, z, i) = IF i < k THEN Place(c, s, i) ELSE Place(c, s, i + 1)
    BY <1>8 DEF Place
  <2>2. ASSUME NEW i \in 0..L + 1, i # k
        PROVE  Place(c, s, i) # o
    BY <1>9, <2>2 DEF Place
  <2>3. \A i \in 0..L : m.next[Place(c, s, i)] = Place(c, s, i + 1)
    BY <1>6 DEF Strung, Closed
  <2>4. p = Place(c, s, k - 1)
    <3>1. k - 1 \in 0..L /\ (k - 1) + 1 = k /\ k - 1 \in Int
      BY <1>8
    <3>2. m.next[Place(c, s, k - 1)] = o
      BY <1>7, <2>3, <3>1 DEF Place
    <3>3. Place(c, s, k - 1) \in Linked(m)
      <4>1. c \in Linked(m)
        BY <1>1 DEF Rings, Linked
      <4>2. Place(c, s, k - 1) = c \/ Place(c, s, k - 1) \in Cached(m)
        BY <1>6, <1>8 DEF Place, Strung, Holds, InCache, Cached
      <4> QED
        BY <4>1, <4>2 DEF Linked
    <3> QED
      BY <1>1, <3>2, <3>3 DEF Rings
  <2>5. m.next[o] = Place(c, s, k + 1)
    <3>1. k \in 0..L /\ Place(c, s, k) = o
      BY <1>7 DEF Place
    <3> QED
      BY <2>3, <3>1
  <2>6. ASSUME NEW j \in 0..L, j # k, j # k - 1
        PROVE  h.next[Place(c, s, j)] = Place(c, s, j + 1)
    <3>1. /\ Place(c, s, j) \in Reached(m) /\ Place(c, s, j) # o
          /\ m.next[Place(c, s, j)] = Place(c, s, j + 1)
      BY <1>6, <1>8, <2>2, <2>3, <2>6, PlaceIsReached
    <3>2. Place(c, s, j + 1) # o
      <4>1. j + 1 \in 0..L + 1 /\ j + 1 # k
        BY <1>8, <2>6
      <4> QED
        BY <2>2, <4>1
    <3> QED
      BY <1>2, <1>4, <3>1, <3>2
  <2>7. h.next[Place(c, s, k - 1)] = Place(c, s, k + 1)
    <3>1. k - 1 \in 0..L + 1 /\ k - 1 # k /\ k - 1 \in Int
      BY <1>8
    <3>2. Place(c, s, k - 1) \in Reached(m) /\ Place(c, s, k - 1) # o
      BY <1>6, <2>2, <3>1, PlaceIsReached
    <3> QED
      BY <1>2, <2>4, <2>5, <3>2
  <2> SUFFICES ASSUME NEW i \in 0..Len(z)
               PROVE  h.next[Place(c, z, i)] = Place(c, z, i + 1)
    BY DEF Closed
  <2>8. i \in 0..L /\ i + 1 \in 0..L
    BY <1>8
  <2>9. CASE i = k - 1
    <3>1. i < k /\ ~(i + 1 < k) /\ (i + 1) + 1 = k + 1
      BY <1>8, <2>9
    <3>2. Place(c, z, i) = Place(c, s, k - 1) /\ Place(c, z, i + 1) = Place(c, s, k + 1)
      BY <2>1, <2>8, <2>9, <3>1
    <3> QED
      BY <2>7, <3>2
  <2>10. CASE i < k - 1
    <3>1. i < k /\ i + 1 < k /\ i # k /\ i # k - 1
      BY <1>8, <2>10
    <3>2. Place(c, z, i) = Place(c, s, i) /\ Place(c, z, i + 1) = Place(c, s, i + 1)
      BY <2>1, <2>8, <3>1
    <3> QED
      BY <2>6, <2>8, <3>1, <3>2
  <2>11. CASE i > k - 1
    <3>1. ~(i < k) /\ ~(i + 1 < k) /\ i + 1 # k /\ i + 1 # k - 1
      BY <1>8, <2>11
    <3>2. Place(c, z, i) = Place(c, s, i + 1) /\ Place(c, z, i + 1) = Place(c, s, (i + 1) + 1)
      BY <2>1, <2>8, <3>1
    <3> QED
      BY <2>6, <2>8, <3>1, <3>2
  <2> QED
    BY <1>8, <2>9, <2>10, <2>11
<1>14. Strung(h, c, z)
  BY <1>8, <1>11, <1>12, <1>13 DEF Strung
<1>15. \A d \in Caches \ {c} : Items(h, d) = Items(m, d)
  BY <1>3, <1>5, StrungItems
<1>16. Items(h, c) = z
  BY <1>3, <1>14, StrungItems
<1>17. Listed(h)
  BY <1>5, <1>14, <1>15, <1>16 DEF Listed
<1> QED
  BY <1>7, <1>15, <1>16, <1>17 DEF h, s, z

-----------------------------------------------------------------------------
(* The steps of FamilyCache.                                               *)

Calls ==
  [op : {"idle", "fill", "undefined"} \union Clearing,
   cache : Caches \union {NoCache}, pos : Nodes \union {NoCache},
   tmp : Nodes \union {NoCache}, fresh : BOOLEAN]

\* The object that is removed next is the first one of the list, and tmp the
\* one behind it.
ClearOK(m, cl) ==
  cl.op \in Clearing =>
    /\ cl.cache \in m.live \intersect Caches
    /\ cl.pos = m.next[cl.cache]
    /\ cl.tmp = m.next[cl.pos]

FillOK(m, cl) ==
  cl.op = "fill" => cl.cache \in m.live \intersect Caches

CallOK(m, cl) == cl \in Calls /\ ClearOK(m, cl) /\ FillOK(m, cl)

Inv == Whole(mem, held) /\ held \in Owners /\ CallOK(mem, call)

LEMMA NoCallIsOK ==
  ASSUME NEW m
  PROVE  CallOK(m, NoCall)
BY DEF CallOK, ClearOK, FillOK, Calls, NoCall, Clearing

\* nl_cache_clear() of any cache can start.
LEMMA StartIsOK ==
  ASSUME Whole(mem, held), NEW c \in Caches, c \in mem.live,
         NEW op \in Clearing, NEW fresh \in BOOLEAN
  PROVE  CallOK(mem, StartClear(op, c, fresh))
<1>1. mem.next[c] \in Nodes /\ mem.next[mem.next[c]] \in Nodes
  BY DEF Whole, Sound, Heaps
<1> QED
  BY <1>1 DEF CallOK, ClearOK, FillOK, Calls, StartClear, Clearing

LEMMA FailedIsOK ==
  ASSUME Inv, call.op = "fill"
  PROVE  CallOK(mem, Failed)
<1>1. call.cache \in Caches /\ call.cache \in mem.live /\ call.fresh \in BOOLEAN
  BY DEF Inv, CallOK, FillOK, Calls
<1>2. CallOK(mem, StartClear("free", call.cache, TRUE))
  BY <1>1, StartIsOK DEF Inv, Clearing
<1> QED
  BY <1>2, NoCallIsOK DEF Failed

LEMMA InitInv == Init => Inv
<1> SUFFICES ASSUME Init PROVE Inv
  OBVIOUS
<1>1. mem \in Heaps /\ mem.ok /\ held \in Owners /\ Counted(mem, held)
  BY DEF Init, Heaps, Owners, Counted
<1>2. Linked(mem) = {} /\ Cached(mem) = {} /\ mem.live = {}
  BY DEF Init, Linked, Cached
<1>3. Rings(mem) /\ Sized(mem)
  BY <1>2 DEF Rings, Sized
<1>4. Ranked(mem)
  <2>1. [o \in Objects |-> 0] \in [Objects -> Nat]
    OBVIOUS
  <2> QED
    BY <1>2, <2>1 DEF Ranked, Ordered
<1> QED
  BY <1>1, <1>3, <1>4, NoCallIsOK DEF Inv, Whole, Sound, Init

-----------------------------------------------------------------------------
(* The library in the middle of a call *)

\* A pass removes the first object; the one that follows is there afterwards.
LEMMA ClearStepMem ==
  ASSUME Inv, ClearStep
  PROVE  LET c == call.cache
             o == call.pos
             t == call.tmp
             h == NlCacheRemove(mem, o)
         IN  /\ c \in Caches /\ c \in h.live
             /\ o \in Objects /\ o \in mem.live /\ mem.cache[o] = c
             /\ t \in Nodes /\ h.next[c] = t
             /\ h.live \in {mem.live, mem.live \ {o}}
             /\ h \in Heaps /\ Whole(h, held) /\ mem' = h
<1> DEFINE c == call.cache
           o == call.pos
           t == call.tmp
           h == NlCacheRemove(mem, o)
<1>1. /\ Whole(mem, held) /\ mem \in Heaps /\ Rings(mem) /\ Ranked(mem)
      /\ Counted(mem, held) /\ held \in Owners
      /\ call \in Calls /\ c \in Caches /\ c \in mem.live
      /\ o = mem.next[c] /\ t = mem.next[o] /\ o # c
  BY DEF Inv, Whole, Sound, CallOK, ClearOK, ClearStep
<1>2. /\ c \in Linked(mem) /\ o \in Linked(mem) /\ t \in Linked(mem)
      /\ mem.prev[o] = c /\ Home(mem, o) = c
  BY <1>1 DEF Linked, Rings, Home
<1>3. /\ o \in Cached(mem) /\ o \in Objects /\ o \in mem.live
      /\ t # o /\ t \in mem.live /\ t \in Nodes
  <2>1. o \notin Caches
    BY <1>1, <1>2 DEF Home
  <2>2. o \in Cached(mem)
    BY <1>2, <2>1 DEF Linked
  <2>3. t # o
    BY <1>1, <2>2, NoSelfLoop
  <2>4. \A n \in Linked(mem) : n \in Nodes /\ n \in mem.live
    BY <1>1 DEF Linked, Cached, Counted
  <2>5. o \in Objects
    BY <2>2 DEF Cached
  <2> QED
    BY <1>2, <2>2, <2>3, <2>4, <2>5
<1>4. /\ Whole(h, held)
      /\ h.live \in {mem.live, mem.live \ {o}}
      /\ \A n \in Reached(mem) \ {o} :
            h.next[n] = IF n = mem.prev[o] THEN mem.next[o] ELSE mem.next[n]
  <2>1. \A w : \A x \in Objects, own \in Owners :
           Whole(w, own) /\ x \in w.live
             => /\ Whole(NlCacheRemove(w, x), own)
                /\ NlCacheRemove(w, x).live \in {w.live, w.live \ {x}}
                /\ x \in Cached(w) =>
                     \A n \in Reached(w) \ {x} :
                        NlCacheRemove(w, x).next[n] =
                          IF n = w.prev[x] THEN w.next[x] ELSE w.next[n]
    BY RemoveIsWhole
  <2>2. Whole(mem, held) /\ held \in Owners /\ o \in Objects /\ o \in mem.live /\ o \in Cached(mem)
    BY <1>1, <1>3
  <2>3. Whole(h, held) /\ h.live \in {mem.live, mem.live \ {o}}
    BY <2>1, <2>2
  <2>4. \A n \in Reached(mem) \ {o} :
           h.next[n] = IF n = mem.prev[o] THEN mem.next[o] ELSE mem.next[n]
    BY <2>1, <2>2
  <2> QED
    BY <2>3, <2>4
<1> HIDE DEF h
<1>5. h.next[c] = t /\ c \in h.live /\ t \in h.live
  BY <1>1, <1>2, <1>3, <1>4 DEF Reached
<1>6. h \in Heaps /\ mem' = h
  <2>1. h \in Heaps
    BY <1>4 DEF Whole, Sound
  <2>2. mem' = Touch(h, {t})
    BY DEF ClearStep, h
  <2> QED
    BY <1>5, <2>1, <2>2, TouchLive
<1>7. mem.cache[o] = c
  BY <1>2, <1>3 DEF Home
<1> QED
  BY <1>1, <1>3, <1>4, <1>5, <1>6, <1>7 DEF h

LEMMA ClearStepInv == Inv /\ ClearStep => Inv'
<1> SUFFICES ASSUME Inv, ClearStep PROVE Inv'
  OBVIOUS
<1> DEFINE c == call.cache
           o == call.pos
           t == call.tmp
           h == NlCacheRemove(mem, o)
<1>1. call \in Calls /\ held \in Owners
  BY DEF Inv, CallOK
<1>2. /\ c \in Caches /\ c \in h.live /\ t \in Nodes /\ h.next[c] = t
      /\ h \in Heaps /\ Whole(h, held) /\ mem' = h
  BY ClearStepMem
<1> HIDE DEF h
<1>3. /\ call' \in Calls /\ call'.op = call.op /\ call'.cache = c
      /\ call'.pos = t /\ call'.tmp = h.next[t]
  <2>1. call' = [call EXCEPT !.pos = t, !.tmp = h.next[t]]
    BY <1>2 DEF ClearStep
  <2>2. h.next[t] \in Nodes
    BY <1>2 DEF Heaps
  <2> QED
    BY <1>1, <1>2, <2>1, <2>2 DEF Calls
<1>4. CallOK(h, call')
  BY <1>1, <1>2, <1>3 DEF CallOK, ClearOK, FillOK, ClearStep, Clearing
<1> QED
  BY <1>1, <1>2, <1>4 DEF Inv, ClearStep

LEMMA ClearEndInv == Inv /\ ClearEnd => Inv'
<1> SUFFICES ASSUME Inv, ClearEnd PROVE Inv'
  OBVIOUS
<1> DEFINE c == call.cache
<1>1. /\ Whole(mem, held) /\ held \in Owners /\ call \in Calls
      /\ c \in Caches /\ c \in mem.live /\ mem.next[c] = c
      /\ held' = held
  BY DEF Inv, CallOK, ClearOK, ClearEnd
<1>2. CASE call.op = "free"
  <2>1. Whole(Freed(mem, c), held)
    BY <1>1, CacheFreeIsWhole
  <2>2. mem' = Freed(mem, c) /\ call' = NoCall
    BY <1>2 DEF ClearEnd
  <2> HIDE DEF c
  <2> QED
    BY <1>1, <2>1, <2>2, NoCallIsOK DEF Inv
<1>3. CASE call.op # "free"
  <2>1. mem' = mem
    BY <1>3 DEF ClearEnd
  <2>2. CallOK(mem, call')
    <3>1. CASE call.op = "refill"
      BY <1>1, <3>1 DEF ClearEnd, CallOK, ClearOK, FillOK, Calls, NoCall, Clearing
    <3>2. CASE call.op # "refill"
      BY <3>2, NoCallIsOK DEF ClearEnd
    <3> QED
      BY <3>1, <3>2
  <2> QED
    BY <1>1, <2>1, <2>2 DEF Inv
<1> QED
  BY <1>2, <1>3

LEMMA FillEndInv == Inv /\ FillEnd => Inv'
<1> SUFFICES ASSUME Inv, FillEnd PROVE Inv'
  OBVIOUS
<1>1. mem' = mem /\ held' = held /\ call' \in {NoCall, Failed} /\ call.op = "fill"
  BY DEF FillEnd
<1>2. CallOK(mem, call')
  BY <1>1, NoCallIsOK, FailedIsOK
<1> QED
  BY <1>1, <1>2 DEF Inv

\* The parser's own reference is the only one until the object is in a list.
LEMMA ParserOwns ==
  ASSUME Inv, NEW o \in Objects, o \notin mem.live
  PROVE  [held EXCEPT ![o] = 1] = OneMore(held, o)
<1>1. held[o] = 0
  BY DEF Inv, Whole, Sound, Counted
<1> QED
  BY <1>1 DEF Inv, Owners, OneMore

LEMMA OneMoreOwns ==
  ASSUME NEW own \in Owners, NEW o \in Objects
  PROVE  OneMore(own, o) \in Owners
BY DEF Owners, OneMore

LEMMA ParseFamilyInv ==
  ASSUME Inv, NEW o \in Objects, ParseFamily(o)
  PROVE  Inv'
<1> DEFINE c == call.cache
           one == OneMore(held, o)
           m1 == NlObjectAlloc(mem, o)
           m2 == NlCacheAdd(m1, c, o)
           m3 == NlObjectPut(m2, o)
<1>1. /\ Whole(mem, held) /\ held \in Owners /\ call \in Calls
      /\ call.op = "fill" /\ c \in Caches /\ c \in mem.live /\ o \notin mem.live
      /\ mem' = m3 /\ held' = held /\ call' = call
  BY DEF Inv, CallOK, FillOK, ParseFamily
<1>2. one \in Owners
  BY <1>1, OneMoreOwns
<1>3. /\ Whole(m1, one) /\ o \in m1.live /\ m1.live = mem.live \union {o}
      /\ m1.cache[o] = NoCache
  BY <1>1, AllocIsWhole, ParserOwns
<1> HIDE DEF m1
<1>4. Whole(m2, one) /\ m2.live = m1.live
  <2>1. c \in m1.live
    BY <1>1, <1>3
  <2> HIDE DEF one, c
  <2> QED
    BY <1>1, <1>2, <1>3, <2>1, AddIsWhole
<1> HIDE DEF m2
<1>5. Whole(m3, held) /\ m3.live \in {m2.live, m2.live \ {o}}
  BY <1>1, <1>4, PutIsWhole
<1> HIDE DEF m3
<1>6. CallOK(m3, call)
  BY <1>1, <1>3, <1>4, <1>5 DEF CallOK, ClearOK, FillOK, Clearing
<1> QED
  BY <1>1, <1>5, <1>6 DEF Inv

LEMMA ParseIncompleteInv ==
  ASSUME Inv, NEW o \in Objects, ParseIncomplete(o)
  PROVE  Inv'
<1> DEFINE m1 == NlObjectAlloc(mem, o)
           m2 == NlObjectPut(m1, o)
<1>1. /\ Whole(mem, held) /\ held \in Owners
      /\ call.op = "fill" /\ o \notin mem.live
      /\ mem' = m2 /\ held' = held /\ call' = Failed
  BY DEF Inv, ParseIncomplete
<1>2. /\ Whole(m1, OneMore(held, o)) /\ m1.live = mem.live \union {o}
      /\ m1.cache = mem.cache
      /\ \A n \in Reached(mem) : m1.next[n] = mem.next[n]
  BY <1>1, AllocIsWhole, ParserOwns
<1> HIDE DEF m1
<1>3. /\ Whole(m2, held) /\ m2.live \in {m1.live, m1.live \ {o}}
      /\ \A n \in Reached(m1) : m2.next[n] = m1.next[n]
  BY <1>1, <1>2, PutIsWhole
<1> HIDE DEF m2
<1>4. CallOK(mem, Failed)
  BY <1>1, FailedIsOK
<1>5. CASE call.fresh
  <2> DEFINE c == call.cache
  <2>1. Failed = StartClear("free", c, TRUE) /\ c \in Caches /\ c \in mem.live
    BY <1>1, <1>5 DEF Failed, Inv, CallOK, FillOK
  <2>2. c \in Linked(mem) /\ mem.next[c] \in Linked(mem)
    BY <2>1 DEF Linked, Inv, Whole, Sound, Rings
  <2>3. m2.next[c] = mem.next[c] /\ m2.next[mem.next[c]] = mem.next[mem.next[c]]
    <3>1. c \in Reached(m1) /\ mem.next[c] \in Reached(m1)
      BY <1>2, <2>2 DEF Reached, Linked, Cached
    <3>2. c \in Reached(mem) /\ mem.next[c] \in Reached(mem)
      BY <2>2 DEF Reached, Linked
    <3> QED
      BY <1>2, <1>3, <3>1, <3>2
  <2>4. c \in m2.live
    BY <1>1, <1>2, <1>3, <2>1
  <2>5. CallOK(m2, Failed)
    BY <1>4, <2>1, <2>3, <2>4 DEF CallOK, ClearOK, FillOK, StartClear, Clearing
  <2> QED
    BY <1>1, <1>3, <2>5 DEF Inv
<1>6. CASE ~call.fresh
  BY <1>1, <1>3, <1>6, NoCallIsOK DEF Inv, Failed
<1> QED
  BY <1>5, <1>6

-----------------------------------------------------------------------------
(* The calls of a program *)

LEMMA CacheAllocInv ==
  ASSUME Inv, NEW c \in Caches, CacheAlloc(c) \/ CtrlAllocCache(c)
  PROVE  Inv'
<1> DEFINE h == NlCacheAlloc(mem, c)
<1>1. /\ Whole(mem, held) /\ held \in Owners /\ c \notin mem.live
      /\ mem' = h /\ held' = held /\ call \in Calls
  BY DEF Inv, CallOK, CacheAlloc, CtrlAllocCache
<1>2. Whole(h, held) /\ h.live = mem.live \union {c} /\ h.next[c] = c
  BY <1>1, CacheAllocIsWhole
<1> HIDE DEF h
<1>3. CallOK(h, call')
  <2>1. CASE CacheAlloc(c)
    BY <1>1, <2>1 DEF CacheAlloc, Idle, CallOK, ClearOK, FillOK, Clearing
  <2>2. CASE CtrlAllocCache(c)
    <3>1. call' = [op |-> "refill", cache |-> c, pos |-> c, tmp |-> c,
                   fresh |-> TRUE]
      BY <2>2 DEF CtrlAllocCache
    <3> HIDE DEF CtrlAllocCache
    <3>2. call' \in Calls /\ FillOK(h, call')
      BY <3>1 DEF Calls, FillOK, Clearing
    <3>3. ClearOK(h, call')
      BY <1>2, <3>1 DEF ClearOK
    <3> QED
      BY <3>2, <3>3 DEF CallOK
  <2> QED
    BY <2>1, <2>2
<1> QED
  BY <1>1, <1>2, <1>3 DEF Inv

LEMMA StartClearingInv ==
  ASSUME Inv, NEW c \in Caches, StartClearing(c)
  PROVE  Inv'
<1>1. PICK op \in Clearing : call' = StartClear(op, c, FALSE)
  BY DEF StartClearing
<1>2. mem' = mem /\ held' = held /\ c \in mem.live
  BY DEF StartClearing
<1>3. CallOK(mem, call')
  BY <1>1, <1>2, StartIsOK DEF Inv
<1> QED
  BY <1>2, <1>3 DEF Inv

\* Between two calls of the program, the call in progress asks for nothing.
LEMMA IdleIsOK ==
  ASSUME NEW m, Inv, Idle
  PROVE  CallOK(m, call)
BY DEF Inv, Idle, CallOK, ClearOK, FillOK, Clearing

LEMMA SearchInv ==
  ASSUME Inv, NEW c \in Caches, NEW name, Search(c, name)
  PROVE  Inv'
<1>1. /\ Whole(mem, held) /\ held \in Owners /\ mem \in Heaps /\ Rings(mem)
      /\ Counted(mem, held) /\ c \in mem.live /\ Idle /\ call' = call
  BY DEF Inv, Whole, Sound, Search
<1>2. PICK o \in Matches(mem, c, name) :
        mem' = NlObjectGet(mem, o) /\ held' = [held EXCEPT ![o] = @ + 1]
  BY DEF Search
<1>3. PICK i \in DOMAIN Items(mem, c) : o = Items(mem, c)[i]
  BY DEF Matches
<1>4. o \in InCache(mem, c)
  BY <1>1, <1>3, ItemsAreCached
<1>5. o \in Objects /\ o \in mem.live
  <2>1. o \in Objects /\ mem.cache[o] # NoCache
    BY <1>4 DEF InCache
  <2> QED
    BY <1>1, <2>1 DEF Counted
<1>6. Whole(mem', OneMore(held, o)) /\ held' = OneMore(held, o)
  BY <1>1, <1>2, <1>5, GetIsWhole DEF OneMore
<1> QED
  BY <1>1, <1>5, <1>6, IdleIsOK, OneMoreOwns DEF Inv

LEMMA FamilyAllocInv ==
  ASSUME Inv, NEW o \in Objects, FamilyAlloc(o)
  PROVE  Inv'
<1>1. /\ Whole(mem, held) /\ held \in Owners /\ o \notin mem.live /\ Idle
      /\ mem' = NlObjectAlloc(mem, o) /\ held' = [held EXCEPT ![o] = 1]
      /\ call' = call
  BY DEF Inv, FamilyAlloc
<1>2. Whole(mem', held')
  BY <1>1, AllocIsWhole
<1>3. held' \in Owners
  BY <1>1 DEF Owners
<1> QED
  BY <1>1, <1>2, <1>3, IdleIsOK DEF Inv

\* What the program owns is there.
LEMMA HeldIsLive ==
  ASSUME Inv, NEW o \in Objects, held[o] > 0
  PROVE  o \in mem.live
BY DEF Inv, Whole, Sound, Counted

LEMMA OneLessOwns ==
  ASSUME NEW own \in Owners, NEW o \in Objects, own[o] > 0
  PROVE  LET less == [own EXCEPT ![o] = @ - 1]
         IN  less \in Owners /\ own = OneMore(less, o)
<1> DEFINE less == [own EXCEPT ![o] = @ - 1]
<1>1. less \in Owners /\ less[o] = own[o] - 1 /\ own[o] \in Nat
  BY DEF Owners
<1>2. OneMore(less, o)[o] = own[o]
  BY <1>1 DEF Owners, OneMore
<1>3. \A x \in Objects : OneMore(less, o)[x] = own[x]
  BY <1>1, <1>2 DEF Owners, OneMore
<1>4. OneMore(less, o) \in Owners
  BY <1>1, OneMoreOwns
<1> HIDE DEF less
<1>5. own = OneMore(less, o)
  BY <1>3, <1>4 DEF Owners
<1> QED
  BY <1>1, <1>5 DEF less

LEMMA FamilyPutInv ==
  ASSUME Inv, NEW o \in Objects, FamilyPut(o)
  PROVE  Inv'
<1> DEFINE less == [held EXCEPT ![o] = @ - 1]
<1>1. /\ Whole(mem, held) /\ held \in Owners /\ held[o] > 0 /\ Idle
      /\ mem' = NlObjectPut(mem, o) /\ held' = less /\ call' = call
  BY DEF Inv, FamilyPut
<1>2. less \in Owners /\ held = OneMore(less, o)
  BY <1>1, OneLessOwns
<1> HIDE DEF less
<1>3. Whole(mem', less)
  BY <1>1, <1>2, PutIsWhole
<1> QED
  BY <1>1, <1>2, <1>3, IdleIsOK DEF Inv

LEMMA CacheAddInv ==
  ASSUME Inv, NEW c \in Caches, NEW o \in Objects, CacheAdd(c, o)
  PROVE  Inv'
<1>1. /\ Whole(mem, held) /\ held \in Owners /\ c \in mem.live /\ held[o] > 0
      /\ Idle /\ held' = held /\ o \in mem.live /\ call \in Calls
  BY HeldIsLive DEF Inv, CallOK, CacheAdd
<1>2. CASE Empty(mem, o)
  <2>1. mem.cache[o] = NoCache
    BY <1>1, <1>2, NoSelfLoop DEF Empty, Cached, Whole, Sound
  <2>2. mem' = NlCacheAdd(mem, c, o) /\ call' = call
    BY <1>2 DEF CacheAdd
  <2>3. Whole(mem', held)
    BY <1>1, <2>1, <2>2, AddIsWhole
  <2> QED
    BY <1>1, <2>2, <2>3, IdleIsOK DEF Inv
<1>3. CASE ~Empty(mem, o)
  <2>1. mem' = mem /\ call' = [NoCall EXCEPT !.op = "undefined"]
    BY <1>3 DEF CacheAdd
  <2>2. CallOK(mem, call')
    BY <2>1 DEF CallOK, ClearOK, FillOK, Calls, NoCall, Clearing
  <2> QED
    BY <1>1, <2>1, <2>2 DEF Inv
<1> QED
  BY <1>2, <1>3

LEMMA CacheRemoveInv ==
  ASSUME Inv, NEW o \in Objects, CacheRemove(o)
  PROVE  Inv'
<1>1. /\ Whole(mem, held) /\ held \in Owners /\ held[o] > 0 /\ Idle
      /\ mem' = NlCacheRemove(mem, o) /\ held' = held /\ call' = call
      /\ o \in mem.live
  BY HeldIsLive DEF Inv, CacheRemove
<1>2. Whole(mem', held)
  BY <1>1, RemoveIsWhole
<1> QED
  BY <1>1, <1>2, IdleIsOK DEF Inv

-----------------------------------------------------------------------------
(* The invariant *)

LEMMA NextInv == Inv /\ [Next]_vars => Inv'
<1> SUFFICES ASSUME Inv, [Next]_vars PROVE Inv'
  OBVIOUS
<1>1. CASE ClearStep
  BY <1>1, ClearStepInv
<1>2. CASE ClearEnd
  BY <1>2, ClearEndInv
<1>3. CASE FillEnd
  BY <1>3, FillEndInv
<1>4. CASE \E o \in Objects : ParseFamily(o) \/ ParseIncomplete(o)
  BY <1>4, ParseFamilyInv, ParseIncompleteInv
<1>5. CASE \E c \in Caches : CacheAlloc(c) \/ CtrlAllocCache(c) \/ StartClearing(c)
  BY <1>5, CacheAllocInv, StartClearingInv
<1>6. CASE \E c \in Caches, name \in Names : Search(c, name)
  BY <1>6, SearchInv
<1>7. CASE \E o \in Objects : FamilyAlloc(o) \/ FamilyPut(o) \/ CacheRemove(o)
  BY <1>7, FamilyAllocInv, FamilyPutInv, CacheRemoveInv
<1>8. CASE \E c \in Caches, o \in Objects : CacheAdd(c, o)
  BY <1>8, CacheAddInv
<1>9. CASE UNCHANGED vars
  BY <1>9 DEF vars, Inv
<1> QED
  BY <1>1, <1>2, <1>3, <1>4, <1>5, <1>6, <1>7, <1>8, <1>9 DEF Next

LEMMA Invariance == Spec => []Inv
<1>1. Init => Inv
  BY InitInv
<1>2. Inv /\ [Next]_vars => Inv'
  BY NextInv
<1> QED
  BY <1>1, <1>2, PTL DEF Spec

-----------------------------------------------------------------------------
(* The caches as FamilyStore sees them                                     *)

View == [c \in Caches |-> Items(mem, c)]
Stored == [Store!Next]_(Store!vars)

\* Inv is what keeps the lists strung; the two together are inductive.
ListInv == Inv /\ Listed(mem)

LEMMA WholeIsHeap ==
  ASSUME NEW m, NEW own, Whole(m, own)
  PROVE  m \in Heaps /\ Rings(m) /\ Ranked(m) /\ Counted(m, own)
BY DEF Whole, Sound

\* FamilyStore's and the code's idea of being in a cache.
LEMMA CachedMeans ==
  ASSUME ListInv, NEW o \in Objects
  PROVE  Store!Cached(o) <=> mem.cache[o] # NoCache
<1>1. mem \in Heaps
  BY WholeIsHeap DEF ListInv, Inv
<1>2. ASSUME NEW c \in Caches
      PROVE  Store!Contains(View[c], o) <=> mem.cache[o] = c
  <2>1. Holds(mem, c, Items(mem, c)) /\ View[c] = Items(mem, c)
    BY DEF ListInv, Listed, Strung, View
  <2> QED
    BY <2>1 DEF Store!Contains, Holds, InCache
<1>3. mem.cache[o] # NoCache <=> \E c \in Caches : mem.cache[o] = c
  BY <1>1 DEF Heaps
<1> QED
  BY <1>2, <1>3 DEF Store!Cached, View

LEMMA FreeIsUncached ==
  ASSUME ListInv, NEW o \in Objects, o \notin mem.live
  PROVE  held[o] = 0 /\ ~Store!Cached(o) /\ mem.cache[o] = NoCache
<1>1. held[o] = 0 /\ mem.cache[o] = NoCache
  BY WholeIsHeap DEF ListInv, Inv, Counted
<1> QED
  BY <1>1, CachedMeans

\* A cache that has no objects, or that does not exist, is the empty sequence.
LEMMA NothingListed ==
  ASSUME NEW m, Listed(m), NEW c \in Caches, InCache(m, c) = {}
  PROVE  Items(m, c) = <<>> /\ m.next[c] = c
<1> DEFINE s == Items(m, c)
<1>1. s \in Seq(Objects) /\ Len(s) = 0 /\ Closed(m, c, s)
  BY FS_EmptySet DEF Listed, Strung
<1> HIDE DEF s
<1>2. s = <<>>
  BY <1>1, EmptySeq
<1>3. m.next[c] = c
  BY <1>1 DEF Closed, Place
<1> QED
  BY <1>2, <1>3 DEF s

LEMMA ViewStays ==
  ASSUME \A c \in Caches : Items(mem', c) = Items(mem, c)
  PROVE  View' = View
BY DEF View

LEMMA ViewChanges ==
  ASSUME NEW c \in Caches, \A d \in Caches \ {c} : Items(mem', d) = Items(mem, d)
  PROVE  View' = [View EXCEPT ![c] = Items(mem', c)] /\ View[c] = Items(mem, c)
BY DEF View

\* What changes neither the caches, nor the lists, nor the program's
\* references is no step of FamilyStore.
LEMMA Stutters ==
  ASSUME held' = held, View' = View,
         mem'.live \intersect Caches = mem.live \intersect Caches
  PROVE  Stored
BY DEF Stored, Store!vars, View

\* nl_cache_remove(): an object is forgotten.
LEMMA Removal ==
  ASSUME ListInv, NEW o \in Objects, o \in mem.live,
         NEW c \in Caches, mem.cache[o] = c,
         mem' = NlCacheRemove(mem, o), held' = held
  PROVE  Listed(mem)' /\ Stored
<1>1. Whole(mem, held) /\ held \in Owners /\ Listed(mem)
  BY DEF ListInv, Inv
<1>2. mem'.live \in {mem.live, mem.live \ {o}}
  BY <1>1, RemoveIsWhole
<1>3. /\ Listed(mem')
      /\ \E k \in 1..Len(Items(mem, c)) :
           /\ Items(mem, c)[k] = o
           /\ Items(mem', c) = Without(Items(mem, c), k)
      /\ \A d \in Caches \ {c} : Items(mem', d) = Items(mem, d)
  BY <1>1, RemoveItems
<1>4. PICK k \in 1..Len(Items(mem, c)) :
        Items(mem, c)[k] = o /\ Items(mem', c) = Without(Items(mem, c), k)
  BY <1>3
<1>5. /\ View' = [View EXCEPT ![c] = Without(Items(mem, c), k)]
      /\ View[c] = Items(mem, c)
  BY <1>3, <1>4, ViewChanges
<1>6. DOMAIN Items(mem, c) = 1..Len(Items(mem, c))
  <2>1. Items(mem, c) \in Seq(Objects)
    BY <1>1 DEF Listed, Strung
  <2> QED
    BY <2>1, LenProperties
<1>7. \E i \in DOMAIN View[c] :
        /\ View[c][i] = o
        /\ View' = [View EXCEPT ![c] = Store!RemoveAt(@, i)]
  <2>1. Without(Items(mem, c), k) = Store!RemoveAt(View[c], k)
    BY <1>5 DEF Without, Store!RemoveAt
  <2> QED
    BY <1>4, <1>5, <1>6, <2>1
<1>8. mem'.live \intersect Caches = mem.live \intersect Caches
  BY <1>2
<1>9. Store!Forget(c, o)
  BY <1>7, <1>8 DEF Store!Forget, View
<1> QED
  BY <1>3, <1>9 DEF Stored, Store!Next

LEMMA ClearStepLists ==
  ASSUME ListInv, ClearStep
  PROVE  Listed(mem)' /\ Stored
<1> DEFINE c == call.cache
           o == call.pos
           h == NlCacheRemove(mem, o)
<1>1. /\ c \in Caches
      /\ o \in Objects /\ o \in mem.live /\ mem.cache[o] = c /\ mem' = h
  BY ClearStepMem DEF ListInv
<1>2. held' = held
  BY DEF ClearStep
<1> QED
  BY <1>1, <1>2, Removal

\* nl_cache_free() of a cache: it is empty by then.
LEMMA ClearEndLists ==
  ASSUME ListInv, ClearEnd
  PROVE  Listed(mem)' /\ Stored
<1> DEFINE c == call.cache
<1>1. /\ Whole(mem, held) /\ held \in Owners /\ Listed(mem) /\ held' = held
      /\ c \in Caches /\ c \in mem.live /\ mem.next[c] = c
  BY DEF ListInv, Inv, CallOK, ClearOK, ClearEnd
<1>2. CASE call.op # "free"
  <2>1. mem' = mem
    BY <1>2 DEF ClearEnd
  <2> QED
    BY <1>1, <2>1, ViewStays, Stutters
<1>3. CASE call.op = "free"
  <2>1. mem' = Freed(mem, c)
    BY <1>3 DEF ClearEnd
  <2> HIDE DEF c
  <2>2. mem \in Heaps /\ Rings(mem) /\ Ranked(mem)
    BY <1>1, WholeIsHeap
  <2>3. /\ mem' \in Heaps /\ mem'.live = mem.live \ {c} /\ mem'.cache = mem.cache
        /\ mem'.next = [mem.next EXCEPT ![c] = c]
    BY <1>1, <2>1, <2>2, FreedFields
  <2>4. \A n \in Reached(mem) : mem'.next[n] = mem.next[n]
    BY <1>1, <2>2, <2>3 DEF Heaps, Reached, Cached
  <2>5. Listed(mem') /\ \A d \in Caches : Items(mem', d) = Items(mem, d)
    BY <1>1, <2>2, <2>3, <2>4, SameItems
  <2>6. InCache(mem, c) = {}
    BY <1>1, <2>2, EmptyRing
  <2>7. View[c] = <<>> /\ View' = View
    BY <1>1, <2>5, <2>6, NothingListed, ViewStays DEF View
  <2>8. mem'.live \intersect Caches = (mem.live \intersect Caches) \ {c}
    BY <2>3
  <2>9. Store!Close(c)
    BY <1>1, <2>7, <2>8 DEF Store!Close, View
  <2> QED
    BY <1>1, <2>5, <2>9 DEF Stored, Store!Next
<1> QED
  BY <1>2, <1>3

LEMMA FillEndLists ==
  ASSUME ListInv, FillEnd
  PROVE  Listed(mem)' /\ Stored
<1>1. mem' = mem /\ held' = held
  BY DEF FillEnd
<1> QED
  BY <1>1, ViewStays, Stutters DEF ListInv

\* nl_object_put() and nl_object_alloc() leave the lists alone.
LEMMA PutLists ==
  ASSUME NEW m, NEW own \in Owners, NEW o \in Objects,
         Whole(m, OneMore(own, o)), Listed(m)
  PROVE  LET h == NlObjectPut(m, o)
         IN  /\ Listed(h) /\ \A c \in Caches : Items(h, c) = Items(m, c)
             /\ h.live \intersect Caches = m.live \intersect Caches
<1> DEFINE h == NlObjectPut(m, o)
<1>1. /\ Whole(h, own) /\ h.live \in {m.live, m.live \ {o}} /\ h.cache = m.cache
      /\ \A n \in Reached(m) : h.next[n] = m.next[n]
  BY PutIsWhole
<1> HIDE DEF h
<1>2. m \in Heaps /\ h \in Heaps
  BY <1>1, WholeIsHeap
<1>3. Listed(h) /\ \A c \in Caches : Items(h, c) = Items(m, c)
  BY <1>1, <1>2, SameItems
<1>4. h.live \intersect Caches = m.live \intersect Caches
  BY <1>1
<1> QED
  BY <1>3, <1>4 DEF h

LEMMA AllocLists ==
  ASSUME NEW m, NEW own \in Owners, Whole(m, own), Listed(m),
         NEW o \in Objects \ m.live
  PROVE  LET h == NlObjectAlloc(m, o)
         IN  /\ Listed(h) /\ \A c \in Caches : Items(h, c) = Items(m, c)
             /\ h.live \intersect Caches = m.live \intersect Caches
<1> DEFINE h == NlObjectAlloc(m, o)
<1>1. /\ Whole(h, [own EXCEPT ![o] = 1]) /\ h.live = m.live \union {o}
      /\ h.cache = m.cache
      /\ \A n \in Reached(m) : h.next[n] = m.next[n]
  BY AllocIsWhole
<1> HIDE DEF h
<1>2. m \in Heaps /\ h \in Heaps
  BY <1>1, WholeIsHeap
<1>3. Listed(h) /\ \A c \in Caches : Items(h, c) = Items(m, c)
  BY <1>1, <1>2, SameItems
<1>4. h.live \intersect Caches = m.live \intersect Caches
  BY <1>1
<1> QED
  BY <1>3, <1>4 DEF h

\* ctrl_msg_parser(): the family is at the end of the cache.
LEMMA ParseFamilyLists ==
  ASSUME ListInv, NEW o \in Objects, ParseFamily(o)
  PROVE  Listed(mem)' /\ Stored
<1> DEFINE c == call.cache
           one == OneMore(held, o)
           m1 == NlObjectAlloc(mem, o)
           m2 == NlCacheAdd(m1, c, o)
<1>1. /\ Whole(mem, held) /\ held \in Owners /\ Listed(mem)
      /\ c \in Caches /\ c \in mem.live /\ o \notin mem.live
      /\ mem' = NlObjectPut(m2, o) /\ held' = held
  BY DEF ListInv, Inv, CallOK, FillOK, ParseFamily
<1>2. one \in Owners /\ [held EXCEPT ![o] = 1] = one
  BY <1>1, OneMoreOwns, ParserOwns DEF ListInv
<1>3. /\ Whole(m1, one) /\ o \in m1.live /\ m1.live = mem.live \union {o}
      /\ m1.cache[o] = NoCache
  BY <1>1, <1>2, AllocIsWhole
<1>4. /\ Listed(m1) /\ \A d \in Caches : Items(m1, d) = Items(mem, d)
      /\ m1.live \intersect Caches = mem.live \intersect Caches
  BY <1>1, AllocLists
<1> HIDE DEF m1
<1>5. c \in m1.live
  BY <1>1, <1>3
<1> HIDE DEF one, c
<1>6. Whole(m2, one) /\ m2.live = m1.live
  <2>1. c \in Caches
    BY <1>1
  <2>2. \A x : \A w \in Owners : \A p \in Objects : \A d \in Caches :
          Whole(x, w) /\ p \in x.live /\ x.cache[p] = NoCache /\ d \in x.live =>
            Whole(NlCacheAdd(x, d, p), w) /\ NlCacheAdd(x, d, p).live = x.live
    BY AddIsWhole
  <2>3. Whole(m2, one)
    BY <1>2, <1>3, <1>5, <2>1, <2>2
  <2>4. m2.live = m1.live
    BY <1>2, <1>3, <1>5, <2>1, <2>2
  <2> QED
    BY <2>3, <2>4
<1>7. /\ Listed(m2) /\ Items(m2, c) = Append(Items(m1, c), o)
      /\ \A d \in Caches \ {c} : Items(m2, d) = Items(m1, d)
  BY <1>1, <1>2, <1>3, <1>4, <1>5, AddItems
<1> HIDE DEF m2
<1>8. /\ Listed(mem') /\ \A d \in Caches : Items(mem', d) = Items(m2, d)
      /\ mem'.live \intersect Caches = m2.live \intersect Caches
  BY <1>1, <1>6, <1>7, PutLists DEF one
<1>9. Items(mem', c) = Append(Items(mem, c), o) /\ \A d \in Caches \ {c} : Items(mem', d) = Items(mem, d)
  BY <1>1, <1>4, <1>7, <1>8
<1>10. View' = [View EXCEPT ![c] = Append(View[c], o)]
  BY <1>1, <1>9, ViewChanges
<1>11. mem'.live \intersect Caches = mem.live \intersect Caches
  BY <1>4, <1>6, <1>8
<1>12. Store!Learn(c, o)
  BY <1>1, <1>10, <1>11, FreeIsUncached DEF Store!Learn, View
<1> QED
  BY <1>1, <1>8, <1>12 DEF Stored, Store!Next

LEMMA ParseIncompleteLists ==
  ASSUME ListInv, NEW o \in Objects, ParseIncomplete(o)
  PROVE  Listed(mem)' /\ Stored
<1> DEFINE m1 == NlObjectAlloc(mem, o)
<1>1. /\ Whole(mem, held) /\ held \in Owners /\ Listed(mem) /\ o \notin mem.live
      /\ mem' = NlObjectPut(m1, o) /\ held' = held
  BY DEF ListInv, Inv, ParseIncomplete
<1>2. [held EXCEPT ![o] = 1] = OneMore(held, o)
  BY <1>1, ParserOwns DEF ListInv
<1>3. Whole(m1, OneMore(held, o))
  BY <1>1, <1>2, AllocIsWhole
<1>4. /\ Listed(m1) /\ \A d \in Caches : Items(m1, d) = Items(mem, d)
      /\ m1.live \intersect Caches = mem.live \intersect Caches
  BY <1>1, AllocLists
<1> HIDE DEF m1
<1>5. /\ Listed(mem') /\ \A d \in Caches : Items(mem', d) = Items(m1, d)
      /\ mem'.live \intersect Caches = m1.live \intersect Caches
  BY <1>1, <1>3, <1>4, PutLists
<1> QED
  BY <1>1, <1>4, <1>5, ViewStays, Stutters

\* nl_cache_alloc(): an empty list.
LEMMA CacheAllocLists ==
  ASSUME ListInv, NEW c \in Caches, CacheAlloc(c) \/ CtrlAllocCache(c)
  PROVE  Listed(mem)' /\ Stored
<1>1. /\ Whole(mem, held) /\ held \in Owners /\ Listed(mem) /\ c \notin mem.live
      /\ mem' = NlCacheAlloc(mem, c) /\ held' = held
  BY DEF ListInv, Inv, CacheAlloc, CtrlAllocCache
<1>2. /\ Whole(mem', held) /\ mem'.live = mem.live \union {c}
      /\ mem'.next = [mem.next EXCEPT ![c] = c] /\ mem'.cache = mem.cache
      /\ InCache(mem, c) = {}
  BY <1>1, CacheAllocIsWhole
<1>3. mem \in Heaps /\ mem' \in Heaps
  BY <1>1, <1>2, WholeIsHeap
<1>4. mem.next[c] = c
  BY <1>1, <1>2, NothingListed
<1>5. \A n \in Reached(mem) : mem'.next[n] = mem.next[n]
  BY <1>2, <1>3, <1>4 DEF Heaps, Reached, Cached
<1>a. Listed(mem) /\ mem'.cache = mem.cache
  BY <1>1, <1>2
<1>6. Listed(mem') /\ \A d \in Caches : Items(mem', d) = Items(mem, d)
  BY <1>3, <1>5, <1>a, SameItems
<1>7. View' = View
  BY <1>6, ViewStays
<1>8. mem'.live \intersect Caches = (mem.live \intersect Caches) \union {c}
  BY <1>2
<1>9. Store!Open(c)
  BY <1>1, <1>7, <1>8 DEF Store!Open, View
<1> QED
  BY <1>6, <1>9 DEF Stored, Store!Next

LEMMA StartClearingLists ==
  ASSUME ListInv, NEW c \in Caches, StartClearing(c)
  PROVE  Listed(mem)' /\ Stored
<1>1. mem' = mem /\ held' = held
  BY DEF StartClearing
<1> QED
  BY <1>1, ViewStays, Stutters DEF ListInv

\* genl_ctrl_search_by_name() finds the first family of the name.
LEMMA SearchLists ==
  ASSUME ListInv, NEW c \in Caches, NEW name \in Names, Search(c, name)
  PROVE  Listed(mem)' /\ Stored
<1> DEFINE list == Items(mem, c)
           found == {i \in DOMAIN list : NameOf[list[i]] = name}
<1>1. /\ Whole(mem, held) /\ held \in Owners /\ Listed(mem) /\ c \in mem.live
  BY DEF ListInv, Inv, Search
<1>2. PICK o \in Matches(mem, c, name) :
        mem' = NlObjectGet(mem, o) /\ held' = [held EXCEPT ![o] = @ + 1]
  BY DEF Search
<1>3. PICK i \in found : (\A k \in found : i <= k) /\ o = list[i]
  BY <1>2 DEF Matches
<1>4. list \in Seq(Objects) /\ DOMAIN list = 1..Len(list) /\ Len(list) \in Nat
  BY <1>1, LenProperties DEF Listed, Strung
<1>5. o \in Objects /\ o \in mem.live
  <2>1. o \in InCache(mem, c)
    BY <1>1, <1>3, <1>4 DEF Listed, Strung, Holds
  <2> QED
    BY <1>1, <2>1, WholeIsHeap DEF InCache, Counted
<1>6. /\ Whole(mem', OneMore(held, o)) /\ mem'.live = mem.live
      /\ mem'.cache = mem.cache /\ mem'.next = mem.next
  BY <1>1, <1>2, <1>5, GetIsWhole
<1>7. Listed(mem') /\ \A d \in Caches : Items(mem', d) = Items(mem, d)
  BY <1>1, <1>6, SameItems, WholeIsHeap
<1>8. View' = View /\ View[c] = list
  BY <1>7, ViewStays DEF View
<1>9. /\ i \in DOMAIN list /\ NameOf[list[i]] = name
      /\ \A j \in 1..i - 1 : NameOf[list[j]] # name
  <2>1. i \in 1..Len(list) /\ NameOf[list[i]] = name
    BY <1>3, <1>4
  <2>2. ASSUME NEW j \in 1..i - 1, NameOf[list[j]] = name PROVE FALSE
    <3>1. j \in 1..Len(list) /\ ~(i <= j)
      BY <1>4, <2>1
    <3>2. j \in found
      BY <1>4, <2>2, <3>1
    <3> QED
      BY <1>3, <3>1, <3>2
  <2> QED
    BY <1>4, <2>1, <2>2
<1> HIDE DEF list, found
<1>10. \E j \in DOMAIN View[c] :
         /\ NameOf[View[c][j]] = name
         /\ \A k \in 1..j - 1 : NameOf[View[c][k]] # name
         /\ held' = [held EXCEPT ![View[c][j]] = @ + 1]
  BY <1>2, <1>3, <1>8, <1>9
<1>11. Store!Find(c, name)
  BY <1>1, <1>6, <1>8, <1>10 DEF Store!Find, View
<1> QED
  BY <1>7, <1>11 DEF Stored, Store!Next, Names

LEMMA FamilyAllocLists ==
  ASSUME ListInv, NEW o \in Objects, FamilyAlloc(o)
  PROVE  Listed(mem)' /\ Stored
<1>1. /\ Whole(mem, held) /\ held \in Owners /\ Listed(mem) /\ o \notin mem.live
      /\ mem' = NlObjectAlloc(mem, o) /\ held' = [held EXCEPT ![o] = 1]
  BY DEF ListInv, Inv, FamilyAlloc
<1>2. /\ Listed(mem') /\ \A d \in Caches : Items(mem', d) = Items(mem, d)
      /\ mem'.live \intersect Caches = mem.live \intersect Caches
  BY <1>1, AllocLists
<1>3. View' = View
  BY <1>2, ViewStays
<1>4. Store!Create(o)
  BY <1>1, <1>2, <1>3, FreeIsUncached DEF Store!Create, View
<1> QED
  BY <1>2, <1>4 DEF Stored, Store!Next

LEMMA FamilyPutLists ==
  ASSUME ListInv, NEW o \in Objects, FamilyPut(o)
  PROVE  Listed(mem)' /\ Stored
<1> DEFINE less == [held EXCEPT ![o] = @ - 1]
<1>1. /\ Whole(mem, held) /\ held \in Owners /\ Listed(mem) /\ held[o] > 0
      /\ mem' = NlObjectPut(mem, o) /\ held' = less
  BY DEF ListInv, Inv, FamilyPut
<1>2. less \in Owners /\ OneMore(less, o) = held
  BY <1>1, OneLessOwns
<1>3. /\ Listed(mem') /\ \A d \in Caches : Items(mem', d) = Items(mem, d)
      /\ mem'.live \intersect Caches = mem.live \intersect Caches
  BY <1>1, <1>2, PutLists
<1>4. View' = View
  BY <1>3, ViewStays
<1>5. Store!GiveBack(o)
  BY <1>1, <1>3, <1>4 DEF Store!GiveBack, View
<1> QED
  BY <1>3, <1>5 DEF Stored, Store!Next

LEMMA CacheAddLists ==
  ASSUME ListInv, NEW c \in Caches, NEW o \in Objects, CacheAdd(c, o)
  PROVE  Listed(mem)' /\ Stored
<1>1. /\ Whole(mem, held) /\ held \in Owners /\ Listed(mem) /\ c \in mem.live
      /\ held[o] > 0 /\ held' = held /\ o \in mem.live
  BY HeldIsLive DEF ListInv, Inv, CacheAdd
<1>2. CASE ~Empty(mem, o)
  <2>1. mem' = mem
    BY <1>2 DEF CacheAdd
  <2> QED
    BY <1>1, <2>1, ViewStays, Stutters
<1>3. CASE Empty(mem, o)
  <2>1. mem.cache[o] = NoCache
    BY <1>1, <1>3, NoSelfLoop, WholeIsHeap DEF Empty, Cached
  <2>2. mem' = NlCacheAdd(mem, c, o)
    BY <1>3 DEF CacheAdd
  <2>3. mem'.live = mem.live
    BY <1>1, <2>1, <2>2, AddIsWhole
  <2>4. /\ Listed(mem') /\ Items(mem', c) = Append(Items(mem, c), o)
        /\ \A d \in Caches \ {c} : Items(mem', d) = Items(mem, d)
    BY <1>1, <2>1, <2>2, AddItems
  <2>5. View' = [View EXCEPT ![c] = Append(View[c], o)]
    BY <2>4, ViewChanges
  <2>6. Store!Insert(c, o)
    BY <1>1, <2>1, <2>3, <2>5, CachedMeans DEF Store!Insert, View
  <2> QED
    BY <2>4, <2>6 DEF Stored, Store!Next
<1> QED
  BY <1>2, <1>3

LEMMA CacheRemoveLists ==
  ASSUME ListInv, NEW o \in Objects, CacheRemove(o)
  PROVE  Listed(mem)' /\ Stored
<1>1. /\ Whole(mem, held) /\ held \in Owners /\ Listed(mem) /\ o \in mem.live
      /\ mem' = NlCacheRemove(mem, o) /\ held' = held
  BY HeldIsLive DEF ListInv, Inv, CacheRemove
<1>2. CASE mem.cache[o] = NoCache
  <2>1. mem' = mem
    BY <1>1, <1>2, RemoveIsWhole DEF Cached
  <2> QED
    BY <1>1, <2>1, ViewStays, Stutters
<1>3. CASE mem.cache[o] # NoCache
  <2>1. mem.cache[o] \in Caches
    BY <1>1, <1>3, WholeIsHeap DEF Heaps
  <2> QED
    BY <1>1, <2>1, Removal
<1> QED
  BY <1>2, <1>3

LEMMA NextLists ==
  ASSUME ListInv, [Next]_vars
  PROVE  ListInv' /\ Stored
<1>1. Inv'
  BY NextInv DEF ListInv
<1>2. CASE ClearStep
  BY <1>1, <1>2, ClearStepLists DEF ListInv
<1>3. CASE ClearEnd
  BY <1>1, <1>3, ClearEndLists DEF ListInv
<1>4. CASE FillEnd
  BY <1>1, <1>4, FillEndLists DEF ListInv
<1>5. CASE \E o \in Objects : ParseFamily(o) \/ ParseIncomplete(o)
  BY <1>1, <1>5, ParseFamilyLists, ParseIncompleteLists DEF ListInv
<1>6. CASE \E c \in Caches : CacheAlloc(c) \/ CtrlAllocCache(c) \/ StartClearing(c)
  BY <1>1, <1>6, CacheAllocLists, StartClearingLists DEF ListInv
<1>7. CASE \E c \in Caches, name \in Names : Search(c, name)
  BY <1>1, <1>7, SearchLists DEF ListInv
<1>8. CASE \E o \in Objects : FamilyAlloc(o) \/ FamilyPut(o) \/ CacheRemove(o)
  BY <1>1, <1>8, FamilyAllocLists, FamilyPutLists, CacheRemoveLists DEF ListInv
<1>9. CASE \E c \in Caches, o \in Objects : CacheAdd(c, o)
  BY <1>1, <1>9, CacheAddLists DEF ListInv
<1>10. CASE UNCHANGED vars
  <2>1. mem' = mem /\ held' = held
    BY <1>10 DEF vars
  <2> QED
    BY <1>1, <2>1, ViewStays, Stutters DEF ListInv
<1> QED
  BY <1>2, <1>3, <1>4, <1>5, <1>6, <1>7, <1>8, <1>9, <1>10 DEF Next

LEMMA InitLists == Init => ListInv /\ Store!Init
<1> SUFFICES ASSUME Init PROVE ListInv /\ Store!Init
  OBVIOUS
<1>1. Inv
  BY InitInv
<1>2. mem \in Heaps
  BY <1>1, WholeIsHeap DEF Inv
<1>3. ASSUME NEW c \in Caches
      PROVE  Strung(mem, c, <<>>) /\ Items(mem, c) = <<>>
  <2>1. InCache(mem, c) = {} /\ mem.next[c] = c
    BY DEF Init, InCache
  <2>2. <<>> \in Seq(Objects) /\ Len(<<>>) = 0
    BY EmptySeq
  <2>3. Cardinality(InCache(mem, c)) = 0
    BY <2>1, FS_EmptySet
  <2>4. Holds(mem, c, <<>>) /\ Closed(mem, c, <<>>)
    BY <2>1, <2>2 DEF Holds, Closed, Place
  <2>5. Strung(mem, c, <<>>)
    BY <2>2, <2>3, <2>4 DEF Strung
  <2> QED
    BY <1>2, <2>5, StrungItems
<1>4. Listed(mem)
  BY <1>3 DEF Listed
<1>5. View = [c \in Caches |-> <<>>]
  BY <1>3 DEF View
<1>6. Store!Init
  BY <1>5 DEF Store!Init, View, Init
<1> QED
  BY <1>1, <1>4, <1>6 DEF ListInv

-----------------------------------------------------------------------------
(* Theorems *)

\* Whatever calls a program makes, pointers point to nodes, and neither
\* ce_refcnt nor c_nitems is ever negative.
THEOREM TypeCorrect == Spec => []TypeOK
<1>1. Inv => TypeOK
  BY DEF Inv, Whole, Sound, Owners, CallOK, Calls, TypeOK
<1> QED
  BY <1>1, Invariance, PTL

\* Whatever calls a program makes, no function of object.c and cache.c reads
\* or writes freed memory, or frees twice.
THEOREM MemoryIsSafe == Spec => []MemorySafe
<1>1. Inv => MemorySafe
  BY DEF Inv, Whole, Sound, MemorySafe
<1> QED
  BY <1>1, Invariance, PTL

\* Whatever calls a program makes, ce_refcnt of each object is the number of
\* references to it, and an object without references is free.
THEOREM RefsAreCounted == Spec => []RefsCounted
<1>1. Inv => RefsCounted
  BY DEF Inv, Whole, Sound, Counted, RefsCounted
<1> QED
  BY <1>1, Invariance, PTL
LEMMA ListInvariance == Spec => []ListInv
<1>1. Init => ListInv
  BY InitLists
<1>2. ListInv /\ [Next]_vars => ListInv'
  BY NextLists
<1> QED
  BY <1>1, <1>2, PTL DEF Spec

\* Whatever calls a program makes, each cache lists exactly the objects that
\* say they are in it, once, forwards and backwards, and c_nitems counts them.
THEOREM ListsAreRings == Spec => []RingsHold
<1>1. ListInv => RingsHold
  <2> SUFFICES ASSUME ListInv, NEW c \in Caches, c \in mem.live
               PROVE  LET list == Items(mem, c)
                      IN  /\ {list[i] : i \in DOMAIN list} = {o \in Objects : mem.cache[o] = c}
                          /\ Len(list) = mem.nitems[c]
                          /\ \A i \in 1..Len(list) - 1 : mem.prev[list[i + 1]] = list[i]
                          /\ mem.prev[c] = IF list = <<>> THEN c ELSE list[Len(list)]
    BY DEF RingsHold
  <2> DEFINE list == Items(mem, c)
             L == Len(list)
  <2>1. Strung(mem, c, list) /\ Rings(mem) /\ Sized(mem)
    BY WholeIsHeap DEF ListInv, Inv, Listed, Whole
  <2> HIDE DEF list
  <2>2. list \in Seq(Objects) /\ L \in Nat /\ DOMAIN list = 1..L
    BY <2>1, LenProperties DEF Strung
  <2>3. {list[i] : i \in DOMAIN list} = InCache(mem, c)
    BY <2>1, <2>2 DEF Strung, Holds
  <2>4. L = mem.nitems[c]
    BY <2>1 DEF Strung, Sized
  <2>5. \A i \in 0..L : mem.prev[Place(c, list, i + 1)] = Place(c, list, i)
    <3> SUFFICES ASSUME NEW i \in 0..L
                 PROVE  mem.prev[Place(c, list, i + 1)] = Place(c, list, i)
      OBVIOUS
    <3>1. mem.next[Place(c, list, i)] = Place(c, list, i + 1)
      BY <2>1 DEF Strung, Closed
    <3>2. Place(c, list, i) \in Linked(mem)
      BY <2>1 DEF Place, Strung, Holds, InCache, Linked, Cached
    <3> QED
      BY <2>1, <3>1, <3>2 DEF Rings
  <2>6. \A i \in 1..L - 1 : mem.prev[list[i + 1]] = list[i]
    <3> SUFFICES ASSUME NEW i \in 1..L - 1 PROVE mem.prev[list[i + 1]] = list[i]
      OBVIOUS
    <3>1. i \in 0..L /\ i \in 1..L /\ i + 1 \in 1..L
      BY <2>2
    <3> QED
      BY <2>5, <3>1 DEF Place
  <2>7. mem.prev[c] = IF list = <<>> THEN c ELSE list[L]
    <3>1. mem.prev[c] = Place(c, list, L)
      <4>1. L \in 0..L /\ Place(c, list, L + 1) = c
        BY <2>2 DEF Place
      <4> QED
        BY <2>5, <4>1
    <3>2. list = <<>> => L = 0
      OBVIOUS
    <3>3. list # <<>> => L \in 1..L
      BY <2>2, EmptySeq
    <3> QED
      BY <3>1, <3>2, <3>3 DEF Place
  <2> QED
    BY <2>3, <2>4, <2>6, <2>7 DEF list, InCache
<1> QED
  BY <1>1, ListInvariance, PTL

\* Pointers, counts and loops implement sequences of families: whatever calls a
\* program makes, it sees caches that grow at their end, lose one family at a
\* time, find the first family of a name, and go away only when empty, and
\* memory that is somebody's family does not become another one.
THEOREM CachesAreSequences == Spec => Implements
<1>1. Init => ListInv /\ Store!Init
  BY InitLists
<1>2. ListInv /\ [Next]_vars => ListInv' /\ [Store!Next]_(Store!vars)
  BY NextLists DEF Stored
<1> QED
  BY <1>1, <1>2, PTL DEF Spec, Implements, Store!Spec
=============================================================================
