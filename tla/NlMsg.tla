-------------------------------- MODULE NlMsg --------------------------------
(***************************************************************************)
(* Building a request (libnl-tiny/msg.c, genl.c, attr.c): attributes are   *)
(* appended to a message of fixed size, alone, between nla_nest_start()    *)
(* and nla_nest_end(), or taken from another message by nla_put_nested().  *)
(* The callers are the commands of iw: a put that fails ends the command,  *)
(* but for nla_put_nested(), whose result they do not look at.             *)
(***************************************************************************)
EXTENDS NlAttr, Sequences

CONSTANTS
  Size,      \* nm_size: 4096 unless nlmsg_set_default_size() is called
  Request,   \* the message that is sent
  Blocks,    \* the messages whose attributes are nested into others
  Leaves,    \* attribute types with a payload of their own
  Nests,     \* attribute types that hold attributes
  Payloads   \* lengths of payloads

Messages == Blocks \union {Request}

\* A message holds at least its headers, and nla_len is a uint16_t.
ASSUME SizeAssumption == Size \in (NlmsgHdr + GenlHdr)..U16Max
ASSUME PayloadsAssumption == Payloads \subseteq Nat
ASSUME TypesAssumption == Leaves \intersect Nests = {}
ASSUME RequestAssumption == Request \notin Blocks

VARIABLES
  msgs,   \* msgs[m].len: nlmsg_len; .mem: the attribute headers written;
          \* .open: the nests the caller has started and not ended
  phase   \* of the request: "alloc", "build", "sent", "given up"

msgVars == <<msgs, phase>>

-----------------------------------------------------------------------------
(* Operations on one message *)

\* __nlmsg_alloc()
NlmsgAlloc == [len |-> NlmsgHdr, mem |-> <<>>, open |-> <<>>]

\* nlmsg_tail()
NlmsgTail(x) == Align(x.len)

\* nlmsg_reserve() for a family header, padded to NLMSG_ALIGNTO
ReserveFits(x, n) == Align(n) + x.len <= Size
Reserved(x, n) ==
  [len |-> x.len + Align(n), mem |-> x.mem, open |-> x.open]

\* Mutant: the header of the attribute is forgotten.
NlaFitsPayload(x, n) == (NlmsgTail(x) + Align(n)) <= Size

\* nla_reserve(): tlen is the length the message will have.
NlaFits(x, n) == (NlmsgTail(x) + TotalSize(n)) + x.len <= Size

Written(mem, o, h) ==
  [p \in DOMAIN mem \union {o} |-> IF p = o THEN h ELSE mem[p]]

\* Mutant: nlmsg_len does not include the padding.
NlaPutUnpadded(x, type, n) ==
  [len  |-> NlmsgTail(x) + AttrSize(n),
   mem  |-> Written(x.mem, NlmsgTail(x), [type |-> type, len |-> AttrSize(n)]),
   open |-> x.open]

\* nla_put() when there is room
NlaPutIn(x, type, n) ==
  [len  |-> NlmsgTail(x) + TotalSize(n),
   mem  |-> Written(x.mem, NlmsgTail(x), [type |-> type, len |-> U16(AttrSize(n))]),
   open |-> x.open]

\* nla_nest_start() when there is room
NestStartIn(x, type) ==
  LET y == NlaPutIn(x, type, 0)
  IN  [len |-> y.len, mem |-> y.mem, open |-> Append(x.open, NlmsgTail(x))]

\* Mutant: nla_len of the nest does not include its header.
NestEndPayload(x) ==
  LET start == x.open[Len(x.open)]
      h == [type |-> x.mem[start].type, len |-> NlmsgTail(x) - (start + NlaHdr)]
  IN  [len  |-> x.len,
       mem  |-> Written(x.mem, start, h),
       open |-> SubSeq(x.open, 1, Len(x.open) - 1)]

\* nla_nest_end() of the innermost nest
NestEndIn(x) ==
  LET start == x.open[Len(x.open)]
      h == [type |-> x.mem[start].type, len |-> U16(NlmsgTail(x) - start)]
  IN  [len  |-> x.len,
       mem  |-> Written(x.mem, start, h),
       open |-> SubSeq(x.open, 1, Len(x.open) - 1)]

\* The headers of mem, moved up by d bytes.
Moved(mem, d) == [o \in {p + d : p \in DOMAIN mem} |-> mem[o - d]]

\* nla_put_nested() when there is room: the payload is all that follows the
\* header of message b.
PutNestedIn(x, type, b) ==
  LET y == NlaPutIn(x, type, b.len - NlmsgHdr)
      moved == Moved(b.mem, NlmsgTail(x) + NlaHdr - NlmsgHdr)
  IN  [len  |-> y.len,
       mem  |-> [o \in DOMAIN y.mem \union DOMAIN moved |->
                   IF o \in DOMAIN y.mem THEN y.mem[o] ELSE moved[o]],
       open |-> x.open]

-----------------------------------------------------------------------------
(* Steps of the caller *)

MsgInit ==
  /\ msgs = [m \in Messages |-> NlmsgAlloc]
  /\ phase = "alloc"

\* genlmsg_put(), of a family without a header of its own
GenlmsgPut ==
  /\ phase = "alloc"
  /\ ReserveFits(msgs[Request], GenlHdr)
  /\ msgs' = [msgs EXCEPT ![Request] = Reserved(msgs[Request], GenlHdr)]
  /\ phase' = "build"

\* NLA_PUT() and what is built from it
NlaPut(m, type, n) ==
  /\ phase = "build"
  /\ NlaFits(msgs[m], n)
  /\ msgs' = [msgs EXCEPT ![m] = NlaPutIn(msgs[m], type, n)]
  /\ UNCHANGED phase

NestStart(m, type) ==
  /\ phase = "build"
  /\ NlaFits(msgs[m], 0)
  /\ msgs' = [msgs EXCEPT ![m] = NestStartIn(msgs[m], type)]
  /\ UNCHANGED phase

NestEnd(m) ==
  /\ phase = "build"
  /\ msgs[m].open # <<>>
  /\ msgs' = [msgs EXCEPT ![m] = NestEndIn(msgs[m])]
  /\ UNCHANGED phase

\* nla_put_failure: the command returns an error, its messages are freed.
PutFailure(m, n) ==
  /\ phase = "build"
  /\ ~NlaFits(msgs[m], n)
  /\ phase' = "given up"
  /\ UNCHANGED msgs

\* nla_put_nested(m, type, b), whose result is ignored, and nlmsg_free(b).
\* A message is nested when its own nests are ended, and only into those
\* that come after it: b is built for m.
PutNested(m, type, b) ==
  /\ phase = "build"
  /\ b # m /\ b # Request
  /\ msgs[b].open = <<>>
  /\ IF NlaFits(msgs[m], msgs[b].len - NlmsgHdr)
     THEN msgs' = [msgs EXCEPT ![m] = PutNestedIn(msgs[m], type, msgs[b]),
                               ![b] = NlmsgAlloc]
     ELSE msgs' = [msgs EXCEPT ![b] = NlmsgAlloc]
  /\ UNCHANGED phase

\* nl_send_auto_complete(); then the command waits for its answer.
Send ==
  /\ phase = "build"
  /\ msgs[Request].open = <<>>
  /\ phase' = "sent"
  /\ UNCHANGED msgs

MsgNext ==
  \/ GenlmsgPut
  \/ Send
  \/ \E m \in Messages :
       \/ \E type \in Leaves, n \in Payloads : NlaPut(m, type, n)
       \/ \E type \in Nests : NestStart(m, type)
       \/ NestEnd(m)
       \/ \E n \in Payloads : PutFailure(m, n)
       \/ \E type \in Nests, b \in Blocks : PutNested(m, type, b)

MsgSpec == MsgInit /\ [][MsgNext]_msgVars

-----------------------------------------------------------------------------
(* Properties *)

Header == [type : Leaves \union Nests, len : NlaHdr..U16Max]

MsgTypeOK ==
  /\ DOMAIN msgs = Messages
  /\ phase \in {"alloc", "build", "sent", "given up"}
  /\ \A m \in Messages :
       /\ msgs[m].len \in NlmsgHdr..Size
       /\ DOMAIN msgs[m].mem \subseteq 0..Size
       /\ \A o \in DOMAIN msgs[m].mem : msgs[m].mem[o] \in Header
       /\ \A i \in DOMAIN msgs[m].open : msgs[m].open[i] \in DOMAIN msgs[m].mem

Opened(x) == {x.open[i] : i \in DOMAIN x.open}

\* Where nla_next() goes, and where the payload of a nest ends.  A nest that
\* is still open ends with the message.
NextOf(x, o) ==
  IF o \in Opened(x) THEN NlmsgTail(x) ELSE NlaNext(o, x.mem[o])
DataEnd(x, c) ==
  IF c \in Opened(x) THEN NlmsgTail(x) ELSE c + x.mem[c].len

\* The nests that hold the attribute at o.
Around(x, o) ==
  {c \in DOMAIN x.mem :
     x.mem[c].type \in Nests /\ c < o /\ o < DataEnd(x, c)}

\* nla_next() takes a walk over the attributes of a message, or of a nest, to
\* the next one or exactly to the end: never into the middle of something,
\* and never past the end, where the rest would be negative and nla_ok()
\* would go on.  A nest begins with an attribute or is empty.
StreamSound(x) ==
  \A o \in DOMAIN x.mem :
    /\ NextOf(x, o) <= x.len
    /\ NextOf(x, o) \in DOMAIN x.mem \union {x.len}
    /\ \A c \in Around(x, o) : NextOf(x, o) <= DataEnd(x, c)
    /\ x.mem[o].type \in Nests =>
         o + NlaHdr \in DOMAIN x.mem \union {DataEnd(x, o)}

\* genlmsg_attrdata() and nlmsg_data(): where the attributes of m begin
First(m) ==
  NlmsgHdr + IF m = Request /\ phase # "alloc" THEN GenlHdr ELSE 0

\* The attributes of every message form sound streams, and lie within the
\* nm_size bytes that were allocated.  (attr.c:396-432, 614-666;
\* attr.h:469-512; msg.c:406-426)
StreamsAreSound ==
  \A m \in Messages :
    /\ msgs[m].len <= Size
    /\ First(m) \in DOMAIN msgs[m].mem \union {msgs[m].len}
    /\ StreamSound(msgs[m])

\* nla_put_nested() appends the attributes of a block for which the message
\* has room (attr.c:605, attr.h:455).
FittingIsPut ==
  [][\A type \in Nests, b \in Blocks :
       /\ PutNested(Request, type, b)
       /\ NlmsgTail(msgs[Request]) + TotalSize(msgs[b].len - NlmsgHdr) <= Size
       => msgs'[Request].len > msgs[Request].len]_msgVars
=============================================================================
