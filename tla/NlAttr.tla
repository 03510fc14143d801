------------------------------- MODULE NlAttr -------------------------------
(***************************************************************************)
(* The layout of netlink messages and of their attributes, and the walk    *)
(* over a stream of attributes (libnl-tiny/attr.c, netlink/attr.h,         *)
(* netlink/msg.h).  Offsets count from the start of a message.  Memory is  *)
(* the set of attribute headers written in it: mem[o] is the header at     *)
(* offset o, mem[o].len its nla_len, a 16-bit number.  Payloads are not    *)
(* modelled, only the room they take.                                      *)
(***************************************************************************)
EXTENDS Integers

NlmsgHdr == 16   \* NLMSG_HDRLEN
GenlHdr == 4     \* GENL_HDRLEN
NlaHdr == 4      \* NLA_HDRLEN

\* NLMSG_ALIGN(), NLA_ALIGN()
Align(n) == 4 * ((n + 3) \div 4)

U16Max == 65535
U16(n) == n % (U16Max + 1)

\* nla_attr_size(), nla_total_size()
AttrSize(n) == NlaHdr + n
TotalSize(n) == Align(AttrSize(n))

-----------------------------------------------------------------------------
\* nla_ok().  The bytes that remain are compared as a size_t: less than none
\* of them counts as very many.
NlaOk(h, remaining) ==
  /\ remaining < 0 \/ remaining >= NlaHdr
  /\ h.len >= NlaHdr
  /\ remaining < 0 \/ h.len <= remaining

\* nla_next()
NlaNext(o, h) == o + Align(h.len)
=============================================================================
