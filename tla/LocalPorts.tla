----------------------------- MODULE LocalPorts -----------------------------
(***************************************************************************)
(* Local port identifiers of the netlink sockets of one process            *)
(* (libnl-tiny/socket.c).  A port identifier is a 32-bit number: the high  *)
(* 10 bits, nr, are taken from a process-wide bitmap, the low 22 bits are  *)
(* those of the process id, so that shifting and adding never carry.       *)
(***************************************************************************)
EXTENDS Naturals

CONSTANTS
  Sockets,   \* struct nl_sock objects
  Slots,     \* bits in used_ports_map: 1024 in the code
  LowMax,    \* greatest value of the low part: 0x3FFFFF in the code
  Pid,       \* getpid() & 0x3FFFFF
  Explicit   \* ports a user passes to nl_socket_set_local_port()

Ports == [nr : 0..Slots-1, low : 0..LowMax]

\* UINT_MAX, which generate_local_port() returns when the map is full, and 0.
NoPort == [nr |-> Slots - 1, low |-> LowMax]
Zero == [nr |-> 0, low |-> 0]

ASSUME SlotsAssumption == Slots \in Nat \ {0}
ASSUME PidAssumption == LowMax \in Nat /\ Pid \in 0..LowMax
ASSUME ExplicitAssumption == Explicit \subseteq Ports \ {Zero}

VARIABLES
  used,   \* used_ports_map, as the set of bits that are 1
  live,   \* the sockets that have been allocated and not freed
  port,   \* port[s]: s_local.nl_pid
  own,    \* own[s]: NL_OWN_PORT is set in s_flags
  bound,  \* kernel: the sockets that are bound and to which port
  calls   \* history: nl_socket_set_local_port() has been called with 0
          \* ("generated"), with a port ("chosen")

vars == <<used, live, port, own, bound, calls>>

PortOf(n) == [nr |-> n, low |-> Pid]

Init ==
  /\ used = {}
  /\ live = {}
  /\ port = [s \in Sockets |-> Zero]
  /\ own = [s \in Sockets |-> FALSE]
  /\ bound = [s \in {} |-> Zero]
  /\ calls = {}

\* generate_local_port() returns p: the first free bit is taken, or the map
\* is full.
Generate(p) ==
  \/ /\ used = 0..Slots-1
     /\ p = NoPort
     /\ UNCHANGED used
  \/ \E n \in (0..Slots-1) \ used :
       /\ \A k \in 0..n-1 : k \in used
       /\ p = PortOf(n)
       /\ used' = used \union {n}

\* release_local_port()
Released(p) == IF p = NoPort THEN used ELSE used \ {p.nr}

\* nl_socket_alloc(): a socket that got UINT_MAX is freed at once.
Alloc(s) ==
  /\ s \notin live
  /\ \E p \in Ports :
       /\ Generate(p)
       /\ IF p = NoPort
          THEN UNCHANGED <<live, port, own>>
          ELSE /\ live' = live \union {s}
               /\ port' = [port EXCEPT ![s] = p]
               /\ own' = [own EXCEPT ![s] = FALSE]
  /\ UNCHANGED <<bound, calls>>

\* Mutants: the socket stays open; its port is not given back.
FreeOpen(s) ==
  /\ s \in live
  /\ used' = IF own[s] THEN used ELSE Released(port[s])
  /\ live' = live \ {s}
  /\ UNCHANGED <<port, own, bound, calls>>
FreeLeaking(s) ==
  /\ s \in live
  /\ live' = live \ {s}
  /\ bound' = [t \in DOMAIN bound \ {s} |-> bound[t]]
  /\ UNCHANGED <<used, port, own, calls>>

\* nl_socket_free() closes the socket and gives a generated port back.
Free(s) ==
  /\ s \in live
  /\ used' = IF own[s] THEN used ELSE Released(port[s])
  /\ live' = live \ {s}
  /\ bound' = [t \in DOMAIN bound \ {s} |-> bound[t]]
  /\ UNCHANGED <<port, own, calls>>

\* Mutant: the port the socket had is given back first.
SetGeneratedPortReleasing(s) ==
  /\ s \in live
  /\ LET kept == IF own[s] THEN used ELSE Released(port[s])
     IN  \E n \in (0..Slots-1) \ kept :
           /\ \A k \in 0..n-1 : k \in kept
           /\ used' = kept \union {n}
           /\ port' = [port EXCEPT ![s] = PortOf(n)]
  /\ own' = [own EXCEPT ![s] = FALSE]
  /\ calls' = calls \union {"generated"}
  /\ UNCHANGED <<live, bound>>

\* nl_socket_set_local_port(sk, 0): a generated port that the socket has is
\* not given back, and UINT_MAX is not looked for.
SetGeneratedPort(s) ==
  /\ s \in live
  /\ \E p \in Ports : Generate(p) /\ port' = [port EXCEPT ![s] = p]
  /\ own' = [own EXCEPT ![s] = FALSE]
  /\ calls' = calls \union {"generated"}
  /\ UNCHANGED <<live, bound>>

\* Mutant: a port is given back whoever chose it.
SetLocalPortReleasing(s, p) ==
  /\ s \in live
  /\ used' = Released(port[s])
  /\ own' = [own EXCEPT ![s] = TRUE]
  /\ port' = [port EXCEPT ![s] = p]
  /\ calls' = calls \union {"chosen"}
  /\ UNCHANGED <<live, bound>>

\* nl_socket_set_local_port(sk, p) with a port of the user's.
SetLocalPort(s, p) ==
  /\ s \in live
  /\ used' = IF own[s] THEN used ELSE Released(port[s])
  /\ own' = [own EXCEPT ![s] = TRUE]
  /\ port' = [port EXCEPT ![s] = p]
  /\ calls' = calls \union {"chosen"}
  /\ UNCHANGED <<live, bound>>

\* nl_connect(): the kernel refuses to bind a port twice (EADDRINUSE), the
\* socket is closed again then.
Connect(s) ==
  /\ s \in live
  /\ s \notin DOMAIN bound
  /\ \A t \in DOMAIN bound : bound[t] # port[s]
  /\ bound' = [t \in DOMAIN bound \union {s} |->
                 IF t = s THEN port[s] ELSE bound[t]]
  /\ UNCHANGED <<used, live, port, own, calls>>

\* nl_close()
Close(s) ==
  /\ s \in DOMAIN bound
  /\ bound' = [t \in DOMAIN bound \ {s} |-> bound[t]]
  /\ UNCHANGED <<used, live, port, own, calls>>

Next ==
  \E s \in Sockets :
    \/ Alloc(s) \/ Free(s) \/ SetGeneratedPort(s) \/ Connect(s) \/ Close(s)
    \/ \E p \in Explicit : SetLocalPort(s, p)

Spec == Init /\ [][Next]_vars

-----------------------------------------------------------------------------
TypeOK ==
  /\ used \subseteq 0..Slots-1
  /\ live \subseteq Sockets
  /\ port \in [Sockets -> Ports]
  /\ own \in [Sockets -> BOOLEAN]
  /\ DOMAIN bound \subseteq live
  /\ \A s \in DOMAIN bound : bound[s] \in Ports
  /\ calls \subseteq {"generated", "chosen"}

\* The sockets that hold a port taken from the map.
Holders == {s \in live : ~own[s] /\ port[s] # NoPort}

\* However ports are generated, replaced, released and reused: two sockets
\* never hold the same bit of the map, and the bit of each is marked.
HoldersApart ==
  /\ \A s \in Holders : port[s].nr \in used /\ port[s].low = Pid
  /\ \A s, t \in Holders : port[s] = port[t] => s = t

\* As long as nobody has chosen a port himself, a socket whose port was generated is
\* not kept from binding by another socket of the process, not even by one
\* that has meanwhile got another port and is still bound to the old one.
GeneratedCanBind ==
  "chosen" \notin calls =>
    \A s \in Holders : \A t \in DOMAIN bound : bound[t] = port[s] => t = s

\* A port is given back when its socket lets go of it: the bits that are
\* marked are those of the sockets that hold one.  The exceptions are
\* nl_socket_set_local_port(sk, 0), which forgets the port the socket had,
\* and the process id 0x3FFFFF, whose last port is UINT_MAX.
NothingLeaks ==
  "generated" \notin calls /\ Pid # LowMax
    => used = {port[s].nr : s \in Holders}
=============================================================================
