# Verification of nl80211: libnl-tiny, iw and class Wifi

This directory holds TLA+ models of the netlink code in this repository, the
TLC configurations that check them on small instances, and proofs that TLAPS
checks. `PROJECT.json` lists the components, the runs, which lines of the
source each definition stands for, the hazards and the theorems.

## 1. The system

Everything in the repository talks to the Linux kernel over one kind of
channel, a netlink socket.

| Component | State it keeps | Operations | Correct when |
|---|---|---|---|
| **Message loop** (`libnl-tiny/nl.c`, `handlers.c`) | `s_seq_next`, `s_seq_expect` of a socket; within a call of `nl_recvmsgs()` the datagram being parsed and the local `multipart` | `nl_send_auto_complete`, `nl_recv`, `nl_recvmsgs`, `nl_wait_for_ack`; callbacks in ten slots | the two counters stay in step, every message runs the handler it should, a multipart answer is read to its end |
| **Requests** (`cache.c`, `unl.c`, `iw/iw.c`, `iw/genl.c`) | an `int err` on the stack that the handlers of ACK, FINISH and ERR set | send, then `nl_recvmsgs()` once or until `err` is set | a caller gets exactly the items and the outcome that the kernel produced for its own request, and comes back |
| **Sockets and local ports** (`socket.c`, `nl.c`) | `used_ports_map`, `s_local.nl_pid`, `NL_OWN_PORT`, the descriptor | alloc, free, connect, close, `nl_socket_set_local_port` | no two sockets hold one bit, bits are given back, generated ports can be bound |
| **Objects and caches** (`object.c`, `cache.c`, `cache_mngt.c`, `genl_*.c`) | reference counts, list membership, registries of operations | alloc, clone, get/put, add/remove/refill, register/unregister | an object is freed once, after its last reference and outside every list |
| **Messages and attributes** (`msg.c`, `attr.c`, `genl.c`) | length, size and contents of one message | reserve, put, nest, parse, validate | what is put is found again, no attribute leaves the message or its nest |
| **unl** (`unl.c`) | one socket, a family cache, `loop_done` | init, request, loop, subscribe | as for requests; a group belongs to the family asked for |
| **iw commands that wait** (`iw/event.c`, `scan.c`, `connect.c`, `genl.c`, `phy.c`, `mgmt.c`) | one socket for requests *and* events, the groups joined, `registered_handler`, `wait_event` | `__prepare_listen_events`, `__do_listen_events`, `handle_cmd` called by handlers | whatever events arrive, answers go to their requests, the awaited event is seen |
| **iw dispatch** (`iw.c`, `sections.c`) | the linker-made command table, `registered_handler`, the chain of `handle_cmd()` calls | `main`, `__handle_cmd`, the handlers that call `handle_cmd()` | the command that was named is found, exit code 0 means done, message and callbacks are released |
| **iw argument parsers** (most files of `iw/`) | the state of an automaton over `argc`/`argv`, and the message being built | one handler per command | what is sent is what the usage text means by the words, what it does not allow is refused, and no loop runs past the arguments |
| **iw printers of scan results** (`scan.c`, `util.c`, `link.c`) | pointer and remaining length in an element; `static lr` of `link.c` | `print_bss_handler`, `link_bss_handler`, `print_ies`, one printer per element | no printer leaves its element or loops for ever, and link speaks of one access point |
| **iw, other printers** (`event.c`, `info.c`, `station.c`, ...) | none beyond one message | print | |
| **class Wifi** (`wifi_interface.cc`) | socket, two callback sets, two result flags, one `wifi_msg` | constructor (`InitNl80211`, `WifiInfoUpdate`), getters, destructor | the constructor returns, and `wifi_` describes one interface |
| **Netinfc** (`net_interface.cc`) | a socket for `ioctl()` | getters and setters | not concurrent, no protocol |

How they interact: `iw` and class Wifi call `genl_ctrl_resolve()`, which refills
a cache, which sends a dump request and calls `nl_recvmsgs()`; they send their
own requests on the *same* socket and call `nl_recvmsgs()` with callbacks of
their own; these run inside `recvmsgs()`, decide with their return code how the
loop goes on, and store the outcome in a variable the waiting loop polls. The
kernel is the other process: it answers inside `sendmsg()`, continues a dump on
every read, and multicasts events at any time to the groups joined.

(The `cmake` build compiles libnl-tiny and the demo of class Wifi; `iw` has a
Makefile of its own that links the netlink library pkg-config finds. iw is
modelled over the libnl-tiny of this repository, whose API it uses.)

What is hard in it, in the order of importance:

1. *Sequence numbers.* `s_seq_expect` advances on every message but data,
   whatever loop is reading. An answer out of step is dropped and its waiter
   sleeps for ever. Every request path must leave the socket in step.
2. *Events between answers.* Once a group is joined, look-ups and dumps are
   interrupted by messages with number 0; a dump given up half-way leaves its
   rest in the socket.
3. *Loss.* Failed sends, a full receive buffer (`ENOBUFS`), refused requests
   (`EBUSY` while a dump runs), and loops that ignore what `nl_recvmsgs()`
   returns.
4. *Process-wide port bitmap* under any order of alloc, free and set.
5. *Ownership* of objects, callbacks and messages on error paths.
6. *Boundaries* of message and attribute lengths.

`PROJECT.json` lists each of them at its line under `hazards`.

## 2. Modules

| Module | Stands for | Extends |
|---|---|---|
| `Recvmsgs` | one pass of the loop of `recvmsgs()` over one message: which handler runs, what its code does, what happens to `s_seq_expect` and `multipart`. Operators only | |
| `NlSocket` | a connected socket, one call of `nl_recvmsgs()` and the kernel's side of the socket. Operations that programs conjoin with their own updates | `Recvmsgs` |
| `NlRecv` | the calls of `recvmsg()` inside one `nl_recv()`, which `NlSocket` takes for one step | |
| `Request` | the abstract specification: what a caller of a request relies on | |
| `NlRequest` | all functions that send a request and wait for its answer, in any order on one socket | `NlSocket` |
| `NlRequestInv` | the inductive invariants of `NlRequest` | `NlRequest` |
| `IwListen` | `iw event`, `connect -w`, `scan` and `cac` with events in between | `NlSocket` |
| `WifiClient` | class Wifi: constructor to destructor | `NlSocket` |
| `LocalPorts` | `used_ports_map` and the sockets that hold its bits | |
| `NlList` | the circular lists of `list.h` on a memory. Operators only | |
| `FamilyStore` | the abstract specification: what a user of family caches relies on | |
| `FamilyCache` | objects, reference counts and caches of generic netlink families | `NlList` |
| `NlAttr` | layout of messages and attributes, `nla_ok()` and `nla_next()`. Operators only | |
| `MsgTree` | the abstract specification: a message is a forest of attributes | |
| `NlMsg` | building a request from attributes, nests and other messages | `NlAttr` |
| `Channels` | channels, frequencies, widths: `parse_freqs()`, `parse_freqchan()`, `get_cf1()`, `put_chandef()` | |
| `ArgStream` | what argument parsers are made of: the words left, the message so far, the value returned | `Channels` |
| `JoinArgs`, `NanArgs`, `ScanArgs`, `FileArgs`, `RateArgs`, `IfaceArgs`, `SetArgs` | the parsers: joining networks and keys; NAN; scans; files (wowlan, coalesce, FTM); rates; interfaces, channel switches and tids; everything with one to three arguments | `ArgStream` |
| `IwUsage` | the reference definition: the command lines each usage text allows, with the attributes they mean | |
| `IwArgs` | one parser running over one command line | the parsers, `IwUsage` |
| `IwCommands` | the table of commands the linker makes of all `COMMAND()` lines | |
| `IwMain` | `main()` and `__handle_cmd()`, the handlers that call it again, over `IwArgs` | `IwArgs`, `IwCommands` |
| `IePrinters` | the printers of information elements: what they read and how their loops move on | |
| `BssPrint` | `print_bss_handler()`, `link_bss_handler()`, `print_ies()` over the entries of a dump | `IePrinters` |
| `NlSocketProofs`, `NlRequestProofs`, `IwListenProofs`, `WifiClientProofs`, `FamilyCacheProofs`, `WireProofs`, `IwArgsProofs`, `IwMainProofs` | theorems and lemmas; `WireProofs` those of `NlRecv`, `LocalPorts`, `NlMsg` and `BssPrint`, `IwArgsProofs` the lemmas on the parsers |
| `MC...` | the constants of the runs | |

The three groups meet where the code's do. `IwMain` takes a request for one
step (accepted or refused); `NlRequest` shows that this is what
`__handle_cmd()` may take it for as long as nothing else shares the socket, and
`IwListen` what happens when events do. `ArgStream` has room for every
attribute; `NlMsg` is about the room there is.

### NlSocket and Recvmsgs

`rx` is the call of `nl_recvmsgs()` in progress: `"read"` before `recvmsg()`,
`"parse"` inside the `while (nlmsg_ok(...))` loop with the rest of the datagram,
`"out"` after the return, with what it returned. `Parse(cb)` is one pass of the
loop with the callback set `cb`, a function from the slots that are set to the
code their handlers return; a slot outside its domain takes the loop's own
default. `Verdict` composes, as the `NL_CB_CALL` sequence does, MSG_IN, the
sequence check, SEND_ACK and the branch on the type. Message payloads are opaque
`Items`. NLMSG_ERROR is three classes: error 0 (`ACK`), another error (`ERR`)
and a truncated one (`SHORT`).

The kernel (external to the repository) is modelled by what the library relies
on: a request is handled inside `sendmsg()`; one dump at a time per socket; a
dump is cut into datagrams at any point, ends with NLMSG_DONE, and is continued
by a read when the receive buffer is at most half full; a datagram that does not
fit is dropped and the next read reports `ENOBUFS`; events carry number 0.

Sequence numbers count from 1 instead of `time(NULL)`; 0 keeps its meaning.
They do not wrap: the code's are 32 bits wide and start at the time of day, so a
wrap needs two billion requests on one socket.

### NlRequest

`Ask(c)` is the body of function `c` up to the first call of `nl_recvmsgs()`,
with the kernel's decision; `AskFails(c)` the error return of
`nl_send_auto_complete()`; `Parsing` a message going through the loop together
with what the handlers do; `Again` the `while (err > 0)` of the three functions
that loop; `Done` the return. The callback sets are those each function
installs (`PickupCb`, `MulticastIdCb`, `HandleCmdCb`, `UnlRequestCb`,
`WaitForAckCb`).

### IwListen

The script of a command is the sequence of its steps: `prepare`
(`__prepare_listen_events`), `command` (`handle_cmd` of connect or scan
trigger), `listen`, `dump`. `prepare` looks up each group by resolving `nlctrl`
(a dump of all families into an emptied cache), asking it for `nl80211`, and
joining the group found. `PrepareFails` is `prepare` returning an error because
`config` is not found or a group that is found cannot be joined: `event` and
`connect` return it, `cac` listens all the same, and `scan`, which compares the
result of `listen_events()` with `NL80211_CMD_SCAN_ABORTED` only
(`scan.c:2633`), goes on to the dump without a wait. `NotListening` is
`__do_listen_events()` without memory for its callbacks. `Noise` is an event of somebody else, at any moment
once a group is joined; `Announce` the result of the accepted command.

### WifiClient

`pc` follows `InitNl80211()` and the two loops of `WifiInfoUpdate()`. `Worlds`
are the interfaces the kernel has, each with the attributes it comes with; each
field of `wifi_` records which item it was last copied from. Requests may be
refused, cut short (an error code inside NLMSG_DONE) or not sent. When
`InitNl80211()` fails the constructor goes on with a freed socket: state
`"undefined"`, about which nothing is claimed.

### LocalPorts

A port is the pair of its high 10 bits (`nr`) and low 22 bits (`low`); the code
shifts and adds without carry. `used` is the bitmap as a set. `Slots` and
`LowMax` are 1024 and 0x3FFFFF in the code.

### NlMsg and NlAttr

A message is its `nlmsg_len`, the attribute headers written so far (`mem`, by
offset; payloads only take room) and `open`, the pointers that the caller got
from `nla_nest_start()` and has not passed to `nla_nest_end()`. `Request` is the
message of `__handle_cmd()`, the `Blocks` are those that `handle_scan()`,
`wowlan.c`, `nan.c` and others build beside it and nest into it. As in `iw`, a
put that fails ends the command, except `nla_put_nested()`, whose result no
caller reads: the block is lost and the command goes on. Nothing sends a message
with an open nest. `MCNlMsg` reads each message back with `nla_ok()` and
`nla_next()`; whether an attribute holds others is known by its type, as the
policies of a reader do. The forest that is found is the refinement mapping to
`MsgTree`. Not modelled: `nlmsg_append()` and `nlmsg_convert()`, which nothing
calls, `calloc()` failing, payloads.

### FamilyCache and NlList

`mem` is the heap: `next` and `prev` of every list node, `refcnt` and `cache`
(`ce_refcnt`, `ce_cache`) of every object, `nitems` of every cache, the nodes
that are allocated (`live`), and `ok`, which becomes false for ever when freed
memory is read or written or memory is freed twice. Operators with the names of
the functions of `object.c` and `cache.c` map a heap to a heap; the actions are
the calls a program makes, which own `held[o]` references to `o`. A call that
does not happen at once is in `call`: `nl_cache_clear()` with the two pointers
of `nl_list_for_each_entry_safe()`, alone or inside `nl_cache_refill()` and
`nl_cache_free()`, and the dump that follows it (`"fill"`), where `ParseFamily`
is `ctrl_msg_parser()` of a complete message and `ParseIncomplete` of one that
it gives up. `nl_cache_alloc_and_fill()` frees the cache it has made if the dump
fails (`Failed`).

`nl_cache_add()` of an object that has been in a list clones it. The clone of a
family shares list nodes with the original, and the model ends there (`op =
"undefined"`). Not modelled: the list of caches that a program shares by name,
operations and groups of a family, a failing `calloc()`.

### NlRecv

`call` is the locals of `nl_recv()`: the length of its buffer in units of four
pages, the room for control messages, and whether the next `recvmsg()` peeks.
`Grown`, `GrownControl` and `Peeked` are the three ways the `retry:` label is
reached. `PutCmsg` is what the kernel's `put_cmsg()` does to the room, with the
sizes of `nl_pktinfo` and `ucred`. The options are changed between calls. The
definitions that other modules have too are called `RecvInit`, `RecvSpec`, ...
(and `MsgInit`, ... in `NlMsg`, `PrintInit`, ... in `BssPrint`), since
`WireProofs` proves about all of them.

### The argument parsers

A parser is a record `p`: the words, how many are consumed (`pos`), the
attributes put so far, each as its path of attribute types with its value, the
value the handler returns (`"go"` while it runs), and its local variables. A
handler is an operator from stage and parser to parser: straight-line code is
cut at its blocks, a `while (argc)` loop is one stage that asks to be repeated
(`Again`), a state machine keeps its `parse_state` in `loc.st`. `IwArgs!Step`
takes one stage. A word is a string and never taken apart: tables say which are
numbers, addresses, hex strings, rates or names of files, and what is in those.
`"undefined"` is what a handler returns that has looked at an argument that is
not there.

`IwUsage` does not come from the handlers: it writes down the usage text of each
`COMMAND()` as a sequence of parts and what each means in attributes. `Language`
is a sample of what the texts allow: repetitions are taken once or twice, and
the fields of NAN functions come with the types that use them. `Bent` picks out
of it the command lines that the code does not take for what they say: it
refuses them or sends something else (section 5). `SentAsMeant` says that these
are *all* of them: every other command line is accepted and sent as meant, and
none of these is. `Beyond` are command lines outside the usage that the code
takes, with what it sends for them. `Tried(c)` is what `IwMain` gives a parser:
every command line of `Language` and `Beyond`, every one cut off after any word,
every one with a word misspelt and every one with a word more (up to `MaxNear`
words).

### IwMain

`Start` is `main()`; `FindDevice` and `FindCommand` the two halves of
`__handle_cmd()` before the message; `Handle`, `Parse`, `ParserDone` the call of
`cmd->handler()`; `Send` and `Answered` the request; `Out` the labels `out:` and
below. `calls` is the stack of `__handle_cmd()` calls, since `iw_connect()`,
`handle_scan_combined()`, `handle_link()`, `handle_cac()`,
`handle_ftm_req()`, `handle_info()`, `handle_reg_get()`,
`get_interface_meshparam()` and others call `handle_cmd()`; a call of theirs that
is waiting for another is at its next position in the handler. The table of
commands is a set, and `Found` gives every command that the two loops over it
may end with, for whatever order the linker chose. `heap` counts what has been
allocated and not released. `PrinterOf` and `RegisteredBy` are
`register_handler()` and the functions that call it. `Prepare` and `Listen`
stand for `__prepare_listen_events()` and `__do_listen_events()`, which
`IwListen` models in full. System calls may fail where the command line is
`faulty`.

### IePrinters and BssPrint

`w` is what a printer holds: the offset of its pointer in the element, its
remaining length (a `uint8_t`, modulo 256), how far its last step has read, and
its place in the code. A printer without a loop is one step with the furthest
byte it reads at that length; the others move on with the counts and lengths
they find, which can be anything in `Counts` and `Nibbles`. `BssPrint` has the
loop of `print_ies()` over elements of every tag that has a printer, one that
has none and the vendor elements, and the two callbacks around it. The dump may
end with an error after any entry (`DumpFails`), upon which `handle_link()`
returns without another word (`link.c:258`).

## 3. Runs

| Run | Question | Result |
|---|---|---|
| `nl_request` | Do requests of all five functions, in any order, with refusals and failed sends, leave the socket in step (`InStep`), does nothing get answered after a failed send (`FailedSendIsFatal`), and do they implement `Request` (`Implements`, with liveness)? | holds |
| `nl_recv` | Does `nl_recv()` return datagrams whole, in order and with the credentials that were asked for, and lose only what it must (`WholeInOrder`)? Does a peeking call come back (`ReadsWhatCame`)? | holds |
| `nl_msg` | Messages built in any order of put, nest, end and nested messages: `StreamsAreSound`; does what a reader finds implement `MsgTree` (`Implements`)? | holds |
| `nl_msg_room` | Is a block of attributes for which there is room put in the message (`FittingIsPut`)? | violated, finding |
| `iw_scan` | `iw event`, `connect -w`, `scan` (which may be aborted) and `cac` with 4 unrelated events at any moment, some of which look like the result, a receive buffer of 2 datagrams, which events fill so that answers are dropped, groups that cannot be joined and callbacks that cannot be allocated: `EndsInStep`, `JoinsOwnGroups`, `DumpIsComplete`, `ListenerHears` | holds |
| `iw_connect_race` | Does the wait of `connect -w` end once the result was announced, with one unrelated event (`ConnectWaitEnds`)? | violated, finding |
| `iw_main` | Every command with command lines of its usage and everything close to one, behind every way to name a device, with failing allocations, look-ups and requests, for every order of the table: is what is sent what was meant, but for the command lines named in `Bent` (`SentAsMeant`), is only what the usage allows accepted, but for `Beyond`, `Lenient` and `Overlooks` (`AcceptsOnlyUsage`), does nothing read behind the arguments (`ReadsOnlyArguments`), is the command reached that was named (`ReachesCommand`), does exit code 0 mean done (`ZeroMeansDone`), is everything released (`NothingKept`), does an answer meet its own printer (`OwnPrinter`)? | holds, with the exceptions below |
| `iw_info_wdev` | Can a wdev stand for a netdev (`WdevStandsForNetdev`)? | violated, finding |
| `iw_print` | Does a printer stay inside its element (`ReadsInside`) with pointer and length in step (`PointerInStep`), do its loops consume (`LoopsConsume`), are the right sets of elements shown (`SetsShown`), is what `iw link` says consistent (`LinkIsConsistent`)? | holds |
| `local_ports` | Any order of operations: `HoldersApart`; while no port was chosen, `GeneratedCanBind`; while no port was replaced by a generated one, `NothingLeaks` | holds |
| `family_cache` | Any order of calls on caches and families: `MemorySafe`, `RefsCounted`, `RingsHold`, `ClearEnds`; does it implement `FamilyStore` (`Implements`)? | holds |
| `wifi_update` | class Wifi with interfaces in different orders and requests that fail: what the fields are copies of (`LastOneWins`), that both dumps are read out (`DumpsAreReadOut`), when the constructor returns (`ConstructorReturns`) and when it cannot (`FailedRequestHangs`) | holds |

All runs but `local_ports` say `CHECK_DEADLOCK FALSE`: programs end, and a
program that waits for a message that never comes is a state of theirs;
`family_cache` stops at the clone of a family, `nl_msg` when the request is sent
or given up, `nl_recv` when `recvmsg()` has nothing to wait for.

Exceptions that the properties state themselves: where the usage text and the
code differ (section 5), `IwUsage` keeps the command line with the meaning the
text gives it and names it in `Bent`; what the code takes without the text having
it is in `Beyond`, `Lenient`, `Overlooks` and `ReadsBeyond`.

Some hazards are in the models and in no property, because the code is exposed to
them and the property says what holds without: `PROJECT.json` notes at each which
property leaves it out (a scan that is over before iw listens, `cac` without a
group, a dump that is cut, ports chosen by hand or for the process id 0x3FFFFF,
datagrams longer than the buffer without peeking, a control buffer of 0 bytes).

Bounds. Requests on one socket: 4, enough for every pair of functions and two
that meet what they leave. Events: 4. Receive buffer: 4 datagrams, of which an
answer takes at most 2; 2 in `iw_scan`, so that an event can take the room an
answer needs. Dumps have 0 to 3 items, cut into datagrams in every way. Three
families, the third one with groups of the same names; groups `config` and two
more.
Datagrams: up to three, of 1, 2 and 5 buffer lengths, so that the buffer is
doubled up to three times, and two fit into the queue.
Families: three objects, two of them of the same name, so that a look-up has a
choice and a list a middle; two caches; one reference to an object at a time
(`MaxHeld`), which with the references of the list and of the parser makes three.
Messages: 56 bytes, one request and one block. The request has room for three
attributes, so for a nest with an empty or a padded attribute in it, or a block
of one nest and one attribute nested once more; the block has room for four.
Ports: 3 bits, 3 sockets (symmetric), explicit ports that collide with generated
ones and one that does not.
Command lines: no bound but `MaxNear` = 8 words for the misspelt ones;
`MaxSteps` is more than any of them needs, and `SentAsMeant` says that it is not
reached. Repetitions in a usage are taken once or twice. Two names of
interfaces, one of them that of a command.
Elements: every length up to 16, those around each bound of the tables and of
the printers' own checks, and 255; counts from 0 to 20, around the products that
wrap, and the largest of 8 and 16 bits. Two entries for `link`, of two BSSIDs.

Fairness. The process is scheduled: `WF_vars(Receive)`, `WF_vars(Program)` or
`WF_vars(Recvmsg)`, over the steps of the program that need nothing from
outside; reading is enabled only when a datagram or an error is there. In
`IwListen` the kernel ends a command it accepted (`WF_vars(Announce)`). No event
is assumed to happen. In `FamilyCache` only the loop of `nl_cache_clear()` is
fair, which needs nothing from outside.

## 4. Proofs

For every value of the constants that satisfies the named assumptions beside
them (`ItemsAssumption`, `QueueLimitAssumption`, ...). Each inductive invariant
was first checked by TLC on the constants of its run.

| Module | Theorem | States |
|---|---|---|
| `WireProofs` | `TypeCorrect`, `PortsApart`, `GeneratedPortsBind`, `PortsAreGivenBack` | `TypeOK`, `HoldersApart`, `GeneratedCanBind`, `NothingLeaks` of `LocalPorts` |
| | `DatagramsComeWholeInOrder` | `WholeInOrder` of `NlRecv` |
| | `MsgTypeCorrect`, `WalksAreSound` | `MsgTypeOK`, `StreamsAreSound` of `NlMsg` |
| | `PrintersReadInside`, `PointersStayInStep`, `LoopsMakeProgress` | `ReadsInside`, `PointerInStep`, `LoopsConsume` of `BssPrint` |
| | `SetsAreShown`, `LinkSpeaksConsistently` | `SetsShown`, `LinkIsConsistent` of `BssPrint` |
| `NlRequestProofs` | `TypeCorrect`, `ExpectNeverAhead` | `TypeOK`, `NeverAhead` |
| | `OneAnswerAtATime`, `RequestsInStep`, `FailedSendSilences` | `AnswerInv`, `InStep`, `FailedSendIsFatal` |
| | `RequestsRefine` | the safety part of `Implements`: every step is one of `Request` or none |
| `IwListenProofs` | `WaitsEndInStep`, `OwnGroupsJoined`, `ScanDumpComplete` | `EndsInStep`, `JoinsOwnGroups`, `DumpIsComplete` |
| `WifiClientProofs` | `LastValuesStay`, `NoReturnFromFailure`, `LoopsReadToTheEnd` | `LastOneWins`, `FailedRequestHangs`, `DumpsAreReadOut` |
| `FamilyCacheProofs` | `TypeCorrect`, `MemoryIsSafe`, `RefsAreCounted`, `ListsAreRings` | `TypeOK`, `MemorySafe`, `RefsCounted`, `RingsHold` |
| | `CachesAreSequences` | `Implements`: the refinement of `FamilyStore` |
| `IwMainProofs` | `TypeCorrect`, `OthersReadTheirArguments` | `TypeOK`, `ReadsOnlyArguments` of the parsers |
| | `ZeroIsEarned`, `MemoryIsGivenBack`, `AnswersMeetTheirPrinter` | `ZeroMeansDone`, `NothingKept`, `OwnPrinter` |
| | `CalledCommandsAreFound` | `CallsReach`, the second half of `ReachesCommand` |

Along which arguments:

- *Local ports.* `HoldersApart` is inductive together with `TypeOK`.
  `GeneratedPortsBind` is strengthened by `BoundMarked`: the bit of every port
  that is bound stays marked, also after its socket has been given another one.
  `NothingLeaks` needs `HoldersApart`: releasing a port clears a bit that no
  other socket holds.
- *nl_recv().* What makes `WholeInOrder` inductive is `CallOK`: after a
  successful peek the next `recvmsg()` has room for the datagram and its control
  messages (`ControlIs`, about the arithmetic of `put_cmsg()`), and without
  packet information the control buffer is large enough from the start.
- *Requests.* `s_seq_expect <= s_seq_next` alone is not inductive: a message
  numbered as a request yet to be made would push it ahead. `SeqInv` adds that
  every message in the queue, in the datagram being parsed, and of the dump in
  progress has a number that was given out. `AnswerInv` describes the socket in
  the middle of a request: items of the answer, then exactly one message that
  ends it, spread over the datagram being parsed, the queue and the dump
  (`Outstanding`), or nothing at all (`Settled`); after a failed send, that no
  message carries the expected number (`Deaf`). Assumption `Fits`: the receive
  buffer holds at least two datagrams, and the functions that call
  `nl_recvmsgs()` once are not used for requests that are answered with a
  datagram before the acknowledgement. The second half is needed:
  `nl_wait_for_ack()` (`nl.c:706`) calls `nl_recvmsgs()` once, and comes back
  before the acknowledgement when another datagram is in front of it.
- *Requests implement `Request`.* `GivesInv` adds to `AnswerInv` what the caller
  has been given so far: the items handled, followed by those still on their way
  in order, are the answer of the kernel (`Ordered`, `Answering`), and
  `nl_recvmsgs()` runs only for a caller that waits (`Calling`). Each action of `NlRequest` then has a lemma that it is a step of
  `Request` or leaves its state alone. Besides `Fits` this assumes `Takes`: who
  has no handler for valid messages (`nl_wait_for_ack()`) does not ask for any.
  Both hold of the run's constants.
- *Commands that wait for events.* `AnswerInv` does not hold here: an event
  makes `nl_recvmsgs()` return early, `prepare` may give up a dump of families
  half-way and make the next request while the rest of it is arriving, and
  events take the room of answers. `ListenInv` says less of what there is, and
  more of what it can be: the messages of one answer come in order and nothing
  follows its end (`Ordered`); at each stage, what a message with each number may
  be (`Expected` within `Stage`); the entries printed of a scan and then those
  still coming are the kernel's dump in order, and its end comes only after all
  of them (`DumpFlow`); and how much of its script a command has left
  (`Scripted`). `OwnGroupsJoined` follows from `Expected`: the rest of an
  abandoned dump reaches `family_handler()` only when the dump of families had
  not ended, hence `nlctrl` was not resolved, hence the kernel refuses the
  request that is waited for, and what the handler has found is not joined.
  Nothing is assumed of the size of the receive buffer or the number of events.
- *class Wifi.* `WifiInv`: what is on its way is one answer with one end
  (`Ordered`); at each place of the constructor what can be on its way at all,
  and nothing when no request is being waited for (`Stage`); `wifi_` holds, for
  each field, the last value among the items already handled, where these and
  those on their way are the interfaces, or the stations (`Shown`).
- *Families and caches.* That no freed node is touched depends on the shape of
  the lists, so the invariant has it: `Rings` (the pointers of linked nodes are
  inverse to each other and stay in the ring of one cache), `Ranked` (along
  `next` the objects come in an order, so no ring goes round without its cache;
  it makes the head that is linked with itself the head of an empty list, which
  `nl_cache_free()` relies on), `Counted` (`RefsCounted`) and `Sized` (`c_nitems`
  is the number of objects that name the cache). A lemma for each function of
  `object.c` and `cache.c` shows that it keeps this (`Whole`) and passes
  references on as it should, and that a walk of a list meets only objects that
  name its cache (`ItemsAreCached`). `CallOK` adds what the two pointers of
  `nl_cache_clear()` point to between its passes. That a list holds *every*
  object that names its cache is not in there, since a ring could have been cut
  in two. `ListInv` adds it as `Listed`: the walk from a cache visits a sequence
  without repetition of exactly those objects. Appending, removing and the
  passes of `nl_cache_clear()` are shown to append to, and to remove one element
  from, that sequence, which is `FamilyStore`. Finite sets of objects and caches
  are the only assumption.
- *Messages.* For messages of any size below 64 KiB. `StreamsAreSound` alone does
  not survive `nla_nest_end()`, which moves the end of the innermost open nest:
  `Good` adds that the open nests lie at increasing offsets (`Stack`) and that
  whatever is complete ends before every open nest that begins after it
  (`Apart`). Opening and closing then move no end (`SameEnds`), and all that
  appends, one attribute or a whole block, is one lemma (`Extend`).
- *Printers.* For elements of any length up to 255, with anything in them:
  counts below 65536, four-bit lengths. `print_ie()` checks the length against a
  table once; the lemmas on the tables say that this check is enough for what the
  printer reads without asking (`Ready`, `RowsSafe`). From there `Printing` holds
  at each place of each printer: pointer and remaining length add up to the
  element and nothing behind it has been read; and `Goes` of each step: a printer
  that is at the same place again has less left. `SetsInv`: the sets of elements
  shown, followed by those still to be shown, are the sets that `-b` asks for,
  for any number of entries. `LinkInv`: what `static lr`, which is kept from
  entry to entry, says of the sentences printed so far: an access point is in it
  only if it was called connected, `anything_found` is set by no other sentence
  than the two that `Not connected` would contradict, and nothing is printed
  about statistics before the dump has ended.
- *Parsers.* For command lines of any length and any words. `ReadsOnlyArguments`
  needs to know where a parser stands: `Sound` says that its position is within
  `argv` or at its end, `Holds(q, n)` that n more arguments are there. There is a
  lemma for each operator that the handlers are made of, and for each handler:
  it steps over an argument only where it has looked at `argc`, or has compared
  the argument with something that the null pointer `argv[argc]` is not
  (`WordThere`, `NumberThere`, `MacThere`). Handlers that are stages need what
  the stage before them has left: the second stage of a handler that wants an
  argument starts with one (`ShortSound`), and a state machine is in a state it
  knows (`Known`). `StepArgs` puts this together for all of them: `ArgsOK` is inductive.
- *Commands.* For any command lines, devices and failures. `IInv` describes the
  stack of calls, which has at most two: the outer one waits at `"calling"` for
  the command that its handler calls after that many steps (`Callee`), with the
  words it hands on (`Calls`). `Shape` says of each call that it still has its
  words and that its command fits the kind of device; `Place` what has
  happened before it could get where it is: above all that a call returns 0 only
  as the last request was accepted, which a combined handler passes on
  (`Resumed`); `Prints` that the callback is one for the request, and `WaitOK`
  that the one that waits for events is there only in a handler that has waited
  for them; `HeapOK` that what is allocated is what the calls own; `ArgsOK` the
  parser, `CmdOK` that it is the one of the command that runs. Each of these
  needs others: `ZeroMeansDone` that no index is negative behind `FindDevice`,
  `OwnPrinter` what a handler may call after it has waited, `NothingKept` that a
  command which was called is found and calls no other.

Assumptions of the last two. `LinesAssumption`: a command line is a sequence of
words and may meet failures or not. The others are about tables that the modules
write down and have no constant but the set of commands; the provers do not go
through hundreds of strings, TLC does in the run `iw_main`: `HandlersAssumption`
(every command has a parser), `TablesAssumption` and `NullIsNoNumber` (the null
pointer is in none of the tables of words), `CalleesAssumption` (what handlers
call is in the table of commands and sends a request) and `PrintersAssumption`
(handlers register a printer for their request).

`NlSocketProofs` has the lemmas on the operations of the socket that the proofs
about `NlRequest`, `IwListen` and `WifiClient` cite.

Only model-checked:

- liveness: `ListenerHears`, `ConstructorReturns`, `ReadsWhatCame`, `ClearEnds`
  and the fairness part of `Request` within `Implements` of `NlRequest`, which
  are out of the prover's reach;
- `Implements` of `NlMsg`: the forest of a message is found by recursion over its
  bytes, and what a recursive definition computes for every input cannot be
  proved here;
- `SentAsMeant` and `AcceptsOnlyUsage`: both compare what a parser does with a
  list of command lines and meanings that is written down, so a proof would be
  the enumeration over again, which the run goes through; the same for the first
  half of `ReachesCommand`, that each command line reaches the command it names;
- `ChannelsComeBack`, an assumption of `Channels` (`ChannelsAssumption`) that TLC evaluates over all
  bands and channels: the way from a channel to its frequency and back;
- what the three runs that expect a violation show.

What would be proved next: the steps of `MsgTree` in `NlMsg`, given a forest that
is described without recursion; and `ReachesCommand` for any table in which no
two commands share section, name and kind of device.

## 5. Where texts and code differ

The three runs that expect a violation show one each (`findings` of
`PROJECT.json`). The following were met on the way; the models do what the code
does, and where a property would be disturbed the module says so in a comment
(`Bent`, `Beyond`, `Lenient`, `Overlooks` and `ReadsBeyond` in `IwUsage`, the
exceptions in `ZeroMeansDone` and `NothingKept`).

Netlink library:

- `nl.c:371` says that the size of a message is found by peeking; peeking is off
  unless `nl_socket_enable_msg_peek()` was called. With packet information and
  without credentials `nl_recv()` doubles a control buffer of 0 bytes for ever.
- An event between request and answer can use up the buffer space of the answer;
  `iw event` then waits for an answer that was dropped (`genl.c:107`).
- `iw scan` does not notice that it could not join a group: it prints the dump at
  once, which is that of an older scan (`scan.c:2633`).
- `nl_socket_set_local_port(sk, 0)`, and a new socket, may get a generated port
  that was chosen explicitly for another socket, because chosen ports are not
  entered in the bitmap (`socket.c:184-189`).
- `genl_register()` puts the operations into `genl_ops_list` before
  `nl_cache_mngt_register()` can fail; unregistering what was never registered
  removes a node that was not initialised.
- `unl_free()` keeps its family; `unl_nl80211_wdev_to_phy()` leaks the partial
  answer when an error follows it.

Dispatch:

- `iw phy#-1 ...` and `iw wdev -5 ...`: a negative number is taken for an error,
  `-errno` is returned, and that may be 0.
- An interface that is called like a command hides the command (`iw event`).
- `iw wdev 5 info` is refused, although wdevs may stand for netdevs (run
  `iw_info_wdev`).
- `iw dev wlan0 connect establish` joins no network of that name: it reaches the
  hidden second half of the command.
- `iw dev wlan0 cac` with less than three words keeps its callback set
  (`phy.c:314`). `mgmt dump` without a count counts down from 0, so for ever, and
  takes its device for a netdev however it was named.
- `handle_reg_get()` has a branch for `phy` that no command reaches.
- `iw commands` ends with exit code 2.

Arguments that are accepted though the usage has no such form: anything behind
the arguments of `coalesce enable`, `mpath probe`, `ocb join`, `mgmt reg`, behind
the name of a file in `vendor`, behind `mfp:` and behind a PSK in `connect`;
`set retry short long` (limits 0); `reg set USA` (as `US`); `station set ... txpwr
limit` and `nan ... pref` and `cookie` with something that is no number; a second
word of `cqm rssi` that is no number or stands behind `off`; anything but `on` behind
`vendor_sync` (as off); options that need an argument, without it, at the end of `ibss join`
and `mesh join`; `addr` of `interface add` in front of one other option; in
schedules of scans, words that only begin with `flush` or `coloc`
(`scan.c:205-208`); 3 for `he-ltf`, which is sent as 1.

Arguments that are refused though the usage has them (each is in `Bent`):
in `set tidconf` a single word of rates behind `bitrates limit`, like `sgi-5`, or
more `tids` behind rates; `mfp:` without a PSK, behind WEP keys too
(`connect.c:163`); `nan start bands` without a band and `nan config` with nothing
(`nan.c:55`, `nan.c:88`); two options of `interface add` behind the type, other
than an `addr` in front.

Arguments whose meaning is not what the words say (also in `Bent`): one `he-gi`
and `he-ltf` for all bands, the last; behind `net-detect` of `wowlan enable`, another
trigger ends the schedule and drops the lists it has read (`scan.c:209`);
`80MHz` at 6915 to 6994 MHz, because `get_cf1()` lists 6195 a second time (`util.c:1288`). Not in
`Language`, because they are misspelt: `ies` behind `randomise` ends `scan
trigger` with 0 and without the rest of the message, a broken schedule behind
`net-detect` likewise.

Arguments that are read without a look at their number: what follows the channel
in `ap start`, the file of `coalesce enable`, the address of `interface add ...
addr`, the width in a line of `ftm_request_send`.

Printers:

- `util.c:1138` stops one set of HE rates early; `zero_delimiter` is reset where
  it should be set in the supported operating classes (`scan.c:1544`).
- `iw link` to an access point it is only authenticated with says so twice.
- A vendor element that is too short, or an extension element without contents,
  is reported though unknown elements are not wanted.
- `print_phy_handler()` remembers in static variables what it last printed.

## 6. Not modelled

- *The kernel's interface* (`nl80211.h` and the other copied headers, a quarter
  of the code): constants and layouts. Attributes and commands occur in the
  models by their names.
- *Other printers* (`event.c`, `info.c`, `station.c`, `phy.c`, `interface.c`,
  `survey.c`, ...): each turns the attributes of one message into text and keeps
  no state. Which of them is called for which answer is `OwnPrinter`; what
  `event.c` does to waiting commands is `IwListen`.
- *Texts and number formats*: `strtol()`, `sscanf()`, hex strings, addresses. The
  parsers' words come from tables that say what these functions make of them, so
  nothing is said about them.
- *Registries* of cache and generic netlink operations: two lists with one entry
  each, filled before `main()`.
- *unl* but for `unl_request()`, overriding callbacks (`cb_recv_ow` ...), policies
  of `nla_parse()`: not used by any program of the repository, or calls of
  functions that other modules have, one after the other. `nl_object_clone()` is
  reached only for an object that already is in a cache, and has no defined result
  for a family; the model ends there.
- *After a failed* `InitNl80211()` class Wifi uses a socket that has been freed;
  nothing can be said of what follows.
- `GetSsid()` and `ConnectAp()` run shell commands. `Netinfc` is one `ioctl()` per
  method. Error texts, SHA-256 and the Bloom filter are tables and pure
  arithmetic, for which test vectors are better.
- *Memory*: a failed allocation is modelled in `__handle_cmd()` and in `NlMsg`
  (room), not in the library, which does not look at what `calloc()` returns in
  many places.
