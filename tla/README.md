# A TLA+ verification of vppsb

vppsb is a sandbox of independent VPP extensions.  This directory holds
TLA+ modules of the parts whose logic is stateful, TLC configurations that
check them on small instances, and proofs for any instance.  `PROJECT.json`
lists components, runs, mutants, the source lines behind every definition, the
disagreements found, the hazards and the theorems.

## 1. Inventory

| Part | State | Operations | Hard about it | Right when |
|---|---|---|---|---|
| `netlink/librtnl/rtnl.c`: streams | a pool of streams: state (INIT, SYNC, READY), dump in progress, socket, poller entry, sequence number, deadline; vlib's event queue | open, close, read callback, `rtnl_process` with its events and deadlines | deferred opens and closes, events handed out by type, restarts of five chained dumps, lost notifications, reuse of slots and descriptors | a stream ends up READY, owns what it uses, leaks nothing, takes no old answer for a new one |
| `netlink/librtnl/netns.c`: mirrors | a pool of mirrors with their objects and subscriber counts; a pool of handles | `netns_open`, `netns_close`, `netns_callme`, `ns_recv_rtnl` | many subscribers to one mirror, a stream that outlives its mirror, loss below | the mirror equals the namespace, the subscribers know it, counts and streams are in step |
| `netlink/librtnl/mapper.c` | mapped interfaces per namespace, next to the FIB | map, unmap, route callbacks | routes before interfaces, deletion | the FIB holds the routes of mapped interfaces |
| `netlink/test/test.c` | ten handles | CLI | none | |
| `router/router` | injected taps, lists of interfaces to enable and disable, the set of readable taps, one netns subscription, enabled flag | CLI, interface events, tap I/O, netlink callbacks | enabling twice or failing half-way, events batched in two lists, dangling descriptors | taps and interfaces correspond; what Linux learns VPP learns, deletions too |
| `turbotap/turbotap` | a pool of tap interfaces, maps by index, pending bitmap, rings | connect, modify, delete, rx, tx | errors half-way, reuse of a slot with its bit set, full rings | no slot, descriptor or buffer leaks; packets go to the interface of their tap |
| `flowtable` (the patches) | a pool of flows, hash lines that hold the flows of one key, a timer wheel | look up or create, reschedule, expire, update | full pool, jumps of time, one flow in three structures | a flow is in pool, line and wheel or in none; it expires when idle and not before |
| `vcl-ldpreload` | maps of descriptors, sessions and epoll instances; `select` over two kinds of descriptors | socket, bind, accept, connect, close, select, epoll | reuse of descriptors with stale epoll items, sets overwritten while polling | every descriptor has one session, no readiness is lost, closing forgets everything |
| `vhost-test`, `vpp-bootstrap`, `vpp-userdemo` | none of their own | scripts, a vendored UI | | not modelled |

How they interact: `rtnl.c` hands messages to `netns.c` (`recv_message`);
`netns.c` calls its subscribers back, which are `mapper.c`, the router and the
test plugin; the router and turbotap sit between the kernel's taps and VPP's
graph; flowtable and vcl-ldpreload stand alone.

## 2. Plan

1. **`Rtnl`** (done): the stream engine with the kernel and the event queue;
   **`Stream`** (done): its interface, implemented by `Rtnl`.
2. **`Netns`** (done): mirrors and subscribers, composed with `Rtnl`;
   **`NetnsProofs`** (done): the streams, sharing, callbacks, and that a
   mirror misses nothing.
3. **`TapInject`** (done): enabling, interface events, taps, their readiness;
   **`TapInjectProofs`** (done).
4. **`FlowTable`** (done): flow cache and wheel under a clock that jumps;
   **`FlowTableProofs`** (done).
5. **`Mapper`**, **`MapperProofs`** (done): mappings and routes over a mirror
   that is shared with others.
6. **`RouterNetlink`**, **`RouterNetlinkProofs`** (done): what the mirror keeps
   of links, addresses, neighbours and routes, and what VPP is told of it.
7. **`Turbotap`**, **`TurbotapProofs`** (done): slots, descriptors, pending
   bitmap, buffers.
8. **`VcomSocket`** (done): descriptors, sessions, epoll instances and items;
   **`VcomSocketProofs`** (done).
9. **`VcomIo`**, **`VcomIoProofs`** (done): the polling loop of `select`,
   `pselect`, reads and writes.
10. Still to come: `epoll_wait` and the two nodes of the router towards Linux.

Worth stating abstractly: `Stream` (done), a mirror that follows a namespace
(`MirrorComplete`), `select` as one observation of all descriptors
(`ResultExact` and `SteadyReported` say how close the loop comes to it).

## 3. Modules

### Rtnl

The state is that of `rtnl_ns_t`, field by field, as functions of the pool
index: `state`, `sync` (sync_state), `sock` (rtnl_socket), `uix` (unix_index),
`armed` (whether timeout is below DBL_MAX), `seq` (rtnl_seq), `name`.
`alloc` is the pool.  A freed slot keeps its fields, as the pool does: `sock` and
`uix` are never reset, and the code's trust in them is what several properties
are about.

`opens`, `closes`, `reads` are vlib's pending events and `first` is the order
in which READ and CLOSE were first signalled, which is the order of their
types in `vlib_process_get_events`.  OPEN is always before both, as no
stream is closed or read before one was opened.  `proc` is the program counter of
`rtnl_process`: waiting, draining its events, or reading one stream.  All of it
runs on VPP's main thread, hence the guard `proc = "wait"` of API calls and
callbacks, and the process does not go back to waiting while an event is
pending.

`fdt` and `ftab` are the descriptor table and the poller's file pool, with
owners; descriptor 0 and file 0 are somebody else's, because 0 is what a slot
that never had a socket holds.  `wild` records that a close hit something that
was not the closing stream's.  What happens to that somebody, and to the file pool
after an entry is freed twice, is not followed further.

The kernel is external: per socket a bounded queue, whether it overflowed, the
dump being answered and what it has left to report.  A dump waits for room; a
notification is dropped without it.  A datagram is one message: the parts of a
dump that the kernel packs into one buffer have one sequence number, and
notifications come alone, so that a reset never happens in the middle of
a buffer.  A message that restarts the dumps is delivered all the same, as
`rtnl_ns_recv` falls through.

| Action | Code |
|---|---|
| `StreamOpen`, `StreamClose`, `ReadCb` | `rtnl_stream_open`, `rtnl_stream_close`, `rtnl_read_cb` |
| `Resume`, `Suspend`, `ProcessOpen`, `ProcessClose`, `ReadStart` | `rtnl_process` and its handlers |
| `ReadEnd`, `ReadRestart`, `ReadOther`, `ReadDone` | `rtnl_process_read`, `rtnl_ns_recv`, `rtnl_sync_done` |
| `ExpireRunning`, `OpenFails`, `OpenSocket` | `rtnl_process_timeout`, `rtnl_sync_timeout`, `rtnl_socket_open` |
| `KernelDumpObj`, `KernelDumpDone`, `KernelError`, `KernelChange` | external |

### Stream

What `rtnl.h` promises: a handle is free, syncing, ready or closing, and moves
between these by an open, once by getting ready, by a close and by the end of
the close.  `Rtnl!ImplementsStream` maps the detailed state to it.

### Netns

Extends `Rtnl` by the two pools of `netns.c`.  `view` holds the objects of a
mirror, each with the namespace it came from, so that a mix-up shows.  `opaque`
is the index a stream was opened with, which is all that `ns_recv_rtnl` gets.
`Deliver` is the whole of `ns_rcv_link`, `ns_rcv_route`, `ns_rcv_addr` and
`ns_rcv_neigh`; the four differ in their lookups only, which `Found` stands for: the
objects whose entries a message about an object may find (`rtnl_entry_match` and
the masks).  An object need not find itself: a route with labels never does
(`netns.c:272` compares them as the attribute around them), so that an update
makes a second entry and a deletion is lost; `Copies` says what is then left when
one entry goes.  Others find too much: addresses are looked up without
their interface (`netns.c:462`), and neighbours with the low byte of theirs
(`netns.c:535`), although the comment at line 529 means the four fields to
identify them.  `Distinct` are the objects that are taken for nothing else, and
`Owed` what a mirror must show of its namespace.

`Notify` (`netns_notify`) is told what was added or deleted.  An update announces
the new entry only, as added (`netns.c:512`): a subscriber is not told what it
overwrote, so `told`, which adds up the callbacks, and the mirror part where
entries are mixed up.  `Informed` says what a subscriber can rely on.  `told`,
`full` and `gap` are history: what callbacks said, whether that was everything, and
whether the socket dropped a notification.  `Deliver` is conjoined with `Rtnl`'s
read actions; everything else `Rtnl` does goes on unchanged.

`netns_close` frees its handle with the arguments of `pool_put` swapped.
For handle 0 the two pointers are equal and it works.  For any other the
assertion fails; without assertions the free bitmap would have to grow to 2^64
bits, and the allocator gives up.  Both end VPP, hence `aborted`, after which
nothing happens: the runs of Netns do not check for deadlock for that reason.

Calls that fail without a trace (a name that is too long, a namespace that
does not exist) change nothing and have no action.

### TapInject

The state is that of `tap_inject_main_t`: the four maps (`fdOf`, `ifxOf`, `swOfFd`,
`swOfIfx`), the two lists, the list of readable taps (`rx`) and the flags.  Around it
are VPP's interfaces, as far as the code looks at them: which exist, and the class
and the instance (the name) that a freed slot of the pool keeps.  Linux's
taps are a descriptor, an interface index and a name, each in use once.

| Action | Code |
|---|---|
| `InterfaceAdd`, `InterfaceDel` | VPP creates or deletes an interface and calls `tap_inject_interface_add_del` |
| `CliEnable`, `CliDisable` | `tap_inject_cli`, which fills the lists and runs the isr at once |
| `IsrStart`, `SkipOther`, `Connect`, `ConnectFails`, `Disconnect`, `IsrEnd` | `tap_inject_iface_isr` and what it calls, one step for each entry of a list |
| `LinuxSend`, `TapRead`, `Rx` | a packet in a tap; the poller's callback; `tap_inject_rx` with `tap_rx` |

The order of VPP's main loop is part of the model and the reason why some
hazards are none: first the poller lists readable taps, then pending interrupts
are served in the order they were raised, then processes (which the CLI and the
API run in).  The steps of the isr are not interleaved with anything.

The code uses an interface's hardware index where it means the software index
(`tap_inject_tap.c:51,62`), so the model has one kind of index.  Assertions are
off, as in a release build.  The entry of the poller's pool that a disconnect leaves
behind is not followed.  Starting with `disable` in the configuration is left out:
nothing runs then.

### FlowTable

The state is that of `flowtable_main_t` and of its flows.  A packet is its key, the
hash of its signature: lines are per key.  Within a line `lookup_create` compares
with `&sig`, the address of its parameter, so which flow of the line it finds, if
any, is a free choice (`Hit`, `Create`).  A slot of the wheel is a set: its
order only decides who is first when more than `MaxExpire` flows are due.

| Action | Code |
|---|---|
| `FrameStart` | `flowtable_process` up to its loop, with `timer_wheel_index_update` |
| `Hit`, `Create`, `AllocFails`, `OffPool`, `Other` | one turn of the loop, with `flowtable_entry_lookup_create` and `timer_wheel_resched_flow` |
| `FrameEnd` | `flowtable_timer_expire` with `flowtable_entry_remove` |
| `Update` | `flowtable_update`, between frames |

One thread processes frames; the structures have no locks, and the API's messages
are handled between frames.  The limit is checked with `>`, so one flow more than
`FM_POOL_COUNT` fits.  `flowtable_update` asserts that a lifetime is shorter than
the wheel, which checks nothing in a release build, and the API's handler passes the
client's 16 bits on: `Lifetimes` are any.  Of one that is longer the whole turns are lost,
and `DueAt` is what is left, counted from `seen`, the second of the flow's last packet
(history).  When the pool is full the loop
takes the same packet again with its header already skipped: what it reads then is
arbitrary, so the next packet of the model is.  `wild` records a read
outside of a pool, after which nothing is followed.

### Mapper

The mirror is reduced to its routes: it exists while anybody has the namespace
open, the mapper or another subscriber, and is empty when it is opened anew.
`mapper_add_del_route` ignores its argument `del`, so deleting a route, a mapping or
a namespace adds the paths concerned to the table; `Paths` is the same
for both, on purpose.  A namespace's tables for IPv4 and IPv6 are handled alike
and are one table here; `fib_by_sw` is the assignment of an interface to a table,
which nothing resets.

| Action | Code |
|---|---|
| `RouteAdd`, `RouteDel` | `ns_rcv_route` of the mirror, with `mapper_netns_notify_cb` |
| `mapper_add_ns`, `mapper_del_ns`, `mapper_add_del` | the functions of these names; the last with `mapper_getmap` or `mapper_delmap` |
| `OtherOpen`, `OtherClose` | external: another subscriber |

### RouterNetlink

What `Netns` abstracts to `Found` is spelt out here for the four types.  An
address is the same whatever its interface, so the entry keeps the interface of
the last addition and a deletion is told for that one.  Neighbours are kept by address
and low byte of the interface (`NeighKeys`): those of two interfaces share an entry,
whose last update decides.  A message without a link-layer address leaves the old one;
a deletion is told with the entry as it was kept.  The routes are a pool:
`rtnl_entry_match` never finds a route with labels, unless they are so many that
the attribute is too long to be compared, when it returns -1, which the callers take
for a match; `rtnl_entry_set` then keeps the labels that were there.
`get_mpls_label_stack` stops at the bottom of the stack, and at a zero label,
which the code does not expect.

On the other side are VPP's interfaces with flags, addresses, neighbours and paths.
The maps and lists are those of `TapInject`, and so are the actions: interfaces are
deleted and created again with the same index while the tap of the old one is still
in the maps, until the isr (`iface_isr`) or the CLI runs, which connect and
disconnect the taps of several interfaces in one step, as nothing is interleaved
with them.  A tap that `tap_inject_delete_tap` missed, because another one had
taken its interface's place in the map, stays in `tap_if_index_to_sw_if_index`
for good, and what Linux says about it is done to whatever has that index.

| Action | Code |
|---|---|
| `IfCreate`, `IfDelete`, `iface_isr`, `cli_enable`, `cli_disable` | `tap_inject_interface_add_del`, `tap_inject_iface_isr`, `tap_inject_cli` |
| `NewLink`, `DelLink` and likewise for addresses, neighbours, routes | `ns_rcv_link` and its like with the callbacks of `tap_inject_netlink.c` |
| `LinuxCreate` | external: an interface of Linux that is not a tap |

### Turbotap

The state is that of `turbotap_interface_t` and `turbotap_main_t`, field by field,
with the kernel's descriptors, VPP's interfaces and its buffers around it.  A slot
is never given back to VPP, only listed in `inactive`, and keeps what is
not overwritten.  Descriptor numbers are given out lowest first.

| Action | Code |
|---|---|
| `vnet_turbotap_connect` | the same: success, or an error before (`ConnectNoTun`) or after (`ConnectLate`) the slot is taken |
| `vnet_turbotap_delete`, `turbotap_flag_change` | the same, the former with `turbotap_tap_disconnect` |
| `turbotap_read_ready`, `RxStart`, `Rx`, `RxEnd` | the poller's callback; `turbotap_rx` with `turbotap_rx_iface` for one interface at a time |
| `turbotap_tx`, `Drop`, `LinuxSend` | the sending node; another last node; a packet from Linux |

`Rx` follows the buffers one by one.  Which buffers VPP hands out is not modelled as a
choice: they are all alike, and `Allocated` takes any fixed order of the free ones.  The
unused ones of each message go back to the end of the vector (`Received`).  `at` is where the loop that collects what
came takes them, `data` where the kernel was told to put the data.  They
agree because both loops take as many buffers per message; the property
`BuffersExact` is about that.

The poller, the input node, the frames it made, and the CLI and the API each run to
their end, in whatever order (`Outside`).  The main loop that VPP has would serve
the input node and its frames before the CLI; the model does not rely on that, so
an interface may be deleted, and its slot and descriptors given to another, while its bit
is pending and its packets are on their way.  `leaked` and `lost` are history: the
descriptors and slots that a failing connect did not give back.

### VcomSocket

The state is the two maps and pools of `vcom_socket.c` for sockets and
epoll instances (`vsockets`, `vep`, `count`, `closing`), and the pool of items with
its three indices (`item`, `byPair`, `byEpfd`, `byFd`).  Around them, what the kernel
has at a descriptor number, what vppcom has at a session index, and which
sessions are registered with which epoll index.  `held` are the descriptors the
application may use, `added` what it has added to epoll instances.

| Action | Code |
|---|---|
| `socket`, `bind`, `listen`, `connect`, `accept` | the entry points of `vcom.c` with the functions of `vcom_socket.c` behind them |
| `epoll_create1`, `epoll_ctl` | likewise, with `vcom_socket_ctl_vepitem` |
| `close` | `vcom_socket_close` with `_close_vsock` and `_close_vepoll` |
| `vcom_destroy`, `vcom_init` | the library's end, and its start again by the next call |

`socket` and `epoll_create` take two steps: `open_descriptor` reserves the number in the
kernel, and then there is a session or an epoll index for it (`vcom_socket_socket`,
`vcom_socket_epoll_create1`) or it is closed again (`out_close`).  A `bind` may fail in
the kernel after vppcom did it: the session stays bound.  An `accept` may fail after
vppcom accepted: `lost` are the sessions that nobody will close then (history).
A call that fails before it changes anything is `Refused`.  Items outlive the
descriptors they name: closing a socket leaves them, as the note in
`vcom_socket_close_vsock` says.  `careful` is an application that heeds that note
and removes a descriptor from its epoll instances before it closes it.
`MaxStray` bounds how far an application that does not can drive `count` below zero.

### VcomIo

One thread with one call at a time, in the steps between which data, time
and a hangup can come.  A bit is a descriptor in the set of readers or of
writers; the exceptional set is treated alike and left out.  `seen`, `steady` and
`first` are history: what the polls of this round found, what was ready all along
the round, and whether it is the first.

| Action | Code |
|---|---|
| `SelectStart`, `Sleep` | `vcom_select` up to its loop; its sleep |
| `PollVcom`, `PollLibc`, `Check` | one turn of the loop, with `vcom_socket_select` and the conversions |
| `PselectStart`, `Pselect` | `pselect` |
| `DataStart`, `Read`, `Write`, `fcntl` | `read`, `readv`, `recv`, `write`, `writev`, one buffer at a time; `O_NONBLOCK` |

## 4. Runs

| Run | Question | Bounds |
|---|---|---|
| `netns` | deadlines, closes, ends of dumps, the interface of a stream; the mirror misses nothing, subscribers know it, it is counted and given back | 1 stream, 1 namespace, 2 handles, 1 object, sequence numbers modulo 2, 2 messages, 2 changes, 2 faults |
| `netns_pair` | who owns which socket; whose objects a mirror shows | 2 streams, 2 namespaces, 1 index of a mirror, 1 free descriptor and file, 1 object in each, 1 fault (the dumps restart by a deadline or a refused request) |
| `netns_live` | streams get ready, closes are carried out, the mirror catches up | 1 stream, 1 handle, 1 object, 1 change, 2 faults |
| `taps` | maps, taps and interfaces correspond; packets stay with their interface and are read | 2 interfaces, 2 descriptors, 5 calls, 1 fault, 2 packets, taps listed twice |
| `flowtable` | pool, lines and wheel agree; flows expire on time | 2 keys, 2 flows, a wheel of 4 slots, lifetimes of 0, 3 and 5 besides the default of 2, 2 packets in a frame, 9 seconds (two turns), 1 flow expires in a frame |
| `vcom` | tables, kernel, vppcom and items agree | 3 descriptors, 3 sessions, 2 items, 1 connection waiting, a count down to -1 |
| `vcom_io` | results of select, bytes of reads and writes | 1 socket, 1 descriptor of the kernel, 1 byte in or out, 2 ticks, vectors of 1 and 2 buffers of 1 and 2 bytes |
| `vcom_select` | finding | as `vcom_io` |
| `turbotap` | slots, descriptors, packets, buffers | 2 taps, 2 interfaces, 2 slots, 8 descriptors, 4 buffers, 2 messages of 1 or 2 buffers, frames of 2, 2 packets waiting, 1 failing connect that leaks |
| `mapper` | what is due is in the tables and nothing else gets in | 2 namespaces, 2 Linux interfaces, 1 VPP interface, 2 tables, 3 routes (one multicast) |
| `router_netlink` | the mirror is applied | 3 Linux interfaces, 2 of them with one low byte, 1 VPP interface, 1 address, 2 neighbours, one of either family, routes with 0, 2, 7 and 8 labels of which 2 are kept, 3 messages of Linux |
| `turbotap_stall` | finding | 1 tap, 4 buffers of which 2 are extra, 2 messages of 1 buffer |

Why that is enough: a stream's own logic never looks at another stream, so one
stream is enough for it, and two for what they share: the tables, and the index of a
mirror that a closing stream still reports to while the next one has it.  One free
descriptor lets one stream take the number another has given back.  Sequence
numbers modulo 2 make a new request share the number of one two dumps earlier, and, with
notifications numbered 0, make a notification pass for an answer, as it may in
the code.  Two faults allow a failed retry of a failed retry.  `netns` has one stream and
one mirror at a time, which two handles open, share and close in any order;
several objects that are taken for one another, and mirrors and streams that
overlap, are covered by the proofs of `Shared`, `Informed` and `MirrorComplete`.  Five calls are enough to create, delete and create again an
interface between two runs of the isr, with a CLI command before and after.  Two flows of
one key or of two, with one expiry in a frame, give lines of zero, one and two
flows, slots that are moved and leftovers; two turns of the wheel let the clock
jump over a whole turn, and a lifetime of 5 in a wheel of 4 is longer than a turn.  Two
packets are one in each of two taps, so the first that cannot be read takes the
other's entry of the list with it.  Three descriptors are two members and an epoll instance,
or a member and two instances; two items let one be stale while the other is
used.  One byte is enough for a read to be short, as a vector of two
buffers is, and two ticks let a round of select end before, at and after the
timeout.  Four buffers are fewer than two full messages and the extra one, so the
pool runs dry; frames of two are cut short by the second
tap.  Two namespaces with two interfaces let a route and a mapping come in
either order, with the interface of VPP already taken by the other namespace.  Two bounds of
theirs keep instances small: `MaxGoing` (packets on their way when turbotap's input
node starts) and `MaxMsgs` (messages of Linux to the router, three of which let two
neighbours share an entry and one of them go).  The proofs remove the bounds for what they cover.

Fairness of the streams (`NetnsLiveSpec`): weak fairness of the process (VPP's main
loop resumes a process with pending events), of the poller for each socket, of
each deadline, and of the kernel for each dump.  Nothing is assumed of API
calls, of changes or of faults, which are bounded in number: with endless
changes the dumps restart for ever, and the code does not claim otherwise.

Fairness of the router (`LiveSpec`): the main loop goes on, that is, the isr, the
poller's callback for each readable tap and the receiving node are weakly fair; API
calls, the CLI and Linux are not.

Fairness of `vcom_io` (`LiveSpec` of VcomIo): the thread that called select runs, and
time passes.  Nothing is assumed of data.  Fairness of `turbotap_stall`
(`LiveSpec` of Turbotap): the main loop runs, so that the poller calls back for a
readable tap and the input node handles what is pending.

## 5. Properties

- `DoneExpected`: "Cannot happen here" in `rtnl_sync_done` is right.
- `DeadlineIffSync`: "Should not happen" in `rtnl_process_timeout` is right.
- `CloseFindsOpened`: `rtnl_process_close` never returns early.
- `NoSocketLeak`, `SocketOwned`, `StrayCloseIsStranded`: descriptors and
  poller entries, through resets, retries and reuse.
- `ImplementsStream`, `Synchronises`, `CloseCompletes`: the interface and its
  progress.
- `Shared`, `MirrorComplete`, `MirrorCatchesUp`: the mirrors.  `Informed`: nothing that
  exists is hidden from a subscriber, however often the dumps restarted.
  `OnlyOwn`: another namespace's objects get into a mirror in one way only.
- `OneTapEach`, `TapHasInterface`: the maps describe the open taps, and a tap
  without its interface is about to be closed, as long as no index was freed and taken
  again between two runs of the isr.  That only this breaks it is proved
  (`OnlyReuseReplaces`); five calls do not get there in the run.
- `RxThroughOwn`, `PacketsRead`: a packet leaves through the interface its tap is
  named after, and in the end it does, although the first failing read drops
  the whole list.
- `InAllOrNone`: pool, lines, wheel and counter agree.
- `OnTime`, `NeverEarly`: expiry, with and without jumps of the clock, for lifetimes
  shorter and longer than a turn.
- `EmptyLineOnlyWhenFull`: what leaves a line of the hash table without flows.
- `DescriptorOwnsSession`: tables, kernel and vppcom agree on every descriptor, also
  when the last member of a closed epoll instance takes it along.
- `IndicesAgree`, `RegisteredHasItem`: the items of epoll instances, with those that
  are stale.
- `MarkedHasMember`: an epoll instance that outlives its close counts members that
  exist, so that it goes in the end.
- `NothingLeftBehind`: no failure, at whatever step of a call, and no close leaves
  a descriptor or a session to nobody, but for the sessions of a failed accept.
- `ResultExact`, `SteadyReported`, `SelectReturns`: select over two kinds of
  descriptors.  `ResultExact` says exactly what is returned, the case of
  `OnlyChangedReturned` below included.
- `BytesAccounted`: what a vectored read or write returns is what it moved.
- `SlotsSound`, `DescriptorsOwned`, `PacketsOwn`, `BuffersExact`: turbotap.
- `RoutesMapped`, `NewPathsDue`: the mapper.
- `MirrorApplied`: the router's netlink callbacks, for a tap that is the only one to map
  to its interface and was not deleted since (`Stands`); without either condition
  the code breaks it, as described below.

Disagreements between code and documentation, each with a run that shows it:

- `WaitingRead`: a turbotap interface that is asked for one message while the vector
  holds exactly its buffers is never read again.  `node.c:139` prepares
  a message only if there are more, `node.c:122` allocates only if there are
  fewer.  With the code's constants, packets that come one by one get there after 287.
- `OnlyChangedReturned`: when only descriptors of the kernel are ready, `vcom_select`
  returns and counts all the library's that were asked for, ready or not
  (`vcom_socket_sid_fds_2_fds` is skipped for zero and its sets are put back), contrary
  to the comment at `vcom.c:1220`.

Seen while modelling, without a run:

- Closing a stream that is between two sockets (`rtnl.c:451`) closes, by number,
  whatever has that number now.  Another stream may have it, stays READY and goes
  deaf.  `StrayCloseIsStranded` says that nothing else does this.
- Messages of a stream that is closing (`netns.c:618`) reach the mirror that got its
  index, so that its subscribers are told of objects of another namespace.
  `OnlyOwn` says that nothing else brings them there.
- A route with labels is never found again (`netns.c:272`): updates duplicate it and
  its deletion is lost.  Labels that are too long (-1) count as a match with
  whatever the other attributes fit.
- An update that overwrites another object's entry, an address of another
  interface or a neighbour with the same low byte, is announced as an addition only
  (`netns.c:512-518`): nobody is told that the other is gone from the mirror.
- MPLS routes are subscribed to (`rtnl.c:265-269`) and never dumped: those that were
  there before the stream do not get into the mirror.  `MirrorComplete` is about
  what the five dumps ask for.
- `netns_close` of any handle but the first aborts (`netns.c:720`, arguments of
  `pool_put` swapped).
- An interface that is deleted and created again before the isr runs stays
  without a tap, as creations are handled first and the deletion then closes what was
  just connected (`tap_inject.c:186-199`).  If its name is another, the first tap
  stays open and in `tap_if_index_to_sw_if_index`, and what Linux says about it is
  done to the new interface.  Enabling twice takes every tap away.
- A full flow pool leaves an empty line in the hash table
  (`0001-Add-flowtable-feature.patch:1212`), and the next packet of its key reads
  outside of the pool.  `EmptyLineOnlyWhenFull` says that nothing else leaves one.
- A lifetime of a turn of the wheel or more is accepted from the API and loses its
  whole turns (the ASSERT at line 1083 of the patch is off in a release build).
- `tap_inject_neighbor` does not reset `next` between packets
  (`tap_inject_node.c:99`): what follows an ARP reply in the same frame goes to the ARP
  node as well, whatever it is.
- Mapper: paths are never removed (`mapper.c:52`, `del` is ignored); the table of
  an interface is never reset, and is overwritten when two namespaces map it.
- Router: deletions of links, neighbours and routes are handled as additions;
  a deleted address is removed from the interface of the last addition only;
  neighbours are told apart by the low byte of their interface (`netns.c:535`); a
  label of zero leaves the rest of the label stack uninitialised; what is told
  between the deletion of an interface and the isr is written to a deleted interface.
- Turbotap: what does not fit a frame of a batch is lost; a reused slot keeps
  `is_promisc`; an error after the slot was taken loses the slot, an error of
  `/dev/net/tun` the descriptor of `/dev/net/turbotap`.
- `vcom_select`: descriptors of the kernel that were not ready in the first round
  are forgotten in the next ones, as `libc_select` overwrites the set it is given
  again; a failing `libc_select` returns errno as a count; the
  timeout that is left may be negative; after a timeout the sets are unchanged.
- `pselect` reports every descriptor of the library as ready.
- `writev` goes on after a short write; a blocking `readv` returns 0 for an
  error; `recv` and `write` never wait; `recvfrom` with an address returns
  EINVAL, and `sendto` for a datagram likewise; `O_NONBLOCK` of the session and of
  the kernel's descriptor diverge; a failing `close` returns EPERM.
- `accept` leaks the session, or the descriptor, when it fails late
  (`NothingLeftBehind` names them); a `bind` that fails in the kernel leaves the
  session bound (`vcom_socket.c:1159-1168`); an `epoll_ctl`
  that meets a stale item returns EEXIST after vppcom carried it out.
- `stream.error` is stored and never called (`rtnl.h:35` promises it): what was
  deleted while the dumps restarted stays in a mirror.  ENOBUFS is not looked at
  either (`rtnl.c:463`): what a full socket dropped is never made up for.
- `TAP_INJECT_F_CONFIG_NETLINK` (`tap_inject.h:38`) does not keep the interface
  callback (`tap_inject.c:226`) from connecting taps.
- After a sub-interface, hardware and software indices differ, and
  `tap_inject_tap.c:51,62` uses one for the other.
- `ASSERT(f->expire >= now)` (`0001-Add-flowtable-feature.patch:1136`) fails for
  flows of a skipped second and for leftovers, `ASSERT(fm->flows_cpt > 1)` (1109) for
  the last flow.
- On a full pool the frame's `goto` (1365) leaves `to_next` where it was but calls
  the macro that takes it to be advanced, so a packet may be enqueued twice.
- `is_reverse == 0` (980, 1012) tests a pointer: ports are never stored in the
  straight order.

## 6. Proofs

All theorems hold for all values of the constants that satisfy the named
assumptions (`RtnlConstants`, `NetnsConstants`, `TapConstants`, `FlowConstants`,
`MapperConstants`, `RouterConstants`, `TurbotapConstants`, `VcomConstants`,
`VcomIoConstants`): any number of streams, descriptors, namespaces, handles, objects,
interfaces, flows, routes, sessions, items, slots and buffers, any modulus, any queue,
any wheel, any vector.  Every invariant that a passing run checks is proved, and so are
its action properties and the refinement of `Stream`; the invariants behind them were
checked by TLC on the instances of the runs first.

The inductive invariant of `Rtnl` is `Inv`.  `NoSocketLeak` and `SocketOwned` are
inductive together with the types.  `DoneExpected` is not: it needs `OneDump`,
that a socket has at most one dump, running or with its end in the queue,
that this end has the stream's sequence number, and that a slot without a
socket has neither.  `DeadlineIffSync` needs `CloseFindsOpened` and
`StateHygiene`: INIT lasts exactly until the OPEN event is handled, and READY has
forgotten its dump.  The lemmas `ResetStep` (a reset) and `FrameStep` (a step
that touches no socket) are the two arguments that recur; `InvStep` has one step
per action.

`StrayClose` follows from `SocketOwned`: a stream that is connected owns
what it closes, so a stray close is a close in between.  `Implementation`
computes what each action does to `Phase`; it needs `CloseFindsOpened` to know
that a close always ends in a freed slot.

The theorems about the streams are the first part of `NetnsProofs`.  Its second part
first shows that every step of the composition is a step of
`Rtnl` (`Composition`), so that `Inv` carries over, and then that `Shared` is
preserved.  That rests on `FreshIsFree` (`pool_get` gives out an unused handle,
because those in use are dense) and on counting (`SubscribeEffect`).
`OnlyOwn` rests on `Shared`: an open stream reports to its own mirror.

`MirrorComplete` speaks of a queue that is empty, and its invariant, `MirrorInv`, of
any queue.  `Follows`: an object that exists, and whose class the socket has been asked
for (`Covered`), is still to be dumped, or will be in the mirror once the queue is read
(`Reported`: the mirror or a message says that it exists, and no later message
that it does not).  A stream is READY when it has been asked for every class, so nothing is
missing when the queue is empty.  A new request adds a class to `Covered` together with
the whole of its dump; a reset takes them all away; reading the head of the queue
moves what `Reported` is about into the mirror (`ReceivedReported`), where a deletion of
another object leaves it, as the object is in `Distinct`.  `DumpAsked` says
that the dump under way is the one the stream waits for, `GapsNoted` that a lost
notification is never forgotten before the socket is, and `ClosingApart` that the last
messages of a closing stream, which reach the mirror that got its index, come before
the new stream has a socket to be complete about.

`Informed` follows from `MirrorComplete` and `Announced`: what is in the mirror of a
subscriber that was told of everything has been announced to it.  That is inductive
for objects in `Distinct` only, as nothing that is announced takes their entry away
unsaid.

`TapInjectProofs` rests on `TapInv`.  `OneTapEach` and `TapHasInterface` are not
inductive: a tap's interface must be known to exist when it is connected.  That
takes `HwPool` (the free list holds free indices, each once), `ToEnableKnown` (what
is to be connected exists, or is to be disconnected as well), `ListsEmpty`
(outside of the isr nothing is listed unless its interrupt is pending) and
`Untapped` (without CONFIG_ENABLE there are no taps, and a CLI command that
disables has them all on its list).

`FlowTableProofs` rests on `FlowInv`.  `NeverEarly` and `OnTime` need `WheelDue`: the
flows of a slot are past `DueAt`, or due in less than one turn with a second whose remainder
is the slot.  The arithmetic of the wheel is in three lemmas, `DivMod`, `SlotUnique`
(two seconds less than a turn apart have different slots) and `SlotAdd`.  When the
index moves, what is moved along was due by then (`FlowWheel`); that
flows are neither lost nor doubled by the move is in `FlowAllOrNone`.
`ShortLifetimesKept` is what the ASSERT is for: if all lifetimes are less than a turn,
no flow leaves before its last packet's second plus its lifetime.

`MapperProofs`: `RoutesMapped` is inductive with the types.  Only the mirror
and the mappings of a namespace determine what is due, and each action adds the paths for
what it makes due; the paths of deletions are due before, hence in the table.
`NewPathsDue` follows step by step, with `RoutesMapped` for those deletions.

`RouterNetlinkProofs` rests on `RouterInv`.  `MirrorApplied` needs `Unborn` (of an
interface that Linux never had, the mirror holds nothing, so a new tap has nothing to
be applied), `TapsAgree` and `ListsAgree` (a tap that an interface has maps to it, and
an interface that is gone is listed for the isr while it has a tap), and `NeighsOwnKey`
(an entry's interface has the byte the entry is kept by).  Interfaces and the isr
are one lemma, and each kind of object has one of its own.

`VcomSocketProofs`: `DescriptorOwnsSession` is proved as two halves, `Owns` for one
descriptor and `OwnsAll` for pairs.  `IndicesAgree` stands alone.
`RegisteredHasItem` needs that only epoll indices have members
(`OnlyVepsHaveMembers`) and that descriptors own their sessions, so that a closed
session was only its own descriptor's.  `NothingLeftBehind` needs both, and that an
epoll instance that was closed is not held any more (`MarkedGivenUp`) while what is
held is open (`HeldOpen`), so that a second `close` never reaches it.
`MarkedHasMember` is about counts: `Counted` says, for a careful application, that
everything added has an item and exists (`AddedHaveItems`), that the count of an
instance that is open is the number of its members (`CountsAdded`), and that of one that is
marked as closed at least one and at most that number (`MarkedCounts`).  One step of `close`
may take the last member of several marked instances.

`TurbotapProofs` rests on `SlotsAndBuffers`, in two halves.  `ControlInv` is about what
the CLI changes: `Wired` says, for one interface, what its slot, the maps and the
kernel hold, `Matched` that active slots and interfaces correspond one to one, and
`Idle` that a slot without an interface names no descriptor and is listed once to be
reused.  `SlotsSound` alone is not inductive: it says nothing of the two descriptors that
a deletion closes besides those in its statement.  `BuffersExact` is inductive
together with the types, but one step of the input node moves many buffers.
`Rows` and `Quotient` say that what the first loop prepares for message m is the m-th
row of the vector, `PreparedFit` that all rows lie within it, `Places` that the loop
that collects starts each message where its row starts, and `KeptExact` and
`ExactAfter` that unused buffers and those of packets are together what was there before.
`PacketsOwn` follows step by step: the input node reads the tap that the slot has
then, and hands on the interface that it has then, whichever it was when the bit was set.

`VcomIoProofs` rests on `IoInv`.  `Calls` ties the program counter to the call.
`Polled` says what each step of the loop leaves to the next: before the library
is polled its sets are as they were asked for, since `vcom_socket_select` restores
them when it reports nothing (`Vcom`), while the kernel's are so in the first round
only.  `Moving` says that a call counts what moved, whichever buffer it is at.

Only model-checked: liveness (`Synchronises`, `CloseCompletes`, `MirrorCatchesUp`,
`PacketsRead`, `SelectReturns`, and the finding `WaitingRead`), and the finding
`OnlyChangedReturned`, which is a counterexample.  Liveness rests on fairness, hence on
ENABLED, which is out of the prover's reach.

## 7. Not modelled

`rtnl_exec_in_namespace*` (they touch no stream), `ns_recv_error` (dead code),
formatting and logging.  Of turbotap, promiscuous mode, the redirection to
another next node, renumbering, the admin state and the CLI's parsing.  Of
vcl-ldpreload, names and options of sockets, `epoll_wait` (a conversion of one call),
messages (`sendmsg` and its like are stubs), `poll` (returns EOPNOTSUPP), threads
(vppcom is used by one), and the wrapper of libc (`dlsym` and one call each).  Of the
router, the two nodes towards Linux.  Of flowtable, the redirection of an interface, a
flow's offload data, parsing, and the port mirroring of the second patch.  `test.c`
keeps handles that its CLI may use after they were closed; it is a test.  Never: build
files, scripts, the demo's vendored user interface.
