-------------------------------- MODULE Rtnl --------------------------------
(***************************************************************************)
(* The netlink stream engine of netlink/librtnl/rtnl.c.                    *)
(*                                                                         *)
(* A stream follows the links, addresses, routes and neighbours of one     *)
(* network namespace.  It opens a netlink socket, asks the kernel for five *)
(* dumps one after the other, and then lives on multicast notifications.   *)
(* Everything in rtnl.c runs on VPP's main thread: the API calls, the      *)
(* poller's read callback and rtnl_process take turns.  The process drains *)
(* its event queue completely whenever it is resumed, so the API and the   *)
(* poller act only while proc = "wait".  The kernel alone is concurrent    *)
(* with all of it.                                                         *)
(*                                                                         *)
(* A deadline is kept as the one bit the code tells apart, armed or        *)
(* DBL_MAX; how long it takes is the choice of when Expire happens.        *)
(***************************************************************************)
EXTENDS Naturals, Sequences

CONSTANTS
    Slots,      \* indices of the pool rtnl_main.streams
    Fds,        \* descriptor numbers
    Files,      \* indices of the poller's file pool
    Fd0,        \* what a zeroed rtnl_socket names: descriptor 0
    File0,      \* what a zeroed unix_index names: file 0
    NoFd,       \* -1
    Names,      \* network namespaces
    Objs,       \* what a namespace may contain
    ClassOf,    \* the dump an object belongs to
    NoObj,      \* the object of a message that carries none
    NoteHdrs,   \* the (nlmsg_seq, RTM_F_NOTIFY) headers of notifications
    SeqMod,     \* rtnl_seq is a counter modulo SeqMod (2^32 in the code)
    QueueCap,   \* bound: messages a socket's receive buffer holds
    MaxChanges, \* bound: how often the namespaces change
    MaxFaults   \* bound: refused calls, kernel errors and late answers

Classes == {"LINK", "ADDR", "ROUTE4", "ROUTE6", "NEIGH"}

Sync == Classes \cup {"OPENING"}

ASSUME RtnlConstants ==
    /\ Fd0 \in Fds /\ File0 \in Files /\ NoFd \notin Fds
    /\ ClassOf \in [Objs -> Classes]
    /\ SeqMod \in Nat \ {0}
    /\ NoteHdrs \subseteq [seq : 0 .. SeqMod - 1, notify : BOOLEAN]
    /\ {"free", "other"} \cap Slots = {}
    /\ {"wait", "drain"} \cap Slots = {}
    /\ QueueCap \in Nat /\ MaxChanges \in Nat /\ MaxFaults \in Nat

VARIABLES
    alloc,      \* the slots in use
    state,      \* rtnl_ns_t.state: INIT, SYNC or READY
    sync,       \* rtnl_ns_t.sync_state
    sock,       \* rtnl_ns_t.rtnl_socket, which nothing resets
    uix,        \* rtnl_ns_t.unix_index, which nothing resets
    armed,      \* rtnl_ns_t.timeout < DBL_MAX
    seq,        \* rtnl_ns_t.rtnl_seq
    name,       \* rtnl_ns_t.stream.name
    opens,      \* queued RTNL_E_OPEN events
    closes,     \* queued RTNL_E_CLOSE events
    reads,      \* queued RTNL_E_READ events
    first,      \* whichever of READ and CLOSE was signalled first, ever
    proc,       \* rtnl_process: "wait", "drain" or the slot being read
    fdt,        \* who owns each descriptor
    ftab,       \* who owns each entry of the poller's file pool
    q,          \* the receive queue of the slot's socket
    lost,       \* the queue overflowed since the last recv (ENOBUFS)
    dump,       \* the dump the kernel is answering on that socket
    todo,       \* the objects that dump still has to report
    kern,       \* what each namespace contains
    changes,    \* changes so far
    faults,     \* faults so far
    wild        \* a close hit a descriptor or a file of somebody else

streams == <<alloc, state, sync, sock, uix, armed, seq, name>>
events == <<opens, closes, reads, first>>
sockets == <<q, lost, dump, todo>>
world == <<kern, changes>>
vars == <<streams, events, proc, fdt, ftab, sockets, world, faults, wild>>

Msg == [kind : {"NEW", "DEL"}, obj : Objs,
        seq : 0 .. SeqMod - 1, notify : BOOLEAN]
       \cup [kind : {"DONE", "ERROR"}, obj : {NoObj},
             seq : 0 .. SeqMod - 1, notify : BOOLEAN]

Init ==
    /\ alloc = {}
    /\ state = [s \in Slots |-> "INIT"]
    /\ sync = [s \in Slots |-> "OPENING"]
    /\ sock = [s \in Slots |-> Fd0]
    /\ uix = [s \in Slots |-> File0]
    /\ armed = [s \in Slots |-> TRUE]
    /\ seq = [s \in Slots |-> 0]
    /\ name \in [Slots -> Names]
    /\ opens = {} /\ closes = {} /\ reads = {} /\ first = "none"
    /\ proc = "wait"
    /\ fdt = [f \in Fds |-> IF f = Fd0 THEN "other" ELSE "free"]
    /\ ftab = [i \in Files |-> IF i = File0 THEN "other" ELSE "free"]
    /\ q = [s \in Slots |-> <<>>]
    /\ lost = [s \in Slots |-> FALSE]
    /\ dump = [s \in Slots |-> "none"]
    /\ todo = [s \in Slots |-> {}]
    /\ kern \in [Names -> SUBSET Objs]
    /\ changes = 0 /\ faults = 0 /\ wild = FALSE

-----------------------------------------------------------------------------
Fault == faults < MaxFaults /\ faults' = faults + 1

HasFd(s) == sock[s] \in Fds /\ fdt[sock[s]] = s
HasFile(s) == ftab[uix[s]] = s

\* The stream is waiting for a dump; it has been given a socket and has not
\* closed it since.
Syncing(s) == s \in alloc /\ state[s] = "SYNC" /\ sync[s] # "OPENING"

Connected(s) == Syncing(s) \/ (s \in alloc /\ state[s] = "READY")

Release(table, k) ==
    [x \in DOMAIN table |-> IF x = k THEN "free" ELSE table[x]]

\* close(rtnl_socket) takes the queue of whoever owns that descriptor.
CloseFd(s) ==
    LET dead == {x \in Slots : sock[s] \in Fds /\ fdt[sock[s]] = x} IN
    /\ fdt' = Release(fdt, sock[s])
    /\ q' = [x \in Slots |-> IF x \in dead THEN <<>> ELSE q[x]]
    /\ lost' = [x \in Slots |-> lost[x] /\ x \notin dead]
    /\ dump' = [x \in Slots |-> IF x \in dead THEN "none" ELSE dump[x]]
    /\ todo' = [x \in Slots |-> IF x \in dead THEN {} ELSE todo[x]]

\* Mutant: the poller's entry outlives the socket.
SocketCloseNoFileDel(s) == CloseFd(s) /\ UNCHANGED <<ftab, wild>>

SocketClose(s) ==
    /\ CloseFd(s)
    /\ ftab' = Release(ftab, uix[s])
    /\ wild' = (wild \/ ~HasFile(s) \/ (sock[s] \in Fds /\ fdt[sock[s]] \notin {s, "free"}))

\* Mutant: a counter wider than nlmsg_seq.
DumpRequestNoWrap(s, c, ok) ==
    /\ seq' = [seq EXCEPT ![s] = @ + 1]
    /\ dump' = [dump EXCEPT ![s] = IF ok THEN c ELSE "none"]
    /\ todo' = [todo EXCEPT ![s] =
                  IF ok THEN {o \in kern[name[s]] : ClassOf[o] = c} ELSE {}]
    /\ IF ok THEN UNCHANGED faults ELSE Fault

\* The request is numbered before it is sent, and stays so if that fails.
DumpRequest(s, c, ok) ==
    /\ seq' = [seq EXCEPT ![s] = (@ + 1) % SeqMod]
    /\ dump' = [dump EXCEPT ![s] = IF ok THEN c ELSE "none"]
    /\ todo' = [todo EXCEPT ![s] =
                  IF ok THEN {o \in kern[name[s]] : ClassOf[o] = c} ELSE {}]
    /\ IF ok THEN UNCHANGED faults ELSE Fault

-----------------------------------------------------------------------------
(***************************************************************************)
(* API calls and the poller.                                               *)
(***************************************************************************)
StreamOpen(s, n) ==
    /\ proc = "wait"
    /\ s \notin alloc
    /\ alloc' = alloc \cup {s}
    /\ state' = [state EXCEPT ![s] = "INIT"]
    /\ name' = [name EXCEPT ![s] = n]
    /\ opens' = opens \cup {s}
    /\ UNCHANGED <<sync, sock, uix, armed, seq, closes, reads, first, proc,
                   fdt, ftab, sockets, world, faults, wild>>

\* Mutant: the slot is freed by the caller, not by the process.
StreamCloseEager(s) ==
    /\ proc = "wait"
    /\ s \in alloc \ closes
    /\ closes' = closes \cup {s}
    /\ alloc' = alloc \ {s}
    /\ first' = IF first = "none" THEN "CLOSE" ELSE first
    /\ UNCHANGED <<state, sync, sock, uix, armed, seq, name, opens, reads,
                   proc, fdt, ftab, sockets, world, faults, wild>>

\* The caller closes a handle once (netns_destroy forgets it).
StreamClose(s) ==
    /\ proc = "wait"
    /\ s \in alloc \ closes
    /\ closes' = closes \cup {s}
    /\ first' = IF first = "none" THEN "CLOSE" ELSE first
    /\ UNCHANGED <<streams, opens, reads, proc, fdt, ftab, sockets, world,
                   faults, wild>>

ReadCb(s) ==
    /\ proc = "wait"
    /\ s \notin reads
    /\ HasFd(s) /\ HasFile(s)
    /\ q[s] # <<>> \/ lost[s]
    /\ reads' = reads \cup {s}
    /\ first' = IF first = "none" THEN "READ" ELSE first
    /\ UNCHANGED <<streams, opens, closes, proc, fdt, ftab, sockets, world,
                   faults, wild>>

-----------------------------------------------------------------------------
(***************************************************************************)
(* rtnl_process.  vlib hands out the queued events one type at a time, the *)
(* type that was signalled first in the life of the process first: OPEN    *)
(* before the other two, which come in the order recorded by first.        *)
(***************************************************************************)
Quiet == opens = {} /\ closes = {} /\ reads = {}

Resume ==
    /\ proc = "wait" /\ ~Quiet
    /\ proc' = "drain"
    /\ UNCHANGED <<streams, events, fdt, ftab, sockets, world, faults, wild>>

Suspend ==
    /\ proc = "drain" /\ Quiet
    /\ proc' = "wait"
    /\ UNCHANGED <<streams, events, fdt, ftab, sockets, world, faults, wild>>

\* Mutant: a reused slot keeps the deadline it died with.
ProcessOpenKeepDeadline(s) ==
    /\ proc = "drain"
    /\ s \in opens
    /\ opens' = opens \ {s}
    /\ state' = [state EXCEPT ![s] = "SYNC"]
    /\ sync' = [sync EXCEPT ![s] = "OPENING"]
    /\ UNCHANGED <<alloc, sock, uix, armed, seq, name, closes, reads, first,
                   proc, fdt, ftab, sockets, world, faults, wild>>

ProcessOpen(s) ==
    /\ proc = "drain"
    /\ s \in opens
    /\ opens' = opens \ {s}
    /\ IF state[s] = "INIT"
         THEN /\ state' = [state EXCEPT ![s] = "SYNC"]
              /\ sync' = [sync EXCEPT ![s] = "OPENING"]
              /\ armed' = [armed EXCEPT ![s] = TRUE]
         ELSE UNCHANGED <<state, sync, armed>>
    /\ UNCHANGED <<alloc, sock, uix, seq, name, closes, reads, first, proc,
                   fdt, ftab, sockets, world, faults, wild>>

\* Mutant: a stream that still synchronises is left allocated, too.
ProcessCloseReadyOnly(s) ==
    /\ proc = "drain"
    /\ opens = {} /\ s \in closes
    /\ first = "CLOSE" \/ reads = {}
    /\ closes' = closes \ {s}
    /\ IF state[s] # "READY"
         THEN UNCHANGED <<alloc, fdt, ftab, sockets, wild>>
         ELSE SocketClose(s) /\ alloc' = alloc \ {s}
    /\ UNCHANGED <<state, sync, sock, uix, armed, seq, name, opens, reads,
                   first, proc, world, faults>>

\* An INIT stream is left allocated; any other gives back its socket, or
\* whatever its rtnl_socket and unix_index name by now, and its slot.
ProcessClose(s) ==
    /\ proc = "drain"
    /\ opens = {} /\ s \in closes
    /\ first = "CLOSE" \/ reads = {}
    /\ closes' = closes \ {s}
    /\ IF state[s] = "INIT"
         THEN UNCHANGED <<alloc, fdt, ftab, sockets, wild>>
         ELSE SocketClose(s) /\ alloc' = alloc \ {s}
    /\ UNCHANGED <<state, sync, sock, uix, armed, seq, name, opens, reads,
                   first, proc, world, faults>>

ReadStart(s) ==
    /\ proc = "drain"
    /\ opens = {} /\ s \in reads
    /\ first = "READ" \/ closes = {}
    /\ reads' = reads \ {s}
    /\ proc' = s
    /\ UNCHANGED <<streams, opens, closes, first, fdt, ftab, sockets, world,
                   faults, wild>>

\* recv fails: EBADF on a closed socket, ENOBUFS after an overflow (which
\* it forgets), EAGAIN on an empty queue.  None of them is acted upon.
ReadEnd(s) ==
    /\ proc = s
    /\ ~HasFd(s) \/ lost[s] \/ q[s] = <<>>
    /\ proc' = "drain"
    /\ lost' = [lost EXCEPT ![s] = @ /\ ~HasFd(s)]
    /\ UNCHANGED <<streams, events, fdt, ftab, q, dump, todo, world, faults,
                   wild>>

\* Mutants: the socket stays open; the cancelled deadline is not set again.
SyncResetKeepSocket(s) ==
    /\ sync' = [sync EXCEPT ![s] = "OPENING"]
    /\ UNCHANGED <<fdt, ftab, sockets, wild>>
    /\ armed' = [armed EXCEPT ![s] = TRUE]

SyncResetNoRearm(s) ==
    /\ sync' = [sync EXCEPT ![s] = "OPENING"]
    /\ SocketClose(s)
    /\ armed' = [armed EXCEPT ![s] = FALSE]

SyncReset(s) ==
    /\ sync' = [sync EXCEPT ![s] = "OPENING"]
    /\ SocketClose(s)
    /\ armed' = [armed EXCEPT ![s] = TRUE]

\* Mutant: the addresses are not asked for.
NextDumpSkipsAddr == [LINK |-> "ROUTE4", ADDR |-> "ROUTE4", ROUTE4 |-> "ROUTE6",
                      ROUTE6 |-> "NEIGH"]

NextDump == [LINK |-> "ADDR", ADDR |-> "ROUTE4", ROUTE4 |-> "ROUTE6",
             ROUTE6 |-> "NEIGH"]

Reading(s) ==
    /\ proc = s
    /\ HasFd(s) /\ ~lost[s] /\ q[s] # <<>>

\* In SYNC anything but the answer to the last request restarts the dumps.
Restarts(s, m) == state[s] = "SYNC" /\ (m.notify \/ m.seq # seq[s])

ReadRestart(s) ==
    /\ Reading(s)
    /\ Restarts(s, Head(q[s]))
    /\ IF sync[s] = "OPENING"
         THEN /\ armed' = [armed EXCEPT ![s] = TRUE]
              /\ q' = [q EXCEPT ![s] = Tail(@)]
              /\ UNCHANGED <<sync, fdt, ftab, lost, dump, todo, wild>>
         ELSE SyncReset(s)
    /\ UNCHANGED <<alloc, state, sock, uix, seq, name, events, proc, world,
                   faults>>

\* A message for recv_message, or an error, whose value is ignored.
ReadOther(s) ==
    /\ Reading(s)
    /\ ~Restarts(s, Head(q[s]))
    /\ Head(q[s]).kind # "DONE"
    /\ q' = [q EXCEPT ![s] = Tail(@)]
    /\ UNCHANGED <<streams, events, proc, fdt, ftab, lost, dump, todo, world,
                   faults, wild>>

\* rtnl_sync_done, a dump with a successor: ask for that one, or start over
\* if the request cannot be sent.
AskNext(s) ==
    /\ DumpRequest(s, NextDump[sync[s]], TRUE)
    /\ q' = [q EXCEPT ![s] = Tail(@)]
    /\ sync' = [sync EXCEPT ![s] = NextDump[@]]
    /\ armed' = [armed EXCEPT ![s] = TRUE]
    /\ UNCHANGED <<fdt, ftab, lost, wild>>

AskRefused(s) ==
    /\ Fault
    /\ seq' = [seq EXCEPT ![s] = (@ + 1) % SeqMod]
    /\ SyncReset(s)

ReadDone(s) ==
    /\ Reading(s)
    /\ ~Restarts(s, Head(q[s]))
    /\ Head(q[s]).kind = "DONE"
    /\ IF sync[s] = "OPENING"
         THEN /\ q' = [q EXCEPT ![s] = Tail(@)]
              /\ UNCHANGED <<state, sync, armed, seq, fdt, ftab, lost, dump,
                             todo, faults, wild>>
       ELSE IF sync[s] = "NEIGH"
         THEN /\ q' = [q EXCEPT ![s] = Tail(@)]
              /\ state' = [state EXCEPT ![s] = "READY"]
              /\ sync' = [sync EXCEPT ![s] = "OPENING"]
              /\ armed' = [armed EXCEPT ![s] = FALSE]
              /\ UNCHANGED <<seq, fdt, ftab, lost, dump, todo, faults, wild>>
       ELSE (AskNext(s) \/ AskRefused(s)) /\ UNCHANGED state
    /\ UNCHANGED <<alloc, sock, uix, name, events, proc, world>>

-----------------------------------------------------------------------------
(***************************************************************************)
(* The clock.  Expired deadlines are looked at only when no event is       *)
(* queued; the handler first cancels the deadline, then acts on the state. *)
(***************************************************************************)
\* The answer is still on its way, or not read yet: the kernel was late.
Late(s) == dump[s] # "none" \/ q[s] # <<>>

Due(s) == proc = "wait" /\ Quiet /\ s \in alloc /\ armed[s]

Opening(s) == Due(s) /\ state[s] = "SYNC" /\ sync[s] = "OPENING"

\* Mutant: OPENING is not told apart from a running dump.
ExpireRunningAny(s) ==
    /\ Due(s)
    /\ IF Late(s) THEN Fault ELSE UNCHANGED faults
    /\ SyncReset(s)
    /\ UNCHANGED <<alloc, state, sock, uix, seq, name, events, proc, world>>

\* While a dump is running: start over.  In INIT or READY the code only
\* warns, "Should not happen".
ExpireRunning(s) ==
    /\ Due(s) /\ ~Opening(s)
    /\ IF state[s] = "SYNC"
         THEN /\ IF Late(s) THEN Fault ELSE UNCHANGED faults
              /\ SyncReset(s)
         ELSE /\ armed' = [armed EXCEPT ![s] = FALSE]
              /\ UNCHANGED <<sync, fdt, ftab, sockets, faults, wild>>
    /\ UNCHANGED <<alloc, state, sock, uix, seq, name, events, proc, world>>

\* setns, socket or bind fails; the last two leave their mark in rtnl_socket.
OpenFails(s) ==
    /\ Opening(s)
    /\ Fault
    /\ \E f \in {sock[s], NoFd} \cup {f \in Fds : fdt[f] = "free"} :
         sock' = [sock EXCEPT ![s] = f]
    /\ UNCHANGED <<alloc, state, sync, uix, armed, seq, name, events, proc,
                   fdt, ftab, sockets, world, wild>>

\* Mutant: the index clib_file_add returned is not kept.
OpenSocketNoIndex(s, f, i, ok) ==
    /\ Opening(s)
    /\ fdt[f] = "free" /\ ftab[i] = "free"
    /\ sock' = [sock EXCEPT ![s] = f]
    /\ fdt' = [fdt EXCEPT ![f] = s]
    /\ ftab' = [ftab EXCEPT ![i] = s]
    /\ DumpRequest(s, "LINK", ok)
    /\ sync' = [sync EXCEPT ![s] = "LINK"]
    /\ UNCHANGED <<alloc, state, uix, armed, name, events, proc, q, lost,
                   world, wild>>

\* A failed send does not undo the open: the stream waits in LINK.
OpenSocket(s, f, i, ok) ==
    /\ Opening(s)
    /\ fdt[f] = "free" /\ ftab[i] = "free"
    /\ sock' = [sock EXCEPT ![s] = f]
    /\ uix' = [uix EXCEPT ![s] = i]
    /\ fdt' = [fdt EXCEPT ![f] = s]
    /\ ftab' = [ftab EXCEPT ![i] = s]
    /\ DumpRequest(s, "LINK", ok)
    /\ sync' = [sync EXCEPT ![s] = "LINK"]
    /\ UNCHANGED <<alloc, state, armed, name, events, proc, q, lost, world,
                   wild>>

-----------------------------------------------------------------------------
(***************************************************************************)
(* The kernel.  A dump waits for room in the queue; a notification does    *)
(* not, and is dropped when there is none.                                 *)
(***************************************************************************)
Room(s) == Len(q[s]) < QueueCap

Answer(s, k, o) ==
    [kind |-> k, obj |-> o, seq |-> seq[s], notify |-> FALSE]

KernelDumpObj(s, o) ==
    /\ dump[s] # "none" /\ o \in todo[s] /\ Room(s)
    /\ q' = [q EXCEPT ![s] = Append(@, Answer(s, "NEW", o))]
    /\ todo' = [todo EXCEPT ![s] = @ \ {o}]
    /\ UNCHANGED <<streams, events, proc, fdt, ftab, lost, dump, world, faults,
                   wild>>

KernelDumpDone(s) ==
    /\ dump[s] # "none" /\ todo[s] = {} /\ Room(s)
    /\ q' = [q EXCEPT ![s] = Append(@, Answer(s, "DONE", NoObj))]
    /\ dump' = [dump EXCEPT ![s] = "none"]
    /\ UNCHANGED <<streams, events, proc, fdt, ftab, lost, todo, world, faults,
                   wild>>

KernelError(s) ==
    /\ dump[s] # "none" /\ Room(s)
    /\ Fault
    /\ q' = [q EXCEPT ![s] = Append(@, Answer(s, "ERROR", NoObj))]
    /\ dump' = [dump EXCEPT ![s] = "none"]
    /\ todo' = [todo EXCEPT ![s] = {}]
    /\ UNCHANGED <<streams, events, proc, fdt, ftab, lost, world, wild>>

\* Object o appears in, or goes from, namespace n; every socket bound in n
\* is told.
KernelChange(n, o, h) ==
    LET k == IF o \in kern[n] THEN "DEL" ELSE "NEW"
        note == [kind |-> k, obj |-> o, seq |-> h.seq, notify |-> h.notify]
        bound == {s \in Slots : HasFd(s) /\ name[s] = n}
    IN  /\ changes < MaxChanges
        /\ changes' = changes + 1
        /\ kern' = [kern EXCEPT ![n] =
                      IF o \in @ THEN @ \ {o} ELSE @ \cup {o}]
        /\ q' = [s \in Slots |-> IF s \in bound /\ Room(s)
                                   THEN Append(q[s], note) ELSE q[s]]
        /\ lost' = [s \in Slots |-> lost[s] \/ (s \in bound /\ ~Room(s))]
        /\ todo' = [s \in Slots |-> IF s \in bound THEN todo[s] \ {o}
                                    ELSE todo[s]]
        /\ UNCHANGED <<streams, events, proc, fdt, ftab, dump, faults, wild>>

-----------------------------------------------------------------------------
Read(s) == ReadEnd(s) \/ ReadRestart(s) \/ ReadOther(s) \/ ReadDone(s)

Process ==
    \/ Resume
    \/ Suspend
    \/ \E s \in Slots : ProcessOpen(s)
    \/ \E s \in Slots : ProcessClose(s)
    \/ \E s \in Slots : ReadStart(s)
    \/ \E s \in Slots : Read(s)

Expire(s) ==
    \/ ExpireRunning(s)
    \/ OpenFails(s)
    \/ \E f \in Fds, i \in Files, ok \in BOOLEAN : OpenSocket(s, f, i, ok)

KernelAnswer(s) == KernelDumpDone(s) \/ \E o \in Objs : KernelDumpObj(s, o)

Next ==
    \/ \E s \in Slots, n \in Names : StreamOpen(s, n)
    \/ \E s \in Slots : StreamClose(s)
    \/ \E s \in Slots : ReadCb(s)
    \/ Process
    \/ \E s \in Slots : Expire(s)
    \/ \E s \in Slots : KernelAnswer(s)
    \/ \E s \in Slots : KernelError(s)
    \/ \E n \in Names, o \in Objs, h \in NoteHdrs : KernelChange(n, o, h)

Spec == Init /\ [][Next]_vars

-----------------------------------------------------------------------------
Owner == Slots \cup {"free", "other"}

TypeOK ==
    /\ alloc \subseteq Slots
    /\ state \in [Slots -> {"INIT", "SYNC", "READY"}]
    /\ sync \in [Slots -> Sync]
    /\ sock \in [Slots -> Fds \cup {NoFd}]
    /\ uix \in [Slots -> Files]
    /\ armed \in [Slots -> BOOLEAN]
    /\ seq \in [Slots -> 0 .. SeqMod - 1]
    /\ name \in [Slots -> Names]
    /\ opens \subseteq Slots /\ closes \subseteq Slots /\ reads \subseteq Slots
    /\ first \in {"none", "READ", "CLOSE"}
    /\ proc \in {"wait", "drain"} \cup Slots
    /\ fdt \in [Fds -> Owner]
    /\ ftab \in [Files -> Owner]
    /\ q \in [Slots -> Seq(Msg)]
    /\ lost \in [Slots -> BOOLEAN]
    /\ dump \in [Slots -> Classes \cup {"none"}]
    /\ todo \in [Slots -> SUBSET Objs]
    /\ kern \in [Names -> SUBSET Objs]
    /\ changes \in Nat /\ faults \in Nat
    /\ wild \in BOOLEAN

\* A connected stream owns the socket and the file it uses, as long as no
\* close has hit somebody else's.
SocketOwned ==
    ~wild => \A s \in Slots : Connected(s) => HasFd(s) /\ HasFile(s)

\* No socket and no poller entry outlives its use: whatever belongs to a slot
\* is what a connected stream refers to, so a reset or a close leaks nothing
\* and no stream ever has two sockets.
NoSocketLeak ==
    /\ \A f \in Fds : fdt[f] \in Slots =>
         Connected(fdt[f]) /\ sock[fdt[f]] = f
    /\ \A i \in Files : ftab[i] \in Slots =>
         Connected(ftab[i]) /\ uix[ftab[i]] = i

\* Once its OPEN event is handled, a stream has a deadline exactly while it
\* synchronises: it never waits for an answer without one, and the deadline
\* handler never meets INIT or READY ("Should not happen", rtnl.c:495).
DeadlineIffSync ==
    \A s \in alloc : s \notin opens => (armed[s] <=> state[s] = "SYNC")

\* The early return of rtnl_process_close, which would keep the slot for
\* ever, is never taken: a CLOSE is looked at only after the stream's OPEN.
CloseFindsOpened ==
    /\ \A s \in opens : s \in alloc /\ state[s] = "INIT"
    /\ \A s \in closes : s \in alloc /\ (state[s] = "INIT" => s \in opens)

\* The end of a dump is always the end of the dump the stream is waiting
\* for: it neither restarts the dumps nor finds the stream without one
\* ("Cannot happen here", rtnl.c:316).
DoneExpected ==
    \A s \in Slots : Reading(s) /\ Head(q[s]).kind = "DONE" =>
        Syncing(s) /\ ~Restarts(s, Head(q[s]))

\* Why: a socket has at most one dump, running or with its end in the queue,
\* and only while the stream waits for it; a slot without a socket has
\* neither queue nor dump.
OneDump ==
    \A s \in Slots :
        /\ ~HasFd(s) => q[s] = <<>> /\ dump[s] = "none"
        /\ dump[s] # "none" => Syncing(s)
        /\ \A i \in DOMAIN q[s] : q[s][i].kind = "DONE" =>
             /\ Syncing(s) /\ dump[s] = "none"
             /\ q[s][i].seq = seq[s] /\ ~q[s][i].notify
             /\ \A j \in DOMAIN q[s] : q[s][j].kind = "DONE" => j = i

\* INIT lasts until the OPEN event; READY has forgotten the dump state.
StateHygiene ==
    \A s \in alloc : /\ state[s] = "INIT" => s \in opens
                     /\ state[s] = "READY" => sync[s] = "OPENING"

\* The inductive invariant behind the theorems about the streams.
Inv ==
    /\ TypeOK /\ SocketOwned /\ NoSocketLeak /\ DeadlineIffSync
    /\ CloseFindsOpened /\ OneDump /\ StateHygiene

\* Only the CLOSE of a stream that is between two sockets takes something
\* that is not the stream's: resets and other closes never do.
StrayCloseIsStranded ==
    [][wild' => wild \/ \E s \in closes : /\ s \notin closes'
                                          /\ state[s] = "SYNC"
                                          /\ sync[s] = "OPENING"]_vars

\* A stream that synchronises gets READY or is closed, once the namespace
\* stops changing and the faults end.
Synchronises ==
    \A s \in Slots : s \in alloc /\ state[s] = "SYNC"
                       ~> s \notin alloc \/ s \in closes \/ state[s] = "READY"

\* A close is carried out: the slot goes back to the pool.
CloseCompletes == \A s \in Slots : s \in closes ~> s \notin alloc

\* What a stream is to its user, Stream: the handle changes hands only by
\* an open and by the end of a close, a READY stream never goes back to its
\* dumps, and a close is carried out once.
Phase == [s \in Slots |-> IF s \notin alloc THEN "free"
                          ELSE IF s \in closes THEN "closing"
                          ELSE IF state[s] = "READY" THEN "ready"
                          ELSE "syncing"]

Interface == INSTANCE Stream WITH phase <- Phase, of <- name

ImplementsStream == Interface!Spec
=============================================================================
