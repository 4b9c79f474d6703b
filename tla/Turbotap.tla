------------------------------ MODULE Turbotap ------------------------------
(***************************************************************************)
(* turbotap: tap interfaces read and written through the socket behind the *)
(* tun device (turbotap.c, node.c, device.c).                              *)
(*                                                                         *)
(* Everything runs on VPP's main thread, which polls descriptors, runs the *)
(* input node if it is interrupted, dispatches the frames it made and runs *)
(* the CLI and the API, each of them to its end, in whatever order.  The   *)
(* kernel's descriptors and taps, VPP's interfaces and its buffers are     *)
(* external.                                                               *)
(***************************************************************************)
EXTENDS Integers, FiniteSets, Sequences, SequencesExt, FiniteSetsExt

CONSTANTS
    Names,     \* names of Linux interfaces
    SwIfs,     \* VPP's interface indices
    MaxSlots,  \* bound: elements of turbotap_interfaces
    NFds,      \* bound: descriptor numbers
    Bufs,      \* VPP's buffers
    MAX_RECV,  \* messages in one recvmmsg
    Mtus,      \* buffers a message of full size takes
    Extra,     \* buffers allocated beyond those needed (32)
    FrameSize, \* packets in a frame (256)
    MaxWait,   \* bound: packets waiting in a tap
    MaxGoing,  \* bound: packets on their way when the input node starts
    MaxLeaks,  \* bound: descriptors leaked and slots lost
    None

Slots == 0 .. MaxSlots - 1
Fds == 0 .. NFds - 1
Kinds == {"turbotap", "tun", "tap", "sock"}

ASSUME TurbotapConstants ==
    /\ MaxSlots \in Nat /\ NFds \in Nat /\ Extra \in Nat
    /\ MaxWait \in Nat /\ MaxGoing \in Nat /\ MaxLeaks \in Nat
    /\ MAX_RECV \in Nat \ {0} /\ FrameSize \in Nat \ {0}
    /\ Mtus \subseteq Nat \ {0} /\ \E m \in Mtus : \A k \in Mtus : k <= m
    /\ IsFiniteSet(Bufs)
    /\ None \notin Slots \cup Fds \cup SwIfs \cup (Names \X Slots) \cup (Kinds \X Names)

VARIABLES
    kfd,      \* what the kernel has at a descriptor number
    wait,     \* packets that wait in a tap
    nslots,   \* length of turbotap_interfaces
    active, unix_fd, provision_fd, turbotap_fd, sock_fd, sw_if_index,
    rx_ready, mtu_buffers,
    inactive, \* turbotap_inactive_interfaces
    leaked,   \* history: descriptors that connects which failed left open
    lost,     \* history: slots that connects which failed did not give back
    bySw,     \* turbotap_interface_index_by_sw_if_index
    byFd,     \* turbotap_interface_index_by_unix_fd
    hw,       \* VPP's interfaces: the name connected and the device instance
    pending,  \* pending_read_bitmap
    irq,      \* the input node is interrupted
    todo,     \* ready_interface_indices, while the node runs; None otherwise
    rx_buffers,
    frame,    \* packets on their way to the next nodes
    pool      \* free buffers

fds == <<unix_fd, provision_fd, turbotap_fd, sock_fd>>
slots == <<nslots, active, fds, sw_if_index, rx_ready, mtu_buffers, inactive>>
maps == <<bySw, byFd>>
input == <<pending, irq, todo>>
buffers == <<rx_buffers, frame, pool>>
history == <<leaked, lost>>
vars == <<kfd, wait, slots, history, maps, hw, input, buffers>>

Init ==
    /\ kfd = [f \in Fds |-> None]
    /\ wait = [n \in Names |-> 0]
    /\ nslots = 0
    /\ active = [i \in Slots |-> FALSE]
    /\ unix_fd = [i \in Slots |-> None] /\ provision_fd = [i \in Slots |-> None]
    /\ turbotap_fd = [i \in Slots |-> None] /\ sock_fd = [i \in Slots |-> None]
    /\ sw_if_index = [i \in Slots |-> None]
    /\ rx_ready = [i \in Slots |-> MAX_RECV]
    /\ mtu_buffers = [i \in Slots |-> Max(Mtus)]
    /\ inactive = <<>> /\ leaked = {} /\ lost = {}
    /\ bySw = [s \in SwIfs |-> None] /\ byFd = [f \in Fds |-> None]
    /\ hw = [s \in SwIfs |-> None]
    /\ pending = {} /\ irq = FALSE /\ todo = None
    /\ rx_buffers = <<>> /\ frame = <<>> /\ pool = Bufs

\* The CLI, the API and the poller run when the input node does not.  A slot
\* may have a bit pending, and a frame may be on its way.
Outside == todo = None

-----------------------------------------------------------------------------
(***************************************************************************)
(* Connecting and deleting.                                                *)
(***************************************************************************)
\* turbotap_get_new_tapif: the last one that became inactive, or a new one.
turbotap_get_new_tapif(i) ==
    \/ /\ inactive # <<>> /\ i = Last(inactive)
       /\ inactive' = Front(inactive)
       /\ UNCHANGED nslots
    \/ /\ inactive = <<>> /\ i = nslots /\ nslots < MaxSlots
       /\ nslots' = nslots + 1
       /\ UNCHANGED inactive

\* The k-th lowest number that is free; the kernel gives them out in order.
IsFree(f, k) ==
    kfd[f] = None /\ Cardinality({g \in Fds : g < f /\ kfd[g] = None}) = k

Busy(n) == \E f \in Fds : kfd[f] = <<"tun", n>>

\* Mutant: the slot keeps the interface it was for before.
FillKeepsInterface(i, s, a, b, c, d) ==
    /\ turbotap_fd' = [turbotap_fd EXCEPT ![i] = a]
    /\ unix_fd' = [unix_fd EXCEPT ![i] = b]
    /\ provision_fd' = [provision_fd EXCEPT ![i] = c]
    /\ sock_fd' = [sock_fd EXCEPT ![i] = d]
    /\ sw_if_index' = [sw_if_index EXCEPT ![i] = IF @ = None THEN s ELSE @]
    /\ rx_ready' = [rx_ready EXCEPT ![i] = MAX_RECV]
    /\ mtu_buffers' = [mtu_buffers EXCEPT ![i] = Max(Mtus)]
    /\ active' = [active EXCEPT ![i] = TRUE]

Fill(i, s, a, b, c, d) ==
    /\ turbotap_fd' = [turbotap_fd EXCEPT ![i] = a]
    /\ unix_fd' = [unix_fd EXCEPT ![i] = b]
    /\ provision_fd' = [provision_fd EXCEPT ![i] = c]
    /\ sock_fd' = [sock_fd EXCEPT ![i] = d]
    /\ sw_if_index' = [sw_if_index EXCEPT ![i] = s]
    /\ rx_ready' = [rx_ready EXCEPT ![i] = MAX_RECV]
    /\ mtu_buffers' = [mtu_buffers EXCEPT ![i] = Max(Mtus)]
    /\ active' = [active EXCEPT ![i] = TRUE]

ConnectOk(n) ==
    /\ ~Busy(n)
    /\ \E a, b, c, d \in {f \in Fds : \E k \in 0 .. 3 : IsFree(f, k)} :
          /\ a < b /\ b < c /\ c < d
          /\ kfd' = [kfd EXCEPT ![a] = <<"turbotap", n>>, ![b] = <<"tun", n>>,
                                ![c] = <<"tap", n>>, ![d] = <<"sock", n>>]
          /\ \E i \in Slots, s \in SwIfs :
               /\ turbotap_get_new_tapif(i)
               /\ hw[s] = None
               /\ hw' = [hw EXCEPT ![s] = <<n, i>>]
               /\ Fill(i, s, a, b, c, d)
               /\ bySw' = [bySw EXCEPT ![s] = i]
               /\ byFd' = [byFd EXCEPT ![b] = i]
    /\ UNCHANGED <<wait, history, input, buffers>>

\* /dev/net/tun cannot be opened: the descriptor of /dev/net/turbotap stays.
ConnectNoTun(n) ==
    /\ Cardinality(leaked) + Cardinality(lost) < MaxLeaks
    /\ \E f \in Fds : /\ IsFree(f, 0)
                      /\ kfd' = [kfd EXCEPT ![f] = <<"turbotap", n>>]
                      /\ leaked' = leaked \cup {f}
    /\ UNCHANGED <<wait, slots, lost, maps, hw, input, buffers>>

\* The last two errors: what was opened is closed, the slot is not given back.
ConnectLate ==
    /\ Cardinality(leaked) + Cardinality(lost) < MaxLeaks
    /\ \E i \in Slots : turbotap_get_new_tapif(i) /\ lost' = lost \cup {i}
    /\ UNCHANGED <<kfd, wait, active, fds, sw_if_index, rx_ready, mtu_buffers, leaked,
                   maps, hw, input, buffers>>

vnet_turbotap_connect(n) == Outside /\ (ConnectOk(n) \/ ConnectNoTun(n) \/ ConnectLate)

Close(S) == kfd' = [f \in Fds |-> IF f \in S THEN None ELSE kfd[f]]

\* Mutant: the slot keeps the number of its socket.
DisconnectKeepsSocket(i) ==
    /\ bySw' = [bySw EXCEPT ![sw_if_index[i]] = None]
    /\ byFd' = [byFd EXCEPT ![unix_fd[i]] = None]
    /\ Close({unix_fd[i], provision_fd[i], turbotap_fd[i], sock_fd[i]})
    /\ unix_fd' = [unix_fd EXCEPT ![i] = None]
    /\ provision_fd' = [provision_fd EXCEPT ![i] = None]
    /\ turbotap_fd' = [turbotap_fd EXCEPT ![i] = None]
    /\ UNCHANGED sock_fd

\* Mutant: the descriptor of /dev/net/turbotap is not closed.
DisconnectLeaks(i) ==
    /\ bySw' = [bySw EXCEPT ![sw_if_index[i]] = None]
    /\ byFd' = [byFd EXCEPT ![unix_fd[i]] = None]
    /\ Close({unix_fd[i], provision_fd[i], sock_fd[i]})
    /\ unix_fd' = [unix_fd EXCEPT ![i] = None]
    /\ provision_fd' = [provision_fd EXCEPT ![i] = None]
    /\ turbotap_fd' = [turbotap_fd EXCEPT ![i] = None]
    /\ sock_fd' = [sock_fd EXCEPT ![i] = None]

turbotap_tap_disconnect(i) ==
    /\ bySw' = [bySw EXCEPT ![sw_if_index[i]] = None]
    /\ byFd' = [byFd EXCEPT ![unix_fd[i]] = None]
    /\ Close({unix_fd[i], provision_fd[i], turbotap_fd[i], sock_fd[i]})
    /\ unix_fd' = [unix_fd EXCEPT ![i] = None]
    /\ provision_fd' = [provision_fd EXCEPT ![i] = None]
    /\ turbotap_fd' = [turbotap_fd EXCEPT ![i] = None]
    /\ sock_fd' = [sock_fd EXCEPT ![i] = None]

\* The bit of the slot in pending_read_bitmap stays as it is.
vnet_turbotap_delete(s) ==
    /\ Outside /\ bySw[s] # None
    /\ LET i == bySw[s] IN
         /\ active' = [active EXCEPT ![i] = FALSE]
         /\ turbotap_tap_disconnect(i)
         /\ inactive' = Append(inactive, i)
         /\ wait' = [n \in Names |->
                        IF \E f \in Fds : unix_fd[i] = f /\ kfd[f] = <<"tun", n>> THEN 0
                        ELSE wait[n]]
    /\ hw' = [hw EXCEPT ![s] = None]
    /\ UNCHANGED <<nslots, sw_if_index, rx_ready, mtu_buffers, history, input, buffers>>

\* The MTU of an interface is set.
turbotap_flag_change(s, m) ==
    /\ Outside /\ hw[s] # None
    /\ mtu_buffers' = [mtu_buffers EXCEPT ![hw[s][2]] = m]
    /\ UNCHANGED <<kfd, wait, nslots, active, fds, sw_if_index, rx_ready, inactive,
                   history, maps, hw, input, buffers>>

-----------------------------------------------------------------------------
(***************************************************************************)
(* Receiving.                                                              *)
(***************************************************************************)
\* A packet for a tap comes from Linux.
LinuxSend(n) ==
    /\ Busy(n) /\ wait[n] < MaxWait
    /\ wait' = [wait EXCEPT ![n] = @ + 1]
    /\ UNCHANGED <<kfd, slots, history, maps, hw, input, buffers>>

\* The poller, which is level-triggered, calls it for every readable tap.
turbotap_read_ready(f) ==
    /\ Outside
    /\ \E n \in Names : kfd[f] = <<"tun", n>> /\ wait[n] > 0
    /\ irq' = TRUE
    /\ pending' = IF byFd[f] # None THEN pending \cup {byFd[f]} ELSE pending
    /\ UNCHANGED <<kfd, wait, slots, history, maps, hw, todo, buffers>>

\* turbotap_rx lists the pending interfaces and reads each, lowest first.
RxStart ==
    /\ irq /\ Outside /\ Len(frame) <= MaxGoing
    /\ irq' = FALSE /\ todo' = pending
    /\ UNCHANGED <<kfd, wait, slots, history, maps, hw, pending, buffers>>

RxEnd ==
    /\ todo = {}
    /\ todo' = None
    /\ UNCHANGED <<kfd, wait, slots, history, maps, hw, pending, irq, buffers>>

\* rx_buffers with what vlib_buffer_alloc gives, for b buffers.
Allocated(b) ==
    IF Len(rx_buffers) >= b THEN rx_buffers
    ELSE rx_buffers \o SubSeq(SetToSeq(pool), 1,
                              Min({b + Extra - Len(rx_buffers), Cardinality(pool)}))

\* Messages of m buffers that are prepared from the end of a vector of l.
Prepared(r, m, l) == Cardinality({k \in 0 .. r - 1 : l - k * m > m})

\* Mutant: the buffers a message did not need are left on the vector.
TakenUsed(u, m, x) == FoldLeft(LAMBDA n, y : n + u[y], 0, [y \in 1 .. x |-> y])

\* Buffers the first x messages take off the vector.
Taken(u, m, x) == x * m

\* How many messages are asked for next time.
Adapted(r, k) ==
    IF r - k > 0 THEN Max({r - k, k})
    ELSE Min({r + k, MAX_RECV})

\* Messages were read into the vector v, of which the frame takes k; the x-th
\* used u[x] of its buffers.  The others are recorded and put back, in an order
\* nothing depends on.
Received(i, v, t, k, u) ==
    LET m == mtu_buffers[i]
        at(x) == Len(v) - Taken(u, m, x - 1)
        packet(x) == [sw |-> sw_if_index[i], tap |-> t,
                      bufs |-> [y \in 1 .. u[x] |-> v[at(x) - y + 1]],
                      data |-> [y \in 1 .. u[x] |-> v[Len(v) - (x - 1) * m - y + 1]]]
        unused == SetToSeq({p \in (1 .. k) \X (1 .. m) : p[2] > u[p[1]]})
        back == [j \in DOMAIN unused |-> v[at(unused[j][1]) - unused[j][2] + 1]]
    IN /\ frame' = frame \o [x \in 1 .. k |-> packet(x)]
       /\ rx_buffers' = SubSeq(v, 1, Len(v) - Taken(u, m, k)) \o back
       /\ rx_ready' = [rx_ready EXCEPT ![i] = Adapted(@, k)]

turbotap_rx_iface(i) ==
    LET v == Allocated(rx_ready[i] * mtu_buffers[i])
        taps == {n \in Names : sock_fd[i] # None /\ kfd[sock_fd[i]] = <<"sock", n>>}
        room == FrameSize - (Len(frame) % FrameSize)
        asked == Prepared(rx_ready[i], mtu_buffers[i], Len(v))
    IN
    /\ pool' = pool \ ToSet(v)
    /\ \/ /\ \A n \in taps : wait[n] = 0 \/ asked = 0
          /\ rx_buffers' = v
          /\ UNCHANGED <<wait, frame, rx_ready>>
       \/ \E t \in taps : \E n \in 1 .. Min({asked, wait[t]}) :
             /\ wait' = [wait EXCEPT ![t] = @ - n]
             /\ \E u \in [1 .. Min({n, room}) -> 1 .. mtu_buffers[i]] :
                   Received(i, v, t, Min({n, room}), u)

Rx ==
    /\ todo # None /\ todo # {}
    /\ LET i == Min(todo) IN
         /\ turbotap_rx_iface(i)
         /\ pending' = pending \ {i}
         /\ todo' = todo \ {i}
    /\ UNCHANGED <<kfd, nslots, active, fds, sw_if_index, mtu_buffers, inactive, history,
                   maps, hw, irq>>

\* What was received goes on; the last node frees the buffers.
Freed ==
    /\ Outside /\ frame # <<>>
    /\ pool' = pool \cup UNION {ToSet(frame[x].bufs) : x \in DOMAIN frame}
    /\ frame' = <<>>
    /\ UNCHANGED <<kfd, wait, slots, history, maps, hw, input, rx_buffers>>

\* Through turbotap_tx, for an interface the packets are forwarded to: all of
\* them are freed, whether the kernel takes them, some of them or none.
turbotap_tx(s) == hw[s] # None /\ bySw[s] # None /\ Freed

\* Another node drops them.
Drop == Freed

-----------------------------------------------------------------------------
Loop == RxStart \/ RxEnd \/ Rx \/ Drop \/ \E f \in Fds : turbotap_read_ready(f)

Next ==
    \/ Loop
    \/ \E n \in Names : LinuxSend(n) \/ vnet_turbotap_connect(n)
    \/ \E s \in SwIfs : \/ vnet_turbotap_delete(s)
                        \/ turbotap_tx(s)
                        \/ \E m \in Mtus : turbotap_flag_change(s, m)

Spec == Init /\ [][Next]_vars

\* The main loop runs.
LiveSpec == /\ Spec /\ WF_vars(RxStart) /\ WF_vars(Rx) /\ WF_vars(RxEnd) /\ WF_vars(Drop)
            /\ \A f \in Fds : WF_vars(turbotap_read_ready(f))

-----------------------------------------------------------------------------
TypeOK ==
    /\ kfd \in [Fds -> (Kinds \X Names) \cup {None}]
    /\ wait \in [Names -> Nat]
    /\ nslots \in 0 .. MaxSlots
    /\ active \in [Slots -> BOOLEAN]
    /\ unix_fd \in [Slots -> Fds \cup {None}] /\ provision_fd \in [Slots -> Fds \cup {None}]
    /\ turbotap_fd \in [Slots -> Fds \cup {None}] /\ sock_fd \in [Slots -> Fds \cup {None}]
    /\ sw_if_index \in [Slots -> SwIfs \cup {None}]
    /\ rx_ready \in [Slots -> 1 .. MAX_RECV]
    /\ mtu_buffers \in [Slots -> Mtus]
    /\ inactive \in Seq(Slots) /\ leaked \subseteq Fds /\ lost \subseteq Slots
    /\ bySw \in [SwIfs -> Slots \cup {None}] /\ byFd \in [Fds -> Slots \cup {None}]
    /\ hw \in [SwIfs -> (Names \X Slots) \cup {None}]
    /\ pending \subseteq Slots /\ irq \in BOOLEAN
    /\ todo = None \/ todo \subseteq Slots
    /\ rx_buffers \in Seq(Bufs) /\ pool \subseteq Bufs

\* A slot that can be reused.
Listed(i) == \E x \in DOMAIN inactive : inactive[x] = i

Own(i) == {unix_fd[i], provision_fd[i], turbotap_fd[i], sock_fd[i]}

(***************************************************************************)
(* Every interface of VPP is found in both maps and has a slot of its own  *)
(* with the descriptors of its tap; slots without one are in no map, name  *)
(* no descriptor that was closed and are listed once to be reused.  Only   *)
(* the slots that a connect took before it failed are not listed, and no   *)
(* other way to lose one exists.                                           *)
(***************************************************************************)
SlotsSound ==
    /\ \A s \in SwIfs : hw[s] # None =>
          LET i == bySw[s] IN
          /\ i # None /\ hw[s][2] = i /\ active[i] /\ sw_if_index[i] = s
          /\ kfd[unix_fd[i]] = <<"tun", hw[s][1]>> /\ kfd[sock_fd[i]] = <<"sock", hw[s][1]>>
          /\ byFd[unix_fd[i]] = i
    /\ \A i \in Slots : ~active[i] => /\ \A s \in SwIfs : bySw[s] # i
                                      /\ \A f \in Fds : byFd[f] # i
                                      /\ Own(i) = {None}
    /\ \A x, y \in DOMAIN inactive :
          /\ ~active[inactive[x]] /\ inactive[x] < nslots
          /\ inactive[x] = inactive[y] => x = y
    /\ \A i \in Slots : i < nslots /\ ~active[i] => (Listed(i) <=> i \notin lost)
    /\ \A i \in lost : i < nslots /\ ~active[i]

(***************************************************************************)
(* Descriptors that are open belong to an active interface, each to one,   *)
(* except those of /dev/net/turbotap that a connect left open when it      *)
(* could not open /dev/net/tun: deleting an interface forgets none.        *)
(***************************************************************************)
DescriptorsOwned ==
    /\ \A f \in Fds : kfd[f] # None /\ f \notin leaked =>
          \E i \in Slots : active[i] /\ f \in Own(i)
    /\ \A f \in leaked : /\ kfd[f] # None
                         /\ \A i \in Slots : f \notin Own(i)
    /\ \A i, j \in Slots : active[i] /\ active[j] /\ Own(i) \cap Own(j) # {} => i = j

(***************************************************************************)
(* A packet is received on the interface its tap is connected to, whatever *)
(* slots, descriptors and indices were deleted and reused while their bits *)
(* were pending.                                                           *)
(***************************************************************************)
Attributed(p) == p.sw \in SwIfs /\ hw[p.sw] # None /\ hw[p.sw][1] = p.tap
PacketsOwn == [][\A x \in DOMAIN frame' \ DOMAIN frame : Attributed(frame'[x])]_vars

(***************************************************************************)
(* A packet's buffers are those its data was read into, and every buffer   *)
(* is in one place, once: free, kept for reading, or with one packet.      *)
(***************************************************************************)
BuffersExact ==
    LET kept == ToSet(rx_buffers)
        with(x) == ToSet(frame[x].bufs)
    IN
    /\ IsInjective(rx_buffers) /\ pool \cap kept = {}
    /\ \A x \in DOMAIN frame :
          /\ frame[x].bufs = frame[x].data /\ IsInjective(frame[x].bufs)
          /\ with(x) \cap (pool \cup kept) = {}
          /\ \A y \in DOMAIN frame : with(x) \cap with(y) # {} => x = y
    /\ pool \cup kept \cup UNION {with(x) : x \in DOMAIN frame} = Bufs

(***************************************************************************)
(* A tap that is full is read (README.md:22, "to send/receive packets from *)
(* kernel tap interfaces").  It is not, once one message is asked for and  *)
(* the vector holds exactly its buffers: a message is prepared only if the *)
(* vector holds more, and more are allocated only if it holds less.        *)
(***************************************************************************)
WaitingRead == \A n \in Names : wait[n] = MaxWait ~> wait[n] < MaxWait
=============================================================================
