----------------------------- MODULE TapInject -----------------------------
(***************************************************************************)
(* The taps of router/router: tap_inject.c, tap_inject_tap.c and the       *)
(* receiving node of tap_inject_node.c.                                    *)
(*                                                                         *)
(* Every Ethernet interface of VPP gets a tap in Linux, named after it.    *)
(* Interfaces come and go in calls of VPP's processes; the callback only   *)
(* lists them, and tap_inject_iface_isr connects and disconnects their     *)
(* taps later.  The CLI does the same for all interfaces at once.          *)
(*                                                                         *)
(* All of it runs on the main thread, in the order of the main loop: first *)
(* the poller, which lists readable taps, then pending interrupts in the   *)
(* order they were raised, then the processes.  So the isr runs before the *)
(* receiving node, and processes run when no tap is listed.                *)
(***************************************************************************)
EXTENDS Naturals, Sequences, FiniteSets

CONSTANTS
    NHw,      \* bound: hardware interfaces besides local0
    Fds,      \* descriptors a tap may get
    Ifxs,     \* Linux' interface indices
    None,     \* ~0
    MaxCalls, \* bound: interfaces created or deleted, and CLI commands
    MaxFaults,\* bound: failing system calls
    MaxSent,  \* bound: packets Linux sends
    MaxListed \* bound: how often a tap is listed before it is read

HwIdx == 1 .. NHw

ASSUME TapConstants ==
    /\ NHw \in Nat \ {0}
    /\ None \notin HwIdx \cup Fds \cup Ifxs
    /\ MaxCalls \in Nat /\ MaxFaults \in Nat /\ MaxSent \in Nat
    /\ MaxListed \in Nat

VARIABLES
    hw,         \* VPP's hardware interfaces
    ether,      \* hw_class_index is Ethernet's; a freed slot keeps it
    inst,       \* hw_instance, the tap's name; a freed slot keeps it
    hwFree, etherFree, \* the free lists of VPP's pools
    cfgEnable,  \* TAP_INJECT_F_CONFIG_ENABLE
    netlinkOnly,\* TAP_INJECT_F_CONFIG_NETLINK
    enabled,    \* TAP_INJECT_F_ENABLED
    subs,       \* netns subscriptions opened
    punt,       \* VPP hands packets for the host to the tap nodes
    toEnable, toDisable, \* interfaces_to_enable, interfaces_to_disable
    isrPending, \* the interrupt of tap-inject-iface-isr
    caller,     \* who runs tap_inject_iface_isr, "none" outside of it
    err,        \* its err
    fdOf,       \* sw_if_index_to_tap_fd
    ifxOf,      \* sw_if_index_to_tap_if_index
    swOfFd,     \* tap_fd_to_sw_if_index
    swOfIfx,    \* tap_if_index_to_sw_if_index
    replaced,   \* an interface was given a tap while it had one
    tapIfx,     \* Linux: the tap open on a descriptor, or None
    tapName,    \* Linux: its name
    waiting,    \* Linux: packets waiting in the tap
    rx,         \* rx_file_descriptors
    lastRx,     \* what the receiving node forwarded last: <<name, sw>> pairs
    calls, faults, sent

interfaces == <<hw, ether, inst, hwFree, etherFree>>
config == <<cfgEnable, netlinkOnly, enabled, subs, punt>>
lists == <<toEnable, toDisable, isrPending>>
isr == <<caller, err>>
maps == <<fdOf, ifxOf, swOfFd, swOfIfx, replaced>>
taps == <<tapIfx, tapName>>
packets == <<waiting, rx, lastRx, sent>>
vars == <<interfaces, config, lists, isr, maps, taps, packets, calls, faults>>

\* A pool gives out what was freed last, or else its next index.
Stock(n) == [i \in 1 .. n |-> n + 1 - i]
Top(free) == free[Len(free)]
Pop(free) == SubSeq(free, 1, Len(free) - 1)

Init ==
    /\ hw = {}
    /\ ether = [h \in HwIdx |-> FALSE]
    /\ inst = [h \in HwIdx |-> 1]
    /\ hwFree = Stock(NHw) /\ etherFree = Stock(NHw)
    /\ cfgEnable \in BOOLEAN
    /\ netlinkOnly \in BOOLEAN
    /\ enabled = FALSE /\ subs = 0 /\ punt = FALSE
    /\ toEnable = <<>> /\ toDisable = <<>> /\ isrPending = FALSE
    /\ caller = "none" /\ err = FALSE /\ replaced = FALSE
    /\ fdOf = [s \in HwIdx |-> None]
    /\ ifxOf = [s \in HwIdx |-> None]
    /\ swOfFd = [f \in Fds |-> None]
    /\ swOfIfx = [x \in Ifxs |-> None]
    /\ tapIfx = [f \in Fds |-> None]
    /\ tapName = [f \in Fds |-> 1]
    /\ waiting = [f \in Fds |-> 0]
    /\ rx = <<>> /\ lastRx = {}
    /\ calls = 0 /\ faults = 0 /\ sent = 0

-----------------------------------------------------------------------------
\* Processes run after the poller and the interrupts it raised.
ProcessRuns ==
    /\ caller = "none" /\ rx = <<>>
    /\ calls < MaxCalls /\ calls' = calls + 1

\* tap_inject_enable.
Enable ==
    /\ enabled' = TRUE
    /\ subs' = IF enabled THEN subs ELSE subs + 1
    /\ punt' = (punt \/ (~enabled /\ ~netlinkOnly))

\* Mutants: a deletion is not listed; it is listed without an interrupt.
InterfaceAddDelAddOnly(h, add) ==
    IF cfgEnable
      THEN /\ Enable
           /\ toEnable' = IF add THEN Append(toEnable, h) ELSE toEnable
           /\ isrPending' = TRUE
           /\ UNCHANGED toDisable
      ELSE UNCHANGED <<enabled, subs, punt, lists>>

InterfaceAddDelQuietly(h, add) ==
    IF cfgEnable
      THEN /\ Enable
           /\ IF add THEN /\ toEnable' = Append(toEnable, h)
                          /\ UNCHANGED toDisable
                     ELSE /\ toDisable' = Append(toDisable, h)
                          /\ UNCHANGED toEnable
           /\ isrPending' = (isrPending \/ add)
      ELSE UNCHANGED <<enabled, subs, punt, lists>>

\* tap_inject_interface_add_del
InterfaceAddDel(h, add) ==
    IF cfgEnable
      THEN /\ Enable
           /\ IF add THEN /\ toEnable' = Append(toEnable, h)
                          /\ UNCHANGED toDisable
                     ELSE /\ toDisable' = Append(toDisable, h)
                          /\ UNCHANGED toEnable
           /\ isrPending' = TRUE
      ELSE UNCHANGED <<enabled, subs, punt, lists>>

\* VPP creates an interface.
InterfaceAdd(e) ==
    /\ ProcessRuns
    /\ hwFree # <<>> /\ (e => etherFree # <<>>)
    /\ LET h == Top(hwFree) IN
       /\ hw' = hw \cup {h}
       /\ hwFree' = Pop(hwFree)
       /\ ether' = [ether EXCEPT ![h] = e]
       /\ IF e THEN /\ inst' = [inst EXCEPT ![h] = Top(etherFree)]
                    /\ etherFree' = Pop(etherFree)
               ELSE UNCHANGED <<inst, etherFree>>
       /\ InterfaceAddDel(h, TRUE)
    /\ UNCHANGED <<cfgEnable, netlinkOnly, isr, maps, taps, packets, faults>>

\* VPP deletes one.
InterfaceDel(h) ==
    /\ ProcessRuns
    /\ h \in hw
    /\ hw' = hw \ {h}
    /\ hwFree' = Append(hwFree, h)
    /\ etherFree' = IF ether[h] THEN Append(etherFree, inst[h]) ELSE etherFree
    /\ InterfaceAddDel(h, FALSE)
    /\ UNCHANGED <<ether, inst, cfgEnable, netlinkOnly, isr,
                   maps, taps, packets, faults>>

\* pool_foreach over hw_interfaces.
Listings ==
    {l \in [1 .. Cardinality(hw) -> hw] :
        /\ \A h \in hw : \E i \in DOMAIN l : l[i] = h
        /\ \A i, j \in DOMAIN l : i < j => l[i] < l[j]}

\* enable tap-inject, disable tap-inject: the isr runs at once, over what the
\* callback has listed as well.
CliEnable ==
    /\ ProcessRuns
    /\ Enable
    /\ \E all \in Listings : toEnable' = toEnable \o all
    /\ caller' = "enable"
    /\ UNCHANGED <<interfaces, cfgEnable, netlinkOnly, toDisable, isrPending,
                   err, maps, taps, packets, faults>>

CliDisable ==
    /\ ProcessRuns
    /\ enabled' = FALSE
    /\ \E all \in Listings : toDisable' = toDisable \o all
    /\ caller' = "disable"
    /\ UNCHANGED <<interfaces, cfgEnable, netlinkOnly, subs, punt, toEnable,
                   isrPending, err, maps, taps, packets, faults>>

-----------------------------------------------------------------------------
(***************************************************************************)
(* tap_inject_iface_isr                                                    *)
(***************************************************************************)
IsrStart ==
    /\ caller = "none" /\ isrPending
    /\ isrPending' = FALSE
    /\ caller' = "isr"
    /\ UNCHANGED <<interfaces, config, toEnable, toDisable, err, maps, taps,
                   packets, calls, faults>>

IsrRuns == caller # "none"
Connecting == IsrRuns /\ toEnable # <<>> /\ ~err

Open(f) == tapIfx[f] # None
NameTaken(n) == \E f \in Fds : Open(f) /\ tapName[f] = n

\* tap_inject_insert_tap.  What the code calls sw_if_index here, in
\* tap_inject_tap_disconnect and in tap_rx is the hardware index.
InsertTap(s, f, x) ==
    /\ fdOf' = [fdOf EXCEPT ![s] = f]
    /\ ifxOf' = [ifxOf EXCEPT ![s] = x]
    /\ swOfFd' = [swOfFd EXCEPT ![f] = s]
    /\ swOfIfx' = [swOfIfx EXCEPT ![x] = s]
    /\ replaced' = (replaced \/ fdOf[s] # None)

SkipOther ==
    /\ Connecting
    /\ ~ether[Head(toEnable)]
    /\ toEnable' = Tail(toEnable)
    /\ UNCHANGED <<interfaces, config, toDisable, isrPending, isr,
                   maps, taps, packets, calls, faults>>

\* tap_inject_tap_connect
Connect(f, x) ==
    LET h == Head(toEnable) IN
    /\ Connecting
    /\ ether[h] /\ ~NameTaken(inst[h])
    /\ ~Open(f) /\ \A g \in Fds : tapIfx[g] # x
    /\ tapIfx' = [tapIfx EXCEPT ![f] = x]
    /\ tapName' = [tapName EXCEPT ![f] = inst[h]]
    /\ InsertTap(h, f, x)
    /\ toEnable' = Tail(toEnable)
    /\ UNCHANGED <<interfaces, config, toDisable, isrPending, isr,
                   packets, calls, faults>>

\* A tap of that name is open (EBUSY), or another call fails: the tap is
\* closed again and the rest of the list is dropped.
ConnectFails ==
    /\ Connecting
    /\ ether[Head(toEnable)]
    /\ IF NameTaken(inst[Head(toEnable)])
         THEN UNCHANGED faults
         ELSE faults < MaxFaults /\ faults' = faults + 1
    /\ err' = TRUE
    /\ UNCHANGED <<interfaces, config, lists, caller, maps, taps, packets,
                   calls>>

\* Mutant: delete_tap forgets one of the four maps.
DisconnectKeepsIfx ==
    LET s == Head(toDisable)
        f == fdOf[s]
    IN  /\ IsrRuns /\ ~Connecting /\ toDisable # <<>>
        /\ toDisable' = Tail(toDisable)
        /\ IF f = None
             THEN UNCHANGED <<maps, tapIfx, waiting>>
             ELSE /\ fdOf' = [fdOf EXCEPT ![s] = None]
                  /\ ifxOf' = [ifxOf EXCEPT ![s] = None]
                  /\ swOfFd' = [swOfFd EXCEPT ![f] = None]
                  /\ UNCHANGED swOfIfx
                  /\ tapIfx' = [tapIfx EXCEPT ![f] = None]
                  /\ waiting' = [waiting EXCEPT ![f] = 0]
        /\ UNCHANGED <<interfaces, config, toEnable, isrPending, isr,
                       replaced, tapName, rx, lastRx, sent, calls, faults>>

\* tap_inject_tap_disconnect, with tap_inject_delete_tap.
Disconnect ==
    LET s == Head(toDisable)
        f == fdOf[s]
    IN  /\ IsrRuns /\ ~Connecting /\ toDisable # <<>>
        /\ toDisable' = Tail(toDisable)
        /\ IF f = None
             THEN UNCHANGED <<maps, tapIfx, waiting>>
             ELSE /\ fdOf' = [fdOf EXCEPT ![s] = None]
                  /\ ifxOf' = [ifxOf EXCEPT ![s] = None]
                  /\ swOfFd' = [swOfFd EXCEPT ![f] = None]
                  /\ swOfIfx' = [swOfIfx EXCEPT ![ifxOf[s]] = None]
                  /\ tapIfx' = [tapIfx EXCEPT ![f] = None]
                  /\ waiting' = [waiting EXCEPT ![f] = 0]
        /\ UNCHANGED <<interfaces, config, toEnable, isrPending, isr,
                       replaced, tapName, rx, lastRx, sent, calls, faults>>

\* The lists are emptied; a failed enable then disables everything.
IsrEnd ==
    /\ IsrRuns /\ ~Connecting /\ toDisable = <<>>
    /\ toEnable' = <<>>
    /\ err' = FALSE
    /\ IF caller = "enable" /\ err
         THEN /\ enabled' = FALSE
              /\ toDisable' \in Listings
              /\ caller' = "undo"
              /\ UNCHANGED cfgEnable
         ELSE /\ cfgEnable' = CASE caller = "enable" -> TRUE
                                [] caller = "disable" -> FALSE
                                [] OTHER -> cfgEnable
              /\ caller' = "none"
              /\ UNCHANGED <<enabled, toDisable>>
    /\ UNCHANGED <<interfaces, netlinkOnly, subs, punt, isrPending, maps, taps,
                   packets, calls, faults>>

-----------------------------------------------------------------------------
(***************************************************************************)
(* Packets from Linux.                                                     *)
(***************************************************************************)
LinuxSend(f) ==
    /\ Open(f) /\ sent < MaxSent
    /\ sent' = sent + 1
    /\ waiting' = [waiting EXCEPT ![f] = @ + 1]
    /\ UNCHANGED <<interfaces, config, lists, isr, maps, taps, rx,
                   lastRx, calls, faults>>

Times(k, f) == Cardinality({i \in 1 .. k : rx[i] = f})

\* tap_inject_tap_read: level-triggered, so a tap may be listed again.
TapRead(f) ==
    /\ caller = "none"
    /\ Open(f) /\ waiting[f] > 0
    /\ Times(Len(rx), f) < MaxListed
    /\ rx' = Append(rx, f)
    /\ UNCHANGED <<interfaces, config, lists, isr, maps, taps, waiting,
                   lastRx, sent, calls, faults>>

\* tap_rx succeeds for the first k of the list.
Readable(k) ==
    /\ \A i \in 1 .. k : swOfFd[rx[i]] # None /\ Open(rx[i])
    /\ \A f \in Fds : Times(k, f) <= waiting[f]

\* Mutant: the failing tap and what follows it stay listed.
RxKeepsRest(k) ==
    /\ caller = "none" /\ ~isrPending /\ rx # <<>>
    /\ k <= Len(rx) /\ Readable(k)
    /\ IF k = Len(rx) \/ ~Readable(k + 1)
         THEN UNCHANGED faults
         ELSE faults < MaxFaults /\ faults' = faults + 1
    /\ rx' = SubSeq(rx, k + 1, Len(rx))
    /\ waiting' = [f \in Fds |-> waiting[f] - Times(k, f)]
    /\ lastRx' = {<<tapName[rx[i]], swOfFd[rx[i]]>> : i \in 1 .. k}
    /\ UNCHANGED <<interfaces, config, lists, isr, maps, taps, sent,
                   calls>>

\* tap_inject_rx: up to the first failure; the rest of the list is dropped.
Rx(k) ==
    /\ caller = "none" /\ ~isrPending /\ rx # <<>>
    /\ k <= Len(rx) /\ Readable(k)
    /\ IF k = Len(rx) \/ ~Readable(k + 1)
         THEN UNCHANGED faults
         ELSE faults < MaxFaults /\ faults' = faults + 1
    /\ rx' = <<>>
    /\ waiting' = [f \in Fds |-> waiting[f] - Times(k, f)]
    /\ lastRx' = {<<tapName[rx[i]], swOfFd[rx[i]]>> : i \in 1 .. k}
    /\ UNCHANGED <<interfaces, config, lists, isr, maps, taps, sent,
                   calls>>

-----------------------------------------------------------------------------
Isr ==
    \/ IsrStart
    \/ SkipOther
    \/ \E f \in Fds, x \in Ifxs : Connect(f, x)
    \/ ConnectFails
    \/ Disconnect
    \/ IsrEnd

Next ==
    \/ \E e \in BOOLEAN : InterfaceAdd(e)
    \/ \E h \in HwIdx : InterfaceDel(h)
    \/ CliEnable
    \/ CliDisable
    \/ Isr
    \/ \E f \in Fds : LinuxSend(f)
    \/ \E f \in Fds : TapRead(f)
    \/ \E k \in 0 .. MaxListed * Cardinality(Fds) : Rx(k)

Spec == Init /\ [][Next]_vars

\* The main loop polls every tap, and dispatches every interrupt.
LiveSpec ==
    /\ Spec
    /\ WF_vars(Isr)
    /\ \A f \in Fds : WF_vars(TapRead(f))
    /\ WF_vars(\E k \in 0 .. MaxListed * Cardinality(Fds) : Rx(k))

-----------------------------------------------------------------------------
TypeOK ==
    /\ hw \subseteq HwIdx
    /\ ether \in [HwIdx -> BOOLEAN]
    /\ inst \in [HwIdx -> HwIdx]
    /\ hwFree \in Seq(HwIdx) /\ etherFree \in Seq(HwIdx)
    /\ cfgEnable \in BOOLEAN /\ netlinkOnly \in BOOLEAN /\ enabled \in BOOLEAN
    /\ subs \in Nat /\ punt \in BOOLEAN
    /\ toEnable \in Seq(HwIdx) /\ toDisable \in Seq(HwIdx)
    /\ isrPending \in BOOLEAN
    /\ caller \in {"none", "isr", "enable", "undo", "disable"}
    /\ err \in BOOLEAN /\ replaced \in BOOLEAN
    /\ fdOf \in [HwIdx -> Fds \cup {None}]
    /\ ifxOf \in [HwIdx -> Ifxs \cup {None}]
    /\ swOfFd \in [Fds -> HwIdx \cup {None}]
    /\ swOfIfx \in [Ifxs -> HwIdx \cup {None}]
    /\ tapIfx \in [Fds -> Ifxs \cup {None}] /\ tapName \in [Fds -> HwIdx]
    /\ waiting \in [Fds -> Nat] /\ sent \in Nat
    /\ rx \in Seq(Fds) /\ lastRx \subseteq HwIdx \X (HwIdx \cup {None})
    /\ calls \in Nat /\ faults \in Nat

Tapped(s) == fdOf[s] # None

Listed(s, list) == \E i \in DOMAIN list : list[i] = s

\* The four maps describe the open taps: each belongs to one interface, that
\* has no other, and nothing is mapped to a tap that is closed.
OneTapEach ==
    ~replaced =>
        /\ \A s \in HwIdx : Tapped(s) =>
             /\ Open(fdOf[s]) /\ tapIfx[fdOf[s]] = ifxOf[s]
             /\ swOfFd[fdOf[s]] = s /\ swOfIfx[ifxOf[s]] = s
        /\ \A f \in Fds : IF Open(f)
                            THEN swOfFd[f] \in HwIdx /\ fdOf[swOfFd[f]] = f
                            ELSE swOfFd[f] = None
        /\ \A x \in Ifxs : swOfIfx[x] # None =>
             Tapped(swOfIfx[x]) /\ ifxOf[swOfIfx[x]] = x

\* A tap whose interface is gone, or that is not the tap of the interface
\* that got its index, is on the list of those to close; with tap-inject
\* disabled there is none.
TapHasInterface ==
    ~replaced => \A s \in HwIdx : Tapped(s) =>
        \/ s \in hw /\ ether[s] /\ tapName[fdOf[s]] = inst[s]
        \/ Listed(s, toDisable)

\* An interface is given a second tap only if it was deleted, and another
\* one created with its index, before the isr got to either.
ReplacedByReuse ==
    [][replaced' => \/ replaced
                    \/ Listed(Head(toEnable), toDisable)]_vars

\* What Linux sends into a tap leaves VPP through the interface the tap is
\* named after, though the descriptor was listed before interfaces changed.
RxThroughOwn ==
    [][rx # <<>> /\ rx' = <<>> /\ ~replaced =>
        \A p \in lastRx' : p[2] \in hw /\ ether[p[2]] /\ inst[p[2]] = p[1]]_vars

\* Why: a pool's free list holds free indices, each once;
HwPool ==
    /\ \A i \in DOMAIN hwFree : hwFree[i] \notin hw
    /\ \A i, j \in DOMAIN hwFree : hwFree[i] = hwFree[j] => i = j

\* the lists of the isr are empty when none is due;
ListsEmpty ==
    caller = "none" => /\ ~err
                       /\ ~isrPending => toEnable = <<>> /\ toDisable = <<>>

\* what is to be connected exists, or is to be disconnected as well;
ToEnableKnown ==
    ~err => \A i \in DOMAIN toEnable :
        \/ toEnable[i] \in hw /\ caller # "disable"
        \/ Listed(toEnable[i], toDisable)

\* without CONFIG_ENABLE there is no tap, and while disabling they are all
\* on the list.
Untapped ==
    /\ ~cfgEnable /\ caller \in {"none", "isr"} =>
         toEnable = <<>> /\ (~replaced => \A s \in HwIdx : ~Tapped(s))
    /\ caller = "undo" => toEnable = <<>>
    /\ ~replaced /\ caller \in {"disable", "undo"} =>
         \A s \in HwIdx : Tapped(s) => Listed(s, toDisable)

\* The inductive invariant of TapInjectProofs.
TapInv ==
    /\ TypeOK /\ OneTapEach /\ TapHasInterface
    /\ HwPool /\ ListsEmpty /\ ToEnableKnown /\ Untapped

\* A packet in a tap is read or goes with the tap, although one tap that
\* cannot be read drops all others from the list with it.
PacketsRead == \A f \in Fds : waiting[f] > 0 ~> waiting[f] = 0
=============================================================================
