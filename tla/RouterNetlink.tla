---------------------------- MODULE RouterNetlink ----------------------------
(***************************************************************************)
(* router/router/tap_inject_netlink.c: what Linux does to the taps is done *)
(* to VPP's interfaces.  The router subscribes to the mirror of its own    *)
(* namespace, of which this module has what Netns abstracts from: which    *)
(* attributes identify an object (ns_rcv_link, ns_rcv_addr, ns_rcv_neigh   *)
(* and ns_rcv_route of netns.c) and what the callback is told.             *)
(*                                                                         *)
(* Everything runs on the main thread, where the call of set_flags_cb is a *)
(* plain one and tap_inject_iface_isr runs to its end: the taps of several *)
(* interfaces are connected and disconnected in one step (TapInject has    *)
(* them one by one).  A tap is mapped before Linux has anything to say     *)
(* about it, and Linux does not use its index again.                       *)
(***************************************************************************)
EXTENDS Naturals, Sequences

CONSTANTS
    IfIdx,    \* Linux interface indices
    Byte,     \* the low byte of each of them
    SwIfs,    \* VPP's interface indices
    Addrs,    \* addresses with their prefix lengths
    Hosts,    \* addresses of neighbours
    Hosts6,   \* those of them that are IPv6
    LLAddrs,  \* link-layer addresses
    Routes,   \* records of a family, a destination, an interface and labels
    Depth,    \* MPLS_STACK_DEPTH
    Pool,     \* bound: indices of the mirror's routes
    MaxMsgs,  \* bound: messages of Linux
    None

\* A route, in a message or in the mirror.
RouteType ==
    [family : {"ip4", "ip6", "mpls"}, dst : Nat, oif : IfIdx,
     encap : Seq([label : Nat, last : BOOLEAN])]

ASSUME RouterConstants ==
    /\ Hosts6 \subseteq Hosts /\ MaxMsgs \in Nat /\ Depth \in Nat
    /\ Byte \in [IfIdx -> 0 .. 255]
    /\ None \notin SwIfs \cup IfIdx \cup LLAddrs \cup {"up", "down"}
    /\ None \notin RouteType /\ Routes \subseteq RouteType

VARIABLES
    born,     \* interfaces that Linux has or had
    alive,    \* VPP's interfaces
    on,       \* TAP_INJECT_F_CONFIG_ENABLE
    enabling, \* interfaces_to_enable
    disabling,\* interfaces_to_disable
    tapOf,    \* sw_if_index_to_tap_if_index
    swOf,     \* tap_if_index_to_sw_if_index
    links,    \* mirror: an interface's IFF_UP, or None
    addrs,    \* mirror: the interface of an address, or None
    neighs,   \* mirror: interface, state and link-layer address, or None
    routes,   \* mirror: the pool of routes
    up,       \* VPP: interfaces that are up
    vaddrs,   \* VPP: the interfaces' addresses
    vneighs,  \* VPP: the neighbours' link-layer addresses
    fib,      \* VPP: the paths
    msgs

lists == <<on, enabling, disabling>>
linux == <<born, alive, lists, tapOf, swOf>>
mirror == <<links, addrs, neighs, routes>>
vpp == <<up, vaddrs, vneighs, fib>>
vars == <<linux, mirror, vpp, msgs>>

Flags == {"up", "down"}
States == {"REACHABLE", "FAILED", "STALE"}

\* What a neighbour goes by in the mirror (ns_get_neigh): its address, and the
\* byte of ndm_ifindex that the mask covers.
NeighKeys == {Byte[x] : x \in IfIdx} \X Hosts

Init ==
    /\ born = {} /\ alive = {}
    /\ on \in BOOLEAN /\ enabling = {} /\ disabling = {}
    /\ tapOf = [s \in SwIfs |-> None]
    /\ swOf = [x \in IfIdx |-> None]
    /\ links = [x \in IfIdx |-> None]
    /\ addrs = [a \in Addrs |-> None]
    /\ neighs = [k \in NeighKeys |-> None]
    /\ routes = [i \in Pool |-> None]
    /\ up = {} /\ vaddrs = {} /\ fib = {}
    /\ vneighs = [n \in SwIfs \X Hosts |-> None]
    /\ msgs = 0

-----------------------------------------------------------------------------
(***************************************************************************)
(* Interfaces and taps.                                                    *)
(***************************************************************************)
LinuxCreate(x) ==
    /\ x \notin born
    /\ born' = born \cup {x}
    /\ UNCHANGED <<alive, lists, tapOf, swOf, mirror, vpp>>

\* VPP creates and deletes interfaces; tap_inject_interface_add_del lists them
\* for the isr.
IfCreate(s) ==
    /\ s \notin alive
    /\ alive' = alive \cup {s}
    /\ enabling' = IF on THEN enabling \cup {s} ELSE enabling
    /\ up' = up \ {s}
    /\ UNCHANGED <<born, on, disabling, tapOf, swOf, mirror, vaddrs, vneighs, fib>>

IfDelete(s) ==
    /\ s \in alive
    /\ alive' = alive \ {s}
    /\ disabling' = IF on THEN disabling \cup {s} ELSE disabling
    /\ up' = up \ {s}
    /\ vaddrs' = {v \in vaddrs : v[1] # s}
    /\ vneighs' = [n \in SwIfs \X Hosts |-> IF n[1] = s THEN None ELSE vneighs[n]]
    /\ fib' = {p \in fib : p.sw # s}
    /\ UNCHANGED <<born, on, enabling, tapOf, swOf, mirror>>

\* tap_inject_iface_isr: all connecting first, then all disconnecting.  new is
\* the tap that an interface gets, None when it gets none.  The name of a tap
\* is that of its interface, so that an interface with a tap gets another only
\* when it was deleted and created since.  The maps of its first tap are
\* overwritten then, and tap_inject_delete_tap goes by what they say now.
Isr(enable, disable, new) ==
    LET tap == [s \in SwIfs |-> IF new[s] = None THEN tapOf[s] ELSE new[s]]
        gone == {tap[s] : s \in disable}
    IN  /\ \A s \in SwIfs : new[s] # None =>
              /\ s \in enable /\ new[s] \notin born
              /\ tapOf[s] = None \/ s \in disabling
              /\ \A t \in SwIfs : new[t] = new[s] => t = s
        /\ born' = born \cup ({new[s] : s \in SwIfs} \ {None})
        /\ tapOf' = [s \in SwIfs |-> IF s \in disable THEN None ELSE tap[s]]
        /\ swOf' = [x \in IfIdx |->
                      IF x \in gone THEN None
                      ELSE IF \E s \in SwIfs : new[s] = x
                        THEN CHOOSE s \in SwIfs : new[s] = x
                      ELSE swOf[x]]
        /\ enabling' = {} /\ disabling' = {}
        /\ UNCHANGED <<alive, mirror, vpp>>

iface_isr(new) ==
    /\ enabling \cup disabling # {}
    /\ Isr(enabling, disabling, new)
    /\ UNCHANGED on

\* enable tap-inject, disable tap-inject: all interfaces are listed.  When one
\* gets no tap, because it has one or for an error, all of them lose theirs.
cli_enable(new) ==
    \/ /\ \A s \in alive : tapOf[s] = None \/ s \in disabling
       /\ Isr(enabling \cup alive, disabling, new)
       /\ on' = TRUE
    \/ /\ Isr(enabling \cup alive, disabling \cup alive, new)
       /\ UNCHANGED on

cli_disable(new) ==
    /\ Isr(enabling, disabling \cup alive, new)
    /\ on' = FALSE

-----------------------------------------------------------------------------
(***************************************************************************)
(* Links.  A deletion is handled like an addition, with the old flags.     *)
(***************************************************************************)
set_flags_cb(s, flag) == up' = IF flag = "up" THEN up \cup {s} ELSE up \ {s}

add_del_link(x, flag) ==
    /\ IF swOf[x] = None THEN UNCHANGED up ELSE set_flags_cb(swOf[x], flag)
    /\ UNCHANGED <<vaddrs, vneighs, fib>>

NewLink(x, flag) ==
    /\ x \in born
    /\ links' = [links EXCEPT ![x] = flag]
    /\ add_del_link(x, flag)
    /\ UNCHANGED <<linux, addrs, neighs, routes>>

DelLink(x) ==
    /\ links[x] # None
    /\ links' = [links EXCEPT ![x] = None]
    /\ add_del_link(x, links[x])
    /\ UNCHANGED <<linux, addrs, neighs, routes>>

(***************************************************************************)
(* Addresses, which are the same whatever their interface: that of the     *)
(* last addition is the one a deletion is for.                             *)
(***************************************************************************)
add_del_addr(a, x, is_del) ==
    /\ vaddrs' = IF swOf[x] = None THEN vaddrs
                 ELSE IF is_del THEN vaddrs \ {<<swOf[x], a>>}
                 ELSE vaddrs \cup {<<swOf[x], a>>}
    /\ UNCHANGED <<up, vneighs, fib>>

NewAddr(a, x) ==
    /\ x \in born
    /\ addrs' = [addrs EXCEPT ![a] = x]
    /\ add_del_addr(a, x, FALSE)
    /\ UNCHANGED <<linux, links, neighs, routes>>

DelAddr(a) ==
    /\ addrs[a] # None
    /\ addrs' = [addrs EXCEPT ![a] = None]
    /\ add_del_addr(a, addrs[a], TRUE)
    /\ UNCHANGED <<linux, links, neighs, routes>>

(***************************************************************************)
(* Neighbours.  Those of two interfaces whose indices have the same low    *)
(* byte are one entry, which is the last one's.  Deletions go by the entry *)
(* and its last state.                                                     *)
(***************************************************************************)
\* Mutant: an IPv6 neighbour is handled as one of IPv4.
NeighAs4(x, h, state, ll) ==
    LET v == <<swOf[x], h>>
        set == state = "REACHABLE"
        unset == state = "FAILED"
    IN  /\ vneighs' = IF swOf[x] = None THEN vneighs
                      ELSE IF set THEN [vneighs EXCEPT ![v] = ll]
                      ELSE IF unset THEN [vneighs EXCEPT ![v] = None] ELSE vneighs
        /\ UNCHANGED <<up, vaddrs, fib>>

add_del_neigh(x, h, state, ll) ==
    LET v == <<swOf[x], h>>
        set == state = "REACHABLE"
        unset == IF h \in Hosts6 THEN ~set ELSE state = "FAILED"
    IN  /\ vneighs' = IF swOf[x] = None THEN vneighs
                      ELSE IF set THEN [vneighs EXCEPT ![v] = ll]
                      ELSE IF unset THEN [vneighs EXCEPT ![v] = None] ELSE vneighs
        /\ UNCHANGED <<up, vaddrs, fib>>

\* A message need not have the link-layer address; the entry's is kept then.
NewNeigh(x, h, state, given) ==
    LET k == <<Byte[x], h>>
        ll == IF given # None \/ neighs[k] = None THEN given ELSE neighs[k].ll
    IN  /\ x \in born
        /\ neighs' = [neighs EXCEPT ![k] = [oif |-> x, state |-> state, ll |-> ll]]
        /\ add_del_neigh(x, h, state, ll)
        /\ UNCHANGED <<linux, links, addrs, routes>>

DelNeigh(k) ==
    /\ neighs[k] # None
    /\ neighs' = [neighs EXCEPT ![k] = None]
    /\ add_del_neigh(neighs[k].oif, k[2], neighs[k].state, neighs[k].ll)
    /\ UNCHANGED <<linux, links, addrs, routes>>

(***************************************************************************)
(* Routes.  A route that is deleted is added once more.                    *)
(***************************************************************************)
\* The labels up to the bottom of the stack, or to a label that is zero.
get_mpls_label_stack(encap) ==
    LET Taken == {k \in DOMAIN encap : \A j \in 1 .. k : /\ encap[j].label # 0
                                                         /\ j < k => ~encap[j].last}
    IN [k \in Taken |-> encap[k].label]

Path(r, s) ==
    [family |-> r.family, dst |-> r.dst, sw |-> s,
     labels |-> IF r.family = "ip4" THEN get_mpls_label_stack(r.encap) ELSE <<>>]

add_del_route(r) ==
    /\ fib' = IF swOf[r.oif] = None THEN fib ELSE fib \cup {Path(r, swOf[r.oif])}
    /\ UNCHANGED <<up, vaddrs, vneighs>>

\* Labels are compared with the attribute around them, which is never what an
\* entry has; when that attribute is too long, the entry matches as it is.
rtnl_entry_match(e, r) ==
    /\ e # None
    /\ e.family = r.family /\ e.dst = r.dst /\ e.oif = r.oif
    /\ IF r.encap = <<>> THEN e.encap = <<>> ELSE Len(r.encap) >= Depth

\* Labels that do not fit are left out.
rtnl_entry_set(e, r) ==
    IF Len(r.encap) <= Depth THEN r
    ELSE [r EXCEPT !.encap = IF e = None THEN <<>> ELSE e.encap]

NewRoute(r) ==
    \E i \in Pool :
      /\ r.oif \in born
      /\ \/ rtnl_entry_match(routes[i], r)
         \/ /\ routes[i] = None
            /\ \A j \in Pool : ~rtnl_entry_match(routes[j], r)
      /\ LET e == rtnl_entry_set(routes[i], r) IN
           /\ routes' = [routes EXCEPT ![i] = e]
           /\ add_del_route(e)
      /\ UNCHANGED <<linux, links, addrs, neighs>>

DelRoute(r) ==
    \E i \in Pool :
      /\ rtnl_entry_match(routes[i], r)
      /\ routes' = [routes EXCEPT ![i] = None]
      /\ add_del_route(routes[i])
      /\ UNCHANGED <<linux, links, addrs, neighs>>

-----------------------------------------------------------------------------
netns_notify_cb ==
    \/ \E x \in IfIdx : \/ DelLink(x)
                        \/ \E flag \in Flags : NewLink(x, flag)
    \/ \E a \in Addrs : DelAddr(a) \/ \E x \in IfIdx : NewAddr(a, x)
    \/ \E k \in NeighKeys : DelNeigh(k)
    \/ \E x \in IfIdx, h \in Hosts, state \in States, ll \in LLAddrs \cup {None} :
          NewNeigh(x, h, state, ll)
    \/ \E r \in Routes : NewRoute(r) \/ DelRoute(r)

Interfaces ==
    \/ \E x \in IfIdx : LinuxCreate(x)
    \/ \E s \in SwIfs : IfCreate(s) \/ IfDelete(s)
    \/ \E new \in [SwIfs -> IfIdx \cup {None}] :
          iface_isr(new) \/ cli_enable(new) \/ cli_disable(new)

Next ==
    \/ msgs < MaxMsgs /\ msgs' = msgs + 1 /\ netns_notify_cb
    \/ Interfaces /\ UNCHANGED msgs

Spec == Init /\ [][Next]_vars

-----------------------------------------------------------------------------
Neighbours == [oif : IfIdx, state : States, ll : LLAddrs \cup {None}]

TypeOK ==
    /\ born \subseteq IfIdx /\ alive \subseteq SwIfs
    /\ on \in BOOLEAN /\ enabling \subseteq SwIfs /\ disabling \subseteq SwIfs
    /\ tapOf \in [SwIfs -> IfIdx \cup {None}]
    /\ swOf \in [IfIdx -> SwIfs \cup {None}]
    /\ links \in [IfIdx -> Flags \cup {None}]
    /\ addrs \in [Addrs -> IfIdx \cup {None}]
    /\ neighs \in [NeighKeys -> Neighbours \cup {None}]
    /\ routes \in [Pool -> RouteType \cup {None}]
    /\ up \subseteq SwIfs /\ vaddrs \subseteq SwIfs \X Addrs
    /\ vneighs \in [SwIfs \X Hosts -> LLAddrs \cup {None}]
    /\ \A p \in fib : p.sw \in SwIfs
    /\ msgs \in 0 .. MaxMsgs

\* x is the tap of interface s, which has not been deleted since, and no tap
\* that tap_inject_delete_tap missed still maps to s.
Stands(x, s) ==
    /\ tapOf[s] = x /\ s \notin disabling
    /\ \A y \in IfIdx : swOf[y] = s <=> y = x

LinksApplied ==
    \A x \in IfIdx, s \in SwIfs :
       Stands(x, s) /\ links[x] # None => (s \in up <=> links[x] = "up")

AddrsApplied ==
    \A a \in Addrs, x \in IfIdx, s \in SwIfs :
       Stands(x, s) /\ addrs[a] = x => <<s, a>> \in vaddrs

NeighsApplied ==
    \A k \in NeighKeys, s \in SwIfs :
       LET n == neighs[k] v == vneighs[<<s, k[2]>>] IN
       n # None /\ Stands(n.oif, s) =>
          /\ n.state = "REACHABLE" => v = n.ll
          /\ n.state = "FAILED" \/ (k[2] \in Hosts6 /\ n.state # "REACHABLE") => v = None

RoutesApplied ==
    \A i \in Pool, s \in SwIfs :
       routes[i] # None /\ Stands(routes[i].oif, s) => Path(routes[i], s) \in fib

(***************************************************************************)
(* What the mirror holds of a tap holds for its interface: the flags, the  *)
(* addresses, the neighbours and the routes, through interfaces that are   *)
(* deleted and created with the same index, addresses that move,           *)
(* neighbours that share an entry, labels that never match, updates        *)
(* without attributes, and deletions that are handled as additions.  The   *)
(* code breaks it where a tap outlives its interface in the maps           *)
(* (Stands): then two taps act on one interface, or an old one does.       *)
(***************************************************************************)
MirrorApplied == LinksApplied /\ AddrsApplied /\ NeighsApplied /\ RoutesApplied
=============================================================================
