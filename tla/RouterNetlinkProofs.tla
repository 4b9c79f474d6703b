------------------------ MODULE RouterNetlinkProofs ------------------------
(***************************************************************************)
(* Proofs about what the router does with its mirror, for any number of    *)
(* interfaces, addresses, neighbours and routes.                           *)
(***************************************************************************)
EXTENDS RouterNetlink, TLAPS

\* An interface's tap is mapped to it.
TapsAgree == \A s \in SwIfs : tapOf[s] # None => swOf[tapOf[s]] = s

\* An interface with a tap is there, or is listed because it was deleted; and
\* tap-inject is on when there are taps or lists.
ListsAgree ==
    /\ \A s \in SwIfs : tapOf[s] # None \/ s \in enabling => s \in alive \cup disabling
    /\ \A s \in SwIfs : tapOf[s] # None \/ s \in enabling \cup disabling => on

\* Linux says nothing about an interface it never had.
Unborn ==
    \A x \in IfIdx \ born :
        /\ swOf[x] = None /\ links[x] = None
        /\ \A s \in SwIfs : tapOf[s] # x
        /\ \A a \in Addrs : addrs[a] # x
        /\ \A k \in NeighKeys : neighs[k] # None => neighs[k].oif # x
        /\ \A i \in Pool : routes[i] # None => routes[i].oif # x

\* An entry of a neighbour is its interface's.
NeighsOwnKey == \A k \in NeighKeys : neighs[k] # None => k[1] = Byte[neighs[k].oif]

\* The inductive invariant.
RouterInv ==
    TypeOK /\ TapsAgree /\ ListsAgree /\ Unborn /\ NeighsOwnKey /\ MirrorApplied

USE RouterConstants

-----------------------------------------------------------------------------
LEMMA KeysType ==
  ASSUME NEW x \in IfIdx, NEW h \in Hosts
  PROVE  <<Byte[x], h>> \in NeighKeys
  BY DEF NeighKeys

LEMMA TypeInit == Init => TypeOK
  BY DEF Init, TypeOK

LEMMA LinkType ==
  ASSUME TypeOK, NEW x \in IfIdx, NEW flag \in Flags, DelLink(x) \/ NewLink(x, flag),
         msgs' \in 0 .. MaxMsgs
  PROVE  TypeOK'
<1>1. up' \subseteq SwIfs
  BY DEF DelLink, NewLink, add_del_link, set_flags_cb, TypeOK
<1>2. links' \in [IfIdx -> Flags \cup {None}]
  BY DEF DelLink, NewLink, TypeOK
<1>3. UNCHANGED <<linux, addrs, neighs, routes, vaddrs, vneighs, fib>>
  BY DEF DelLink, NewLink, add_del_link
<1>4. QED BY <1>1, <1>2, <1>3 DEF linux, lists, TypeOK

LEMMA AddrType ==
  ASSUME TypeOK, NEW a \in Addrs, NEW x \in IfIdx, DelAddr(a) \/ NewAddr(a, x),
         msgs' \in 0 .. MaxMsgs
  PROVE  TypeOK'
<1>1. vaddrs' \subseteq SwIfs \X Addrs
  <2>1. vaddrs \subseteq SwIfs \X Addrs /\ (swOf[x] # None => swOf[x] \in SwIfs)
    BY DEF TypeOK
  <2>2. CASE DelAddr(a)
    BY <2>1, <2>2 DEF DelAddr, add_del_addr
  <2>3. CASE NewAddr(a, x)
    BY <2>1, <2>3 DEF NewAddr, add_del_addr
  <2>4. QED BY <2>2, <2>3
<1>2. addrs' \in [Addrs -> IfIdx \cup {None}]
  <2>1. addrs \in [Addrs -> IfIdx \cup {None}]
    BY DEF TypeOK
  <2>2. \E y \in IfIdx \cup {None} : addrs' = [addrs EXCEPT ![a] = y]
    BY DEF DelAddr, NewAddr
  <2>3. QED BY <2>1, <2>2
<1>3. UNCHANGED <<linux, links, neighs, routes, up, vneighs, fib>>
  BY DEF DelAddr, NewAddr, add_del_addr
<1>4. QED BY <1>1, <1>2, <1>3 DEF linux, lists, TypeOK

LEMMA NeighEntry ==
  ASSUME TypeOK, NEW k \in NeighKeys, neighs[k] # None
  PROVE  /\ neighs[k].oif \in IfIdx /\ neighs[k].state \in States
         /\ neighs[k].ll \in LLAddrs \cup {None}
<1>1. neighs[k] \in Neighbours
  BY DEF TypeOK
<1>2. QED BY <1>1 DEF Neighbours

LEMMA NeighSet ==
  ASSUME TypeOK, NEW x \in IfIdx, NEW h \in Hosts, NEW state \in States,
         NEW ll \in LLAddrs \cup {None}, add_del_neigh(x, h, state, ll)
  PROVE  vneighs' \in [SwIfs \X Hosts -> LLAddrs \cup {None}]
<1>1. CASE swOf[x] = None
  BY <1>1 DEF add_del_neigh, TypeOK
<1>2. CASE swOf[x] # None
  <2>1. <<swOf[x], h>> \in SwIfs \X Hosts
    BY <1>2 DEF TypeOK
  <2>2. QED BY <1>2, <2>1 DEF add_del_neigh, TypeOK
<1>3. QED BY <1>1, <1>2

LEMMA DelNeighType ==
  ASSUME TypeOK, NEW k \in NeighKeys, DelNeigh(k), msgs' \in 0 .. MaxMsgs
  PROVE  TypeOK'
<1>1. k[2] \in Hosts
  BY DEF NeighKeys
<1>2. vneighs' \in [SwIfs \X Hosts -> LLAddrs \cup {None}]
  BY <1>1, NeighEntry, NeighSet DEF DelNeigh
<1>3. neighs' \in [NeighKeys -> Neighbours \cup {None}]
  BY DEF DelNeigh, TypeOK
<1>4. UNCHANGED <<linux, links, addrs, routes, up, vaddrs, fib>>
  BY DEF DelNeigh, add_del_neigh
<1>5. QED BY <1>2, <1>3, <1>4 DEF linux, lists, TypeOK

LEMMA NewNeighType ==
  ASSUME TypeOK, NEW x \in IfIdx, NEW h \in Hosts, NEW state \in States,
         NEW given \in LLAddrs \cup {None}, NewNeigh(x, h, state, given),
         msgs' \in 0 .. MaxMsgs
  PROVE  TypeOK'
<1> DEFINE k == <<Byte[x], h>>
           ll == IF given # None \/ neighs[k] = None THEN given ELSE neighs[k].ll
<1>1. k \in NeighKeys
  BY KeysType
<1>2. ll \in LLAddrs \cup {None}
  BY <1>1, NeighEntry
<1>3. /\ neighs' = [neighs EXCEPT ![k] = [oif |-> x, state |-> state, ll |-> ll]]
      /\ add_del_neigh(x, h, state, ll)
      /\ UNCHANGED <<linux, links, addrs, routes>>
  BY DEF NewNeigh
<1> HIDE DEF k, ll
<1>4. vneighs' \in [SwIfs \X Hosts -> LLAddrs \cup {None}]
  BY <1>2, <1>3, NeighSet
<1>5. neighs' \in [NeighKeys -> Neighbours \cup {None}]
  BY <1>1, <1>2, <1>3 DEF TypeOK, Neighbours
<1>6. UNCHANGED <<linux, links, addrs, routes, up, vaddrs, fib>>
  BY <1>3 DEF add_del_neigh
<1>7. QED BY <1>4, <1>5, <1>6 DEF linux, lists, TypeOK

\* A route of the mirror is kept as one, with the labels of the message or its
\* own, and the callback is told of it.
LEMMA RouteEntry ==
  ASSUME NEW e \in RouteType \cup {None}, NEW r \in Routes
  PROVE  /\ rtnl_entry_set(e, r) \in RouteType
         /\ rtnl_entry_set(e, r).oif = r.oif
<1>1. r \in RouteType
  OBVIOUS
<1>2. <<>> \in Seq([label : Nat, last : BOOLEAN])
  OBVIOUS
<1>3. \A q \in Seq([label : Nat, last : BOOLEAN]) :
         [r EXCEPT !.encap = q] \in RouteType /\ [r EXCEPT !.encap = q].oif = r.oif
  BY <1>1 DEF RouteType
<1>4. e # None => e.encap \in Seq([label : Nat, last : BOOLEAN])
  BY DEF RouteType
<1>5. QED BY <1>1, <1>2, <1>3, <1>4 DEF rtnl_entry_set

LEMMA PathSet ==
  ASSUME TypeOK, NEW r \in RouteType, add_del_route(r)
  PROVE  \A p \in fib' : p.sw \in SwIfs
<1>1. swOf[r.oif] \in SwIfs \cup {None}
  BY DEF RouteType, TypeOK
<1>2. QED BY <1>1 DEF add_del_route, Path, TypeOK

\* What a message about a route does: it sets or frees an entry of the mirror,
\* which the callback is told of.
LEMMA RouteStep ==
  ASSUME TypeOK, NEW r \in Routes, NewRoute(r) \/ DelRoute(r)
  PROVE  \E i \in Pool, e \in RouteType :
            /\ routes' = [routes EXCEPT ![i] = e] \/ routes' = [routes EXCEPT ![i] = None]
            /\ add_del_route(e)
            /\ e.oif = r.oif
            /\ routes'[i] # None => r.oif \in born
<1>1. CASE NewRoute(r)
  <2>1. PICK i \in Pool :
           /\ r.oif \in born
           /\ routes' = [routes EXCEPT ![i] = rtnl_entry_set(routes[i], r)]
           /\ add_del_route(rtnl_entry_set(routes[i], r))
    BY <1>1 DEF NewRoute
  <2>2. routes[i] \in RouteType \cup {None}
    BY DEF TypeOK
  <2>3. QED BY <2>1, <2>2, RouteEntry
<1>2. CASE DelRoute(r)
  <2>1. PICK i \in Pool :
           /\ rtnl_entry_match(routes[i], r)
           /\ routes' = [routes EXCEPT ![i] = None]
           /\ add_del_route(routes[i])
    BY <1>2 DEF DelRoute
  <2>2. routes[i] \in RouteType /\ routes[i].oif = r.oif
    BY <2>1 DEF rtnl_entry_match, TypeOK
  <2>3. routes'[i] = None
    BY <2>1 DEF TypeOK
  <2>4. QED BY <2>1, <2>2, <2>3
<1>3. QED BY <1>1, <1>2

LEMMA RouteTypes ==
  ASSUME TypeOK, NEW r \in Routes, DelRoute(r) \/ NewRoute(r), msgs' \in 0 .. MaxMsgs
  PROVE  TypeOK'
<1>1. PICK i \in Pool, e \in RouteType :
         /\ routes' = [routes EXCEPT ![i] = e] \/ routes' = [routes EXCEPT ![i] = None]
         /\ add_del_route(e)
  BY RouteStep
<1>2. routes' \in [Pool -> RouteType \cup {None}]
  BY <1>1 DEF TypeOK
<1>3. \A p \in fib' : p.sw \in SwIfs
  BY <1>1, PathSet
<1>4. UNCHANGED <<linux, links, addrs, neighs, up, vaddrs, vneighs>>
  BY DEF DelRoute, NewRoute, add_del_route
<1>5. QED BY <1>2, <1>3, <1>4 DEF linux, lists, TypeOK

\* The sets of interfaces that a run of the isr goes through.
RunOf(enable, disable, new) ==
    /\ enable \subseteq enabling \cup alive /\ enabling \subseteq enable
    /\ disable \subseteq disabling \cup alive /\ disabling \subseteq disable
    /\ Isr(enable, disable, new)

LEMMA IsrType ==
  ASSUME TypeOK, NEW new \in [SwIfs -> IfIdx \cup {None}], NEW enable, NEW disable,
         Isr(enable, disable, new), on' \in BOOLEAN, UNCHANGED msgs
  PROVE  TypeOK'
<1>1. tapOf' \in [SwIfs -> IfIdx \cup {None}]
  BY DEF Isr, TypeOK
<1>2. swOf' \in [IfIdx -> SwIfs \cup {None}]
  <2>1. \A x \in IfIdx : (\E s \in SwIfs : new[s] = x)
                            => (CHOOSE s \in SwIfs : new[s] = x) \in SwIfs
    OBVIOUS
  <2>2. QED BY <2>1 DEF Isr, TypeOK
<1>3. born' \subseteq IfIdx /\ enabling' \subseteq SwIfs /\ disabling' \subseteq SwIfs
  BY DEF Isr, TypeOK
<1>4. UNCHANGED <<alive, mirror, vpp>>
  BY DEF Isr
<1>5. QED BY <1>1, <1>2, <1>3, <1>4 DEF mirror, vpp, TypeOK

\* What runs the isr.
LEMMA Runs ==
  ASSUME NEW new, iface_isr(new) \/ cli_enable(new) \/ cli_disable(new),
         TypeOK
  PROVE  \E enable, disable \in SUBSET SwIfs :
            /\ RunOf(enable, disable, new)
            /\ on' \in BOOLEAN
            /\ \/ on' = on /\ enable = enabling
               \/ on'
               \/ alive \subseteq disable
<1>1. on \in BOOLEAN /\ alive \subseteq SwIfs /\ enabling \subseteq SwIfs /\ disabling \subseteq SwIfs
  BY DEF TypeOK
<1>2. CASE iface_isr(new)
  BY <1>1, <1>2 DEF iface_isr, RunOf
<1>3. CASE cli_enable(new)
  <2>1. CASE Isr(enabling \cup alive, disabling, new) /\ on' = TRUE
    <3>1. RunOf(enabling \cup alive, disabling, new)
      BY <2>1 DEF RunOf
    <3>2. QED BY <1>1, <2>1, <3>1
  <2>2. CASE Isr(enabling \cup alive, disabling \cup alive, new) /\ UNCHANGED on
    <3>1. RunOf(enabling \cup alive, disabling \cup alive, new)
      BY <2>2 DEF RunOf
    <3>2. QED BY <1>1, <2>2, <3>1
  <2>3. QED BY <1>3, <2>1, <2>2 DEF cli_enable
<1>4. CASE cli_disable(new)
  <2>1. RunOf(enabling, disabling \cup alive, new)
    BY <1>4 DEF cli_disable, RunOf
  <2>2. /\ enabling \in SUBSET SwIfs /\ disabling \cup alive \in SUBSET SwIfs
        /\ alive \subseteq disabling \cup alive
    BY <1>1
  <2>3. on' \in BOOLEAN
    BY <1>4 DEF cli_disable
  <2>4. QED BY <2>1, <2>2, <2>3
<1>5. QED BY <1>2, <1>3, <1>4

LEMMA TypeStep == TypeOK /\ [Next]_vars => TypeOK'
<1> SUFFICES ASSUME TypeOK, [Next]_vars PROVE TypeOK'
  OBVIOUS
<1>1. CASE msgs < MaxMsgs /\ msgs' = msgs + 1 /\ netns_notify_cb
  <2>0. msgs' \in 0 .. MaxMsgs
    BY <1>1 DEF TypeOK
  <2>1. ASSUME NEW a \in Addrs, DelAddr(a) PROVE TypeOK'
    <3>1. addrs[a] \in IfIdx
      BY <2>1 DEF DelAddr, TypeOK
    <3>2. QED BY <2>0, <2>1, <3>1, AddrType
  <2>2. ASSUME NEW k \in NeighKeys, DelNeigh(k) PROVE TypeOK'
    BY <2>0, <2>2, DelNeighType
  <2>3. ASSUME NEW x \in IfIdx, DelLink(x) \/ \E flag \in Flags : NewLink(x, flag)
        PROVE  TypeOK'
    <3>1. "up" \in Flags
      BY DEF Flags
    <3>2. QED BY <2>0, <2>3, <3>1, LinkType
  <2>4. ASSUME NEW a \in Addrs, NEW x \in IfIdx, NewAddr(a, x) PROVE TypeOK'
    BY <2>0, <2>4, AddrType
  <2>5. ASSUME NEW x \in IfIdx, NEW h \in Hosts, NEW state \in States,
               NEW ll \in LLAddrs \cup {None}, NewNeigh(x, h, state, ll)
        PROVE  TypeOK'
    BY <2>0, <2>5, NewNeighType
  <2>6. ASSUME NEW r \in Routes, NewRoute(r) \/ DelRoute(r) PROVE TypeOK'
    BY <2>0, <2>6, RouteTypes
  <2>7. QED BY <1>1, <2>1, <2>2, <2>3, <2>4, <2>5, <2>6 DEF netns_notify_cb
<1>2. CASE Interfaces /\ UNCHANGED msgs
  <2>1. ASSUME NEW s \in SwIfs, IfDelete(s) PROVE TypeOK'
    <3>1. vneighs' \in [SwIfs \X Hosts -> LLAddrs \cup {None}]
      BY <2>1 DEF IfDelete, TypeOK
    <3>2. QED BY <1>2, <2>1, <3>1 DEF IfDelete, mirror, TypeOK
  <2>2. ASSUME NEW x \in IfIdx, LinuxCreate(x) PROVE TypeOK'
    BY <1>2, <2>2 DEF LinuxCreate, lists, mirror, vpp, TypeOK
  <2>3. ASSUME NEW s \in SwIfs, IfCreate(s) PROVE TypeOK'
    BY <1>2, <2>3 DEF IfCreate, mirror, TypeOK
  <2>4. ASSUME NEW new \in [SwIfs -> IfIdx \cup {None}],
               iface_isr(new) \/ cli_enable(new) \/ cli_disable(new)
        PROVE  TypeOK'
    BY <1>2, <2>4, Runs, IsrType DEF RunOf
  <2>5. QED BY <1>2, <2>1, <2>2, <2>3, <2>4 DEF Interfaces
<1>3. CASE UNCHANGED vars
  BY <1>3 DEF vars, linux, lists, mirror, vpp, TypeOK
<1>4. QED BY <1>1, <1>2, <1>3 DEF Next

\* Every variable keeps its type.
THEOREM TypeCorrect == Spec => []TypeOK
<1>1. QED BY TypeInit, TypeStep, PTL DEF Spec

-----------------------------------------------------------------------------
LEMMA HygieneInit == Init => TapsAgree /\ ListsAgree /\ Unborn
  BY DEF Init, TapsAgree, ListsAgree, Unborn

\* After a run of the isr a tap is a new one, or the old one of an interface
\* that was not to lose it.
LEMMA IsrTaps ==
  ASSUME TypeOK, NEW new \in [SwIfs -> IfIdx \cup {None}],
         NEW enable \in SUBSET SwIfs, NEW disable \in SUBSET SwIfs,
         Isr(enable, disable, new),
         NEW s \in SwIfs, tapOf'[s] # None
  PROVE  /\ s \notin disable
         /\ \/ new[s] = tapOf'[s] /\ tapOf'[s] \notin born /\ s \in enable
            \/ new[s] = None /\ tapOf'[s] = tapOf[s]
  BY DEF Isr, TypeOK

\* Where a tap is mapped to after a run of the isr.
LEMMA IsrMaps ==
  ASSUME TypeOK, TapsAgree, Unborn, NEW new \in [SwIfs -> IfIdx \cup {None}],
         NEW enable \in SUBSET SwIfs, NEW disable \in SUBSET SwIfs,
         Isr(enable, disable, new),
         NEW x \in IfIdx
  PROVE  /\ \A s \in SwIfs : new[s] = x /\ s \notin disable => swOf'[x] = s
         /\ x \in born /\ swOf[x] \notin disable => swOf'[x] = swOf[x]
         /\ x \notin born' => swOf'[x] = None
<1> DEFINE tap == [s \in SwIfs |-> IF new[s] = None THEN tapOf[s] ELSE new[s]]
           gone == {tap[s] : s \in disable}
<1>1. swOf'[x] = IF x \in gone THEN None
                 ELSE IF \E s \in SwIfs : new[s] = x
                   THEN CHOOSE s \in SwIfs : new[s] = x
                 ELSE swOf[x]
  BY DEF Isr
<1>2. \A s \in SwIfs : new[s] = x =>
         x \notin born /\ \A t \in SwIfs : new[t] = x => t = s
  BY DEF Isr
<1>3. \A s \in SwIfs : tapOf[s] = x => x \in born /\ swOf[x] = s
  BY DEF TapsAgree, Unborn
<1>4. ASSUME NEW s \in SwIfs, new[s] = x, s \notin disable PROVE swOf'[x] = s
  <2>1. x \notin gone
    <3>1. SUFFICES ASSUME NEW t \in disable, tap[t] = x PROVE FALSE
      BY DEF gone
    <3>2. t \in SwIfs /\ t # s /\ x # None
      BY <1>4
    <3>3. new[t] # x /\ tapOf[t] # x
      BY <1>2, <1>3, <1>4, <3>2
    <3>4. QED BY <3>1, <3>2, <3>3
  <2>2. (CHOOSE t \in SwIfs : new[t] = x) = s
    BY <1>2, <1>4
  <2>3. QED BY <1>1, <1>4, <2>1, <2>2
<1>5. ASSUME x \in born, swOf[x] \notin disable PROVE swOf'[x] = swOf[x]
  <2>1. x \notin gone
    <3>1. SUFFICES ASSUME NEW t \in disable, tap[t] = x PROVE FALSE
      BY DEF gone
    <3>2. t \in SwIfs /\ t # swOf[x] /\ x # None
      BY <1>5
    <3>3. new[t] # x /\ tapOf[t] # x
      BY <1>2, <1>3, <1>5, <3>2
    <3>4. QED BY <3>1, <3>2, <3>3
  <2>2. QED BY <1>1, <1>2, <1>5, <2>1
<1>6. ASSUME x \notin born' PROVE swOf'[x] = None
  <2>1. x \notin born /\ \A s \in SwIfs : new[s] # x
    BY <1>6 DEF Isr
  <2>2. QED BY <1>1, <2>1 DEF Unborn
<1>7. QED BY <1>4, <1>5, <1>6

LEMMA IsrHygiene ==
  ASSUME TypeOK, TapsAgree, ListsAgree, Unborn, NEW new \in [SwIfs -> IfIdx \cup {None}],
         iface_isr(new) \/ cli_enable(new) \/ cli_disable(new)
  PROVE  TapsAgree' /\ ListsAgree' /\ Unborn'
<1>1. PICK enable \in SUBSET SwIfs, disable \in SUBSET SwIfs :
         /\ RunOf(enable, disable, new)
         /\ on' \in BOOLEAN
         /\ \/ on' = on /\ enable = enabling
            \/ on'
            \/ alive \subseteq disable
  BY Runs
<1>2. /\ Isr(enable, disable, new) /\ enabling' = {} /\ disabling' = {}
      /\ UNCHANGED <<alive, mirror>>
      /\ enable \subseteq enabling \cup alive /\ disabling \subseteq disable
  BY <1>1 DEF RunOf, Isr
<1>3. TypeOK => \A s \in SwIfs : tapOf'[s] \in IfIdx \cup {None}
  BY <1>2 DEF Isr, TypeOK
<1>4. ASSUME NEW s \in SwIfs, tapOf'[s] # None
      PROVE  /\ swOf'[tapOf'[s]] = s
             /\ s \in alive /\ on'
             /\ tapOf'[s] \in born'
  <2>1. /\ s \notin disable
        /\ \/ new[s] = tapOf'[s] /\ tapOf'[s] \notin born /\ s \in enable
           \/ new[s] = None /\ tapOf'[s] = tapOf[s]
    BY <1>2, <1>4, IsrTaps
  <2>2. tapOf'[s] \in IfIdx
    BY <1>3, <1>4
  <2>3. CASE new[s] = tapOf'[s]
    <3>1. swOf'[tapOf'[s]] = s
      <4> DEFINE x == tapOf'[s]
      <4>1. x \in IfIdx /\ new[s] = x /\ s \notin disable
        BY <2>1, <2>2, <2>3
      <4> HIDE DEF x
      <4>2. swOf'[x] = s
        <5>1. Isr(enable, disable, new)
          BY <1>2
        <5>2. QED BY <4>1, <5>1, IsrMaps
      <4>3. QED BY <4>2 DEF x
    <3>2. s \in alive
      BY <1>2, <2>1, <2>3, <1>4 DEF ListsAgree
    <3>3. on'
      BY <1>1, <2>1, <2>3, <1>4, <3>2 DEF ListsAgree
    <3>4. tapOf'[s] \in born'
      BY <1>2, <1>4, <2>3 DEF Isr
    <3>5. QED BY <3>1, <3>2, <3>3, <3>4
  <2>4. CASE new[s] = None /\ tapOf'[s] = tapOf[s]
    <3>1. swOf[tapOf[s]] = s /\ tapOf[s] \in born
      BY <1>4, <2>2, <2>4 DEF TapsAgree, Unborn
    <3>2. swOf'[tapOf'[s]] = s
      <4> DEFINE x == tapOf[s]
      <4>1. x \in IfIdx /\ x \in born /\ swOf[x] = s /\ s \notin disable
        BY <2>1, <2>2, <2>4, <3>1
      <4> HIDE DEF x
      <4>2. swOf'[x] = swOf[x]
        <5>1. Isr(enable, disable, new)
          BY <1>2
        <5>2. swOf[x] \notin disable
          BY <4>1
        <5>3. QED BY <4>1, <5>1, <5>2, IsrMaps
      <4>3. QED BY <2>4, <4>1, <4>2 DEF x
    <3>3. s \in alive /\ on
      BY <1>2, <1>4, <2>1, <2>4 DEF ListsAgree
    <3>4. on'
      BY <1>1, <2>1, <3>3
    <3>5. tapOf'[s] \in born'
      BY <1>2, <2>4, <3>1 DEF Isr
    <3>6. QED BY <3>2, <3>3, <3>4, <3>5
  <2>5. QED BY <2>1, <2>3, <2>4
<1>5. TapsAgree'
  BY <1>4 DEF TapsAgree
<1>6. ListsAgree'
  BY <1>2, <1>4 DEF ListsAgree
<1>7. Unborn'
  <2>1. SUFFICES ASSUME NEW x \in IfIdx, x \notin born'
                 PROVE  /\ swOf'[x] = None /\ links'[x] = None
                        /\ \A s \in SwIfs : tapOf'[s] # x
                        /\ \A a \in Addrs : addrs'[a] # x
                        /\ \A k \in NeighKeys : neighs'[k] # None => neighs'[k].oif # x
                        /\ \A i \in Pool : routes'[i] # None => routes'[i].oif # x
    BY DEF Unborn
  <2>2. x \notin born
    BY <1>2, <2>1 DEF Isr
  <2>3. swOf'[x] = None
    BY <1>2, <2>1, IsrMaps
  <2>4. \A s \in SwIfs : tapOf'[s] # x
    BY <1>4, <2>1
  <2>5. QED BY <1>2, <2>2, <2>3, <2>4 DEF Unborn, mirror
<1>8. QED BY <1>5, <1>6, <1>7

LEMMA HygieneStep ==
  TypeOK /\ TapsAgree /\ ListsAgree /\ Unborn /\ [Next]_vars
     => TapsAgree' /\ ListsAgree' /\ Unborn'
<1> SUFFICES ASSUME TypeOK, TapsAgree, ListsAgree, Unborn, [Next]_vars
             PROVE  TapsAgree' /\ ListsAgree' /\ Unborn'
  OBVIOUS
<1> DEFINE Good == TapsAgree' /\ ListsAgree' /\ Unborn'
<1>0. UNCHANGED linux => TapsAgree' /\ ListsAgree'
  BY DEF linux, lists, TapsAgree, ListsAgree
<1>1. ASSUME NEW x \in IfIdx, NEW flag \in Flags, NewLink(x, flag) PROVE Good
  BY <1>0, <1>1 DEF NewLink, linux, Unborn, TypeOK
<1>2. ASSUME NEW x \in IfIdx, DelLink(x) PROVE Good
  BY <1>0, <1>2 DEF DelLink, linux, Unborn, TypeOK
<1>3. ASSUME NEW a \in Addrs, NEW x \in IfIdx, NewAddr(a, x) PROVE Good
  BY <1>0, <1>3 DEF NewAddr, linux, Unborn, TypeOK
<1>4. ASSUME NEW a \in Addrs, DelAddr(a) PROVE Good
  BY <1>0, <1>4 DEF DelAddr, linux, Unborn, TypeOK
<1>5. ASSUME NEW x \in IfIdx, NEW h \in Hosts, NEW state \in States,
             NEW given \in LLAddrs \cup {None}, NewNeigh(x, h, state, given)
      PROVE  Good
  <2>1. x \in born /\ UNCHANGED <<linux, links, addrs, routes>>
    BY <1>5 DEF NewNeigh
  <2>2. \A k \in NeighKeys : \/ neighs'[k] = neighs[k]
                             \/ neighs'[k].oif = x
    <3> DEFINE j == <<Byte[x], h>>
    <3>1. j \in NeighKeys
      BY KeysType
    <3>2. PICK ll : neighs' = [neighs EXCEPT ![j] = [oif |-> x, state |-> state, ll |-> ll]]
      BY <1>5 DEF NewNeigh
    <3>3. QED BY <3>1, <3>2 DEF TypeOK
  <2>3. QED BY <1>0, <2>1, <2>2 DEF linux, Unborn
<1>6. ASSUME NEW k \in NeighKeys, DelNeigh(k) PROVE Good
  BY <1>0, <1>6 DEF DelNeigh, linux, Unborn, TypeOK
<1>7. ASSUME NEW r \in Routes, NewRoute(r) \/ DelRoute(r) PROVE Good
  <2>1. PICK i \in Pool, e \in RouteType :
           /\ routes' = [routes EXCEPT ![i] = e] \/ routes' = [routes EXCEPT ![i] = None]
           /\ e.oif = r.oif
           /\ routes'[i] # None => r.oif \in born
    BY <1>7, RouteStep
  <2>2. UNCHANGED <<linux, links, addrs, neighs>>
    BY <1>7 DEF NewRoute, DelRoute
  <2>3. \A j \in Pool : routes'[j] # None =>
           routes'[j] = routes[j] \/ routes'[j].oif \in born
    BY <2>1 DEF TypeOK
  <2>4. QED BY <1>0, <2>2, <2>3 DEF linux, Unborn
<1>8. ASSUME NEW s \in SwIfs, IfDelete(s) PROVE Good
  <2>1. TapsAgree' /\ Unborn'
    BY <1>8 DEF IfDelete, mirror, TapsAgree, Unborn
  <2>2. ListsAgree'
    BY <1>8 DEF IfDelete, ListsAgree, TypeOK
  <2>3. QED BY <2>1, <2>2
<1>9. ASSUME NEW s \in SwIfs, IfCreate(s) PROVE Good
  <2>1. TapsAgree' /\ Unborn'
    BY <1>9 DEF IfCreate, mirror, TapsAgree, Unborn
  <2>2. ListsAgree'
    BY <1>9 DEF IfCreate, ListsAgree, TypeOK
  <2>3. QED BY <2>1, <2>2
<1>10. ASSUME NEW x \in IfIdx, LinuxCreate(x) PROVE Good
  BY <1>10 DEF LinuxCreate, lists, mirror, TapsAgree, ListsAgree, Unborn
<1>11. ASSUME NEW new \in [SwIfs -> IfIdx \cup {None}],
              iface_isr(new) \/ cli_enable(new) \/ cli_disable(new)
       PROVE  Good
  BY <1>11, IsrHygiene
<1>12. CASE UNCHANGED vars
  BY <1>0, <1>12 DEF vars, linux, mirror, Unborn
<1>13. QED BY <1>1, <1>2, <1>3, <1>4, <1>5, <1>6, <1>7, <1>8, <1>9, <1>10, <1>11,
              <1>12 DEF Next, netns_notify_cb, Interfaces

LEMMA KeyStep ==
  TypeOK /\ NeighsOwnKey /\ [Next]_vars => NeighsOwnKey'
<1> SUFFICES ASSUME TypeOK, NeighsOwnKey, [Next]_vars PROVE NeighsOwnKey'
  OBVIOUS
<1>1. UNCHANGED neighs => NeighsOwnKey'
  BY DEF NeighsOwnKey
<1>2. ASSUME NEW k \in NeighKeys, DelNeigh(k) PROVE NeighsOwnKey'
  BY <1>2 DEF DelNeigh, TypeOK, NeighsOwnKey
<1>3. ASSUME NEW x \in IfIdx, NEW h \in Hosts, NEW state \in States,
             NEW given \in LLAddrs \cup {None}, NewNeigh(x, h, state, given)
      PROVE  NeighsOwnKey'
  <2> DEFINE j == <<Byte[x], h>>
  <2>1. j \in NeighKeys
    BY KeysType
  <2>2. PICK ll : neighs' = [neighs EXCEPT ![j] = [oif |-> x, state |-> state, ll |-> ll]]
    BY <1>3 DEF NewNeigh
  <2>3. \A k \in NeighKeys : \/ neighs'[k] = neighs[k]
                             \/ k = j /\ neighs'[k].oif = x
    BY <2>1, <2>2 DEF TypeOK
  <2>4. j[1] = Byte[x]
    OBVIOUS
  <2>5. QED BY <2>3, <2>4 DEF NeighsOwnKey
<1>4. Interfaces => UNCHANGED neighs
  BY DEF Interfaces, IfDelete, IfCreate, LinuxCreate, iface_isr, cli_enable, cli_disable,
         Isr, mirror
<1>5. CASE netns_notify_cb
  BY <1>1, <1>2, <1>3, <1>5 DEF netns_notify_cb, DelLink, NewLink, DelAddr, NewAddr,
                                NewRoute, DelRoute
<1>6. QED BY <1>1, <1>4, <1>5 DEF Next, vars, mirror

-----------------------------------------------------------------------------
(***************************************************************************)
(* What is applied stays so: first for the callback, kind by kind.         *)
(***************************************************************************)
LEMMA LinkApplies ==
  ASSUME RouterInv, NEW x \in IfIdx, NEW flag \in Flags, NewLink(x, flag) \/ DelLink(x)
  PROVE  LinksApplied'
<1>1. UNCHANGED linux
  BY DEF NewLink, DelLink
<1>2. SUFFICES ASSUME NEW y \in IfIdx, NEW s \in SwIfs, Stands(y, s), links'[y] # None
               PROVE  s \in up' <=> links'[y] = "up"
  BY <1>1 DEF linux, lists, LinksApplied, Stands
<1>3. CASE y # x
  <2>1. links'[y] = links[y]
    BY <1>3 DEF NewLink, DelLink, RouterInv, TypeOK
  <2>2. s \in up' <=> s \in up
    BY <1>2, <1>3 DEF NewLink, DelLink, add_del_link, set_flags_cb, Stands, RouterInv,
                       TypeOK
  <2>3. QED BY <1>2, <2>1, <2>2 DEF RouterInv, MirrorApplied, LinksApplied
<1>4. CASE y = x /\ NewLink(x, flag)
  <2>1. links'[x] = flag /\ swOf[x] = s /\ s # None
    BY <1>2, <1>4 DEF NewLink, Stands, RouterInv, TypeOK
  <2>2. s \in up' <=> flag = "up"
    BY <1>4, <2>1 DEF NewLink, add_del_link, set_flags_cb
  <2>3. QED BY <1>4, <2>1, <2>2
<1>5. CASE y = x /\ DelLink(x)
  BY <1>2, <1>5 DEF DelLink, RouterInv, TypeOK
<1>6. QED BY <1>3, <1>4, <1>5

LEMMA AddrApplies ==
  ASSUME RouterInv, NEW a \in Addrs, DelAddr(a) \/ \E x \in IfIdx : NewAddr(a, x)
  PROVE  AddrsApplied'
<1>1. UNCHANGED linux
  BY DEF NewAddr, DelAddr
<1>2. SUFFICES ASSUME NEW b \in Addrs, NEW y \in IfIdx, NEW s \in SwIfs,
                      Stands(y, s), addrs'[b] = y
               PROVE  <<s, b>> \in vaddrs'
  BY <1>1 DEF linux, lists, AddrsApplied, Stands
<1>3. CASE b # a
  <2>1. addrs'[b] = addrs[b]
    <3>1. addrs \in [Addrs -> IfIdx \cup {None}]
      BY DEF RouterInv, TypeOK
    <3>2. \E z : addrs' = [addrs EXCEPT ![a] = z]
      BY DEF DelAddr, NewAddr
    <3>3. QED BY <1>3, <3>1, <3>2
  <2>2. <<s, b>> \in vaddrs
    BY <1>2, <2>1 DEF RouterInv, MirrorApplied, AddrsApplied
  <2>3. \A t : <<t, a>> # <<s, b>>
    BY <1>3
  <2>4. CASE DelAddr(a)
    BY <2>2, <2>3, <2>4 DEF DelAddr, add_del_addr
  <2>5. CASE \E x \in IfIdx : NewAddr(a, x)
    BY <2>2, <2>5 DEF NewAddr, add_del_addr
  <2>6. QED BY <2>4, <2>5
<1>4. CASE b = a
  <2>1. NewAddr(a, y)
    <3>1. addrs \in [Addrs -> IfIdx \cup {None}] /\ y # None /\ addrs'[a] = y
      BY <1>2, <1>4 DEF RouterInv, TypeOK
    <3>2. ~DelAddr(a)
      BY <3>1 DEF DelAddr
    <3>3. PICK x \in IfIdx : NewAddr(a, x)
      BY <3>2
    <3>4. x = y
      BY <3>1, <3>3 DEF NewAddr
    <3>5. QED BY <3>3, <3>4
  <2>2. swOf[y] = s /\ s # None
    BY <1>2 DEF Stands
  <2>3. QED BY <1>4, <2>1, <2>2 DEF NewAddr, add_del_addr
<1>5. QED BY <1>3, <1>4

LEMMA NeighApplies ==
  ASSUME RouterInv,
         \/ \E k \in NeighKeys : DelNeigh(k)
         \/ \E x \in IfIdx, h \in Hosts, state \in States, ll \in LLAddrs \cup {None} :
               NewNeigh(x, h, state, ll)
  PROVE  NeighsApplied'
<1>1. UNCHANGED linux
  BY DEF NewNeigh, DelNeigh
<1>2. SUFFICES ASSUME NEW k \in NeighKeys, NEW s \in SwIfs, neighs'[k] # None,
                      Stands(neighs'[k].oif, s)
      PROVE  LET n == neighs'[k] v == vneighs'[<<s, k[2]>>] IN
             /\ n.state = "REACHABLE" => v = n.ll
             /\ n.state = "FAILED" \/ (k[2] \in Hosts6 /\ n.state # "REACHABLE") => v = None
  BY <1>1 DEF linux, lists, NeighsApplied, Stands
<1>3. s # None /\ k[2] \in Hosts
  BY DEF NeighKeys
<1>4. vneighs \in [SwIfs \X Hosts -> LLAddrs \cup {None}]
  BY DEF RouterInv, TypeOK
<1>5. \A w : \A e : w # <<s, k[2]>> =>
         [vneighs EXCEPT ![w] = e][<<s, k[2]>>] = vneighs[<<s, k[2]>>]
  BY <1>4
<1>6. ASSUME NEW x \in IfIdx, NEW h, NEW state, NEW ll, add_del_neigh(x, h, state, ll),
             <<Byte[x], h>> # k, neighs'[k] = neighs[k], neighs[k].oif \in IfIdx,
             k[1] = Byte[neighs[k].oif]
      PROVE  vneighs'[<<s, k[2]>>] = vneighs[<<s, k[2]>>]
  <2>1. <<swOf[x], h>> # <<s, k[2]>>
    <3>1. SUFFICES ASSUME swOf[x] = s, h = k[2] PROVE FALSE
      OBVIOUS
    <3>2. x = neighs[k].oif
      BY <1>2, <1>6, <3>1 DEF Stands
    <3>3. k = <<k[1], k[2]>>
      BY DEF NeighKeys
    <3>4. QED BY <1>6, <3>1, <3>2, <3>3
  <2>2. QED BY <1>5, <1>6, <2>1 DEF add_del_neigh
<1>7. neighs[k] # None => neighs[k].oif \in IfIdx /\ k[1] = Byte[neighs[k].oif]
  BY NeighEntry DEF RouterInv, NeighsOwnKey
<1>8. ASSUME NEW j \in NeighKeys, DelNeigh(j)
      PROVE  LET n == neighs'[k] v == vneighs'[<<s, k[2]>>] IN
             /\ n.state = "REACHABLE" => v = n.ll
             /\ n.state = "FAILED" \/ (k[2] \in Hosts6 /\ n.state # "REACHABLE") => v = None
  <2>1. j # k /\ neighs'[k] = neighs[k]
    BY <1>2, <1>8 DEF DelNeigh, RouterInv, TypeOK
  <2>2. /\ neighs[j].oif \in IfIdx /\ j[1] = Byte[neighs[j].oif]
        /\ add_del_neigh(neighs[j].oif, j[2], neighs[j].state, neighs[j].ll)
    BY <1>8, NeighEntry DEF DelNeigh, RouterInv, NeighsOwnKey
  <2>3. <<Byte[neighs[j].oif], j[2]>> # k
    BY <2>1, <2>2 DEF NeighKeys
  <2>4. vneighs'[<<s, k[2]>>] = vneighs[<<s, k[2]>>]
    BY <1>2, <1>6, <1>7, <2>1, <2>2, <2>3
  <2>5. QED BY <1>2, <2>1, <2>4 DEF RouterInv, MirrorApplied, NeighsApplied
<1>9. ASSUME NEW x \in IfIdx, NEW h \in Hosts, NEW state \in States,
             NEW given \in LLAddrs \cup {None}, NewNeigh(x, h, state, given)
      PROVE  LET n == neighs'[k] v == vneighs'[<<s, k[2]>>] IN
             /\ n.state = "REACHABLE" => v = n.ll
             /\ n.state = "FAILED" \/ (k[2] \in Hosts6 /\ n.state # "REACHABLE") => v = None
  <2> DEFINE j == <<Byte[x], h>>
             ll == IF given # None \/ neighs[j] = None THEN given ELSE neighs[j].ll
  <2>1. j \in NeighKeys
    BY KeysType
  <2>2. /\ neighs' = [neighs EXCEPT ![j] = [oif |-> x, state |-> state, ll |-> ll]]
        /\ add_del_neigh(x, h, state, ll)
    BY <1>9 DEF NewNeigh
  <2> HIDE DEF ll
  <2>3. CASE j # k
    <3>1. neighs'[k] = neighs[k]
      BY <2>2, <2>3 DEF RouterInv, TypeOK
    <3>2. vneighs'[<<s, k[2]>>] = vneighs[<<s, k[2]>>]
      BY <1>2, <1>6, <1>7, <2>2, <2>3, <3>1
    <3>3. QED BY <1>2, <3>1, <3>2 DEF RouterInv, MirrorApplied, NeighsApplied
  <2>4. CASE j = k
    <3>1. neighs'[k] = [oif |-> x, state |-> state, ll |-> ll] /\ k[2] = h
      BY <2>1, <2>2, <2>4 DEF RouterInv, TypeOK
    <3>2. swOf[x] = s
      BY <1>2, <3>1 DEF Stands
    <3>3. vneighs' = IF state = "REACHABLE" THEN [vneighs EXCEPT ![<<s, h>>] = ll]
                     ELSE IF (IF h \in Hosts6 THEN ~(state = "REACHABLE") ELSE state = "FAILED")
                       THEN [vneighs EXCEPT ![<<s, h>>] = None] ELSE vneighs
      BY <1>3, <2>2, <3>2 DEF add_del_neigh
    <3>4. <<s, h>> \in SwIfs \X Hosts
      OBVIOUS
    <3>5. /\ state = "REACHABLE" => vneighs'[<<s, h>>] = ll
          /\ state = "FAILED" \/ (h \in Hosts6 /\ state # "REACHABLE")
               => vneighs'[<<s, h>>] = None
      BY <1>4, <3>3, <3>4
    <3>6. QED BY <3>1, <3>5
  <2>5. QED BY <2>3, <2>4
<1>10. QED BY <1>8, <1>9

LEMMA RouteApplies ==
  ASSUME RouterInv, NEW r \in Routes, NewRoute(r) \/ DelRoute(r)
  PROVE  RoutesApplied'
<1>1. UNCHANGED linux
  BY DEF NewRoute, DelRoute
<1>2. PICK i \in Pool, e \in RouteType :
         /\ routes' = [routes EXCEPT ![i] = e] \/ routes' = [routes EXCEPT ![i] = None]
         /\ add_del_route(e)
  BY RouteStep DEF RouterInv
<1>3. SUFFICES ASSUME NEW j \in Pool, NEW s \in SwIfs, routes'[j] # None,
                      Stands(routes'[j].oif, s)
               PROVE  Path(routes'[j], s) \in fib'
  BY <1>1 DEF linux, lists, RoutesApplied, Stands
<1>4. fib \subseteq fib'
  BY <1>2 DEF add_del_route
<1>5. CASE j # i
  <2>1. routes'[j] = routes[j]
    BY <1>2, <1>5 DEF RouterInv, TypeOK
  <2>2. QED BY <1>3, <1>4, <2>1 DEF RouterInv, MirrorApplied, RoutesApplied
<1>6. CASE j = i
  <2>1. routes'[j] = e /\ e.oif \in IfIdx
    BY <1>2, <1>3, <1>6 DEF RouterInv, TypeOK, RouteType
  <2>2. swOf[e.oif] = s /\ s # None
    BY <1>3, <2>1 DEF Stands
  <2>3. QED BY <1>2, <2>1, <2>2 DEF add_del_route
<1>7. QED BY <1>5, <1>6

-----------------------------------------------------------------------------
(***************************************************************************)
(* Interfaces come and go.                                                 *)
(***************************************************************************)
\* A tap that stands for an interface after a run of the isr did so before, or
\* Linux never had it.
LEMMA IsrStands ==
  ASSUME RouterInv, NEW new \in [SwIfs -> IfIdx \cup {None}],
         iface_isr(new) \/ cli_enable(new) \/ cli_disable(new),
         NEW x \in IfIdx, NEW s \in SwIfs, Stands(x, s)', x \in born
  PROVE  Stands(x, s)
<1>1. PICK enable \in SUBSET SwIfs, disable \in SUBSET SwIfs : RunOf(enable, disable, new)
  BY Runs DEF RouterInv
<1>2. Isr(enable, disable, new) /\ disabling \subseteq disable
  BY <1>1 DEF RunOf
<1>3. tapOf'[s] = x /\ x # None
  BY DEF Stands
<1>4. s \notin disable /\ tapOf[s] = x
  BY <1>2, <1>3, IsrTaps DEF RouterInv
<1>5. swOf[x] = s
  BY <1>3, <1>4 DEF RouterInv, TapsAgree
<1>6. ASSUME NEW y \in IfIdx, swOf[y] = s PROVE y = x
  <2>1. y \in born /\ s # None
    BY <1>6 DEF RouterInv, Unborn
  <2>2. swOf'[y] = s
    BY <1>2, <1>4, <1>6, <2>1, IsrMaps DEF RouterInv
  <2>3. QED BY <2>2 DEF Stands
<1>7. QED BY <1>2, <1>4, <1>5, <1>6 DEF Stands

LEMMA InterfaceApplies ==
  ASSUME RouterInv, Interfaces
  PROVE  MirrorApplied'
<1>1. UNCHANGED mirror
  BY DEF Interfaces, IfDelete, IfCreate, LinuxCreate, iface_isr, cli_enable, cli_disable,
         Isr
<1>2. ASSUME NEW new \in [SwIfs -> IfIdx \cup {None}],
             iface_isr(new) \/ cli_enable(new) \/ cli_disable(new)
      PROVE  MirrorApplied'
  <2>1. \A y \in IfIdx, t \in SwIfs : Stands(y, t)' => Stands(y, t) \/ y \notin born
    BY <1>2, IsrStands
  <2>2. \A x \in IfIdx \ born :
           /\ links[x] = None /\ \A a \in Addrs : addrs[a] # x
           /\ \A k \in NeighKeys : neighs[k] # None => neighs[k].oif # x
           /\ \A i \in Pool : routes[i] # None => routes[i].oif # x
    BY DEF RouterInv, Unborn
  <2>3. UNCHANGED vpp
    BY <1>2 DEF iface_isr, cli_enable, cli_disable, Isr
  <2>4. LinksApplied'
    BY <1>1, <2>1, <2>2, <2>3 DEF mirror, vpp, LinksApplied, RouterInv, MirrorApplied
  <2>5. AddrsApplied'
    BY <1>1, <2>1, <2>2, <2>3 DEF mirror, vpp, AddrsApplied, RouterInv, MirrorApplied
  <2>6. NeighsApplied'
    BY <1>1, <2>1, <2>2, <2>3, NeighEntry
       DEF mirror, vpp, NeighsApplied, RouterInv, MirrorApplied
  <2>7. \A i \in Pool : routes[i] # None => routes[i].oif \in IfIdx
    BY DEF RouterInv, TypeOK, RouteType
  <2>8. RoutesApplied'
    BY <1>1, <2>1, <2>2, <2>3, <2>7
       DEF mirror, vpp, RoutesApplied, RouterInv, MirrorApplied
  <2>9. QED BY <2>4, <2>5, <2>6, <2>8 DEF MirrorApplied
<1>3. ASSUME NEW d \in SwIfs, IfDelete(d) PROVE MirrorApplied'
  <2>0. \A y \in IfIdx : Stands(y, d)' => FALSE
    <3>1. SUFFICES ASSUME NEW y \in IfIdx, Stands(y, d)' PROVE FALSE
      OBVIOUS
    <3>2. tapOf[d] = y /\ y # None
      BY <1>3, <3>1 DEF IfDelete, Stands
    <3>3. on
      BY <3>2 DEF RouterInv, ListsAgree
    <3>4. QED BY <1>3, <3>1, <3>3 DEF IfDelete, Stands
  <2>1. \A y \in IfIdx, t \in SwIfs : Stands(y, t)' => Stands(y, t) /\ t # d
    BY <1>3, <2>0 DEF IfDelete, Stands
  <2>2. /\ up' = up \ {d}
        /\ vaddrs' = {v \in vaddrs : v[1] # d}
        /\ \A t \in SwIfs \ {d}, h \in Hosts : vneighs'[<<t, h>>] = vneighs[<<t, h>>]
        /\ fib' = {p \in fib : p.sw # d}
    BY <1>3 DEF IfDelete
  <2>3. LinksApplied'
    BY <1>1, <2>1, <2>2 DEF mirror, LinksApplied, RouterInv, MirrorApplied
  <2>4. AddrsApplied'
    BY <1>1, <2>1, <2>2 DEF mirror, AddrsApplied, RouterInv, MirrorApplied
  <2>5. NeighsApplied'
    <3>1. \A k \in NeighKeys : k[2] \in Hosts
      BY DEF NeighKeys
    <3>2. QED BY <1>1, <2>1, <2>2, <3>1, NeighEntry
                 DEF mirror, NeighsApplied, RouterInv, MirrorApplied
  <2>6. \A r \in RouteType, t \in SwIfs : Path(r, t).sw = t
    BY DEF Path
  <2>7. \A i \in Pool : routes[i] # None => routes[i] \in RouteType /\ routes[i].oif \in IfIdx
    BY DEF RouterInv, TypeOK, RouteType
  <2>8. RoutesApplied'
    BY <1>1, <2>1, <2>2, <2>6, <2>7 DEF mirror, RoutesApplied, RouterInv, MirrorApplied
  <2>9. QED BY <2>3, <2>4, <2>5, <2>8 DEF MirrorApplied
<1>4. ASSUME NEW x \in IfIdx, LinuxCreate(x) PROVE MirrorApplied'
  BY <1>1, <1>4 DEF LinuxCreate, lists, mirror, vpp, Stands, LinksApplied, AddrsApplied,
                    NeighsApplied, RoutesApplied, RouterInv, MirrorApplied
<1>5. ASSUME NEW d \in SwIfs, IfCreate(d) PROVE MirrorApplied'
  <2>1. \A y \in IfIdx, t \in SwIfs : Stands(y, t)' => Stands(y, t) /\ t \in alive
    BY <1>5 DEF IfCreate, Stands, RouterInv, ListsAgree
  <2>2. d \notin alive /\ up' = up \ {d} /\ UNCHANGED <<vaddrs, vneighs, fib>>
    BY <1>5 DEF IfCreate
  <2>3. LinksApplied'
    BY <1>1, <2>1, <2>2 DEF mirror, LinksApplied, RouterInv, MirrorApplied
  <2>4. AddrsApplied'
    BY <1>1, <2>1, <2>2 DEF mirror, AddrsApplied, RouterInv, MirrorApplied
  <2>5. NeighsApplied'
    BY <1>1, <2>1, <2>2, NeighEntry DEF mirror, NeighsApplied, RouterInv, MirrorApplied
  <2>6. \A i \in Pool : routes[i] # None => routes[i].oif \in IfIdx
    BY DEF RouterInv, TypeOK, RouteType
  <2>7. RoutesApplied'
    BY <1>1, <2>1, <2>2, <2>6 DEF mirror, RoutesApplied, RouterInv, MirrorApplied
  <2>8. QED BY <2>3, <2>4, <2>5, <2>7 DEF MirrorApplied
<1>6. QED BY <1>2, <1>3, <1>4, <1>5 DEF Interfaces

-----------------------------------------------------------------------------
LEMMA AppliedInit == Init => MirrorApplied
  BY DEF Init, MirrorApplied, LinksApplied, AddrsApplied, NeighsApplied, RoutesApplied,
         Stands

\* The parts of the mirror and of VPP that a message leaves alone.
LEMMA AppliedStep == RouterInv /\ [Next]_vars => MirrorApplied'
<1> SUFFICES ASSUME RouterInv, [Next]_vars PROVE MirrorApplied'
  OBVIOUS
<1>1. ASSUME NEW x \in IfIdx, NEW flag \in Flags, NewLink(x, flag) \/ DelLink(x)
      PROVE  MirrorApplied'
  <2>1. UNCHANGED <<linux, addrs, neighs, routes, vaddrs, vneighs, fib>>
    BY <1>1 DEF NewLink, DelLink, add_del_link
  <2>2. AddrsApplied' /\ NeighsApplied' /\ RoutesApplied'
    BY <2>1 DEF linux, lists, AddrsApplied, NeighsApplied, RoutesApplied, Stands, RouterInv, MirrorApplied
  <2>3. QED BY <1>1, <2>2, LinkApplies DEF MirrorApplied
<1>2. ASSUME NEW a \in Addrs, DelAddr(a) \/ \E x \in IfIdx : NewAddr(a, x)
      PROVE  MirrorApplied'
  <2>1. UNCHANGED <<linux, links, neighs, routes, up, vneighs, fib>>
    BY <1>2 DEF NewAddr, DelAddr, add_del_addr
  <2>2. LinksApplied' /\ NeighsApplied' /\ RoutesApplied'
    BY <2>1 DEF linux, lists, LinksApplied, NeighsApplied, RoutesApplied, Stands, RouterInv, MirrorApplied
  <2>3. QED BY <1>2, <2>2, AddrApplies DEF MirrorApplied
<1>3. ASSUME \/ \E k \in NeighKeys : DelNeigh(k)
             \/ \E x \in IfIdx, h \in Hosts, state \in States, ll \in LLAddrs \cup {None} :
                   NewNeigh(x, h, state, ll)
      PROVE  MirrorApplied'
  <2>1. UNCHANGED <<linux, links, addrs, routes, up, vaddrs, fib>>
    <3>1. CASE \E k \in NeighKeys : DelNeigh(k)
      BY <3>1 DEF DelNeigh, add_del_neigh
    <3>2. CASE \E x \in IfIdx, h \in Hosts, state \in States, ll \in LLAddrs \cup {None} :
                  NewNeigh(x, h, state, ll)
      BY <3>2 DEF NewNeigh, add_del_neigh
    <3>3. QED BY <1>3, <3>1, <3>2
  <2>2. LinksApplied' /\ AddrsApplied' /\ RoutesApplied'
    BY <2>1 DEF linux, lists, LinksApplied, AddrsApplied, RoutesApplied, Stands, RouterInv, MirrorApplied
  <2>3. NeighsApplied'
    BY <1>3, NeighApplies
  <2>4. QED BY <2>2, <2>3 DEF MirrorApplied
<1>4. ASSUME NEW r \in Routes, NewRoute(r) \/ DelRoute(r) PROVE MirrorApplied'
  <2>1. UNCHANGED <<linux, links, addrs, neighs, up, vaddrs, vneighs>>
    BY <1>4 DEF NewRoute, DelRoute, add_del_route
  <2>2. LinksApplied' /\ AddrsApplied' /\ NeighsApplied'
    BY <2>1 DEF linux, lists, LinksApplied, AddrsApplied, NeighsApplied, Stands, RouterInv, MirrorApplied
  <2>3. QED BY <1>4, <2>2, RouteApplies DEF MirrorApplied
<1>5. CASE UNCHANGED vars
  BY <1>5 DEF vars, linux, lists, mirror, vpp, RouterInv, MirrorApplied, LinksApplied,
               AddrsApplied, NeighsApplied, RoutesApplied, Stands
<1>6. CASE netns_notify_cb
  <2>1. ASSUME NEW x \in IfIdx, DelLink(x) \/ \E flag \in Flags : NewLink(x, flag)
        PROVE  MirrorApplied'
    <3>1. "up" \in Flags
      BY DEF Flags
    <3>2. QED BY <1>1, <2>1, <3>1
  <2>2. QED BY <1>2, <1>3, <1>4, <1>6, <2>1 DEF netns_notify_cb
<1>7. QED BY <1>5, <1>6, InterfaceApplies DEF Next

\* What the callback of tap_inject_netlink.c does keeps VPP in line with the
\* mirror, for every tap that tap_inject_delete_tap leaves the only one of its
\* interface, and whatever the neighbours' keys and the routes' labels are.
THEOREM MirrorIsApplied == Spec => []MirrorApplied
<1>1. Init => RouterInv
  <2>1. Init => NeighsOwnKey
    BY DEF Init, NeighsOwnKey
  <2>2. QED BY <2>1, TypeInit, HygieneInit, AppliedInit DEF RouterInv
<1>2. RouterInv /\ [Next]_vars => RouterInv'
  BY TypeStep, HygieneStep, KeyStep, AppliedStep DEF RouterInv
<1>3. RouterInv => MirrorApplied
  BY DEF RouterInv
<1>4. QED BY <1>1, <1>2, <1>3, PTL DEF Spec
=============================================================================
