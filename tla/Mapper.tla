------------------------------- MODULE Mapper -------------------------------
(***************************************************************************)
(* netlink/librtnl/mapper.c: the routes of Linux namespaces are installed  *)
(* in VPP's tables, for those Linux interfaces that are mapped to one of   *)
(* VPP.                                                                    *)
(*                                                                         *)
(* The mirror of a namespace (Netns) is shared with other subscribers, so  *)
(* it may hold routes before the mapper subscribes, and is destroyed with  *)
(* its last subscriber, which tells nobody.  Everything runs on the main   *)
(* thread; a call that returns an error changes nothing and is no action.  *)
(***************************************************************************)
EXTENDS FiniteSets

CONSTANTS
    NsIdx,     \* indices of the pool mapper_main.namespaces
    Names,     \* Linux namespaces
    IfIdx,     \* Linux interface indices
    SwIfs,     \* VPP's interface indices
    Tables,    \* VPP's tables
    Routes,
    Oif,       \* the interface of a route
    Multicast, \* those of them that are IPv6 multicast
    None

ASSUME MapperConstants ==
    /\ Oif \in [Routes -> IfIdx]
    /\ Multicast \subseteq Routes
    /\ None \notin SwIfs \cup Tables

VARIABLES
    mirror,     \* netns_t.routes
    others,     \* namespaces that another subscriber has open
    namespaces, \* the indices in use
    nsname,     \* mapper_ns_t.nsname
    fib_index,  \* mapper_ns_t.v4fib_index and v6fib_index
    mappings,   \* mapper_ns_t.mappings: the sw_if_index of a linux_ifindex
    fib,        \* the paths in VPP's tables
    fib_by_sw   \* ip4_main.fib_index_by_sw_if_index, and ip6_main's

netns == <<mirror, others>>
mapper_ns == <<namespaces, nsname, fib_index, mappings>>
vars == <<netns, mapper_ns, fib, fib_by_sw>>

NoMap == [x \in IfIdx |-> None]

Init ==
    /\ mirror = [n \in Names |-> {}]
    /\ others = {}
    /\ namespaces = {}
    /\ nsname \in {[i \in NsIdx |-> n] : n \in Names}
    /\ fib_index \in {[i \in NsIdx |-> t] : t \in Tables}
    /\ mappings = [i \in NsIdx |-> NoMap]
    /\ fib = {}
    /\ fib_by_sw = [s \in SwIfs |-> None]

-----------------------------------------------------------------------------
\* Mutant: any mapping will do.
AnyMap(i, x) ==
    IF \E y \in IfIdx : mappings[i][y] # None
      THEN mappings[i][CHOOSE y \in IfIdx : mappings[i][y] # None]
      ELSE None

mapper_get_by_ifindex(i, x) == mappings[i][x]

\* The paths mapper_add_del_route adds for routes R, which it does for those
\* that are deleted as well.
Paths(i, R) ==
    {<<fib_index[i], r, mapper_get_by_ifindex(i, Oif[r])>> :
        r \in {q \in R \ Multicast : mapper_get_by_ifindex(i, Oif[q]) # None}}

mapper_add_del_route(i, R) == fib' = fib \cup Paths(i, R)

\* The callback of every namespace that is told of r.
mapper_netns_notify_cb(n, r) ==
    fib' = fib \cup UNION {Paths(i, {r}) : i \in {j \in namespaces : nsname[j] = n}}

Via(n, x) == {r \in mirror[n] : Oif[r] = x}

Open(n) == n \in others \/ \E i \in namespaces : nsname[i] = n

\* A route is added to the mirror or set again, or deleted.
RouteAdd(n, r) ==
    /\ Open(n)
    /\ mirror' = [mirror EXCEPT ![n] = @ \cup {r}]
    /\ mapper_netns_notify_cb(n, r)
    /\ UNCHANGED <<others, mapper_ns, fib_by_sw>>

RouteDel(n, r) ==
    /\ Open(n) /\ r \in mirror[n]
    /\ mirror' = [mirror EXCEPT ![n] = @ \ {r}]
    /\ mapper_netns_notify_cb(n, r)
    /\ UNCHANGED <<others, mapper_ns, fib_by_sw>>

\* Another subscriber opens the namespace, or closes it.
OtherOpen(n) ==
    /\ n \notin others
    /\ others' = others \cup {n}
    /\ UNCHANGED <<mirror, mapper_ns, fib, fib_by_sw>>

Released(n, last) == mirror' = IF last THEN [mirror EXCEPT ![n] = {}] ELSE mirror

OtherClose(n) ==
    /\ n \in others
    /\ others' = others \ {n}
    /\ Released(n, \A i \in namespaces : nsname[i] # n)
    /\ UNCHANGED <<mapper_ns, fib, fib_by_sw>>

-----------------------------------------------------------------------------
mapper_add_ns(i, n, t) ==
    /\ \A j \in namespaces : nsname[j] # n
    /\ i \notin namespaces
    /\ namespaces' = namespaces \cup {i}
    /\ nsname' = [nsname EXCEPT ![i] = n]
    /\ fib_index' = [fib_index EXCEPT ![i] = t]
    /\ mappings' = [mappings EXCEPT ![i] = NoMap]
    /\ UNCHANGED <<netns, fib, fib_by_sw>>

\* Mutant: routes that are known already are not loaded.
GetmapNoLoad(i, x, s) ==
    /\ mappings[i][x] = None
    /\ mappings' = [mappings EXCEPT ![i][x] = s]
    /\ fib_by_sw' = [fib_by_sw EXCEPT ![s] = fib_index[i]]
    /\ UNCHANGED fib

\* mapper_getmap of an interface that has no mapping yet.
mapper_getmap(i, x, s) ==
    /\ mappings[i][x] = None
    /\ mappings' = [mappings EXCEPT ![i][x] = s]
    /\ fib_by_sw' = [fib_by_sw EXCEPT ![s] = fib_index[i]]
    /\ fib' = fib \cup {<<fib_index[i], r, s>> : r \in Via(nsname[i], x) \ Multicast}

\* The routes of the interface are added once more; its table stays.
mapper_delmap(i, x) ==
    /\ mapper_add_del_route(i, Via(nsname[i], x))
    /\ mappings' = [mappings EXCEPT ![i][x] = None]
    /\ UNCHANGED fib_by_sw

mapper_add_del(i, x, s, del) ==
    /\ i \in namespaces
    /\ IF del THEN mappings[i][x] = s /\ mapper_delmap(i, x)
              ELSE mapper_getmap(i, x, s)
    /\ UNCHANGED <<netns, namespaces, nsname, fib_index>>

mapper_del_ns(i) ==
    /\ i \in namespaces
    /\ mapper_add_del_route(i, UNION {Via(nsname[i], x) :
                                        x \in {y \in IfIdx : mappings[i][y] # None}})
    /\ mappings' = [mappings EXCEPT ![i] = NoMap]
    /\ namespaces' = namespaces \ {i}
    /\ Released(nsname[i], nsname[i] \notin others)
    /\ UNCHANGED <<others, nsname, fib_index, fib_by_sw>>

Next ==
    \/ \E n \in Names : \/ OtherOpen(n) \/ OtherClose(n)
                        \/ \E r \in Routes : RouteAdd(n, r) \/ RouteDel(n, r)
    \/ \E i \in NsIdx :
         \/ mapper_del_ns(i)
         \/ \E n \in Names, t \in Tables : mapper_add_ns(i, n, t)
         \/ \E x \in IfIdx, s \in SwIfs, del \in BOOLEAN : mapper_add_del(i, x, s, del)

Spec == Init /\ [][Next]_vars

-----------------------------------------------------------------------------
TypeOK ==
    /\ mirror \in [Names -> SUBSET Routes]
    /\ others \subseteq Names
    /\ namespaces \subseteq NsIdx
    /\ nsname \in [NsIdx -> Names]
    /\ fib_index \in [NsIdx -> Tables]
    /\ mappings \in [NsIdx -> [IfIdx -> SwIfs \cup {None}]]
    /\ fib \subseteq Tables \X Routes \X SwIfs
    /\ fib_by_sw \in [SwIfs -> Tables \cup {None}]

\* What should be in the tables: the routes of the namespaces in use over the
\* interfaces mapped in them.
Due == {p \in Tables \X (Routes \ Multicast) \X SwIfs :
          \E i \in namespaces : /\ p[1] = fib_index[i]
                                /\ p[2] \in mirror[nsname[i]]
                                /\ p[3] = mappings[i][Oif[p[2]]]}

(***************************************************************************)
(* A route of a namespace is in its table as soon as its interface is      *)
(* mapped and it is known, whichever comes first and whoever else uses the *)
(* namespace (mapper.h:22, "Automatically map linux network routes").      *)
(***************************************************************************)
RoutesMapped == Due \subseteq fib

(***************************************************************************)
(* Nothing else gets into a table: not a route of another namespace, over  *)
(* an interface that is not mapped, or of a namespace that was deleted,    *)
(* even though deletions of routes and mappings add paths.                 *)
(***************************************************************************)
NewPathsDue == [][fib' \ fib \subseteq Due']_vars
=============================================================================
