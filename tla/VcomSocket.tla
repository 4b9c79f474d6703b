----------------------------- MODULE VcomSocket -----------------------------
(***************************************************************************)
(* The sockets and epoll instances of vcl-ldpreload: the calls vcom.c      *)
(* intercepts and the tables of vcom_socket.c behind them.                 *)
(*                                                                         *)
(* A descriptor the library gives out is an ordinary descriptor of the     *)
(* kernel, kept only to reserve its number, paired with a session or an    *)
(* epoll index of vppcom.  The library runs inside the application's       *)
(* calls, one at a time.  vppcom and the kernel are external: a call of    *)
(* theirs succeeds or fails, and a session that is closed leaves the epoll *)
(* index it was registered with.                                           *)
(***************************************************************************)
EXTENDS Integers, FiniteSets

CONSTANTS
    Fds,     \* descriptor numbers
    Sids,    \* session and epoll indices of vppcom
    Items,   \* indices of the pool vepitems
    NoSid, NoItem, NoIdx, NoFd,
    MaxPend, \* bound: connections waiting at a listening session
    MaxStray \* bound: how far below zero a count may be driven

ASSUME VcomConstants ==
    /\ NoSid \notin Sids /\ NoIdx \notin Items /\ NoItem \notin Fds \X Fds
    /\ NoFd \notin Fds
    /\ MaxPend \in Nat /\ MaxStray \in Nat
    /\ IsFiniteSet(Fds)

VARIABLES
    careful,  \* the application removes a descriptor from its epoll instances
              \* before it closes it, and removes only what it added
    init,     \* is_vcom_init
    opening,  \* the descriptor socket() or epoll_create() has opened, which has
              \* no session yet
    kernel,   \* what the kernel has at each descriptor number
    session,  \* what vppcom has at each index
    members,  \* sessions registered with an epoll index of vppcom
    pend,     \* connections waiting at a session
    vsockets, \* sockidx_by_fd and the pool vsockets: the descriptor's sid
    vep,      \* epollidx_by_epfd and the pool vepolls: vep_idx of the epfd
    count,    \* vcom_epoll_t.count
    closing,  \* vcom_epoll_t.close
    item,     \* the pool vepitems: epfd and fd of an item
    byPair,   \* epitemidx_by_epfdfd
    byEpfd,   \* epitemidxs_by_epfd
    byFd,     \* epitemidxs_by_fd
    held,     \* descriptors the application may use
    added,    \* what it added and did not remove, epfd and fd
    lost,     \* history: sessions of which the application got no descriptor
    ret       \* whether the last call failed

sockets == <<kernel, session, vsockets>>
epolls == <<vep, count, closing>>
epitems == <<item, byPair, byEpfd, byFd>>
vars == <<careful, init, opening, sockets, members, pend, epolls, epitems, held,
          added, lost, ret>>

Kinds == {"closed", "file", "stream", "dgram", "epoll"}
States == {"free", "idle", "bound", "listen", "conn", "vep"}
Pairs == Fds \X Fds

Init ==
    /\ careful \in BOOLEAN
    /\ init = TRUE
    /\ opening = NoFd
    /\ kernel = [f \in Fds |-> "closed"]
    /\ session = [s \in Sids |-> "free"]
    /\ members = [s \in Sids |-> {}]
    /\ pend = [s \in Sids |-> 0]
    /\ vsockets = [f \in Fds |-> NoSid]
    /\ vep = [f \in Fds |-> NoSid]
    /\ count = [f \in Fds |-> 0]
    /\ closing = {}
    /\ item = [i \in Items |-> NoItem]
    /\ byPair = [p \in Pairs |-> NoIdx]
    /\ byEpfd = [f \in Fds |-> {}]
    /\ byFd = [f \in Fds |-> {}]
    /\ held = {} /\ added = {} /\ lost = {}
    /\ ret = "ok"

is_vcom_fd(f) == vsockets[f] # NoSid
is_vcom_epfd(f) == vep[f] # NoSid

\* A call that fails before it changes anything.
Refused ==
    /\ ret' = "error"
    /\ UNCHANGED <<init, opening, sockets, members, pend, epolls, epitems, held,
                   added, lost>>

\* vppcom_session_close of the sessions S.
SessionClose(S) ==
    /\ session' = [s \in Sids |-> IF s \in S THEN "free" ELSE session[s]]
    /\ members' = [s \in Sids |-> IF s \in S THEN {} ELSE members[s] \ S]
    /\ pend' = [s \in Sids |-> IF s \in S THEN 0 ELSE pend[s]]
    /\ lost' = lost \ S

-----------------------------------------------------------------------------
(***************************************************************************)
(* Sockets.                                                                *)
(***************************************************************************)
\* A descriptor of the kernel is opened first, to reserve its number.
open_descriptor(f, kind) ==
    /\ kernel[f] = "closed"
    /\ kernel' = [kernel EXCEPT ![f] = kind]
    /\ opening' = f
    /\ UNCHANGED <<init, session, vsockets, members, pend, epolls, epitems, held,
                   added, lost, ret>>

\* Mutant: the descriptor of a call that fails late stays open.
out_close_leaks ==
    /\ opening' = NoFd
    /\ ret' = "error"
    /\ UNCHANGED <<init, sockets, members, pend, epolls, epitems, held, added, lost>>

\* Without a session or an epoll index it is closed again.
out_close ==
    /\ kernel' = [kernel EXCEPT ![opening] = "closed"]
    /\ opening' = NoFd
    /\ ret' = "error"
    /\ UNCHANGED <<init, session, vsockets, members, pend, epolls, epitems, held,
                   added, lost>>

\* The descriptor gets the session s.
vcom_socket_socket(s) ==
    /\ kernel[opening] \in {"stream", "dgram"} /\ session[s] = "free"
    /\ vsockets' = [vsockets EXCEPT ![opening] = s]
    /\ session' = [session EXCEPT ![s] = "idle"]
    /\ held' = held \cup {opening}
    /\ opening' = NoFd
    /\ ret' = "ok"
    /\ UNCHANGED <<init, kernel, members, pend, epolls, epitems, added, lost>>

\* What vpp does not implement is the kernel's alone, as are open() and pipe().
libc_socket(f) ==
    /\ kernel[f] = "closed"
    /\ kernel' = [kernel EXCEPT ![f] = "file"]
    /\ held' = held \cup {f}
    /\ ret' = "ok"
    /\ UNCHANGED <<init, opening, session, vsockets, members, pend, epolls, epitems,
                   added, lost>>

socket ==
    \/ \E f \in Fds, kind \in {"stream", "dgram"} : open_descriptor(f, kind)
    \/ \E f \in Fds : libc_socket(f)
    \/ Refused

SetSession(f, from, to) ==
    /\ session[vsockets[f]] \in from
    /\ session' = [session EXCEPT ![vsockets[f]] = to]
    /\ UNCHANGED <<init, opening, kernel, vsockets, members, pend, epolls, epitems,
                   held, added, lost>>

\* The session is bound before the kernel's descriptor is; when the latter
\* fails the call does, and the session stays bound.
vcom_socket_bind(f) == SetSession(f, {"idle"}, "bound") /\ ret' \in {"ok", "error"}
vcom_socket_listen(f) == SetSession(f, {"idle", "bound"}, "listen") /\ ret' = "ok"
vcom_socket_connect(f) == SetSession(f, {"idle", "bound"}, "conn") /\ ret' = "ok"

bind(f) == is_vcom_fd(f) /\ (vcom_socket_bind(f) \/ Refused)
listen(f) == is_vcom_fd(f) /\ (vcom_socket_listen(f) \/ Refused)
connect(f) == is_vcom_fd(f) /\ (vcom_socket_connect(f) \/ Refused)

\* A peer connects to a listening session.
PeerConnects(s) ==
    /\ session[s] = "listen" /\ pend[s] < MaxPend
    /\ pend' = [pend EXCEPT ![s] = @ + 1]
    /\ UNCHANGED <<init, opening, sockets, members, epolls, epitems, held, added, lost, ret>>

vcom_socket_is_connection_mode_socket(f) == is_vcom_fd(f) /\ kernel[f] = "stream"

\* A new descriptor g, of the type of f, for the session s accepted from f.
vcom_socket_connected_socket(f, s, g) ==
    /\ kernel[g] = "closed"
    /\ kernel' = [kernel EXCEPT ![g] = kernel[f]]
    /\ vsockets' = [vsockets EXCEPT ![g] = s]

\* The session is accepted before its descriptor is opened: when that fails
\* nothing closes it, and when the address cannot be returned the descriptor
\* is entered but not returned.
vcom_socket_accept_flags(f, s) ==
    LET l == vsockets[f] IN
    /\ session[l] = "listen" /\ pend[l] > 0 /\ session[s] = "free"
    /\ session' = [session EXCEPT ![s] = "conn"]
    /\ pend' = [pend EXCEPT ![l] = @ - 1]
    /\ \/ \E g \in Fds : /\ vcom_socket_connected_socket(f, s, g)
                         /\ \/ ret' = "ok" /\ held' = held \cup {g} /\ UNCHANGED lost
                            \/ ret' = "error" /\ lost' = lost \cup {s} /\ UNCHANGED held
       \/ ret' = "error" /\ lost' = lost \cup {s} /\ UNCHANGED <<kernel, vsockets, held>>
    /\ UNCHANGED <<init, opening, members, epolls, epitems, added>>

\* Without a connection the call fails or blocks, and then does nothing.
accept(f) ==
    /\ is_vcom_fd(f)
    /\ \/ ~vcom_socket_is_connection_mode_socket(f) /\ Refused
       \/ /\ vcom_socket_is_connection_mode_socket(f)
          /\ \/ \E s \in Sids : vcom_socket_accept_flags(f, s)
             \/ pend[vsockets[f]] = 0 /\ Refused

-----------------------------------------------------------------------------
(***************************************************************************)
(* Epoll instances.                                                        *)
(***************************************************************************)
vcom_socket_epoll_create1(s) ==
    /\ kernel[opening] = "epoll" /\ session[s] = "free"
    /\ session' = [session EXCEPT ![s] = "vep"]
    /\ vep' = [vep EXCEPT ![opening] = s]
    /\ count' = [count EXCEPT ![opening] = 0]
    /\ held' = held \cup {opening}
    /\ opening' = NoFd
    /\ ret' = "ok"
    /\ UNCHANGED <<init, kernel, vsockets, members, pend, closing, epitems, added, lost>>

epoll_create1 ==
    \/ \E e \in Fds : open_descriptor(e, "epoll")
    \/ Refused

\* vppcom_epoll_ctl, which comes first and knows what is registered.
VppcomCtl(op, v, s) ==
    \/ op = "ADD" /\ s \notin members[v] /\ members' = [members EXCEPT ![v] = @ \cup {s}]
    \/ op = "MOD" /\ s \in members[v] /\ UNCHANGED members
    \/ op = "DEL" /\ s \in members[v] /\ members' = [members EXCEPT ![v] = @ \ {s}]

AddItem(e, f) ==
    \/ /\ byPair[<<e, f>>] # NoIdx
       /\ ret' = "error"
       /\ UNCHANGED <<epitems, count, added>>
    \/ /\ byPair[<<e, f>>] = NoIdx
       /\ \E i \in {j \in Items : item[j] = NoItem} :
             /\ item' = [item EXCEPT ![i] = <<e, f>>]
             /\ byPair' = [byPair EXCEPT ![<<e, f>>] = i]
             /\ byEpfd' = [byEpfd EXCEPT ![e] = @ \cup {i}]
             /\ byFd' = [byFd EXCEPT ![f] = @ \cup {i}]
       /\ count' = [count EXCEPT ![e] = @ + 1]
       /\ added' = added \cup {<<e, f>>}
       /\ ret' = "ok"

ModItem(e, f) ==
    /\ ret' = IF byPair[<<e, f>>] = NoIdx THEN "error" ELSE "ok"
    /\ UNCHANGED <<epitems, count, added>>

\* Mutant: the item stays in the list of its descriptor.
DelItemKeepByFd(e, f) ==
    LET i == byPair[<<e, f>>] IN
    /\ i # NoIdx
    /\ byPair' = [byPair EXCEPT ![<<e, f>>] = NoIdx]
    /\ byEpfd' = [byEpfd EXCEPT ![e] = @ \ {i}]
    /\ item' = [item EXCEPT ![i] = NoItem]
    /\ count' = [count EXCEPT ![e] = @ - 1]
    /\ added' = added \ {<<e, f>>}
    /\ ret' = "ok"
    /\ UNCHANGED byFd

DelItem(e, f) ==
    LET i == byPair[<<e, f>>] IN
    \/ i = NoIdx /\ ret' = "error" /\ UNCHANGED <<epitems, count, added>>
    \/ /\ i # NoIdx
       /\ byPair' = [byPair EXCEPT ![<<e, f>>] = NoIdx]
       /\ byEpfd' = [byEpfd EXCEPT ![e] = @ \ {i}]
       /\ byFd' = [byFd EXCEPT ![f] = @ \ {i}]
       /\ item' = [item EXCEPT ![i] = NoItem]
       /\ count' = [count EXCEPT ![e] = @ - 1]
       /\ added' = added \ {<<e, f>>}
       /\ ret' = "ok"

vcom_socket_ctl_vepitem(op, e, f) ==
    \/ op = "ADD" /\ AddItem(e, f)
    \/ op = "MOD" /\ ModItem(e, f)
    \/ op = "DEL" /\ DelItem(e, f)

\* Mutant: the items follow the request although vppcom refused it.
EpollCtlIgnoresVppcom(op, e, f) ==
    /\ VppcomCtl(op, vep[e], vsockets[f]) \/ UNCHANGED members
    /\ vcom_socket_ctl_vepitem(op, e, f)
    /\ UNCHANGED <<init, opening, sockets, pend, vep, closing, held, lost>>

vcom_socket_epoll_ctl_internal(op, e, f) ==
    \/ /\ VppcomCtl(op, vep[e], vsockets[f])
       /\ vcom_socket_ctl_vepitem(op, e, f)
       /\ UNCHANGED <<init, opening, sockets, pend, vep, closing, held, lost>>
    \/ Refused

\* Only sockets of the library can be registered, not descriptors of the
\* kernel and not other epoll instances.
epoll_ctl(op, e, f) ==
    \/ ~is_vcom_epfd(e) /\ Refused
    \/ is_vcom_epfd(e) /\ ~is_vcom_fd(f) /\ Refused
    \/ is_vcom_epfd(e) /\ is_vcom_fd(f) /\ vcom_socket_epoll_ctl_internal(op, e, f)

-----------------------------------------------------------------------------
(***************************************************************************)
(* Closing.                                                                *)
(***************************************************************************)
\* An epoll instance with members is only marked; it goes with the last.
vcom_socket_close_vepoll(e) ==
    \/ /\ count[e] # 0
       /\ ret' = IF e \in closing THEN "error" ELSE "ok"
       /\ closing' = closing \cup {e}
       /\ UNCHANGED <<kernel, session, members, pend, vep, count, added, lost>>
    \/ /\ count[e] = 0
       /\ SessionClose({vep[e]})
       /\ kernel' = [kernel EXCEPT ![e] = "closed"]
       /\ vep' = [vep EXCEPT ![e] = NoSid]
       /\ closing' = closing \ {e}
       /\ count' = [count EXCEPT ![e] = 0]
       /\ added' = {p \in added : p[1] # e}
       /\ ret' = "ok"

\* Marked epoll instances that have an item of f.  The items stay.
Marked(f) == {e \in closing : vep[e] # NoSid /\ \E i \in byFd[f] : item[i] = <<e, f>>}

\* Mutant: the count of a marked epoll instance is left alone.
CloseVsockNoCount(f) ==
    /\ SessionClose({vsockets[f]})
    /\ kernel' = [kernel EXCEPT ![f] = "closed"]
    /\ vsockets' = [vsockets EXCEPT ![f] = NoSid]
    /\ added' = {p \in added : p[2] # f}
    /\ ret' = "ok"
    /\ UNCHANGED epolls

\* Mutant: the epoll instance that goes with its last member keeps its entry.
CloseVsockKeepsEntry(f) ==
    LET last == {e \in Marked(f) : count[e] = 1} IN
    /\ SessionClose({vsockets[f]} \cup {vep[e] : e \in last})
    /\ kernel' = [g \in Fds |-> IF g \in last \cup {f} THEN "closed" ELSE kernel[g]]
    /\ vsockets' = [vsockets EXCEPT ![f] = NoSid]
    /\ count' = [e \in Fds |-> IF e \in Marked(f) THEN count[e] - 1 ELSE count[e]]
    /\ closing' = closing \ last
    /\ added' = {p \in added : p[2] # f /\ p[1] \notin last}
    /\ ret' = "ok"
    /\ UNCHANGED vep

vcom_socket_close_vsock(f) ==
    LET last == {e \in Marked(f) : count[e] = 1} IN
    /\ SessionClose({vsockets[f]} \cup {vep[e] : e \in last})
    /\ kernel' = [g \in Fds |-> IF g \in last \cup {f} THEN "closed" ELSE kernel[g]]
    /\ vsockets' = [vsockets EXCEPT ![f] = NoSid]
    /\ vep' = [e \in Fds |-> IF e \in last THEN NoSid ELSE vep[e]]
    /\ count' = [e \in Fds |-> IF e \in Marked(f) THEN count[e] - 1 ELSE count[e]]
    /\ closing' = closing \ last
    /\ added' = {p \in added : p[2] # f /\ p[1] \notin last}
    /\ ret' = "ok"

vcom_socket_close(f) ==
    \/ is_vcom_fd(f) /\ vcom_socket_close_vsock(f) /\ UNCHANGED epitems
    \/ is_vcom_epfd(f) /\ vcom_socket_close_vepoll(f) /\ UNCHANGED <<vsockets, epitems>>

close(f) ==
    \/ /\ is_vcom_fd(f) \/ is_vcom_epfd(f)
       /\ vcom_socket_close(f)
       /\ held' = held \ {f}
       /\ UNCHANGED <<init, opening>>
    \/ /\ ~is_vcom_fd(f) /\ ~is_vcom_epfd(f)
       /\ kernel' = [kernel EXCEPT ![f] = "closed"]
       /\ held' = held \ {f}
       /\ ret' = "ok"
       /\ UNCHANGED <<init, opening, session, vsockets, members, pend, epolls, epitems,
                      added, lost>>

\* Items are removed, then sockets and epoll instances are closed.
vcom_socket_main_destroy ==
    /\ kernel' = [f \in Fds |-> IF is_vcom_fd(f) \/ is_vcom_epfd(f)
                                  THEN "closed" ELSE kernel[f]]
    /\ vsockets' = [f \in Fds |-> NoSid]
    /\ vep' = [f \in Fds |-> NoSid]
    /\ count' = [f \in Fds |-> 0]
    /\ closing' = {}
    /\ item' = [i \in Items |-> NoItem]
    /\ byPair' = [p \in Pairs |-> NoIdx]
    /\ byEpfd' = [f \in Fds |-> {}]
    /\ byFd' = [f \in Fds |-> {}]

\* vppcom_app_destroy ends what sessions are left.
vcom_destroy ==
    /\ vcom_socket_main_destroy
    /\ SessionClose(Sids)
    /\ init' = FALSE
    /\ held' = {f \in held : kernel[f] = "file"}
    /\ added' = {}
    /\ UNCHANGED <<opening, ret>>

\* The constructor, or the first call after the library was destroyed.
vcom_init ==
    /\ init' = TRUE
    /\ UNCHANGED <<opening, sockets, members, pend, epolls, epitems, held, added, lost, ret>>

-----------------------------------------------------------------------------
(***************************************************************************)
(* The application calls with descriptors it holds.                        *)
(***************************************************************************)
MayClose(f) ==
    /\ careful => \A e \in held : <<e, f>> \notin added
    /\ \A e \in Marked(f) : count[e] > -MaxStray
MayCtl(op, e, f) == careful /\ op = "DEL" => <<e, f>> \in added

Call ==
    \/ socket
    \/ epoll_create1
    \/ vcom_destroy
    \/ \E f \in held : \/ bind(f)
                       \/ listen(f)
                       \/ connect(f)
                       \/ accept(f)
                       \/ MayClose(f) /\ close(f)
    \/ \E e, f \in held, op \in {"ADD", "MOD", "DEL"} : MayCtl(op, e, f) /\ epoll_ctl(op, e, f)

\* socket() and epoll_create() go on.
Opened ==
    \/ \E s \in Sids : vcom_socket_socket(s) \/ vcom_socket_epoll_create1(s)
    \/ out_close

Next ==
    /\ UNCHANGED careful
    /\ \/ ~init /\ vcom_init
       \/ init /\ opening = NoFd /\ Call
       \/ init /\ opening # NoFd /\ Opened
       \/ init /\ \E s \in Sids : PeerConnects(s)

Spec == Init /\ [][Next]_vars

-----------------------------------------------------------------------------
TypeOK ==
    /\ careful \in BOOLEAN /\ init \in BOOLEAN
    /\ opening \in Fds \cup {NoFd} /\ lost \subseteq Sids
    /\ kernel \in [Fds -> Kinds]
    /\ session \in [Sids -> States]
    /\ members \in [Sids -> SUBSET Sids]
    /\ pend \in [Sids -> Nat]
    /\ vsockets \in [Fds -> Sids \cup {NoSid}]
    /\ vep \in [Fds -> Sids \cup {NoSid}]
    /\ count \in [Fds -> Int]
    /\ closing \subseteq Fds
    /\ item \in [Items -> Pairs \cup {NoItem}]
    /\ byPair \in [Pairs -> Items \cup {NoIdx}]
    /\ byEpfd \in [Fds -> SUBSET Items]
    /\ byFd \in [Fds -> SUBSET Items]
    /\ held \subseteq Fds
    /\ added \subseteq Pairs

\* The session or epoll index a descriptor stands for.
Stands(f) == IF is_vcom_fd(f) THEN vsockets[f] ELSE vep[f]
Ours(f) == is_vcom_fd(f) \/ is_vcom_epfd(f)

(***************************************************************************)
(* A descriptor of the library is a socket or an epoll instance, is open   *)
(* in the kernel as such, and no two stand for one session: no sequence of *)
(* socket, accept, epoll_create and close, of the application or forced by *)
(* the last member, lets a number be reused while a table still holds it.  *)
(***************************************************************************)
DescriptorOwnsSession ==
    /\ \A f \in Fds : is_vcom_fd(f) => /\ kernel[f] \in {"stream", "dgram"}
                                       /\ session[vsockets[f]] \in {"idle", "bound", "listen", "conn"}
    /\ \A f \in Fds : is_vcom_epfd(f) => kernel[f] = "epoll" /\ session[vep[f]] = "vep"
    /\ \A f, g \in Fds : Ours(f) /\ Ours(g) /\ Stands(f) = Stands(g) => f = g

(***************************************************************************)
(* The pool of epoll items and its three indices agree: every item is      *)
(* found by its pair, its epoll instance and its descriptor, and nothing   *)
(* else is, also for the items that outlive both descriptors.              *)
(***************************************************************************)
IndicesAgree ==
    /\ \A p \in Pairs : \A i \in Items : byPair[p] = i <=> item[i] = p
    /\ \A i \in Items, f \in Fds :
          /\ i \in byEpfd[f] <=> item[i] # NoItem /\ item[i][1] = f
          /\ i \in byFd[f] <=> item[i] # NoItem /\ item[i][2] = f

(***************************************************************************)
(* What vppcom has registered with an epoll index is a socket of the       *)
(* library, and there is an item for it: an event never names a descriptor *)
(* that was closed.                                                        *)
(***************************************************************************)
RegisteredHasItem ==
    \A e \in Fds : is_vcom_epfd(e) =>
        \A s \in members[vep[e]] :
            \E f \in Fds : vsockets[f] = s /\ byPair[<<e, f>>] # NoIdx

(***************************************************************************)
(* "close all epoll instances that are marked as "close" of which this fd  *)
(* is the "last" remaining member": an instance that outlives its close()  *)
(* counts at least one member, and no more than the application added and  *)
(* did not remove, so that it goes with them.  For an application that     *)
(* heeds the note above that line.                                         *)
(***************************************************************************)
MarkedHasMember ==
    careful => \A e \in closing :
        /\ is_vcom_epfd(e)
        /\ count[e] \in 1 .. Cardinality({f \in Fds : <<e, f>> \in added})

(***************************************************************************)
(* What a call leaves behind when it fails half-way, and what a close      *)
(* forgets: every descriptor reserved in the kernel is in a table, every   *)
(* session and epoll index of vppcom stands behind a descriptor, and every *)
(* descriptor of the library is one the application holds, or an epoll     *)
(* instance that waits for its last member.  The exceptions are the        *)
(* connections whose accept failed after vppcom had accepted them, and     *)
(* these only: no other failure of any call, no close in any order and no  *)
(* end of the library adds to them.                                        *)
(***************************************************************************)
NothingLeftBehind ==
    /\ \A f \in Fds : kernel[f] \in {"stream", "dgram", "epoll"} => Ours(f) \/ f = opening
    /\ \A s \in Sids : session[s] # "free" =>
          s \in lost \/ \E f \in Fds : Ours(f) /\ Stands(f) = s
    /\ \A f \in Fds : Ours(f) => f \in held \/ f \in closing \/ vsockets[f] \in lost
    /\ \A s \in lost : session[s] = "conn" /\ \A f \in held : vsockets[f] # s
=============================================================================
