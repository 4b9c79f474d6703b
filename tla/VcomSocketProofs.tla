-------------------------- MODULE VcomSocketProofs --------------------------
(***************************************************************************)
(* Proofs about the descriptors, sessions and epoll items of vcl-ldpreload *)
(* for any number of them, whatever the application does.                  *)
(***************************************************************************)
EXTENDS VcomSocket, FiniteSetTheorems, TLAPS

\* epoll_ctl once vppcom has done its part.
Ctl(op, e, f) ==
    /\ is_vcom_epfd(e) /\ is_vcom_fd(f)
    /\ VppcomCtl(op, vep[e], vsockets[f])
    /\ vcom_socket_ctl_vepitem(op, e, f)
    /\ UNCHANGED <<init, opening, sockets, pend, vep, closing, held, lost>>

\* close of a descriptor of the kernel alone.
CloseOther(f) ==
    /\ ~is_vcom_fd(f) /\ ~is_vcom_epfd(f)
    /\ kernel' = [kernel EXCEPT ![f] = "closed"]
    /\ held' = held \ {f}
    /\ ret' = "ok"
    /\ UNCHANGED <<init, opening, session, vsockets, members, pend, epolls, epitems,
                   added, lost>>

CloseVsock(f) ==
    /\ is_vcom_fd(f) /\ vcom_socket_close_vsock(f)
    /\ held' = held \ {f} /\ UNCHANGED <<init, opening, epitems>>

CloseVepoll(e) ==
    /\ is_vcom_epfd(e) /\ vcom_socket_close_vepoll(e)
    /\ held' = held \ {e} /\ UNCHANGED <<init, opening, vsockets, epitems>>

\* A call that is refused, or no step at all.
Quiet == UNCHANGED <<init, opening, sockets, members, pend, epolls, epitems, held, added, lost>>

\* A step is one of these.
Flat ==
    \/ vcom_init \/ vcom_destroy \/ Quiet
    \/ \E s \in Sids : PeerConnects(s)
    \/ \E f \in Fds : libc_socket(f)
    \/ \E f \in Fds, kind \in {"stream", "dgram", "epoll"} : opening = NoFd /\ open_descriptor(f, kind)
    \/ opening # NoFd /\ out_close
    \/ \E s \in Sids : opening # NoFd /\ vcom_socket_socket(s)
    \/ \E f \in held, from \in SUBSET {"idle", "bound"}, to \in {"bound", "listen", "conn"} :
          is_vcom_fd(f) /\ SetSession(f, from, to)
    \/ \E f \in Fds, s \in Sids : /\ vcom_socket_is_connection_mode_socket(f)
                                  /\ vcom_socket_accept_flags(f, s)
    \/ \E s \in Sids : opening # NoFd /\ vcom_socket_epoll_create1(s)
    \/ \E e, f \in held, op \in {"ADD", "MOD", "DEL"} : MayCtl(op, e, f) /\ Ctl(op, e, f)
    \/ \E f \in held : MayClose(f) /\ (CloseVsock(f) \/ CloseVepoll(f))
    \/ \E f \in held : opening = NoFd /\ CloseOther(f)

LEMMA Flattened == TypeOK /\ [Next]_vars => Flat /\ UNCHANGED careful
<1> SUFFICES ASSUME TypeOK, [Next]_vars PROVE Flat /\ UNCHANGED careful
  OBVIOUS
<1>1. held \subseteq Fds
  BY DEF TypeOK
<1>2. UNCHANGED careful
  BY DEF Next, vars
<1>3. ASSUME Refused PROVE Flat
  BY <1>3 DEF Refused, Flat, Quiet
<1>4. ASSUME opening = NoFd, socket \/ epoll_create1 PROVE Flat
  BY <1>3, <1>4 DEF socket, epoll_create1, Flat
<1>5. ASSUME opening # NoFd, Opened PROVE Flat
  BY <1>5 DEF Opened, Flat
<1>6. ASSUME NEW f \in held, bind(f) \/ listen(f) \/ connect(f) PROVE Flat
  <2>1. \/ Refused
        \/ \E from \in SUBSET {"idle", "bound"}, to \in {"bound", "listen", "conn"} :
              is_vcom_fd(f) /\ SetSession(f, from, to)
    BY <1>6 DEF bind, listen, connect, vcom_socket_bind, vcom_socket_listen, vcom_socket_connect
  <2>2. QED BY <1>3, <2>1 DEF Flat
<1>7. ASSUME NEW f \in held, accept(f) PROVE Flat
  BY <1>1, <1>3, <1>7 DEF accept, Flat
<1>8. ASSUME NEW f \in held, opening = NoFd, MayClose(f), close(f) PROVE Flat
  <2>1. CloseVsock(f) \/ CloseVepoll(f) \/ CloseOther(f)
    BY <1>8 DEF close, vcom_socket_close, CloseVsock, CloseVepoll, CloseOther
  <2>2. QED BY <1>8, <2>1 DEF Flat
<1>9. ASSUME NEW e \in held, NEW f \in held, NEW op \in {"ADD", "MOD", "DEL"},
             MayCtl(op, e, f), epoll_ctl(op, e, f)
      PROVE  Flat
  <2>1. Ctl(op, e, f) \/ Refused
    BY <1>9 DEF epoll_ctl, vcom_socket_epoll_ctl_internal, Ctl
  <2>2. QED BY <1>3, <1>9, <2>1 DEF Flat
<1>10. CASE UNCHANGED vars
  BY <1>10 DEF vars, Flat, Quiet, sockets, epolls, epitems
<1>11. ASSUME vcom_init \/ vcom_destroy PROVE Flat
  BY <1>11 DEF Flat
<1>12. ASSUME NEW s \in Sids, PeerConnects(s) PROVE Flat
  BY <1>12 DEF Flat
<1>13. QED BY <1>2, <1>4, <1>5, <1>6, <1>7, <1>8, <1>9, <1>10, <1>11, <1>12
       DEF Next, Call

-----------------------------------------------------------------------------
LEMMA TypeInit == Init => TypeOK
  BY VcomConstants DEF Init, TypeOK, Kinds, States, Pairs

\* Closing sessions keeps their tables in type.
LEMMA SessionCloseType ==
  ASSUME TypeOK, NEW S \in SUBSET Sids, SessionClose(S)
  PROVE  /\ session' \in [Sids -> States]
         /\ members' \in [Sids -> SUBSET Sids]
         /\ pend' \in [Sids -> Nat]
         /\ lost' \subseteq Sids
  BY DEF TypeOK, SessionClose, States

LEMMA CtlType ==
  ASSUME TypeOK, NEW e \in Fds, NEW f \in Fds, NEW op \in {"ADD", "MOD", "DEL"},
         Ctl(op, e, f), UNCHANGED careful
  PROVE  TypeOK'
<1> DEFINE v == vep[e]
           s == vsockets[f]
<1>1. v \in Sids /\ s \in Sids
  BY DEF Ctl, is_vcom_fd, is_vcom_epfd, TypeOK
<1>2. members' \in [Sids -> SUBSET Sids]
  BY <1>1 DEF Ctl, VppcomCtl, TypeOK
<1>3. /\ item' \in [Items -> Pairs \cup {NoItem}]
      /\ byPair' \in [Pairs -> Items \cup {NoIdx}]
      /\ byEpfd' \in [Fds -> SUBSET Items]
      /\ byFd' \in [Fds -> SUBSET Items]
      /\ count' \in [Fds -> Int]
      /\ added' \subseteq Pairs
  <2>1. <<e, f>> \in Pairs
    BY DEF Pairs
  <2>2. CASE UNCHANGED <<epitems, count, added>>
    BY <2>2 DEF epitems, TypeOK
  <2>3. CASE AddItem(e, f) /\ byPair[<<e, f>>] = NoIdx
    <3>1. PICK i \in Items : /\ item' = [item EXCEPT ![i] = <<e, f>>]
                             /\ byPair' = [byPair EXCEPT ![<<e, f>>] = i]
                             /\ byEpfd' = [byEpfd EXCEPT ![e] = @ \cup {i}]
                             /\ byFd' = [byFd EXCEPT ![f] = @ \cup {i}]
      BY <2>3 DEF AddItem
    <3>2. count' = [count EXCEPT ![e] = @ + 1] /\ added' = added \cup {<<e, f>>}
      BY <2>3 DEF AddItem
    <3>3. item' \in [Items -> Pairs \cup {NoItem}] /\ byPair' \in [Pairs -> Items \cup {NoIdx}]
      BY <2>1, <3>1 DEF TypeOK
    <3>4. byEpfd' \in [Fds -> SUBSET Items] /\ byFd' \in [Fds -> SUBSET Items]
      BY <3>1 DEF TypeOK
    <3>5. count' \in [Fds -> Int] /\ added' \subseteq Pairs
      BY <2>1, <3>2 DEF TypeOK
    <3>6. QED BY <3>3, <3>4, <3>5
  <2>4. CASE DelItem(e, f) /\ byPair[<<e, f>>] # NoIdx
    <3>1. byPair[<<e, f>>] \in Items
      BY <2>1, <2>4 DEF TypeOK
    <3>2. item' \in [Items -> Pairs \cup {NoItem}] /\ byPair' \in [Pairs -> Items \cup {NoIdx}]
      BY <2>1, <2>4, <3>1 DEF DelItem, TypeOK
    <3>3. byEpfd' \in [Fds -> SUBSET Items] /\ byFd' \in [Fds -> SUBSET Items]
      BY <2>4 DEF DelItem, TypeOK
    <3>4. count' \in [Fds -> Int] /\ added' \subseteq Pairs
      BY <2>4 DEF DelItem, TypeOK
    <3>5. QED BY <3>2, <3>3, <3>4
  <2>5. QED BY <2>2, <2>3, <2>4
            DEF Ctl, vcom_socket_ctl_vepitem, AddItem, ModItem, DelItem
<1>4. UNCHANGED <<init, opening, kernel, session, vsockets, pend, vep, closing, held, lost>>
  BY DEF Ctl, sockets
<1>5. QED BY <1>2, <1>3, <1>4 DEF TypeOK

LEMMA CloseVsockType ==
  ASSUME TypeOK, NEW f \in Fds, CloseVsock(f), UNCHANGED careful
  PROVE  TypeOK'
<1> DEFINE last == {e \in Marked(f) : count[e] = 1}
           S == {vsockets[f]} \cup {vep[e] : e \in last}
<1>1. Marked(f) \subseteq Fds /\ \A e \in Marked(f) : vep[e] # NoSid
  BY DEF Marked, TypeOK
<1>2. S \subseteq Sids
  BY <1>1 DEF CloseVsock, is_vcom_fd, TypeOK
<1>3. SessionClose(S)
  BY DEF CloseVsock, vcom_socket_close_vsock
<1> HIDE DEF S
<1>4. /\ session' \in [Sids -> States]
      /\ members' \in [Sids -> SUBSET Sids]
      /\ pend' \in [Sids -> Nat]
      /\ lost' \subseteq Sids
  BY <1>2, <1>3, SessionCloseType
<1>5. /\ kernel' \in [Fds -> Kinds] /\ vep' \in [Fds -> Sids \cup {NoSid}]
      /\ vsockets' \in [Fds -> Sids \cup {NoSid}] /\ count' \in [Fds -> Int]
  BY DEF CloseVsock, vcom_socket_close_vsock, TypeOK, Kinds
<1>6. closing' \subseteq Fds /\ held' \subseteq Fds /\ added' \subseteq Pairs
  BY DEF CloseVsock, vcom_socket_close_vsock, TypeOK
<1>7. QED BY <1>4, <1>5, <1>6 DEF CloseVsock, epitems, TypeOK

LEMMA CloseVepollType ==
  ASSUME TypeOK, NEW e \in Fds, CloseVepoll(e), UNCHANGED careful
  PROVE  TypeOK'
<1>1. vep[e] \in Sids
  BY DEF CloseVepoll, is_vcom_epfd, TypeOK
<1>2. CASE count[e] # 0
  BY <1>2 DEF CloseVepoll, vcom_socket_close_vepoll, epitems, TypeOK
<1>3. CASE count[e] = 0
  <2>1. SessionClose({vep[e]})
    BY <1>3 DEF CloseVepoll, vcom_socket_close_vepoll
  <2>2. /\ session' \in [Sids -> States]
        /\ members' \in [Sids -> SUBSET Sids]
        /\ pend' \in [Sids -> Nat]
        /\ lost' \subseteq Sids
    BY <1>1, <2>1, SessionCloseType
  <2>3. /\ kernel' \in [Fds -> Kinds] /\ vep' \in [Fds -> Sids \cup {NoSid}]
        /\ count' \in [Fds -> Int]
    BY <1>3 DEF CloseVepoll, vcom_socket_close_vepoll, TypeOK, Kinds
  <2>4. closing' \subseteq Fds /\ held' \subseteq Fds /\ added' \subseteq Pairs
    BY <1>3 DEF CloseVepoll, vcom_socket_close_vepoll, TypeOK
  <2>5. QED BY <2>2, <2>3, <2>4 DEF CloseVepoll, epitems, TypeOK
<1>4. QED BY <1>2, <1>3

LEMMA TypeStep == TypeOK /\ [Next]_vars => TypeOK'
<1> SUFFICES ASSUME TypeOK, [Next]_vars PROVE TypeOK'
  OBVIOUS
<1>0. Flat /\ UNCHANGED careful /\ held \subseteq Fds
  BY Flattened DEF TypeOK
<1>1. CASE vcom_init
  BY <1>0, <1>1 DEF vcom_init, sockets, epolls, epitems, TypeOK
<1>2. CASE vcom_destroy
  <2>1. SessionClose(Sids)
    BY <1>2 DEF vcom_destroy
  <2>2. /\ session' \in [Sids -> States]
        /\ members' \in [Sids -> SUBSET Sids]
        /\ pend' \in [Sids -> Nat]
        /\ lost' \subseteq Sids
    BY <2>1, SessionCloseType
  <2>3. /\ kernel' \in [Fds -> Kinds] /\ held' \subseteq Fds
    BY <1>2 DEF vcom_destroy, vcom_socket_main_destroy, TypeOK, Kinds
  <2>4. /\ vsockets' \in [Fds -> Sids \cup {NoSid}] /\ vep' \in [Fds -> Sids \cup {NoSid}]
        /\ count' \in [Fds -> Int] /\ closing' \subseteq Fds
        /\ added' \subseteq Pairs
    BY <1>2 DEF vcom_destroy, vcom_socket_main_destroy
  <2>5. /\ item' \in [Items -> Pairs \cup {NoItem}] /\ byPair' \in [Pairs -> Items \cup {NoIdx}]
        /\ byEpfd' \in [Fds -> SUBSET Items] /\ byFd' \in [Fds -> SUBSET Items]
    BY <1>2 DEF vcom_destroy, vcom_socket_main_destroy
  <2>6. init' \in BOOLEAN /\ opening' \in Fds \cup {NoFd}
    BY <1>2 DEF vcom_destroy, TypeOK
  <2>7. QED BY <1>0, <2>2, <2>3, <2>4, <2>5, <2>6 DEF TypeOK
<1>3. CASE Quiet
  BY <1>0, <1>3 DEF Quiet, sockets, epolls, epitems, TypeOK
<1>4. ASSUME NEW s \in Sids, PeerConnects(s) PROVE TypeOK'
  BY <1>0, <1>4 DEF PeerConnects, sockets, epolls, epitems, TypeOK
<1>5. ASSUME NEW f \in Fds, libc_socket(f) PROVE TypeOK'
  BY <1>0, <1>5 DEF libc_socket, epolls, epitems, TypeOK, Kinds
<1>6. ASSUME NEW s \in Sids, opening # NoFd,
             vcom_socket_socket(s) \/ vcom_socket_epoll_create1(s)
      PROVE  TypeOK'
  <2>1. opening \in Fds
    BY <1>6 DEF TypeOK
  <2>2. CASE vcom_socket_socket(s)
    BY <1>0, <2>1, <2>2 DEF vcom_socket_socket, epolls, epitems, TypeOK, States
  <2>3. CASE vcom_socket_epoll_create1(s)
    BY <1>0, <2>1, <2>3 DEF vcom_socket_epoll_create1, epitems, TypeOK, States
  <2>4. QED BY <1>6, <2>2, <2>3
<1>7. ASSUME NEW f \in held, NEW from \in SUBSET {"idle", "bound"}, NEW to \in {"bound", "listen", "conn"},
             is_vcom_fd(f) /\ SetSession(f, from, to)
      PROVE  TypeOK'
  BY <1>0, <1>7 DEF SetSession, epolls, epitems, TypeOK, States
<1>8. ASSUME NEW f \in Fds, NEW s \in Sids, vcom_socket_is_connection_mode_socket(f),
             vcom_socket_accept_flags(f, s)
      PROVE  TypeOK'
  <2>1. vsockets[f] \in Sids
    BY <1>8 DEF vcom_socket_is_connection_mode_socket, is_vcom_fd, TypeOK
  <2>2. pend' \in [Sids -> Nat] /\ session' \in [Sids -> States]
    BY <1>8, <2>1 DEF vcom_socket_accept_flags, TypeOK, States
  <2>3. /\ kernel' \in [Fds -> Kinds] /\ vsockets' \in [Fds -> Sids \cup {NoSid}]
        /\ held' \subseteq Fds /\ lost' \subseteq Sids
    BY <1>8 DEF vcom_socket_accept_flags, vcom_socket_connected_socket, TypeOK
  <2>4. QED BY <1>0, <1>8, <2>2, <2>3
            DEF vcom_socket_accept_flags, epolls, epitems, TypeOK
<1>9. CASE (opening # NoFd /\ out_close)
             \/ \E f \in Fds, kind \in {"stream", "dgram", "epoll"} : open_descriptor(f, kind)
  BY <1>0, <1>9 DEF out_close, open_descriptor, epolls, epitems, TypeOK, Kinds
<1>10. ASSUME NEW e \in Fds, NEW f \in Fds, NEW op \in {"ADD", "MOD", "DEL"}, Ctl(op, e, f)
       PROVE  TypeOK'
  BY <1>0, <1>10, CtlType
<1>11. ASSUME NEW f \in held, CloseVsock(f) \/ CloseVepoll(f) PROVE TypeOK'
  <2>1. f \in Fds
    BY <1>0
  <2>2. QED BY <1>0, <1>11, <2>1, CloseVsockType, CloseVepollType
<1>12. ASSUME NEW f \in held, CloseOther(f) PROVE TypeOK'
  BY <1>0, <1>12 DEF CloseOther, epolls, epitems, TypeOK, Kinds
<1>13. QED BY <1>0, <1>1, <1>2, <1>3, <1>4, <1>5, <1>6, <1>7, <1>8, <1>9, <1>10, <1>11,
              <1>12 DEF Flat

\* Every variable keeps its type.
THEOREM TypeCorrect == Spec => []TypeOK
<1>1. QED BY TypeInit, TypeStep, PTL DEF Spec

-----------------------------------------------------------------------------
(***************************************************************************)
(* Descriptors and sessions.  No two descriptors stand for one session     *)
(* when no two sockets do and no two epoll instances do, because sessions  *)
(* and epoll indices differ in their state.                                *)
(***************************************************************************)
Owns ==
    /\ \A f \in Fds : is_vcom_fd(f) => /\ kernel[f] \in {"stream", "dgram"}
                                       /\ session[vsockets[f]] \in {"idle", "bound", "listen", "conn"}
    /\ \A f \in Fds : is_vcom_epfd(f) => kernel[f] = "epoll" /\ session[vep[f]] = "vep"
    /\ \A f, g \in Fds : is_vcom_fd(f) /\ vsockets[f] = vsockets[g] => f = g
    /\ \A f, g \in Fds : is_vcom_epfd(f) /\ vep[f] = vep[g] => f = g
    /\ \A f \in Fds : kernel[f] \in {"stream", "dgram", "epoll"} => Ours(f) \/ f = opening
    /\ opening # NoFd => kernel[opening] \in {"stream", "dgram", "epoll"} /\ ~Ours(opening)

LEMMA OwnsAll == Owns => DescriptorOwnsSession
<1> SUFFICES ASSUME Owns PROVE DescriptorOwnsSession
  OBVIOUS
<1>1. ASSUME NEW f \in Fds, NEW g \in Fds, Ours(f), Ours(g), Stands(f) = Stands(g)
      PROVE  f = g
  <2>1. CASE is_vcom_fd(f) /\ is_vcom_fd(g)
    BY <1>1, <2>1 DEF Owns, Stands
  <2>2. CASE ~is_vcom_fd(f) /\ ~is_vcom_fd(g)
    BY <1>1, <2>2 DEF Owns, Stands, Ours
  <2>3. CASE is_vcom_fd(f) /\ ~is_vcom_fd(g)
    BY <1>1, <2>3 DEF Owns, Stands, Ours
  <2>4. CASE ~is_vcom_fd(f) /\ is_vcom_fd(g)
    BY <1>1, <2>4 DEF Owns, Stands, Ours
  <2>5. QED BY <2>1, <2>2, <2>3, <2>4
<1>2. QED BY <1>1 DEF Owns, DescriptorOwnsSession

LEMMA OwnsStep == TypeOK /\ Owns /\ [Next]_vars => Owns'
<1> SUFFICES ASSUME TypeOK, Owns, Flat PROVE Owns'
  BY Flattened
<1>0. held \subseteq Fds
  BY DEF TypeOK
<1>1. CASE vcom_init \/ Quiet
  BY <1>1 DEF vcom_init, Quiet, sockets, epolls, Owns, is_vcom_fd, is_vcom_epfd, Ours
<1>2. CASE vcom_destroy
  <2>1. \A f \in Fds : vsockets'[f] = NoSid /\ vep'[f] = NoSid
    BY <1>2 DEF vcom_destroy, vcom_socket_main_destroy
  <2>2. \A f \in Fds : kernel'[f] \in {"stream", "dgram", "epoll"} => f = opening'
    BY <1>2 DEF vcom_destroy, vcom_socket_main_destroy, Owns, Ours
  <2>3. opening # NoFd => kernel'[opening] \in {"stream", "dgram", "epoll"}
    BY <1>2 DEF vcom_destroy, vcom_socket_main_destroy, Owns, Ours, TypeOK
  <2>4. opening' = opening /\ opening \in Fds \cup {NoFd}
    BY <1>2 DEF vcom_destroy, TypeOK
  <2>5. QED BY <2>1, <2>2, <2>3, <2>4 DEF Owns, Ours, is_vcom_fd, is_vcom_epfd
<1>3. ASSUME NEW s \in Sids, PeerConnects(s) PROVE Owns'
  BY <1>3 DEF PeerConnects, sockets, epolls, Owns, is_vcom_fd, is_vcom_epfd, Ours
<1>4. ASSUME NEW f \in Fds, libc_socket(f) PROVE Owns'
  BY <1>4 DEF libc_socket, epolls, TypeOK, Owns, is_vcom_fd, is_vcom_epfd, Ours
<1>5. ASSUME NEW s \in Sids, opening # NoFd, vcom_socket_socket(s)
      PROVE  Owns'
  <2>1. /\ session[s] = "free" /\ UNCHANGED <<kernel, vep>> /\ opening' = NoFd
        /\ vsockets' = [vsockets EXCEPT ![opening] = s]
        /\ session' = [session EXCEPT ![s] = "idle"]
        /\ kernel[opening] \in {"stream", "dgram"}
    BY <1>5 DEF vcom_socket_socket, epolls
  <2>2. s # NoSid /\ opening \in Fds /\ ~is_vcom_fd(opening) /\ ~is_vcom_epfd(opening)
    BY <1>5, VcomConstants DEF Owns, TypeOK, Ours
  <2>3. \A g \in Fds : vsockets[g] # s /\ vep[g] # s
    BY <2>1, <2>2 DEF Owns, is_vcom_fd, is_vcom_epfd
  <2>4. \A g \in Fds : kernel'[g] \in {"stream", "dgram", "epoll"} => Ours(g)'
    BY <2>1, <2>2 DEF Owns, TypeOK, is_vcom_fd, is_vcom_epfd, Ours
  <2>5. QED BY <2>1, <2>2, <2>3, <2>4 DEF Owns, TypeOK, is_vcom_fd, is_vcom_epfd
<1>6. ASSUME NEW f \in held, NEW from \in SUBSET {"idle", "bound"}, NEW to \in {"bound", "listen", "conn"},
             is_vcom_fd(f) /\ SetSession(f, from, to)
      PROVE  Owns'
  <2>1. /\ session[vsockets[f]] \in {"idle", "bound"} /\ UNCHANGED <<opening, kernel, vsockets, vep>>
        /\ session' = [session EXCEPT ![vsockets[f]] = to]
    BY <1>6 DEF SetSession, epolls
  <2>2. \A s \in Sids : session'[s] = session[s] \/ (session[s] \in {"idle", "bound"} /\ session'[s] = to)
    BY <2>1 DEF TypeOK
  <2>3. QED BY <2>1, <2>2 DEF Owns, TypeOK, is_vcom_fd, is_vcom_epfd, Ours
<1>7. ASSUME NEW f \in Fds, NEW s \in Sids, vcom_socket_is_connection_mode_socket(f),
             vcom_socket_accept_flags(f, s)
      PROVE  Owns'
  <2>1. session[s] = "free" /\ session' = [session EXCEPT ![s] = "conn"] /\ UNCHANGED <<opening, vep>>
    BY <1>7 DEF vcom_socket_accept_flags, epolls
  <2>2. s # NoSid
    BY VcomConstants
  <2>3. \A g \in Fds : vsockets[g] # s /\ vep[g] # s
    BY <2>1, <2>2 DEF Owns, is_vcom_fd, is_vcom_epfd
  <2>4. CASE UNCHANGED <<kernel, vsockets>>
    BY <2>1, <2>3, <2>4 DEF Owns, TypeOK, is_vcom_fd, is_vcom_epfd, Ours
  <2>5. ASSUME NEW g \in Fds, vcom_socket_connected_socket(f, s, g) PROVE Owns'
    <3>1. /\ kernel[g] = "closed" /\ kernel[f] = "stream"
          /\ kernel' = [kernel EXCEPT ![g] = "stream"]
          /\ vsockets' = [vsockets EXCEPT ![g] = s]
      BY <1>7, <2>5 DEF vcom_socket_connected_socket,
                        vcom_socket_is_connection_mode_socket
    <3>2. ~is_vcom_fd(g) /\ ~is_vcom_epfd(g) /\ g # opening
      BY <3>1, VcomConstants DEF Owns
    <3>3. QED BY <2>1, <2>2, <2>3, <3>1, <3>2
              DEF Owns, TypeOK, is_vcom_fd, is_vcom_epfd, Ours
  <2>6. QED BY <1>7, <2>4, <2>5 DEF vcom_socket_accept_flags
<1>8. ASSUME NEW s \in Sids, opening # NoFd, vcom_socket_epoll_create1(s) PROVE Owns'
  <2>1. /\ session[s] = "free" /\ UNCHANGED <<kernel, vsockets>> /\ opening' = NoFd
        /\ kernel[opening] = "epoll"
        /\ vep' = [vep EXCEPT ![opening] = s]
        /\ session' = [session EXCEPT ![s] = "vep"]
    BY <1>8 DEF vcom_socket_epoll_create1
  <2>2. s # NoSid /\ opening \in Fds /\ ~is_vcom_fd(opening) /\ ~is_vcom_epfd(opening)
    BY <1>8, VcomConstants DEF Owns, TypeOK, Ours
  <2>3. \A g \in Fds : vsockets[g] # s /\ vep[g] # s
    BY <2>1, <2>2 DEF Owns, is_vcom_fd, is_vcom_epfd
  <2>4. \A g \in Fds : kernel'[g] \in {"stream", "dgram", "epoll"} => Ours(g)'
    BY <2>1, <2>2 DEF Owns, TypeOK, is_vcom_fd, is_vcom_epfd, Ours
  <2>5. QED BY <2>1, <2>2, <2>3, <2>4 DEF Owns, TypeOK, is_vcom_fd, is_vcom_epfd
<1>9. ASSUME NEW e \in Fds, NEW f \in Fds, NEW op \in {"ADD", "MOD", "DEL"}, Ctl(op, e, f)
      PROVE  Owns'
  BY <1>9 DEF Ctl, sockets, Owns, is_vcom_fd, is_vcom_epfd, Ours
<1>10. ASSUME NEW f \in held, CloseVsock(f) PROVE Owns'
  <2> DEFINE last == {e \in Marked(f) : count[e] = 1}
             S == {vsockets[f]} \cup {vep[e] : e \in last}
  <2>1. /\ f \in Fds /\ is_vcom_fd(f) /\ f \notin last /\ last \subseteq Fds
        /\ \A e \in last : is_vcom_epfd(e)
    BY <1>0, <1>10 DEF CloseVsock, Marked, Owns, TypeOK, is_vcom_epfd
  <2>2. /\ kernel' = [g \in Fds |-> IF g \in last \cup {f} THEN "closed" ELSE kernel[g]]
        /\ vsockets' = [vsockets EXCEPT ![f] = NoSid]
        /\ vep' = [e \in Fds |-> IF e \in last THEN NoSid ELSE vep[e]]
        /\ session' = [s \in Sids |-> IF s \in S THEN "free" ELSE session[s]]
    BY <1>10 DEF CloseVsock, vcom_socket_close_vsock, SessionClose
  <2>3. ASSUME NEW g \in Fds \ {f}, is_vcom_fd(g)
        PROVE  g \notin last /\ vsockets[g] \in Sids \ S
    BY <2>1, <2>3 DEF Owns, TypeOK, is_vcom_fd
  <2>4. ASSUME NEW e \in Fds \ last, is_vcom_epfd(e)
        PROVE  e # f /\ vep[e] \in Sids \ S
    BY <2>1, <2>4 DEF Owns, TypeOK, is_vcom_epfd
  <2> HIDE DEF last, S
  <2>5. \A g \in Fds : is_vcom_fd(g)' => g # f /\ is_vcom_fd(g) /\ vsockets'[g] = vsockets[g]
    BY <2>1, <2>2 DEF is_vcom_fd, TypeOK
  <2>6. \A e \in Fds : is_vcom_epfd(e)' => e \notin last /\ is_vcom_epfd(e) /\ vep'[e] = vep[e]
    BY <2>2 DEF is_vcom_epfd
  <2>7. \A g \in Fds : is_vcom_fd(g)' => /\ kernel'[g] \in {"stream", "dgram"}
                                         /\ session'[vsockets'[g]] \in {"idle", "bound", "listen", "conn"}
    BY <2>2, <2>3, <2>5 DEF Owns
  <2>8. \A e \in Fds : is_vcom_epfd(e)' => kernel'[e] = "epoll" /\ session'[vep'[e]] = "vep"
    BY <2>2, <2>4, <2>6 DEF Owns
  <2>9. \A g, h \in Fds : is_vcom_fd(g)' /\ vsockets'[g] = vsockets'[h] => g = h
    BY <2>5 DEF Owns, is_vcom_fd
  <2>10. \A g, h \in Fds : is_vcom_epfd(g)' /\ vep'[g] = vep'[h] => g = h
    BY <2>6 DEF Owns, is_vcom_epfd
  <2>11. \A g \in Fds : kernel'[g] \in {"stream", "dgram", "epoll"} => Ours(g)' \/ g = opening'
    BY <1>10, <2>2 DEF Owns, Ours, is_vcom_fd, is_vcom_epfd, TypeOK, CloseVsock
  <2>12. opening' # NoFd => kernel'[opening'] \in {"stream", "dgram", "epoll"} /\ ~Ours(opening)'
    <3>1. opening' = opening /\ opening \in Fds \cup {NoFd}
      BY <1>10 DEF CloseVsock, TypeOK
    <3>2. opening # NoFd => opening \notin last \cup {f}
      BY <2>1 DEF Owns, Ours
    <3>3. QED BY <2>2, <2>5, <2>6, <3>1, <3>2 DEF Owns, Ours
  <2>13. QED BY <2>7, <2>8, <2>9, <2>10, <2>11, <2>12 DEF Owns
<1>11. ASSUME NEW e \in held, CloseVepoll(e) PROVE Owns'
  <2>1. CASE count[e] # 0
    BY <1>11, <2>1 DEF CloseVepoll, vcom_socket_close_vepoll, Owns, is_vcom_fd,
                       is_vcom_epfd, Ours
  <2>2. CASE count[e] = 0
    <3>1. /\ kernel' = [kernel EXCEPT ![e] = "closed"]
          /\ vep' = [vep EXCEPT ![e] = NoSid] /\ UNCHANGED <<opening, vsockets>>
          /\ session' = [s \in Sids |-> IF s \in {vep[e]} THEN "free" ELSE session[s]]
      BY <1>11, <2>2 DEF CloseVepoll, vcom_socket_close_vepoll, SessionClose
    <3>2. e \in Fds /\ is_vcom_epfd(e) /\ ~is_vcom_fd(e)
      BY <1>0, <1>11 DEF CloseVepoll, Owns
    <3>3. \A g \in Fds : is_vcom_fd(g) => vsockets[g] \in Sids /\ vsockets[g] # vep[e]
      BY <3>2 DEF Owns, TypeOK, is_vcom_fd
    <3>4. \A g \in Fds \ {e} : is_vcom_epfd(g) => vep[g] \in Sids /\ vep[g] # vep[e]
      BY <3>2 DEF Owns, TypeOK, is_vcom_epfd
    <3>5. QED BY <3>1, <3>2, <3>3, <3>4 DEF Owns, TypeOK, is_vcom_fd, is_vcom_epfd, Ours
  <2>3. QED BY <2>1, <2>2
<1>12. ASSUME NEW f \in held, opening = NoFd, CloseOther(f) PROVE Owns'
  BY <1>0, <1>12 DEF CloseOther, epolls, TypeOK, Owns, is_vcom_fd, is_vcom_epfd, Ours
<1>13. ASSUME NEW f \in Fds, NEW kind \in {"stream", "dgram", "epoll"},
              opening = NoFd, open_descriptor(f, kind)
       PROVE  Owns'
  BY <1>13, VcomConstants DEF open_descriptor, epolls, TypeOK, Owns, is_vcom_fd, is_vcom_epfd, Ours
<1>14. ASSUME opening # NoFd, out_close PROVE Owns'
  BY <1>14 DEF out_close, epolls, TypeOK, Owns, is_vcom_fd, is_vcom_epfd, Ours
<1>15. QED BY <1>0, <1>1, <1>2, <1>3, <1>4, <1>5, <1>6, <1>7, <1>8, <1>9, <1>10, <1>11, <1>12,
              <1>13, <1>14 DEF Flat

\* A descriptor owns its session, whatever was closed before it:
\* DescriptorOwnsSession.
THEOREM DescriptorsOwnSessions == Spec => []DescriptorOwnsSession
<1>1. Init => Owns
  BY DEF Init, Owns, is_vcom_fd, is_vcom_epfd
<1>2. Spec => []Owns
  BY <1>1, OwnsStep, TypeCorrect, PTL DEF Spec
<1>3. QED BY <1>2, OwnsAll, PTL

-----------------------------------------------------------------------------
(***************************************************************************)
(* Epoll items.                                                            *)
(***************************************************************************)
LEMMA CtlItems ==
  ASSUME TypeOK, IndicesAgree, NEW e \in Fds, NEW f \in Fds,
         AddItem(e, f) \/ ModItem(e, f) \/ DelItem(e, f)
  PROVE  IndicesAgree'
<1>1. <<e, f>> \in Pairs /\ \A i \in Items : item[i] # NoItem => item[i] \in Pairs
  BY DEF Pairs, TypeOK
<1>2. NoItem \notin Pairs
  BY VcomConstants DEF Pairs
<1>3. CASE UNCHANGED epitems
  BY <1>3 DEF epitems, IndicesAgree
<1>4. CASE AddItem(e, f) /\ byPair[<<e, f>>] = NoIdx
  <2>1. PICK i \in Items : /\ item[i] = NoItem
                           /\ item' = [item EXCEPT ![i] = <<e, f>>]
                           /\ byPair' = [byPair EXCEPT ![<<e, f>>] = i]
                           /\ byEpfd' = [byEpfd EXCEPT ![e] = @ \cup {i}]
                           /\ byFd' = [byFd EXCEPT ![f] = @ \cup {i}]
    BY <1>4 DEF AddItem
  <2>2. \A j \in Items : item[j] # <<e, f>>
    BY <1>1, <1>4, VcomConstants DEF IndicesAgree
  <2>3. ASSUME NEW p \in Pairs, NEW j \in Items PROVE byPair'[p] = j <=> item'[j] = p
    <3>1. byPair'[p] = IF p = <<e, f>> THEN i ELSE byPair[p]
      BY <2>1 DEF TypeOK
    <3>2. item'[j] = IF j = i THEN <<e, f>> ELSE item[j]
      BY <2>1 DEF TypeOK
    <3>3. byPair[p] = j <=> item[j] = p
      BY DEF IndicesAgree
    <3>4. byPair[p] # i \/ item[i] = p
      BY DEF IndicesAgree
    <3>5. QED BY <1>2, <2>1, <2>2, <3>1, <3>2, <3>3, <3>4
  <2>4. ASSUME NEW j \in Items, NEW g \in Fds
        PROVE  /\ j \in byEpfd'[g] <=> item'[j] # NoItem /\ item'[j][1] = g
               /\ j \in byFd'[g] <=> item'[j] # NoItem /\ item'[j][2] = g
    <3>1. /\ byEpfd'[g] = IF g = e THEN byEpfd[g] \cup {i} ELSE byEpfd[g]
          /\ byFd'[g] = IF g = f THEN byFd[g] \cup {i} ELSE byFd[g]
          /\ item'[j] = IF j = i THEN <<e, f>> ELSE item[j]
      BY <2>1 DEF TypeOK
    <3>2. <<e, f>> # NoItem /\ <<e, f>>[1] = e /\ <<e, f>>[2] = f
      BY <1>1, <1>2
    <3>3. i \notin byEpfd[g] /\ i \notin byFd[g]
      BY <2>1 DEF IndicesAgree
    <3>4. /\ j \in byEpfd[g] <=> item[j] # NoItem /\ item[j][1] = g
          /\ j \in byFd[g] <=> item[j] # NoItem /\ item[j][2] = g
      BY DEF IndicesAgree
    <3>5. CASE j = i
      BY <3>1, <3>2, <3>3, <3>5
    <3>6. CASE j # i
      BY <3>1, <3>4, <3>6
    <3>7. QED BY <3>5, <3>6
  <2>5. QED BY <2>3, <2>4 DEF IndicesAgree
<1>5. CASE DelItem(e, f) /\ byPair[<<e, f>>] # NoIdx
  <2> DEFINE i == byPair[<<e, f>>]
  <2>1. i \in Items /\ item[i] = <<e, f>>
    BY <1>1, <1>5 DEF IndicesAgree, TypeOK
  <2>2. /\ item' = [item EXCEPT ![i] = NoItem]
        /\ byPair' = [byPair EXCEPT ![<<e, f>>] = NoIdx]
        /\ byEpfd' = [byEpfd EXCEPT ![e] = @ \ {i}]
        /\ byFd' = [byFd EXCEPT ![f] = @ \ {i}]
    BY <1>5 DEF DelItem
  <2> HIDE DEF i
  <2>3. ASSUME NEW p \in Pairs, NEW j \in Items PROVE byPair'[p] = j <=> item'[j] = p
    <3>1. byPair'[p] = IF p = <<e, f>> THEN NoIdx ELSE byPair[p]
      BY <2>2 DEF TypeOK
    <3>2. item'[j] = IF j = i THEN NoItem ELSE item[j]
      BY <2>2 DEF TypeOK
    <3>3. byPair[p] = j <=> item[j] = p
      BY DEF IndicesAgree
    <3>4. byPair[<<e, f>>] = j <=> item[j] = <<e, f>>
      BY <1>1 DEF IndicesAgree
    <3>5. byPair[p] = i <=> p = <<e, f>>
      BY <2>1 DEF IndicesAgree
    <3>6. NoIdx # j /\ NoItem # p
      BY <1>2, VcomConstants
    <3>7. i = byPair[<<e, f>>]
      BY DEF i
    <3>8. QED BY <3>1, <3>2, <3>3, <3>4, <3>5, <3>6, <3>7
  <2>4. ASSUME NEW j \in Items, NEW g \in Fds
        PROVE  /\ j \in byEpfd'[g] <=> item'[j] # NoItem /\ item'[j][1] = g
               /\ j \in byFd'[g] <=> item'[j] # NoItem /\ item'[j][2] = g
    <3>1. /\ byEpfd'[g] = IF g = e THEN byEpfd[g] \ {i} ELSE byEpfd[g]
          /\ byFd'[g] = IF g = f THEN byFd[g] \ {i} ELSE byFd[g]
          /\ item'[j] = IF j = i THEN NoItem ELSE item[j]
      BY <2>2 DEF TypeOK
    <3>2. item[i][1] = e /\ item[i][2] = f
      BY <2>1
    <3>3. /\ j \in byEpfd[g] <=> item[j] # NoItem /\ item[j][1] = g
          /\ j \in byFd[g] <=> item[j] # NoItem /\ item[j][2] = g
      BY DEF IndicesAgree
    <3>4. CASE j = i
      BY <3>1, <3>2, <3>3, <3>4
    <3>5. CASE j # i
      BY <3>1, <3>3, <3>5
    <3>6. QED BY <3>4, <3>5
  <2>5. QED BY <2>3, <2>4 DEF IndicesAgree
<1>6. QED BY <1>3, <1>4, <1>5 DEF AddItem, ModItem, DelItem

LEMMA ItemsStep == TypeOK /\ IndicesAgree /\ [Next]_vars => IndicesAgree'
<1> SUFFICES ASSUME TypeOK, IndicesAgree, Flat PROVE IndicesAgree'
  BY Flattened
<1>0. held \subseteq Fds
  BY DEF TypeOK
<1>1. ASSUME NEW e \in Fds, NEW f \in Fds, NEW op \in {"ADD", "MOD", "DEL"}, Ctl(op, e, f)
      PROVE  IndicesAgree'
  BY <1>1, CtlItems DEF Ctl, vcom_socket_ctl_vepitem
<1>2. ASSUME vcom_destroy PROVE IndicesAgree'
  BY <1>2, VcomConstants
     DEF vcom_destroy, vcom_socket_main_destroy, IndicesAgree, Pairs
<1>3. ASSUME UNCHANGED epitems PROVE IndicesAgree'
  BY <1>3 DEF epitems, IndicesAgree
<1>4. QED BY <1>0, <1>1, <1>2, <1>3
          DEF Flat, vcom_init, Quiet, PeerConnects, libc_socket, open_descriptor,
              out_close, vcom_socket_socket,
              SetSession, vcom_socket_accept_flags, vcom_socket_epoll_create1,
              CloseVsock, CloseVepoll, CloseOther

\* The pool of epoll items and its indices agree: IndicesAgree.
THEOREM ItemsIndexed == Spec => []IndicesAgree
<1>1. Init => IndicesAgree
  BY VcomConstants DEF Init, IndicesAgree, Pairs
<1>2. QED BY <1>1, ItemsStep, TypeCorrect, PTL DEF Spec

-----------------------------------------------------------------------------
(***************************************************************************)
(* What vppcom has registered.  Only its epoll indices have members, so    *)
(* that a new one starts without any.                                      *)
(***************************************************************************)
OnlyVepsHaveMembers == \A s \in Sids : session[s] # "vep" => members[s] = {}

Registered == RegisteredHasItem /\ OnlyVepsHaveMembers

LEMMA MemberItem ==
  ASSUME Registered, NEW e \in Fds, is_vcom_epfd(e), NEW t \in members[vep[e]]
  PROVE  \E f \in Fds : vsockets[f] = t /\ byPair[<<e, f>>] # NoIdx
  BY DEF Registered, RegisteredHasItem

LEMMA CtlRegistered ==
  ASSUME TypeOK, Owns, Registered, NEW e \in Fds, NEW f \in Fds,
         NEW op \in {"ADD", "MOD", "DEL"}, Ctl(op, e, f)
  PROVE  Registered'
<1> DEFINE v == vep[e]
           s == vsockets[f]
<1>1. /\ v \in Sids /\ s \in Sids /\ session[v] = "vep" /\ <<e, f>> \in Pairs
      /\ UNCHANGED <<session, vsockets, vep>>
  BY DEF Ctl, is_vcom_fd, is_vcom_epfd, TypeOK, Owns, Pairs, sockets
<1>2. ASSUME NEW d \in Fds, is_vcom_epfd(d), d # e
      PROVE  /\ members'[vep[d]] = members[vep[d]]
             /\ \A g \in Fds : byPair'[<<d, g>>] = byPair[<<d, g>>]
  <2>1. vep[d] # v
    BY <1>2 DEF Owns
  <2>2. members'[vep[d]] = members[vep[d]]
    BY <1>1, <1>2, <2>1 DEF Ctl, VppcomCtl, TypeOK, is_vcom_epfd
  <2>3. \A g \in Fds : <<d, g>> \in Pairs /\ <<d, g>> # <<e, f>>
    BY <1>2 DEF Pairs
  <2>4. \/ UNCHANGED byPair
        \/ \E i : byPair' = [byPair EXCEPT ![<<e, f>>] = i]
    BY DEF Ctl, vcom_socket_ctl_vepitem, AddItem, ModItem, DelItem, epitems
  <2>5. \A g \in Fds : byPair'[<<d, g>>] = byPair[<<d, g>>]
    BY <2>3, <2>4 DEF TypeOK
  <2>6. QED BY <2>2, <2>5
<1>3. ASSUME NEW t \in members'[v]
      PROVE  \E g \in Fds : vsockets[g] = t /\ byPair'[<<e, g>>] # NoIdx
  <2>1. \A g \in Fds : <<e, g>> \in Pairs
    BY DEF Pairs
  <2>2. CASE op = "ADD" /\ t = s
    <3>1. byPair'[<<e, f>>] # NoIdx
      BY <1>1, <2>2, VcomConstants
         DEF Ctl, vcom_socket_ctl_vepitem, AddItem, epitems, TypeOK
    <3>2. QED BY <2>2, <3>1
  <2>3. CASE ~(op = "ADD" /\ t = s)
    <3>1. t \in members[v] /\ (op = "DEL" => t # s)
      BY <1>1, <1>3, <2>3 DEF Ctl, VppcomCtl, TypeOK
    <3>2. PICK g \in Fds : vsockets[g] = t /\ byPair[<<e, g>>] # NoIdx
      BY <3>1 DEF Registered, RegisteredHasItem, Ctl
    <3>3. CASE op = "DEL"
      <4>1. <<e, g>> # <<e, f>>
        BY <3>1, <3>2, <3>3
      <4>2. byPair'[<<e, g>>] = byPair[<<e, g>>]
        BY <2>1, <3>3, <4>1
           DEF Ctl, vcom_socket_ctl_vepitem, DelItem, epitems, TypeOK
      <4>3. QED BY <3>2, <4>2
    <3>4. CASE op = "MOD"
      BY <3>2, <3>4 DEF Ctl, vcom_socket_ctl_vepitem, ModItem, epitems
    <3>5. CASE op = "ADD"
      <4>1. \/ UNCHANGED byPair
            \/ \E i \in Items : byPair' = [byPair EXCEPT ![<<e, f>>] = i]
        BY <3>5 DEF Ctl, vcom_socket_ctl_vepitem, AddItem, epitems
      <4>2. byPair'[<<e, g>>] # NoIdx
        BY <2>1, <3>2, <4>1, VcomConstants DEF TypeOK
      <4>3. QED BY <3>2, <4>2
    <3>6. QED BY <3>3, <3>4, <3>5
  <2>4. QED BY <2>2, <2>3
<1>4. RegisteredHasItem'
  <2>1. SUFFICES ASSUME NEW d \in Fds, is_vcom_epfd(d), NEW t \in members'[vep[d]]
                 PROVE  \E g \in Fds : vsockets[g] = t /\ byPair'[<<d, g>>] # NoIdx
    BY <1>1 DEF RegisteredHasItem, is_vcom_epfd
  <2>2. CASE d = e
    BY <1>3, <2>1, <2>2
  <2>3. CASE d # e
    <3>1. t \in members[vep[d]]
      BY <1>2, <2>1, <2>3
    <3>2. PICK g \in Fds : vsockets[g] = t /\ byPair[<<d, g>>] # NoIdx
      BY <2>1, <3>1 DEF Registered, RegisteredHasItem
    <3>3. byPair'[<<d, g>>] # NoIdx
      BY <1>2, <2>1, <2>3, <3>2
    <3>4. QED BY <3>2, <3>3
  <2>4. QED BY <2>2, <2>3
<1>5. OnlyVepsHaveMembers'
  <2>1. \A t \in Sids : t # v => members'[t] = members[t]
    BY <1>1 DEF Ctl, VppcomCtl, TypeOK
  <2>2. QED BY <1>1, <2>1 DEF Registered, OnlyVepsHaveMembers
<1>6. QED BY <1>4, <1>5 DEF Registered

\* Where no session is closed and no epoll index is new, nothing is lost.
LEMMA KeepsRegistered ==
  ASSUME TypeOK, Registered,
         NEW S \in SUBSET Sids, UNCHANGED byPair,
         members' = [s \in Sids |-> IF s \in S THEN {} ELSE members[s] \ S],
         \A s \in Sids \ S : session'[s] # "vep" => session[s] # "vep",
         \A f \in Fds : is_vcom_fd(f) /\ vsockets[f] \notin S => vsockets'[f] = vsockets[f],
         \A e \in Fds : is_vcom_epfd(e)' => /\ vep'[e] = vep[e] \/ members[vep'[e]] = {}
                                           /\ vep'[e] \in Sids
  PROVE  Registered'
<1>1. ASSUME NEW e \in Fds, is_vcom_epfd(e)', NEW t \in members'[vep'[e]]
      PROVE  \E f \in Fds : vsockets'[f] = t /\ byPair'[<<e, f>>] # NoIdx
  <2>1. t \in members[vep'[e]] /\ t \notin S
    BY <1>1
  <2>2. vep'[e] = vep[e] /\ is_vcom_epfd(e)
    BY <1>1, <2>1, VcomConstants DEF is_vcom_epfd
  <2>3. t \in members[vep[e]]
    BY <2>1, <2>2
  <2>4. PICK f \in Fds : vsockets[f] = t /\ byPair[<<e, f>>] # NoIdx
    BY <2>2, <2>3, MemberItem
  <2>5. t \in Sids
    BY <1>1, <2>1 DEF TypeOK
  <2>6. is_vcom_fd(f)
    BY <2>4, <2>5, VcomConstants DEF is_vcom_fd
  <2>7. QED BY <2>1, <2>4, <2>6
<1>2. RegisteredHasItem'
  BY <1>1 DEF RegisteredHasItem
<1>3. OnlyVepsHaveMembers'
  BY DEF Registered, OnlyVepsHaveMembers
<1>4. QED BY <1>2, <1>3 DEF Registered

\* Nor where none is closed at all.
LEMMA KeepsOpen ==
  ASSUME TypeOK, Registered, UNCHANGED <<byPair, members>>,
         \A s \in Sids : session'[s] # "vep" => session[s] # "vep",
         \A f \in Fds : is_vcom_fd(f) => vsockets'[f] = vsockets[f],
         \A e \in Fds : is_vcom_epfd(e)' => /\ vep'[e] = vep[e] \/ members[vep'[e]] = {}
                                           /\ vep'[e] \in Sids
  PROVE  Registered'
<1> DEFINE S == {}
<1>1. members' = [s \in Sids |-> IF s \in S THEN {} ELSE members[s] \ S]
  BY DEF TypeOK
<1>2. S \subseteq Sids
  OBVIOUS
<1>3. \A s \in Sids \ S : session'[s] # "vep" => session[s] # "vep"
  OBVIOUS
<1>4. \A f \in Fds : is_vcom_fd(f) /\ vsockets[f] \notin S => vsockets'[f] = vsockets[f]
  OBVIOUS
<1> HIDE DEF S
<1>5. QED BY <1>1, <1>2, <1>3, <1>4, KeepsRegistered

LEMMA RegisteredStep == TypeOK /\ Owns /\ Registered /\ [Next]_vars => Registered'
<1> SUFFICES ASSUME TypeOK, Owns, Registered, Flat PROVE Registered'
  BY Flattened
<1>0. held \subseteq Fds /\ NoSid \notin Sids
  BY VcomConstants DEF TypeOK
<1>1. ASSUME UNCHANGED <<session, members, vsockets, vep, byPair>> PROVE Registered'
  BY <1>1 DEF Registered, RegisteredHasItem, OnlyVepsHaveMembers, is_vcom_epfd
<1>2. CASE vcom_init \/ Quiet \/ out_close
  BY <1>2, <1>1 DEF vcom_init, Quiet, out_close, sockets, epolls, epitems
<1>3. CASE vcom_destroy
  <2>1. \A f \in Fds : vep'[f] = NoSid
    BY <1>3 DEF vcom_destroy, vcom_socket_main_destroy
  <2>2. \A s \in Sids : members'[s] = {}
    BY <1>3 DEF vcom_destroy, SessionClose
  <2>3. QED BY <2>1, <2>2 DEF Registered, RegisteredHasItem, OnlyVepsHaveMembers, is_vcom_epfd
<1>4. ASSUME NEW s \in Sids, PeerConnects(s) PROVE Registered'
  BY <1>4, <1>1 DEF PeerConnects, sockets, epolls, epitems
<1>5. ASSUME NEW f \in Fds, NEW kind,
             libc_socket(f) \/ CloseOther(f) \/ open_descriptor(f, kind)
      PROVE  Registered'
  BY <1>5, <1>1 DEF libc_socket, CloseOther, open_descriptor, epolls, epitems
<1>6. ASSUME NEW s \in Sids, opening # NoFd, vcom_socket_socket(s)
      PROVE  Registered'
  <2>1. /\ session[s] = "free" /\ UNCHANGED <<vep, byPair, members>>
        /\ vsockets' = [vsockets EXCEPT ![opening] = s]
        /\ session' = [session EXCEPT ![s] = "idle"]
    BY <1>6 DEF vcom_socket_socket, epolls, epitems
  <2>2. ~is_vcom_fd(opening)
    BY <1>6 DEF Owns, Ours
  <2>3. \A e \in Fds : is_vcom_epfd(e)' => vep'[e] = vep[e] /\ vep'[e] \in Sids
    BY <2>1 DEF TypeOK, is_vcom_epfd
  <2>4. \A t \in Sids : session'[t] # "vep" => session[t] # "vep"
    BY <2>1 DEF TypeOK
  <2>5. \A g \in Fds : is_vcom_fd(g) => vsockets'[g] = vsockets[g]
    BY <2>1, <2>2 DEF TypeOK, is_vcom_fd
  <2>6. QED BY <2>1, <2>3, <2>4, <2>5, KeepsOpen
<1>7. ASSUME NEW f \in held, NEW from \in SUBSET {"idle", "bound"}, NEW to \in {"bound", "listen", "conn"},
             is_vcom_fd(f) /\ SetSession(f, from, to)
      PROVE  Registered'
  <2>1. /\ session[vsockets[f]] \in {"idle", "bound"} /\ UNCHANGED <<vep, byPair, members, vsockets>>
        /\ session' = [session EXCEPT ![vsockets[f]] = to]
    BY <1>7 DEF SetSession, epolls, epitems
  <2>2. \A t \in Sids : session'[t] # "vep" => session[t] # "vep"
    BY <2>1 DEF TypeOK
  <2>3. QED BY <2>1, <2>2
            DEF Registered, RegisteredHasItem, OnlyVepsHaveMembers, is_vcom_epfd
<1>8. ASSUME NEW f \in Fds, NEW s \in Sids, vcom_socket_is_connection_mode_socket(f),
             vcom_socket_accept_flags(f, s)
      PROVE  Registered'
  <2>1. /\ session[s] = "free" /\ UNCHANGED <<vep, byPair, members>>
        /\ session' = [session EXCEPT ![s] = "conn"]
    BY <1>8 DEF vcom_socket_accept_flags, epolls, epitems
  <2>2. \A g \in Fds : is_vcom_fd(g) => vsockets'[g] = vsockets[g]
    BY <1>8 DEF vcom_socket_accept_flags, vcom_socket_connected_socket, Owns,
                TypeOK
  <2>3. \A e \in Fds : is_vcom_epfd(e)' => vep'[e] = vep[e] /\ vep'[e] \in Sids
    BY <2>1 DEF TypeOK, is_vcom_epfd
  <2>4. \A t \in Sids : session'[t] # "vep" => session[t] # "vep"
    BY <2>1 DEF TypeOK
  <2>5. QED BY <2>1, <2>2, <2>3, <2>4, KeepsOpen
<1>9. ASSUME NEW s \in Sids, opening # NoFd, vcom_socket_epoll_create1(s)
      PROVE  Registered'
  <2>1. /\ session[s] = "free" /\ UNCHANGED <<vsockets, byPair, members>>
        /\ vep' = [vep EXCEPT ![opening] = s]
        /\ session' = [session EXCEPT ![s] = "vep"]
    BY <1>9 DEF vcom_socket_epoll_create1, epitems
  <2>2. members[s] = {}
    BY <2>1 DEF Registered, OnlyVepsHaveMembers
  <2>3. \A d \in Fds : is_vcom_epfd(d)' => /\ vep'[d] = vep[d] \/ members[vep'[d]] = {}
                                          /\ vep'[d] \in Sids
    BY <2>1, <2>2 DEF TypeOK, is_vcom_epfd
  <2>4. \A t \in Sids : session'[t] # "vep" => session[t] # "vep"
    BY <2>1 DEF TypeOK
  <2>5. QED BY <2>1, <2>3, <2>4, KeepsOpen
<1>10. ASSUME NEW e \in Fds, NEW f \in Fds, NEW op \in {"ADD", "MOD", "DEL"}, Ctl(op, e, f)
       PROVE  Registered'
  BY <1>10, CtlRegistered
<1>11. ASSUME NEW f \in held, CloseVsock(f) PROVE Registered'
  <2> DEFINE last == {e \in Marked(f) : count[e] = 1}
             S == {vsockets[f]} \cup {vep[e] : e \in last}
  <2>1. /\ f \in Fds /\ is_vcom_fd(f) /\ last \subseteq Fds /\ UNCHANGED byPair
        /\ \A e \in last : is_vcom_epfd(e)
    BY <1>0, <1>11 DEF CloseVsock, Marked, TypeOK, is_vcom_epfd, epitems
  <2>2. S \subseteq Sids
    BY <2>1 DEF TypeOK, is_vcom_fd, is_vcom_epfd
  <2>3. /\ vsockets' = [vsockets EXCEPT ![f] = NoSid]
        /\ vep' = [e \in Fds |-> IF e \in last THEN NoSid ELSE vep[e]]
        /\ session' = [s \in Sids |-> IF s \in S THEN "free" ELSE session[s]]
        /\ members' = [s \in Sids |-> IF s \in S THEN {} ELSE members[s] \ S]
    BY <1>11 DEF CloseVsock, vcom_socket_close_vsock, SessionClose
  <2>4. vsockets[f] \in S
    OBVIOUS
  <2> HIDE DEF S, last
  <2>5. \A g \in Fds : is_vcom_fd(g) /\ vsockets[g] \notin S => vsockets'[g] = vsockets[g]
    BY <2>3, <2>4 DEF TypeOK
  <2>6. \A e \in Fds : is_vcom_epfd(e)' => vep'[e] = vep[e] /\ vep'[e] \in Sids
    BY <2>3 DEF is_vcom_epfd, TypeOK
  <2>7. \A s \in Sids \ S : session'[s] # "vep" => session[s] # "vep"
    BY <2>3
  <2>8. QED BY <2>1, <2>2, <2>3, <2>5, <2>6, <2>7, KeepsRegistered
<1>12. ASSUME NEW e \in held, CloseVepoll(e) PROVE Registered'
  <2>1. CASE count[e] # 0
    <3>1. UNCHANGED <<vsockets, vep, byPair, session, members>>
      BY <1>12, <2>1 DEF CloseVepoll, vcom_socket_close_vepoll, epitems
    <3>2. QED BY <1>1, <3>1
  <2>2. CASE count[e] = 0
    <3> DEFINE S == {vep[e]}
    <3>1. /\ vep' = [vep EXCEPT ![e] = NoSid] /\ UNCHANGED <<vsockets, byPair>>
          /\ session' = [s \in Sids |-> IF s \in S THEN "free" ELSE session[s]]
          /\ members' = [s \in Sids |-> IF s \in S THEN {} ELSE members[s] \ S]
      BY <1>12, <2>2 DEF CloseVepoll, vcom_socket_close_vepoll, SessionClose, epitems
    <3>2. S \subseteq Sids
      BY <1>0, <1>12 DEF CloseVepoll, is_vcom_epfd, TypeOK
    <3> HIDE DEF S
    <3>3. \A d \in Fds : is_vcom_epfd(d)' => vep'[d] = vep[d] /\ vep'[d] \in Sids
      BY <1>0, <3>1 DEF is_vcom_epfd, TypeOK
    <3>4. \A s \in Sids \ S : session'[s] # "vep" => session[s] # "vep"
      BY <3>1
    <3>5. QED BY <3>1, <3>2, <3>3, <3>4, KeepsRegistered
  <2>3. QED BY <2>1, <2>2
<1>13. QED BY <1>0, <1>2, <1>3, <1>4, <1>5, <1>6, <1>7, <1>8, <1>9, <1>10, <1>11, <1>12
           DEF Flat

\* There is an item for what vppcom has registered: RegisteredHasItem.
THEOREM RegisteredHaveItems == Spec => []RegisteredHasItem
<1>1. Init => Registered
  BY DEF Init, Registered, RegisteredHasItem, OnlyVepsHaveMembers, is_vcom_epfd
<1>2. Registered => RegisteredHasItem
  BY DEF Registered
<1>3. Init => Owns
  BY DEF Init, Owns, is_vcom_fd, is_vcom_epfd
<1>4. QED BY <1>1, <1>2, <1>3, OwnsStep, RegisteredStep, TypeCorrect, PTL DEF Spec

-----------------------------------------------------------------------------
(***************************************************************************)
(* What is left behind.  The application has given up the epoll instances  *)
(* that are marked, and the descriptors it holds are open.                 *)
(***************************************************************************)
MarkedGivenUp == \A e \in closing : is_vcom_epfd(e) /\ e \notin held

LEMMA MarkedStep == TypeOK /\ Owns /\ MarkedGivenUp /\ [Next]_vars => MarkedGivenUp'
<1> SUFFICES ASSUME TypeOK, Owns, MarkedGivenUp, Flat PROVE MarkedGivenUp'
  BY Flattened
<1>0. held \subseteq Fds /\ closing \subseteq Fds
  BY DEF TypeOK
<1>1. \A e \in closing : kernel[e] = "epoll"
  BY <1>0 DEF MarkedGivenUp, Owns
<1>2. CASE vcom_init \/ Quiet \/ out_close \/ \E s \in Sids : PeerConnects(s)
  BY <1>2 DEF vcom_init, Quiet, out_close, PeerConnects, epolls, MarkedGivenUp, is_vcom_epfd
<1>3. CASE vcom_destroy
  BY <1>3 DEF vcom_destroy, vcom_socket_main_destroy, MarkedGivenUp
<1>4. ASSUME NEW f \in Fds, NEW kind,
             libc_socket(f) \/ CloseOther(f) \/ open_descriptor(f, kind)
      PROVE  MarkedGivenUp'
  BY <1>1, <1>4 DEF libc_socket, CloseOther, open_descriptor, epolls,
                    MarkedGivenUp, is_vcom_epfd
<1>5. ASSUME NEW s \in Sids, opening # NoFd, vcom_socket_socket(s)
      PROVE  MarkedGivenUp'
  BY <1>5 DEF vcom_socket_socket, epolls, MarkedGivenUp, is_vcom_epfd, Owns, Ours
<1>6. ASSUME NEW f \in Fds, NEW from, NEW to, SetSession(f, from, to)
      PROVE  MarkedGivenUp'
  BY <1>6 DEF SetSession, epolls, MarkedGivenUp, is_vcom_epfd
<1>7. ASSUME NEW f \in Fds, NEW s \in Sids, vcom_socket_accept_flags(f, s)
      PROVE  MarkedGivenUp'
  BY <1>1, <1>7 DEF vcom_socket_accept_flags, vcom_socket_connected_socket, epolls,
                    MarkedGivenUp, is_vcom_epfd
<1>8. ASSUME NEW s \in Sids, opening # NoFd, vcom_socket_epoll_create1(s)
      PROVE  MarkedGivenUp'
  <2>1. opening \notin closing
    BY <1>8 DEF MarkedGivenUp, Owns, Ours
  <2>2. QED BY <1>0, <1>8, <2>1
            DEF vcom_socket_epoll_create1, MarkedGivenUp, is_vcom_epfd, TypeOK
<1>9. ASSUME NEW e \in Fds, NEW f \in Fds, NEW op \in {"ADD", "MOD", "DEL"}, Ctl(op, e, f)
      PROVE  MarkedGivenUp'
  BY <1>9 DEF Ctl, MarkedGivenUp, is_vcom_epfd
<1>10. ASSUME NEW f \in held, CloseVsock(f) PROVE MarkedGivenUp'
  BY <1>0, <1>10 DEF CloseVsock, vcom_socket_close_vsock, MarkedGivenUp, is_vcom_epfd
<1>11. ASSUME NEW e \in held, CloseVepoll(e) PROVE MarkedGivenUp'
  BY <1>0, <1>11
     DEF CloseVepoll, vcom_socket_close_vepoll, MarkedGivenUp, is_vcom_epfd, TypeOK
<1>12. QED BY <1>0, <1>2, <1>3, <1>4, <1>5, <1>6, <1>7, <1>8, <1>9, <1>10, <1>11 DEF Flat

\* What the application holds is open, and not what a call is still opening.
HeldOpen == \A f \in held : kernel[f] # "closed" /\ f # opening

LEMMA HeldStep ==
  TypeOK /\ Owns /\ MarkedGivenUp /\ HeldOpen /\ [Next]_vars => HeldOpen'
<1> SUFFICES ASSUME TypeOK, Owns, MarkedGivenUp, HeldOpen, Flat PROVE HeldOpen'
  BY Flattened
<1>0. held \subseteq Fds /\ NoFd \notin held
  BY VcomConstants DEF TypeOK
<1>1. ASSUME UNCHANGED <<kernel, held, opening>> PROVE HeldOpen'
  BY <1>1 DEF HeldOpen
<1>2. CASE vcom_init \/ Quiet \/ \E s \in Sids : PeerConnects(s)
  BY <1>1, <1>2 DEF vcom_init, Quiet, PeerConnects, sockets
<1>3. CASE vcom_destroy
  <2>1. ASSUME NEW f \in held' PROVE kernel'[f] # "closed" /\ f # opening'
    <3>1. f \in held /\ f \in Fds /\ kernel[f] = "file" /\ opening' = opening
      BY <1>0, <1>3 DEF vcom_destroy
    <3>2. ~is_vcom_fd(f) /\ ~is_vcom_epfd(f)
      BY <3>1 DEF Owns
    <3>3. QED BY <1>3, <3>1, <3>2 DEF vcom_destroy, vcom_socket_main_destroy, HeldOpen
  <2>2. QED BY <2>1 DEF HeldOpen
<1>4. ASSUME NEW f \in Fds, libc_socket(f) PROVE HeldOpen'
  <2>1. f # opening
    BY <1>4, VcomConstants DEF libc_socket, Owns
  <2>2. QED BY <1>0, <1>4, <2>1 DEF libc_socket, HeldOpen, TypeOK
<1>5. ASSUME NEW f \in Fds, NEW kind \in {"stream", "dgram", "epoll"}, open_descriptor(f, kind)
      PROVE  HeldOpen'
  BY <1>0, <1>5 DEF open_descriptor, HeldOpen, TypeOK
<1>6. ASSUME NEW s \in Sids, opening # NoFd, vcom_socket_socket(s) \/ vcom_socket_epoll_create1(s)
      PROVE  HeldOpen'
  <2>1. /\ kernel' = kernel /\ held' = held \cup {opening} /\ kernel[opening] # "closed"
        /\ opening' = NoFd
    BY <1>6 DEF vcom_socket_socket, vcom_socket_epoll_create1
  <2>2. QED BY <1>0, <1>6, <2>1 DEF HeldOpen
<1>7. ASSUME NEW f \in held, NEW from, NEW to, SetSession(f, from, to) PROVE HeldOpen'
  BY <1>1, <1>7 DEF SetSession
<1>8. ASSUME NEW f \in Fds, NEW s \in Sids, vcom_socket_is_connection_mode_socket(f),
             vcom_socket_accept_flags(f, s)
      PROVE  HeldOpen'
  <2>1. opening' = opening /\ kernel[f] = "stream"
    BY <1>8 DEF vcom_socket_accept_flags, vcom_socket_is_connection_mode_socket
  <2>2. ASSUME NEW g \in Fds, vcom_socket_connected_socket(f, s, g), held' \subseteq held \cup {g}
        PROVE  HeldOpen'
    <3>1. g # opening
      BY <2>2, VcomConstants DEF vcom_socket_connected_socket, Owns
    <3>2. QED BY <1>0, <2>1, <2>2, <3>1 DEF vcom_socket_connected_socket, HeldOpen, TypeOK
  <2>3. CASE UNCHANGED <<kernel, vsockets, held>>
    BY <1>1, <2>1, <2>3
  <2>4. QED BY <1>8, <2>2, <2>3 DEF vcom_socket_accept_flags
<1>9. ASSUME NEW e \in held, NEW f \in held, NEW op, Ctl(op, e, f) PROVE HeldOpen'
  BY <1>1, <1>9 DEF Ctl, sockets
<1>10. ASSUME NEW f \in held, CloseVsock(f) PROVE HeldOpen'
  BY <1>0, <1>10 DEF CloseVsock, vcom_socket_close_vsock, Marked, MarkedGivenUp, HeldOpen
<1>11. ASSUME NEW f \in held, CloseVepoll(f) \/ CloseOther(f) PROVE HeldOpen'
  BY <1>0, <1>11 DEF CloseVepoll, CloseOther, vcom_socket_close_vepoll, HeldOpen, TypeOK
<1>12. ASSUME opening # NoFd, out_close PROVE HeldOpen'
  BY <1>0, <1>12 DEF out_close, HeldOpen, TypeOK
<1>13. QED BY <1>2, <1>3, <1>4, <1>5, <1>6, <1>7, <1>8, <1>9, <1>10, <1>11, <1>12 DEF Flat

\* Every session has a descriptor or is lost, and every descriptor is known.
Known ==
    /\ \A s \in Sids : session[s] # "free" =>
          s \in lost \/ \E f \in Fds : Ours(f) /\ Stands(f) = s
    /\ \A f \in Fds : Ours(f) => f \in held \/ f \in closing \/ vsockets[f] \in lost
    /\ \A s \in lost : session[s] = "conn" /\ \A f \in held : vsockets[f] # s

\* A descriptor that stands for one session stands for no other.
LEMMA StandsFor ==
  ASSUME Owns, NEW f \in Fds
  PROVE  /\ is_vcom_fd(f) => Stands(f) = vsockets[f] /\ ~is_vcom_epfd(f)
         /\ is_vcom_epfd(f) => Stands(f) = vep[f] /\ vsockets[f] = NoSid
  BY DEF Owns, Stands, is_vcom_fd, is_vcom_epfd

\* Where no session and no descriptor goes, and none comes that is not known.
LEMMA KeepsKnown ==
  ASSUME TypeOK, Known, NEW N \in SUBSET Sids,
         \A s \in Sids \ N : session'[s] # "free" => session[s] # "free",
         \A s \in N : s \in lost' \/ \E f \in Fds : Ours(f)' /\ Stands(f)' = s,
         \A f \in Fds : Ours(f) => Ours(f)' /\ Stands(f)' = Stands(f) /\ vsockets'[f] = vsockets[f],
         \A f \in Fds : Ours(f)' => \/ Ours(f) \/ f \in held' \/ vsockets'[f] \in lost',
         held \cap {f \in Fds : Ours(f)} \subseteq held', closing \subseteq closing', lost \subseteq lost',
         \A s \in lost' : session'[s] = "conn" /\ \A f \in held' : vsockets'[f] # s
  PROVE  Known'
<1>1. ASSUME NEW s \in Sids, session'[s] # "free"
      PROVE  s \in lost' \/ \E f \in Fds : Ours(f)' /\ Stands(f)' = s
  BY <1>1 DEF Known
<1>2. ASSUME NEW f \in Fds, Ours(f)'
      PROVE  f \in held' \/ f \in closing' \/ vsockets'[f] \in lost'
  BY <1>2 DEF Known
<1>3. QED BY <1>1, <1>2 DEF Known

\* The session of a descriptor that is held is not lost.
LEMMA HeldNotLost ==
  ASSUME TypeOK, Known, NEW f \in held
  PROVE  vsockets[f] \notin lost
  BY DEF Known

LEMMA CloseVsockKnown ==
  ASSUME TypeOK, Owns, Known, NEW f \in held, CloseVsock(f)
  PROVE  Known'
<1> DEFINE last == {e \in Marked(f) : count[e] = 1}
           S == {vsockets[f]} \cup {vep[e] : e \in last}
<1>0. /\ f \in Fds /\ is_vcom_fd(f) /\ ~is_vcom_epfd(f)
      /\ last \subseteq Fds /\ lost \subseteq Sids /\ NoSid \notin Sids
      /\ \A e \in last : is_vcom_epfd(e) /\ e \in closing
  BY VcomConstants DEF TypeOK, CloseVsock, Owns, Marked, is_vcom_fd, is_vcom_epfd
<1>1. /\ SessionClose(S)
      /\ vsockets' = [vsockets EXCEPT ![f] = NoSid]
      /\ vep' = [e \in Fds |-> IF e \in last THEN NoSid ELSE vep[e]]
      /\ closing' = closing \ last /\ held' = held \ {f}
  BY DEF CloseVsock, vcom_socket_close_vsock
<1>2. \A g \in Fds : is_vcom_fd(g) /\ g # f => vsockets[g] \notin S
  BY <1>0 DEF Owns
<1>3. \A g \in Fds : is_vcom_epfd(g) /\ g \notin last => vep[g] \notin S
  BY <1>0 DEF Owns
<1>4. /\ \A s \in Sids : session'[s] = IF s \in S THEN "free" ELSE session[s]
      /\ lost' = lost \ S
  BY <1>1 DEF SessionClose
<1>5. vsockets[f] \in S /\ \A e \in last : vep[e] \in S
  OBVIOUS
<1>6. /\ \A g \in Fds : vsockets'[g] = IF g = f THEN NoSid ELSE vsockets[g]
      /\ \A g \in Fds : vep'[g] = IF g \in last THEN NoSid ELSE vep[g]
  BY <1>1 DEF TypeOK
<1> HIDE DEF S, last
<1>7. ASSUME NEW g \in Fds, Ours(g), g # f, g \notin last
      PROVE  Ours(g)' /\ Stands(g)' = Stands(g)
  BY <1>6, <1>7 DEF Ours, Stands, is_vcom_fd, is_vcom_epfd
<1>8. ASSUME NEW s \in Sids, session'[s] # "free", s \notin lost'
      PROVE  \E g \in Fds : Ours(g)' /\ Stands(g)' = s
  <2>1. s \notin S /\ session[s] # "free" /\ s \notin lost
    BY <1>4, <1>8
  <2>2. PICK g \in Fds : Ours(g) /\ Stands(g) = s
    BY <2>1 DEF Known
  <2>3. g # f /\ g \notin last
    BY <1>0, <1>5, <2>1, <2>2, StandsFor
  <2>4. QED BY <1>7, <2>2, <2>3
<1>9. ASSUME NEW g \in Fds, Ours(g)'
      PROVE  g \in held' \/ g \in closing' \/ vsockets'[g] \in lost'
  <2>1. Ours(g) /\ g # f /\ g \notin last
    BY <1>0, <1>6, <1>9, StandsFor DEF Ours, is_vcom_fd, is_vcom_epfd
  <2>2. CASE g \in held \/ g \in closing
    BY <1>1, <2>1, <2>2
  <2>3. CASE vsockets[g] \in lost
    <3>1. is_vcom_fd(g)
      BY <1>0, <2>3 DEF is_vcom_fd
    <3>2. vsockets[g] \in lost'
      BY <1>2, <1>4, <2>1, <2>3, <3>1
    <3>3. QED BY <1>6, <2>1, <3>2
  <2>4. QED BY <2>1, <2>2, <2>3 DEF Known
<1>10. ASSUME NEW s \in lost'
       PROVE  session'[s] = "conn" /\ \A g \in held' : vsockets'[g] # s
  <2>1. s \in lost /\ s \in Sids /\ s # NoSid /\ s \notin S
    BY <1>0, <1>4, <1>10
  <2>2. session'[s] = "conn"
    BY <1>4, <2>1 DEF Known
  <2>3. \A g \in held' : g \in held /\ g \in Fds
    BY <1>1 DEF TypeOK
  <2>4. QED BY <1>6, <2>1, <2>2, <2>3 DEF Known
<1>11. QED BY <1>8, <1>9, <1>10 DEF Known

LEMMA CloseVepollKnown ==
  ASSUME TypeOK, Owns, Known, NEW e \in held, CloseVepoll(e)
  PROVE  Known'
<1>0. /\ e \in Fds /\ is_vcom_epfd(e) /\ ~is_vcom_fd(e) /\ Stands(e) = vep[e]
      /\ lost \subseteq Sids /\ NoSid \notin Sids /\ vep[e] \in Sids
      /\ closing \subseteq Fds /\ held \subseteq Fds
  BY VcomConstants, StandsFor DEF TypeOK, CloseVepoll, is_vcom_fd, is_vcom_epfd
<1>1. CASE count[e] # 0
  <2>1. /\ closing' = closing \cup {e} /\ held' = held \ {e}
        /\ UNCHANGED <<session, vep, vsockets, lost>>
    BY <1>1 DEF CloseVepoll, vcom_socket_close_vepoll
  <2>2. \A g \in Fds : Ours(g)' = Ours(g) /\ Stands(g)' = Stands(g)
    BY <2>1 DEF Ours, Stands, is_vcom_fd, is_vcom_epfd
  <2>3. QED BY <2>1, <2>2 DEF Known
<1>2. CASE count[e] = 0
  <2>1. /\ SessionClose({vep[e]}) /\ vep' = [vep EXCEPT ![e] = NoSid]
        /\ closing' = closing \ {e} /\ held' = held \ {e} /\ vsockets' = vsockets
    BY <1>2 DEF CloseVepoll, vcom_socket_close_vepoll
  <2>2. /\ \A s \in Sids : session'[s] = IF s = vep[e] THEN "free" ELSE session[s]
        /\ lost' = lost \ {vep[e]}
    BY <2>1 DEF SessionClose
  <2>3. \A g \in Fds : vep'[g] = IF g = e THEN NoSid ELSE vep[g]
    BY <2>1 DEF TypeOK
  <2>4. ASSUME NEW g \in Fds, g # e
        PROVE  Ours(g)' = Ours(g) /\ Stands(g)' = Stands(g)
    BY <2>1, <2>3, <2>4 DEF Ours, Stands, is_vcom_fd, is_vcom_epfd
  <2>5. ~Ours(e)'
    BY <1>0, <2>1, <2>3 DEF Ours, is_vcom_fd, is_vcom_epfd
  <2>6. \A g \in Fds : is_vcom_fd(g) => vsockets[g] # vep[e]
    BY <1>0 DEF Owns
  <2>7. ASSUME NEW s \in Sids, session'[s] # "free", s \notin lost'
        PROVE  \E g \in Fds : Ours(g)' /\ Stands(g)' = s
    <3>1. s # vep[e] /\ session[s] # "free" /\ s \notin lost
      BY <2>2, <2>7
    <3>2. PICK g \in Fds : Ours(g) /\ Stands(g) = s
      BY <3>1 DEF Known
    <3>3. QED BY <1>0, <2>4, <3>1, <3>2
  <2>8. ASSUME NEW g \in Fds, Ours(g)'
        PROVE  g \in held' \/ g \in closing' \/ vsockets'[g] \in lost'
    <3>1. Ours(g) /\ g # e
      BY <2>4, <2>5, <2>8
    <3>2. CASE g \in held \/ g \in closing
      BY <2>1, <3>1, <3>2
    <3>3. CASE vsockets[g] \in lost
      BY <1>0, <2>1, <2>2, <2>6, <3>3 DEF is_vcom_fd
    <3>4. QED BY <3>1, <3>2, <3>3 DEF Known
  <2>9. ASSUME NEW s \in lost'
        PROVE  session'[s] = "conn" /\ \A g \in held' : vsockets'[g] # s
    BY <1>0, <2>1, <2>2, <2>9 DEF Known
  <2>10. QED BY <2>7, <2>8, <2>9 DEF Known
<1>3. QED BY <1>1, <1>2

LEMMA AcceptKnown ==
  ASSUME TypeOK, Owns, HeldOpen, Known, NEW f \in Fds, NEW s \in Sids,
         vcom_socket_is_connection_mode_socket(f), vcom_socket_accept_flags(f, s)
  PROVE  Known'
<1>0. /\ session[s] = "free" /\ session' = [session EXCEPT ![s] = "conn"]
      /\ UNCHANGED <<vep, closing>> /\ s # NoSid /\ s \notin lost /\ lost \subseteq Sids
      /\ held \subseteq Fds
  BY VcomConstants DEF vcom_socket_accept_flags, epolls, Known, TypeOK
<1>1. \A g \in Fds : Ours(g) => Stands(g) # s /\ vsockets[g] # s
  BY <1>0, StandsFor DEF Owns, Ours, Stands
<1>2. session'[s] = "conn" /\ \A t \in Sids \ {s} : session'[t] = session[t]
  BY <1>0 DEF TypeOK
<1>3. ASSUME NEW g \in Fds, vcom_socket_connected_socket(f, s, g),
             \/ held' = held \cup {g} /\ UNCHANGED lost
             \/ lost' = lost \cup {s} /\ UNCHANGED held
      PROVE  Known'
  <2>1. kernel[g] = "closed" /\ ~Ours(g) /\ g \notin held
    BY <1>3 DEF vcom_socket_connected_socket, Owns, Ours, HeldOpen
  <2>2. \A h \in Fds : vsockets'[h] = IF h = g THEN s ELSE vsockets[h]
    BY <1>3 DEF vcom_socket_connected_socket, TypeOK
  <2>3. Ours(g)' /\ Stands(g)' = s
    BY <1>0, <2>2 DEF Ours, Stands, is_vcom_fd
  <2>4. \A h \in Fds : Ours(h) => Ours(h)' /\ Stands(h)' = Stands(h) /\ vsockets'[h] = vsockets[h]
    BY <1>0, <2>1, <2>2 DEF Ours, Stands, is_vcom_fd, is_vcom_epfd
  <2>5. \A h \in Fds : Ours(h)' => Ours(h) \/ h \in held' \/ vsockets'[h] \in lost'
    BY <1>0, <1>3, <2>2 DEF Ours, is_vcom_fd, is_vcom_epfd
  <2>6. \A h \in held : vsockets[h] # s
    BY <1>0, <1>1 DEF Ours, is_vcom_fd
  <2>7. \A t \in lost : session'[t] = "conn" /\ \A h \in held : vsockets'[h] # t
    BY <1>0, <1>2, <2>1, <2>2 DEF Known
  <2>8. \A t \in lost' : session'[t] = "conn" /\ \A h \in held' : vsockets'[h] # t
    BY <1>0, <1>2, <1>3, <2>1, <2>2, <2>6, <2>7
  <2>9. /\ {s} \in SUBSET Sids
        /\ \A t \in Sids \ {s} : session'[t] # "free" => session[t] # "free"
        /\ \A t \in {s} : t \in lost' \/ \E h \in Fds : Ours(h)' /\ Stands(h)' = t
        /\ held \cap {h \in Fds : Ours(h)} \subseteq held'
        /\ closing \subseteq closing' /\ lost \subseteq lost'
    BY <1>0, <1>2, <1>3, <2>3
  <2>10. QED BY <2>4, <2>5, <2>8, <2>9, KeepsKnown
<1>4. CASE lost' = lost \cup {s} /\ UNCHANGED <<kernel, vsockets, held>>
  <2>1. \A h \in Fds : Ours(h)' = Ours(h) /\ Stands(h)' = Stands(h)
    BY <1>0, <1>4 DEF Ours, Stands, is_vcom_fd, is_vcom_epfd
  <2>2. \A h \in held : vsockets[h] # s
    BY <1>0, <1>1 DEF Ours, is_vcom_fd
  <2>3. \A t \in lost' : session'[t] = "conn" /\ \A h \in held' : vsockets'[h] # t
    BY <1>0, <1>2, <1>4, <2>2 DEF Known
  <2>4. QED BY <1>0, <1>2, <1>4, <2>1, <2>3, KeepsKnown
<1>5. QED BY <1>3, <1>4 DEF vcom_socket_accept_flags

\* The descriptor that was opened gets its session or epoll index.
LEMMA OpenedKnown ==
  ASSUME TypeOK, Owns, HeldOpen, Known, NEW s \in Sids, opening # NoFd,
         vcom_socket_socket(s) \/ vcom_socket_epoll_create1(s)
  PROVE  Known'
<1>0. PICK o \in Fds : o = opening
  BY DEF TypeOK
<1>1. /\ ~Ours(o) /\ o \notin held /\ s # NoSid /\ session[s] = "free" /\ s \notin lost
      /\ lost \subseteq Sids /\ NoSid \notin lost
  BY <1>0, VcomConstants
     DEF Owns, HeldOpen, vcom_socket_socket, vcom_socket_epoll_create1, Known, TypeOK
<1>2. /\ held' = held \cup {o} /\ UNCHANGED <<closing, lost>>
      /\ \A t \in Sids \ {s} : session'[t] = session[t]
  BY <1>0 DEF vcom_socket_socket, vcom_socket_epoll_create1, epolls, TypeOK
<1>3. /\ \/ vsockets'[o] = s
         \/ vep'[o] = s /\ vsockets'[o] = NoSid
      /\ \A h \in Fds \ {o} : vsockets'[h] = vsockets[h] /\ vep'[h] = vep[h]
  BY <1>0, <1>1 DEF vcom_socket_socket, vcom_socket_epoll_create1, epolls, TypeOK, Ours, is_vcom_fd
<1>4. Ours(o)' /\ Stands(o)' = s
  BY <1>1, <1>3 DEF Ours, Stands, is_vcom_fd, is_vcom_epfd
<1>5. \A h \in Fds : Ours(h) => Ours(h)' /\ Stands(h)' = Stands(h) /\ vsockets'[h] = vsockets[h]
  BY <1>1, <1>3 DEF Ours, Stands, is_vcom_fd, is_vcom_epfd
<1>6. \A h \in Fds : Ours(h)' => Ours(h) \/ h \in held'
  BY <1>2, <1>3 DEF Ours, is_vcom_fd, is_vcom_epfd
<1>7. \A t \in lost' : session'[t] = "conn" /\ \A h \in held' : vsockets'[h] # t
  <2>1. \A t \in lost : session'[t] = "conn"
    BY <1>1, <1>2 DEF Known
  <2>2. \A t \in lost : vsockets'[o] # t
    BY <1>1, <1>3
  <2>3. \A t \in lost : \A h \in held : vsockets'[h] # t
    BY <1>1, <1>3 DEF Known, TypeOK
  <2>4. QED BY <1>2, <2>1, <2>2, <2>3
<1>8. /\ {s} \in SUBSET Sids
      /\ \A t \in Sids \ {s} : session'[t] # "free" => session[t] # "free"
      /\ \A t \in {s} : t \in lost' \/ \E h \in Fds : Ours(h)' /\ Stands(h)' = t
      /\ held \cap {h \in Fds : Ours(h)} \subseteq held'
      /\ closing \subseteq closing' /\ lost \subseteq lost'
  BY <1>2, <1>4
<1>9. \A h \in Fds : Ours(h)' => Ours(h) \/ h \in held' \/ vsockets'[h] \in lost'
  BY <1>6
<1>10. QED BY <1>5, <1>7, <1>8, <1>9, KeepsKnown

LEMMA KnownStep ==
  TypeOK /\ Owns /\ HeldOpen /\ Known /\ [Next]_vars => Known'
<1> SUFFICES ASSUME TypeOK, Owns, HeldOpen, Known, Flat PROVE Known'
  BY Flattened
<1>0. held \subseteq Fds /\ lost \subseteq Sids /\ NoSid \notin Sids
  BY VcomConstants DEF TypeOK
<1>1. ASSUME UNCHANGED <<session, vsockets, vep, closing, lost>>,
             \A f \in Fds : Ours(f) /\ f \in held => f \in held',
             \A f \in held' : f \in held \/ (f \in Fds /\ ~Ours(f))
      PROVE  Known'
  <2>1. \A f \in Fds : Ours(f)' = Ours(f) /\ Stands(f)' = Stands(f)
    BY <1>1 DEF Ours, Stands, is_vcom_fd, is_vcom_epfd
  <2>2. \A s \in lost : \A f \in held' : vsockets[f] # s
    BY <1>0, <1>1 DEF Known, Ours, is_vcom_fd
  <2>3. QED BY <1>1, <2>1, <2>2 DEF Known
<1>2. CASE vcom_init \/ Quiet \/ \E s \in Sids : PeerConnects(s)
  BY <1>1, <1>2 DEF vcom_init, Quiet, PeerConnects, sockets, epolls
<1>3. CASE vcom_destroy
  <2>1. \A s \in Sids : session'[s] = "free"
    BY <1>3 DEF vcom_destroy, SessionClose
  <2>2. lost' = {}
    BY <1>0, <1>3 DEF vcom_destroy, SessionClose
  <2>3. \A f \in Fds : ~Ours(f)'
    BY <1>3 DEF vcom_destroy, vcom_socket_main_destroy, Ours, is_vcom_fd, is_vcom_epfd
  <2>4. QED BY <2>1, <2>2, <2>3 DEF Known
<1>4. ASSUME NEW f \in Fds, libc_socket(f) PROVE Known'
  <2>1. ~Ours(f)
    BY <1>4 DEF libc_socket, Owns, Ours
  <2>2. QED BY <1>1, <1>4, <2>1 DEF libc_socket, epolls
<1>5. ASSUME NEW f \in Fds, NEW kind, open_descriptor(f, kind) PROVE Known'
  BY <1>1, <1>5 DEF open_descriptor, epolls
<1>6. CASE out_close
  BY <1>1, <1>6 DEF out_close, epolls
<1>7. ASSUME NEW s \in Sids, opening # NoFd, vcom_socket_socket(s) \/ vcom_socket_epoll_create1(s)
      PROVE  Known'
  BY <1>7, OpenedKnown
<1>8. ASSUME NEW f \in held, NEW from, NEW to \in {"bound", "listen", "conn"},
             is_vcom_fd(f), SetSession(f, from, to)
      PROVE  Known'
  <2>1. /\ session' = [session EXCEPT ![vsockets[f]] = to]
        /\ UNCHANGED <<vsockets, vep, closing, held, lost>>
    BY <1>8 DEF SetSession, epolls
  <2>2. \A g \in Fds : Ours(g)' = Ours(g) /\ Stands(g)' = Stands(g)
    BY <2>1 DEF Ours, Stands, is_vcom_fd, is_vcom_epfd
  <2>3. /\ vsockets[f] \notin lost
        /\ \A s \in Sids : s # vsockets[f] => session'[s] = session[s]
    BY <2>1 DEF Known, TypeOK
  <2>4. session[vsockets[f]] # "free"
    BY <1>0, <1>8 DEF Owns
  <2>5. QED BY <1>0, <2>1, <2>2, <2>3, <2>4 DEF Known
<1>9. ASSUME NEW f \in Fds, NEW s \in Sids, vcom_socket_is_connection_mode_socket(f),
             vcom_socket_accept_flags(f, s)
      PROVE  Known'
  BY <1>9, AcceptKnown
<1>10. ASSUME NEW e \in held, NEW f \in held, NEW op, Ctl(op, e, f) PROVE Known'
  BY <1>1, <1>10 DEF Ctl, sockets
<1>11. ASSUME NEW f \in held, CloseVsock(f) \/ CloseVepoll(f) PROVE Known'
  BY <1>11, CloseVsockKnown, CloseVepollKnown
<1>12. ASSUME NEW f \in held, CloseOther(f) PROVE Known'
  BY <1>1, <1>12 DEF CloseOther, epolls, Ours
<1>13. QED BY <1>2, <1>3, <1>4, <1>5, <1>6, <1>7, <1>8, <1>9, <1>10, <1>11, <1>12 DEF Flat

\* However calls fail half-way and in whatever order descriptors are closed,
\* no descriptor, session or epoll index is left behind but the sessions whose
\* accept failed after vppcom had accepted them: NothingLeftBehind.
THEOREM NothingLeft == Spec => []NothingLeftBehind
<1>1. Init => Owns /\ MarkedGivenUp /\ HeldOpen /\ Known
  BY VcomConstants DEF Init, Owns, MarkedGivenUp, HeldOpen, Known, Ours, is_vcom_fd, is_vcom_epfd
<1>2. Owns /\ Known => NothingLeftBehind
  BY DEF Owns, Known, NothingLeftBehind
<1>3. QED BY <1>1, <1>2, OwnsStep, MarkedStep, HeldStep, KnownStep, TypeCorrect, PTL DEF Spec
-----------------------------------------------------------------------------
(***************************************************************************)
(* Epoll instances that are marked.  For a careful application the members *)
(* an instance counts are those it added and did not remove, as long as it *)
(* holds the instance; stale items may only make a marked one count less,  *)
(* and never to zero.                                                      *)
(***************************************************************************)
Of(e) == {f \in Fds : <<e, f>> \in added}

AddedHaveItems == \A p \in added : byPair[p] # NoIdx /\ is_vcom_epfd(p[1])

CountsAdded ==
    \A e \in Fds : is_vcom_epfd(e) /\ e \notin closing
                     => e \in held /\ count[e] = Cardinality(Of(e))

MarkedCounts == \A e \in closing : is_vcom_epfd(e) /\ count[e] \in 1 .. Cardinality(Of(e))

Counted == careful => AddedHaveItems /\ CountsAdded /\ MarkedCounts

\* An epoll instance has finitely many members, and none if it is not one.
LEMMA OfFinite ==
  ASSUME NEW e
  PROVE  IsFiniteSet(Of(e)) /\ Cardinality(Of(e)) \in Nat
<1>1. Of(e) \subseteq Fds /\ IsFiniteSet(Fds)
  BY VcomConstants DEF Of
<1>2. IsFiniteSet(Of(e))
  BY <1>1, FS_Subset
<1>3. QED BY <1>2, FS_CardinalityType

\* Where neither descriptors, items nor counts change, nor does this.
LEMMA KeepsCounted ==
  ASSUME Counted, UNCHANGED <<careful, byPair, vep, count, closing, added>>,
         \A e \in held : is_vcom_epfd(e) => e \in held'
  PROVE  Counted'
<1>1. \A e : Of(e)' = Of(e)
  BY DEF Of
<1>2. QED BY <1>1 DEF Counted, AddedHaveItems, CountsAdded, MarkedCounts, is_vcom_epfd

LEMMA CtlCounted ==
  ASSUME TypeOK, MarkedGivenUp, Counted, UNCHANGED careful,
         NEW e \in held, NEW f \in held, NEW op \in {"ADD", "MOD", "DEL"},
         MayCtl(op, e, f), Ctl(op, e, f)
  PROVE  Counted'
<1> SUFFICES ASSUME careful PROVE Counted'
  BY DEF Counted
<1>0. /\ e \in Fds /\ f \in Fds /\ <<e, f>> \in Pairs /\ is_vcom_epfd(e)
      /\ UNCHANGED <<vep, closing, held>> /\ e \notin closing
      /\ added \subseteq Pairs
      /\ AddedHaveItems /\ CountsAdded /\ MarkedCounts
  BY DEF Ctl, TypeOK, Pairs, MarkedGivenUp, Counted
<1>1. CASE UNCHANGED <<epitems, count, added>>
  BY <1>0, <1>1, KeepsCounted DEF epitems
<1>2. ASSUME NEW i,
             \A g \in Fds \ {e} : count'[g] = count[g],
             \A g \in Fds \ {e} : \A h \in Fds : <<g, h>> \in added' <=> <<g, h>> \in added,
             count'[e] = Cardinality(Of(e)'), AddedHaveItems'
      PROVE  Counted'
  <2>1. \A g \in Fds \ {e} : Of(g)' = Of(g)
    BY <1>2 DEF Of
  <2>2. CountsAdded'
    BY <1>0, <1>2, <2>1 DEF CountsAdded, is_vcom_epfd
  <2>3. MarkedCounts'
    BY <1>0, <1>2, <2>1 DEF MarkedCounts, is_vcom_epfd, TypeOK
  <2>4. QED BY <1>2, <2>2, <2>3 DEF Counted
<1>3. CASE AddItem(e, f) /\ byPair[<<e, f>>] = NoIdx
  <2>1. PICK i \in Items : byPair' = [byPair EXCEPT ![<<e, f>>] = i]
    BY <1>3 DEF AddItem
  <2>2. count' = [count EXCEPT ![e] = @ + 1] /\ added' = added \cup {<<e, f>>}
    BY <1>3 DEF AddItem
  <2>3. f \notin Of(e) /\ Of(e)' = Of(e) \cup {f}
    BY <1>0, <1>3, <2>2 DEF Of, AddedHaveItems
  <2>4. Cardinality(Of(e)') = Cardinality(Of(e)) + 1
    BY <2>3, OfFinite, FS_AddElement
  <2>5. count'[e] = Cardinality(Of(e)')
    BY <1>0, <2>2, <2>4 DEF CountsAdded, TypeOK
  <2>6. AddedHaveItems'
    <3>1. i # NoIdx
      BY VcomConstants
    <3>2. \A p \in Pairs : byPair'[p] = IF p = <<e, f>> THEN i ELSE byPair[p]
      BY <1>0, <2>1 DEF TypeOK
    <3>3. QED BY <1>0, <2>2, <3>1, <3>2 DEF AddedHaveItems, is_vcom_epfd
  <2>7. QED BY <1>2, <2>2, <2>5, <2>6 DEF TypeOK
<1>4. CASE DelItem(e, f) /\ byPair[<<e, f>>] # NoIdx /\ op = "DEL"
  <2>1. /\ byPair' = [byPair EXCEPT ![<<e, f>>] = NoIdx]
        /\ count' = [count EXCEPT ![e] = @ - 1]
        /\ added' = added \ {<<e, f>>}
    BY <1>4 DEF DelItem
  <2>2. f \in Of(e) /\ Of(e)' = Of(e) \ {f}
    BY <1>0, <1>4, <2>1 DEF Of, MayCtl
  <2>3. Cardinality(Of(e)') = Cardinality(Of(e)) - 1
    BY <2>2, OfFinite, FS_RemoveElement
  <2>4. count'[e] = Cardinality(Of(e)')
    BY <1>0, <2>1, <2>3 DEF CountsAdded, TypeOK
  <2>5. AddedHaveItems'
    BY <1>0, <2>1 DEF AddedHaveItems, is_vcom_epfd, TypeOK
  <2>6. QED BY <1>2, <2>1, <2>4, <2>5 DEF TypeOK
<1>5. QED BY <1>1, <1>3, <1>4
          DEF Ctl, vcom_socket_ctl_vepitem, AddItem, ModItem, DelItem

\* A socket that goes was removed from the instances the application holds;
\* of the marked ones it takes those along that count it alone.
LEMMA CloseVsockCounted ==
  ASSUME TypeOK, Owns, IndicesAgree, MarkedGivenUp, Counted, UNCHANGED careful,
         NEW f \in held, MayClose(f), CloseVsock(f)
  PROVE  Counted'
<1> SUFFICES ASSUME careful PROVE Counted'
  BY DEF Counted
<1> DEFINE last == {e \in Marked(f) : count[e] = 1}
<1>0. /\ f \in Fds /\ added \subseteq Pairs /\ closing \subseteq Fds
      /\ is_vcom_fd(f) /\ ~is_vcom_epfd(f)
      /\ AddedHaveItems /\ CountsAdded /\ MarkedCounts
  BY DEF TypeOK, Counted, CloseVsock, Owns
<1>1. /\ vep' = [e \in Fds |-> IF e \in last THEN NoSid ELSE vep[e]]
      /\ count' = [e \in Fds |-> IF e \in Marked(f) THEN count[e] - 1 ELSE count[e]]
      /\ closing' = closing \ last
      /\ added' = {p \in added : p[2] # f /\ p[1] \notin last}
      /\ held' = held \ {f} /\ UNCHANGED byPair
  BY DEF CloseVsock, vcom_socket_close_vsock, epitems
<1>2. Marked(f) \subseteq closing /\ last \subseteq Marked(f)
  BY DEF Marked
<1>3. ASSUME NEW e \in closing \ Marked(f) PROVE <<e, f>> \notin added
  <2>1. e \in Fds /\ <<e, f>> \in Pairs /\ vep[e] # NoSid
    BY <1>0 DEF Pairs, MarkedCounts, is_vcom_epfd
  <2>2. ASSUME <<e, f>> \in added PROVE FALSE
    <3>1. byPair[<<e, f>>] \in Items
      BY <1>0, <2>1, <2>2 DEF AddedHaveItems, TypeOK
    <3>2. item[byPair[<<e, f>>]] = <<e, f>>
      BY <2>1, <3>1 DEF IndicesAgree
    <3>3. <<e, f>> # NoItem
      BY <2>1, VcomConstants DEF Pairs
    <3>4. byPair[<<e, f>>] \in byFd[f]
      BY <1>0, <3>1, <3>2, <3>3 DEF IndicesAgree
    <3>5. QED BY <1>3, <2>1, <3>2, <3>4 DEF Marked
  <2>3. QED BY <2>2
<1>4. ASSUME NEW e \in Fds \ last
      PROVE  Of(e)' = Of(e) \ {f}
  BY <1>1, <1>4 DEF Of
<1> HIDE DEF last
<1>5. AddedHaveItems'
  BY <1>0, <1>1 DEF AddedHaveItems, is_vcom_epfd, TypeOK, Pairs
<1>6. CountsAdded'
  <2> SUFFICES ASSUME NEW e \in Fds, is_vcom_epfd(e)', e \notin closing'
               PROVE  e \in held' /\ count'[e] = Cardinality(Of(e)')
    BY DEF CountsAdded
  <2>1. e \notin last /\ is_vcom_epfd(e) /\ e \notin closing
    BY <1>1 DEF is_vcom_epfd
  <2>2. e \in held /\ count[e] = Cardinality(Of(e)) /\ e # f
    BY <1>0, <2>1 DEF CountsAdded
  <2>3. <<e, f>> \notin added
    BY <2>2 DEF MayClose
  <2>4. Of(e)' = Of(e) /\ count'[e] = count[e]
    BY <1>1, <1>2, <1>4, <2>1, <2>3 DEF Of
  <2>5. QED BY <1>1, <2>2, <2>4
<1>7. MarkedCounts'
  <2> SUFFICES ASSUME NEW e \in closing'
               PROVE  is_vcom_epfd(e)' /\ count'[e] \in 1 .. Cardinality(Of(e)')
    BY DEF MarkedCounts
  <2>1. /\ e \in closing /\ e \notin last /\ e \in Fds /\ is_vcom_epfd(e)
        /\ count[e] \in 1 .. Cardinality(Of(e)) /\ Of(e)' = Of(e) \ {f}
    BY <1>0, <1>1, <1>4 DEF MarkedCounts
  <2>2. is_vcom_epfd(e)'
    BY <1>1, <2>1 DEF is_vcom_epfd
  <2>3. Cardinality(Of(e)) \in Nat
    BY OfFinite
  <2>4. CASE e \notin Marked(f)
    <3>1. Of(e)' = Of(e) /\ count'[e] = count[e]
      BY <1>1, <1>3, <2>1, <2>4 DEF Of
    <3>2. QED BY <2>1, <2>2, <3>1
  <2>5. CASE e \in Marked(f)
    <3>1. count'[e] = count[e] - 1 /\ count[e] # 1
      BY <1>1, <2>1, <2>5 DEF last
    <3>2. /\ IsFiniteSet(Of(e)')
          /\ Cardinality(Of(e)') \in {Cardinality(Of(e)), Cardinality(Of(e)) - 1}
      <4>1. /\ IsFiniteSet(Of(e) \ {f})
            /\ Cardinality(Of(e) \ {f}) \in {Cardinality(Of(e)), Cardinality(Of(e)) - 1}
        BY OfFinite, FS_RemoveElement
      <4>2. QED BY <2>1, <4>1
    <3>3. Cardinality(Of(e)') \in Nat
      BY <3>2, FS_CardinalityType
    <3>4. QED BY <2>1, <2>2, <2>3, <3>1, <3>2, <3>3
  <2>6. QED BY <2>4, <2>5
<1>8. QED BY <1>5, <1>6, <1>7 DEF Counted

LEMMA CloseVepollCounted ==
  ASSUME TypeOK, Owns, MarkedGivenUp, Counted, UNCHANGED careful,
         NEW e \in held, CloseVepoll(e)
  PROVE  Counted'
<1> SUFFICES ASSUME careful PROVE Counted'
  BY DEF Counted
<1>0. /\ e \in Fds /\ is_vcom_epfd(e) /\ e \notin closing
      /\ added \subseteq Pairs /\ closing \subseteq Fds
      /\ count[e] = Cardinality(Of(e)) /\ Cardinality(Of(e)) \in Nat
      /\ AddedHaveItems /\ CountsAdded /\ MarkedCounts
  BY OfFinite DEF CloseVepoll, TypeOK, MarkedGivenUp, Counted, CountsAdded
<1>1. CASE count[e] # 0
  <2>1. /\ closing' = closing \cup {e} /\ held' = held \ {e}
        /\ UNCHANGED <<vep, count, added, byPair>>
    BY <1>1 DEF CloseVepoll, vcom_socket_close_vepoll, epitems
  <2>2. \A g : Of(g)' = Of(g)
    BY <2>1 DEF Of
  <2>3. QED BY <1>0, <1>1, <2>1, <2>2
            DEF Counted, AddedHaveItems, CountsAdded, MarkedCounts, is_vcom_epfd
<1>2. CASE count[e] = 0
  <2>1. /\ vep' = [vep EXCEPT ![e] = NoSid] /\ closing' = closing \ {e}
        /\ count' = [count EXCEPT ![e] = 0] /\ held' = held \ {e}
        /\ added' = {p \in added : p[1] # e} /\ UNCHANGED byPair
    BY <1>2 DEF CloseVepoll, vcom_socket_close_vepoll, epitems
  <2>2. \A g \in Fds \ {e} : Of(g)' = Of(g) /\ vep'[g] = vep[g] /\ count'[g] = count[g]
    BY <2>1 DEF Of, TypeOK
  <2>3. ~is_vcom_epfd(e)'
    BY <1>0, <2>1 DEF is_vcom_epfd, TypeOK
  <2>4. AddedHaveItems'
    BY <1>0, <2>1 DEF AddedHaveItems, is_vcom_epfd, TypeOK, Pairs
  <2>5. CountsAdded'
    BY <1>0, <2>1, <2>2, <2>3 DEF CountsAdded, is_vcom_epfd
  <2>6. MarkedCounts'
    BY <1>0, <2>1, <2>2 DEF MarkedCounts, is_vcom_epfd
  <2>7. QED BY <2>4, <2>5, <2>6 DEF Counted
<1>3. QED BY <1>1, <1>2

LEMMA CountedStep ==
  TypeOK /\ Owns /\ IndicesAgree /\ MarkedGivenUp /\ Counted /\ [Next]_vars => Counted'
<1> SUFFICES ASSUME TypeOK, Owns, IndicesAgree, MarkedGivenUp, Counted,
                    Flat, UNCHANGED careful
             PROVE  Counted'
  BY Flattened
<1>0. held \subseteq Fds
  BY DEF TypeOK
<1>1. CASE vcom_init \/ Quiet \/ out_close \/ \E s \in Sids : PeerConnects(s)
  BY <1>1, KeepsCounted DEF vcom_init, Quiet, out_close, PeerConnects, epolls, epitems
<1>2. CASE vcom_destroy
  BY <1>2 DEF vcom_destroy, vcom_socket_main_destroy, Counted, AddedHaveItems,
              CountsAdded, MarkedCounts, is_vcom_epfd
<1>3. ASSUME NEW f \in Fds, NEW kind,
             libc_socket(f) \/ CloseOther(f) \/ open_descriptor(f, kind)
      PROVE  Counted'
  BY <1>3, KeepsCounted DEF libc_socket, CloseOther, open_descriptor, epolls, epitems
<1>4. ASSUME NEW s \in Sids, vcom_socket_socket(s)
      PROVE  Counted'
  BY <1>4, KeepsCounted DEF vcom_socket_socket, epolls, epitems
<1>5. ASSUME NEW f \in Fds, NEW from, NEW to, SetSession(f, from, to)
      PROVE  Counted'
  BY <1>5, KeepsCounted DEF SetSession, epolls, epitems
<1>6. ASSUME NEW f \in Fds, NEW s \in Sids, vcom_socket_accept_flags(f, s)
      PROVE  Counted'
  BY <1>6, KeepsCounted DEF vcom_socket_accept_flags, epolls, epitems
<1>7. ASSUME NEW s \in Sids, opening # NoFd, vcom_socket_epoll_create1(s)
      PROVE  Counted'
  <2> SUFFICES ASSUME careful PROVE Counted'
    BY DEF Counted
  <2>0. PICK e \in Fds : e = opening
    BY <1>7 DEF TypeOK
  <2>1. /\ vep' = [vep EXCEPT ![e] = s] /\ ~is_vcom_epfd(e)
        /\ count' = [count EXCEPT ![e] = 0] /\ held' = held \cup {e}
        /\ UNCHANGED <<closing, byPair, added>>
    BY <1>7, <2>0 DEF vcom_socket_epoll_create1, epitems, Owns, Ours
  <2>2. s # NoSid /\ added \subseteq Pairs
        /\ AddedHaveItems /\ CountsAdded /\ MarkedCounts
    BY <2>1, VcomConstants DEF Owns, TypeOK, Counted
  <2>3. Of(e)' = {} /\ \A g : Of(g)' = Of(g)
    BY <2>1, <2>2 DEF Of, AddedHaveItems
  <2>4. Cardinality(Of(e)') = 0
    BY <2>3, FS_EmptySet
  <2>5. \A g \in Fds \ {e} : vep'[g] = vep[g] /\ count'[g] = count[g]
    BY <2>1 DEF TypeOK
  <2>6. vep'[e] = s /\ count'[e] = 0
    BY <2>1 DEF TypeOK
  <2>7. AddedHaveItems'
    BY <2>1, <2>2, <2>5, <2>6 DEF AddedHaveItems, is_vcom_epfd, Pairs
  <2>8. CountsAdded'
    BY <2>1, <2>2, <2>3, <2>4, <2>5, <2>6 DEF CountsAdded, is_vcom_epfd
  <2>9. MarkedCounts'
    BY <2>1, <2>2, <2>3, <2>5 DEF MarkedCounts, is_vcom_epfd, TypeOK
  <2>10. QED BY <2>7, <2>8, <2>9 DEF Counted
<1>8. ASSUME NEW e \in held, NEW f \in held, NEW op \in {"ADD", "MOD", "DEL"},
             MayCtl(op, e, f), Ctl(op, e, f)
      PROVE  Counted'
  BY <1>8, CtlCounted
<1>9. ASSUME NEW f \in held, MayClose(f), CloseVsock(f) PROVE Counted'
  BY <1>9, CloseVsockCounted
<1>10. ASSUME NEW e \in held, CloseVepoll(e) PROVE Counted'
  BY <1>10, CloseVepollCounted
<1>11. QED BY <1>0, <1>1, <1>2, <1>3, <1>4, <1>5, <1>6, <1>7, <1>8, <1>9, <1>10 DEF Flat

\* For an application that removes a socket from the epoll instances it holds
\* before it closes it, no instance that outlives its close() is left without a
\* member that takes it along: MarkedHasMember.
THEOREM MarkedHaveMembers == Spec => []MarkedHasMember
<1>1. Init => Owns /\ IndicesAgree /\ MarkedGivenUp
  BY VcomConstants DEF Init, Owns, IndicesAgree, Pairs, MarkedGivenUp, is_vcom_fd, is_vcom_epfd
<1>2. Init => Counted
  BY DEF Init, Counted, AddedHaveItems, CountsAdded, MarkedCounts, is_vcom_epfd
<1>3. Counted => MarkedHasMember
  BY DEF Counted, MarkedCounts, MarkedHasMember, Of
<1>4. QED BY <1>1, <1>2, <1>3, OwnsStep, ItemsStep, MarkedStep, CountedStep, TypeCorrect,
             PTL DEF Spec
=============================================================================
