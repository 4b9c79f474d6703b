---------------------------- MODULE NetnsProofs ----------------------------
(***************************************************************************)
(* Proofs about the netlink stream engine (first part), and about the      *)
(* shared mirrors that are built on its streams (second part).             *)
(***************************************************************************)
EXTENDS Netns, FiniteSetTheorems, TLAPS

-----------------------------------------------------------------------------
(***************************************************************************)
(* Types of the streams.                                                   *)
(***************************************************************************)
\* Freeing one entry keeps a table of owners well typed.
LEMMA ReleaseType ==
    ASSUME NEW D, NEW table \in [D -> Owner], NEW k
    PROVE  Release(table, k) \in [D -> Owner]
  BY DEF Release, Owner

\* Closing a socket keeps every table and queue well typed.
LEMMA SocketCloseType ==
    ASSUME TypeOK, NEW s \in Slots, SocketClose(s)
    PROVE  /\ fdt' \in [Fds -> Owner]
           /\ ftab' \in [Files -> Owner]
           /\ q' \in [Slots -> Seq(Msg)]
           /\ lost' \in [Slots -> BOOLEAN]
           /\ dump' \in [Slots -> Classes \cup {"none"}]
           /\ todo' \in [Slots -> SUBSET Objs]
           /\ wild' \in BOOLEAN
<1>1. fdt' \in [Fds -> Owner] /\ ftab' \in [Files -> Owner]
  BY ReleaseType DEF TypeOK, SocketClose, CloseFd
<1>2. q' \in [Slots -> Seq(Msg)]
  BY DEF TypeOK, SocketClose, CloseFd
<1>3. lost' \in [Slots -> BOOLEAN]
  BY DEF TypeOK, SocketClose, CloseFd
<1>4. dump' \in [Slots -> Classes \cup {"none"}]
  BY DEF TypeOK, SocketClose, CloseFd
<1>5. todo' \in [Slots -> SUBSET Objs]
  BY DEF TypeOK, SocketClose, CloseFd
<1>6. wild' \in BOOLEAN
  BY DEF TypeOK, SocketClose
<1>7. QED BY <1>1, <1>2, <1>3, <1>4, <1>5, <1>6

\* A request number stays below the modulus.
LEMMA SeqStep ==
    ASSUME NEW n \in 0 .. SeqMod - 1
    PROVE  (n + 1) % SeqMod \in 0 .. SeqMod - 1
  BY RtnlConstants

\* What is left of a queue after one recv is a queue.
LEMMA TailType ==
    ASSUME NEW S, NEW x \in Seq(S), x # <<>>
    PROVE  Tail(x) \in Seq(S) /\ Head(x) \in S
  OBVIOUS

\* recv on one socket keeps all queues well typed.
LEMMA TailQueue ==
    ASSUME TypeOK, NEW s \in Slots, q[s] # <<>>,
           q' = [q EXCEPT ![s] = Tail(@)]
    PROVE  q' \in [Slots -> Seq(Msg)]
<1>1. Tail(q[s]) \in Seq(Msg)
  BY TailType DEF TypeOK
<1>2. QED BY <1>1 DEF TypeOK

\* The zeroed pools are well typed.
LEMMA TypeInit == Init => TypeOK
<1> SUFFICES ASSUME Init PROVE TypeOK
  OBVIOUS
<1>1. /\ fdt \in [Fds -> Owner]
      /\ ftab \in [Files -> Owner]
  BY DEF Init, Owner
<1>2. seq \in [Slots -> 0 .. SeqMod - 1]
  BY RtnlConstants DEF Init
<1>3. q \in [Slots -> Seq(Msg)]
  BY DEF Init
<1>4. sync \in [Slots -> Sync] /\ state \in [Slots -> {"INIT", "SYNC", "READY"}]
  BY DEF Init, Sync
<1>5. /\ sock \in [Slots -> Fds \cup {NoFd}]
      /\ uix \in [Slots -> Files]
  BY RtnlConstants DEF Init
<1>6. QED
  BY <1>1, <1>2, <1>3, <1>4, <1>5 DEF Init, TypeOK

\* Every API call, callback, handler and kernel step keeps the types.
LEMMA TypeStep == TypeOK /\ [Next]_vars => TypeOK'
<1> SUFFICES ASSUME TypeOK, [Next]_vars PROVE TypeOK'
  OBVIOUS
<1> USE DEF streams, events, sockets, world
<1>1. ASSUME NEW s \in Slots, NEW n \in Names, StreamOpen(s, n) PROVE TypeOK'
  BY <1>1 DEF TypeOK, StreamOpen
<1>2. ASSUME NEW s \in Slots, StreamClose(s) PROVE TypeOK'
  BY <1>2 DEF TypeOK, StreamClose
<1>3. ASSUME NEW s \in Slots, ReadCb(s) PROVE TypeOK'
  BY <1>3 DEF TypeOK, ReadCb
<1>4. ASSUME Resume PROVE TypeOK'
  BY <1>4 DEF TypeOK, Resume
<1>5. ASSUME Suspend PROVE TypeOK'
  BY <1>5 DEF TypeOK, Suspend
<1>6. ASSUME NEW s \in Slots, ProcessOpen(s) PROVE TypeOK'
  BY <1>6 DEF TypeOK, ProcessOpen, Sync
<1>7. ASSUME NEW s \in Slots, ProcessClose(s) PROVE TypeOK'
  <2>1. CASE state[s] = "INIT"
    BY <1>7, <2>1 DEF TypeOK, ProcessClose
  <2>2. CASE state[s] # "INIT"
    <3>1. SocketClose(s)
      BY <1>7, <2>2 DEF ProcessClose
    <3>2. QED
      BY <1>7, <2>2, <3>1, SocketCloseType DEF TypeOK, ProcessClose
  <2>3. QED BY <2>1, <2>2
<1>8. ASSUME NEW s \in Slots, ReadStart(s) PROVE TypeOK'
  BY <1>8 DEF TypeOK, ReadStart
<1>9. ASSUME NEW s \in Slots, ReadEnd(s) PROVE TypeOK'
  BY <1>9 DEF TypeOK, ReadEnd
<1>10. ASSUME NEW s \in Slots, ReadRestart(s) PROVE TypeOK'
  <2>1. CASE sync[s] = "OPENING"
    <3>1. q' \in [Slots -> Seq(Msg)]
      BY <1>10, <2>1, TailQueue DEF ReadRestart, Reading
    <3>2. QED BY <1>10, <2>1, <3>1 DEF TypeOK, ReadRestart
  <2>2. CASE sync[s] # "OPENING"
    <3>1. SyncReset(s)
      BY <1>10, <2>2 DEF ReadRestart
    <3>2. QED
      BY <1>10, <2>2, <3>1, SocketCloseType DEF TypeOK, ReadRestart, SyncReset, Sync
  <2>3. QED BY <2>1, <2>2
<1>11. ASSUME NEW s \in Slots, ReadOther(s) PROVE TypeOK'
  <2>1. q' \in [Slots -> Seq(Msg)]
    BY <1>11, TailQueue DEF ReadOther, Reading
  <2>2. QED BY <1>11, <2>1 DEF TypeOK, ReadOther
<1>12. ASSUME NEW s \in Slots, ReadDone(s) PROVE TypeOK'
  <2>1. CASE sync[s] = "OPENING"
    <3>1. q' \in [Slots -> Seq(Msg)]
      BY <1>12, <2>1, TailQueue DEF ReadDone, Reading
    <3>2. QED BY <1>12, <2>1, <3>1 DEF TypeOK, ReadDone
  <2>2. CASE sync[s] = "NEIGH"
    <3>1. q' \in [Slots -> Seq(Msg)]
      BY <1>12, <2>2, TailQueue DEF ReadDone, Reading
    <3>2. /\ state' = [state EXCEPT ![s] = "READY"]
          /\ sync' = [sync EXCEPT ![s] = "OPENING"]
          /\ armed' = [armed EXCEPT ![s] = FALSE]
      BY <1>12, <2>2 DEF ReadDone
    <3>3. QED BY <1>12, <2>2, <3>1, <3>2 DEF TypeOK, ReadDone, Sync
  <2>3. CASE sync[s] \notin {"OPENING", "NEIGH"}
    <3>1. NextDump[sync[s]] \in Classes
      BY <2>3 DEF NextDump, Sync, Classes, TypeOK
    <3>2. CASE AskNext(s) /\ UNCHANGED state
      <4>1. seq' \in [Slots -> 0 .. SeqMod - 1]
        BY <3>2, SeqStep DEF TypeOK, AskNext, DumpRequest
      <4>2. /\ dump' \in [Slots -> Classes \cup {"none"}]
            /\ todo' \in [Slots -> SUBSET Objs]
            /\ faults' \in Nat
        BY <3>1, <3>2 DEF TypeOK, AskNext, DumpRequest
      <4>3. q' \in [Slots -> Seq(Msg)]
        BY <1>12, <3>2, TailQueue DEF ReadDone, Reading, AskNext
      <4>4. QED
        BY <1>12, <3>1, <3>2, <4>1, <4>2, <4>3 DEF TypeOK, ReadDone, AskNext, Sync
    <3>3. CASE AskRefused(s) /\ UNCHANGED state
      <4>1. seq' \in [Slots -> 0 .. SeqMod - 1]
        BY <3>3, SeqStep DEF TypeOK, AskRefused
      <4>2. SocketClose(s)
        BY <3>3 DEF AskRefused, SyncReset
      <4>3. /\ sync' \in [Slots -> Sync]
            /\ armed' \in [Slots -> BOOLEAN]
            /\ faults' \in Nat
        BY <3>3 DEF TypeOK, AskRefused, SyncReset, Sync, Fault
      <4>4. QED
        BY <1>12, <3>3, <4>1, <4>2, <4>3, SocketCloseType DEF TypeOK, ReadDone
    <3>4. QED BY <1>12, <2>3, <3>2, <3>3 DEF ReadDone
  <2>4. QED BY <2>1, <2>2, <2>3
<1>13. ASSUME NEW s \in Slots, ExpireRunning(s) PROVE TypeOK'
  <2>1. CASE state[s] = "SYNC"
    <3>1. SyncReset(s) /\ faults' \in Nat
      BY <1>13, <2>1 DEF ExpireRunning, Fault, TypeOK
    <3>2. QED
      BY <1>13, <2>1, <3>1, SocketCloseType DEF TypeOK, ExpireRunning, SyncReset, Sync
  <2>2. CASE state[s] # "SYNC"
    BY <1>13, <2>2 DEF TypeOK, ExpireRunning
  <2>3. QED BY <2>1, <2>2
<1>14. ASSUME NEW s \in Slots, OpenFails(s) PROVE TypeOK'
  BY <1>14 DEF TypeOK, OpenFails, Fault
<1>15. ASSUME NEW s \in Slots, NEW f \in Fds, NEW i \in Files, NEW ok \in BOOLEAN,
              OpenSocket(s, f, i, ok)
       PROVE  TypeOK'
  <2>1. seq' \in [Slots -> 0 .. SeqMod - 1]
    BY <1>15, SeqStep DEF TypeOK, OpenSocket, DumpRequest
  <2>2. /\ dump' \in [Slots -> Classes \cup {"none"}]
        /\ todo' \in [Slots -> SUBSET Objs]
        /\ faults' \in Nat
    BY <1>15 DEF TypeOK, OpenSocket, DumpRequest, Classes, Fault
  <2>3. fdt' \in [Fds -> Owner] /\ ftab' \in [Files -> Owner]
    BY <1>15 DEF TypeOK, OpenSocket, Owner
  <2>4. QED
    BY <1>15, <2>1, <2>2, <2>3 DEF TypeOK, OpenSocket, Sync, Classes
<1>16. ASSUME NEW s \in Slots, NEW o \in Objs, KernelDumpObj(s, o) PROVE TypeOK'
  <2>1. Answer(s, "NEW", o) \in Msg
    BY DEF Answer, Msg, TypeOK
  <2>2. QED BY <1>16, <2>1 DEF TypeOK, KernelDumpObj
<1>17. ASSUME NEW s \in Slots, KernelDumpDone(s) PROVE TypeOK'
  <2>1. Answer(s, "DONE", NoObj) \in Msg
    BY DEF Answer, Msg, TypeOK
  <2>2. QED BY <1>17, <2>1 DEF TypeOK, KernelDumpDone
<1>18. ASSUME NEW s \in Slots, KernelError(s) PROVE TypeOK'
  <2>1. Answer(s, "ERROR", NoObj) \in Msg
    BY DEF Answer, Msg, TypeOK
  <2>2. QED BY <1>18, <2>1 DEF TypeOK, KernelError, Fault
<1>19. ASSUME NEW n \in Names, NEW o \in Objs, NEW h \in NoteHdrs, KernelChange(n, o, h)
       PROVE  TypeOK'
  <2> DEFINE note == [kind |-> IF o \in kern[n] THEN "DEL" ELSE "NEW", obj |-> o,
                      seq |-> h.seq, notify |-> h.notify]
  <2>1. note \in Msg
    BY RtnlConstants DEF Msg
  <2>2. q' \in [Slots -> Seq(Msg)]
    BY <1>19, <2>1 DEF TypeOK, KernelChange
  <2>3. /\ lost' \in [Slots -> BOOLEAN]
        /\ todo' \in [Slots -> SUBSET Objs]
        /\ kern' \in [Names -> SUBSET Objs]
    BY <1>19 DEF TypeOK, KernelChange
  <2>4. QED
    BY <1>19, <2>2, <2>3 DEF TypeOK, KernelChange
<1>20. CASE UNCHANGED vars
  BY <1>20 DEF TypeOK, vars
<1>21. QED
  BY <1>1, <1>2, <1>3, <1>4, <1>5, <1>6, <1>7, <1>8, <1>9, <1>10, <1>11,
     <1>12, <1>13, <1>14, <1>15, <1>16, <1>17, <1>18, <1>19, <1>20
     DEF Next, Process, Read, Expire, KernelAnswer

-----------------------------------------------------------------------------
(***************************************************************************)
(* What a close does to the tables, seen from every slot x.                *)
(***************************************************************************)
LEMMA SocketCloseEffect ==
    ASSUME TypeOK, NoSocketLeak, OneDump, NEW s \in Slots, SocketClose(s),
           UNCHANGED <<sock, uix>>
    PROVE  /\ \A f \in Fds : fdt'[f] \in Slots => fdt'[f] = fdt[f] /\ f # sock[s]
           /\ \A i \in Files : ftab'[i] \in Slots => ftab'[i] = ftab[i] /\ i # uix[s]
           /\ \A x \in Slots : HasFd(x)' <=> HasFd(x) /\ sock[x] # sock[s]
           /\ \A x \in Slots : HasFile(x)' <=> HasFile(x) /\ uix[x] # uix[s]
           /\ \A x \in Slots : HasFd(x)' => q'[x] = q[x] /\ dump'[x] = dump[x]
           /\ \A x \in Slots : HasFd(x)' => todo'[x] = todo[x]
           /\ \A x \in Slots : ~HasFd(x)' => q'[x] = <<>> /\ dump'[x] = "none"
           /\ ~wild' => /\ ~wild /\ HasFile(s)
                        /\ sock[s] \in Fds => fdt[sock[s]] \in {s, "free"}
<1> DEFINE dead == {x \in Slots : sock[s] \in Fds /\ fdt[sock[s]] = x}
<1>1. /\ fdt' = [f \in Fds |-> IF f = sock[s] THEN "free" ELSE fdt[f]]
      /\ ftab' = [i \in Files |-> IF i = uix[s] THEN "free" ELSE ftab[i]]
  BY DEF SocketClose, CloseFd, Release, TypeOK
<1>2. /\ q' = [x \in Slots |-> IF x \in dead THEN <<>> ELSE q[x]]
      /\ dump' = [x \in Slots |-> IF x \in dead THEN "none" ELSE dump[x]]
  BY DEF SocketClose, CloseFd
<1>3. "free" \notin Slots
  BY RtnlConstants
<1>4. \A f \in Fds : fdt'[f] \in Slots => fdt'[f] = fdt[f] /\ f # sock[s]
  BY <1>1, <1>3
<1>5. \A i \in Files : ftab'[i] \in Slots => ftab'[i] = ftab[i] /\ i # uix[s]
  BY <1>1, <1>3
<1>6. \A x \in Slots : HasFd(x)' <=> HasFd(x) /\ sock[x] # sock[s]
  BY <1>1, <1>3 DEF HasFd
<1>7. \A x \in Slots : HasFile(x)' <=> HasFile(x) /\ uix[x] # uix[s]
  BY <1>1, <1>3 DEF HasFile, TypeOK
<1>8. \A x \in dead : HasFd(x) /\ sock[x] = sock[s]
  BY DEF NoSocketLeak, HasFd
<1>9. \A x \in Slots : HasFd(x)' => q'[x] = q[x] /\ dump'[x] = dump[x]
  BY <1>2, <1>6, <1>8
<1>10. \A x \in Slots : ~HasFd(x)' => q'[x] = <<>> /\ dump'[x] = "none"
  <2> SUFFICES ASSUME NEW x \in Slots, ~HasFd(x)'
               PROVE  q'[x] = <<>> /\ dump'[x] = "none"
    OBVIOUS
  <2>1. CASE HasFd(x)
    <3>1. x \in dead
      BY <1>6, <2>1 DEF HasFd
    <3>2. QED BY <1>2, <3>1
  <2>2. CASE ~HasFd(x)
    BY <1>2, <2>2 DEF OneDump
  <2>3. QED BY <2>1, <2>2
<1>11. ~wild' => /\ ~wild /\ HasFile(s)
                 /\ sock[s] \in Fds => fdt[sock[s]] \in {s, "free"}
  BY DEF SocketClose
<1>12. \A x \in Slots : HasFd(x)' => todo'[x] = todo[x]
  BY <1>6, <1>8 DEF SocketClose, CloseFd
<1>13. QED
  BY <1>4, <1>5, <1>6, <1>7, <1>9, <1>10, <1>11, <1>12

\* With no stream there is nothing to own, to wait for or to close.
LEMMA InvInit == Init => Inv
<1> SUFFICES ASSUME Init PROVE Inv
  OBVIOUS
<1>1. TypeOK
  BY TypeInit
<1>2. \A s \in Slots : ~HasFd(s) /\ ~HasFile(s)
  BY RtnlConstants DEF Init, HasFd, HasFile
<1>3. NoSocketLeak
  BY RtnlConstants DEF Init, NoSocketLeak
<1>4. SocketOwned /\ DeadlineIffSync /\ CloseFindsOpened /\ StateHygiene
  BY DEF Init, SocketOwned, DeadlineIffSync, CloseFindsOpened, StateHygiene,
         Connected, Syncing
<1>5. OneDump
  <2>1. \A s \in Slots : q[s] = <<>> /\ dump[s] = "none"
    BY DEF Init
  <2>2. DOMAIN <<>> = {}
    OBVIOUS
  <2>3. QED BY <2>1, <2>2 DEF OneDump
<1>6. QED
  BY <1>1, <1>3, <1>4, <1>5 DEF Inv

(***************************************************************************)
(* A reset of a stream that has a socket.                                  *)
(***************************************************************************)
LEMMA ResetStep ==
    ASSUME Inv, TypeOK', NEW s \in Slots, SyncReset(s), Syncing(s),
           UNCHANGED <<alloc, state, sock, uix, opens, closes>>,
           \A x \in Slots \ {s} : seq'[x] = seq[x]
    PROVE  Inv' /\ (wild' => wild)
<1> USE DEF Inv
<1>1. /\ SocketClose(s)
      /\ sync' = [sync EXCEPT ![s] = "OPENING"]
      /\ armed' = [armed EXCEPT ![s] = TRUE]
  BY DEF SyncReset
<1>2. /\ \A f \in Fds : fdt'[f] \in Slots => fdt'[f] = fdt[f] /\ f # sock[s]
      /\ \A i \in Files : ftab'[i] \in Slots => ftab'[i] = ftab[i] /\ i # uix[s]
      /\ \A x \in Slots : HasFd(x)' <=> HasFd(x) /\ sock[x] # sock[s]
      /\ \A x \in Slots : HasFile(x)' <=> HasFile(x) /\ uix[x] # uix[s]
      /\ \A x \in Slots : HasFd(x)' => q'[x] = q[x] /\ dump'[x] = dump[x]
      /\ \A x \in Slots : ~HasFd(x)' => q'[x] = <<>> /\ dump'[x] = "none"
      /\ ~wild' => /\ ~wild /\ HasFile(s)
                   /\ sock[s] \in Fds => fdt[sock[s]] \in {s, "free"}
  BY <1>1, SocketCloseEffect
<1>3. \A x \in Slots : Connected(x)' <=> Connected(x) /\ x # s
  BY <1>1 DEF Connected, Syncing, TypeOK
<1>4. \A x \in Slots : Syncing(x)' <=> Syncing(x) /\ x # s
  BY <1>1 DEF Syncing, TypeOK
<1>5. NoSocketLeak'
  BY <1>2, <1>3 DEF NoSocketLeak
<1>6. SocketOwned'
  <2> SUFFICES ASSUME ~wild', NEW x \in Slots, Connected(x)'
               PROVE  HasFd(x)' /\ HasFile(x)'
    BY DEF SocketOwned
  <2>1. x # s /\ HasFd(x) /\ HasFile(x)
    BY <1>2, <1>3 DEF SocketOwned
  <2>2. sock[x] # sock[s] /\ uix[x] # uix[s]
    BY <1>2, <2>1, RtnlConstants DEF HasFd, HasFile
  <2>3. QED BY <1>2, <2>1, <2>2
<1>7. OneDump'
  <2> SUFFICES ASSUME NEW x \in Slots, HasFd(x)'
               PROVE  /\ dump'[x] # "none" => Syncing(x)'
                      /\ \A i \in DOMAIN q'[x] : q'[x][i].kind = "DONE" =>
                           /\ Syncing(x)' /\ dump'[x] = "none"
                           /\ q'[x][i].seq = seq'[x] /\ ~q'[x][i].notify
                           /\ \A j \in DOMAIN q'[x] : q'[x][j].kind = "DONE" => j = i
    BY <1>2 DEF OneDump
  <2>1. x # s
    BY <1>2
  <2>2. q'[x] = q[x] /\ dump'[x] = dump[x] /\ seq'[x] = seq[x] /\ (Syncing(x)' <=> Syncing(x))
    BY <1>2, <1>4, <2>1
  <2>3. QED BY <2>2 DEF OneDump
<1>8. DeadlineIffSync' /\ CloseFindsOpened' /\ StateHygiene'
  BY <1>1 DEF DeadlineIffSync, CloseFindsOpened, StateHygiene, Syncing, TypeOK
<1>9. wild' => wild
  <2> SUFFICES ASSUME ~wild PROVE ~wild'
    OBVIOUS
  <2>1. HasFd(s) /\ HasFile(s)
    BY DEF SocketOwned, Connected
  <2>2. QED BY <1>1, <2>1 DEF SocketClose, HasFd
<1>10. QED
  BY <1>5, <1>6, <1>7, <1>8, <1>9

(***************************************************************************)
(* Steps that leave the sockets, their queues and rtnl_seq alone.          *)
(***************************************************************************)
LEMMA FrameStep ==
    ASSUME Inv, TypeOK',
           UNCHANGED <<sock, uix, fdt, ftab, seq, dump, wild>>,
           \A x \in Slots : \/ q'[x] = q[x]
                            \/ q[x] # <<>> /\ q'[x] = Tail(q[x]),
           \A x \in Slots : Connected(x)' <=> Connected(x),
           \A x \in Slots : Syncing(x)' <=> Syncing(x)
    PROVE  NoSocketLeak' /\ SocketOwned' /\ OneDump'
<1> USE DEF Inv
<1>1. \A x \in Slots : (HasFd(x)' <=> HasFd(x)) /\ (HasFile(x)' <=> HasFile(x))
  BY DEF HasFd, HasFile
<1>2. NoSocketLeak'
  BY DEF NoSocketLeak
<1>3. SocketOwned'
  BY <1>1 DEF SocketOwned
<1>4. OneDump'
  <2> SUFFICES ASSUME NEW x \in Slots
               PROVE  /\ ~HasFd(x)' => q'[x] = <<>> /\ dump'[x] = "none"
                      /\ dump'[x] # "none" => Syncing(x)'
                      /\ \A i \in DOMAIN q'[x] : q'[x][i].kind = "DONE" =>
                           /\ Syncing(x)' /\ dump'[x] = "none"
                           /\ q'[x][i].seq = seq'[x] /\ ~q'[x][i].notify
                           /\ \A j \in DOMAIN q'[x] : q'[x][j].kind = "DONE" => j = i
    BY DEF OneDump
  <2>1. CASE q'[x] = q[x]
    BY <1>1, <2>1 DEF OneDump
  <2>2. CASE q[x] # <<>> /\ q'[x] = Tail(q[x])
    <3>1. /\ DOMAIN q'[x] = 1 .. Len(q[x]) - 1
          /\ DOMAIN q[x] = 1 .. Len(q[x])
          /\ Len(q[x]) \in Nat
          /\ \A i \in DOMAIN q'[x] : q'[x][i] = q[x][i + 1]
      BY <2>2 DEF TypeOK
    <3>2. \A i \in DOMAIN q'[x] : i \in Nat /\ i + 1 \in DOMAIN q[x]
      BY <3>1
    <3>3. ASSUME NEW i \in DOMAIN q'[x], q'[x][i].kind = "DONE"
          PROVE  /\ Syncing(x)' /\ dump'[x] = "none"
                 /\ q'[x][i].seq = seq'[x] /\ ~q'[x][i].notify
                 /\ \A j \in DOMAIN q'[x] : q'[x][j].kind = "DONE" => j = i
      <4>1. /\ Syncing(x) /\ dump[x] = "none"
            /\ q[x][i + 1].seq = seq[x] /\ ~q[x][i + 1].notify
            /\ \A j \in DOMAIN q[x] : q[x][j].kind = "DONE" => j = i + 1
        BY <3>1, <3>2, <3>3 DEF OneDump
      <4>2. ASSUME NEW j \in DOMAIN q'[x], q'[x][j].kind = "DONE" PROVE j = i
        <5>1. j + 1 = i + 1
          BY <3>1, <3>2, <4>1, <4>2
        <5>2. QED BY <5>1, <3>2
      <4>3. QED BY <3>1, <3>2, <4>1, <4>2
    <3>4. QED BY <1>1, <2>2, <3>3 DEF OneDump
  <2>3. QED BY <2>1, <2>2
<1>5. QED BY <1>2, <1>3, <1>4

\* Behind the end of a dump the queue holds no other.
LEMMA NoMoreDone ==
    ASSUME TypeOK, OneDump, NEW s \in Slots, q[s] # <<>>,
           Head(q[s]).kind = "DONE"
    PROVE  /\ Syncing(s) /\ dump[s] = "none" /\ ~Restarts(s, Head(q[s]))
           /\ \A i \in DOMAIN Tail(q[s]) : Tail(q[s])[i].kind # "DONE"
<1>1. /\ DOMAIN Tail(q[s]) = 1 .. Len(q[s]) - 1
      /\ DOMAIN q[s] = 1 .. Len(q[s])
      /\ Len(q[s]) \in Nat /\ 1 \in DOMAIN q[s]
      /\ Head(q[s]) = q[s][1]
      /\ \A i \in DOMAIN Tail(q[s]) : Tail(q[s])[i] = q[s][i + 1]
  BY DEF TypeOK
<1>2. /\ Syncing(s) /\ dump[s] = "none" /\ q[s][1].seq = seq[s] /\ ~q[s][1].notify
      /\ \A j \in DOMAIN q[s] : q[s][j].kind = "DONE" => j = 1
  BY <1>1 DEF OneDump
<1>3. \A i \in DOMAIN Tail(q[s]) : i + 1 \in DOMAIN q[s] /\ i + 1 # 1
  BY <1>1
<1>4. QED BY <1>1, <1>2, <1>3 DEF Restarts

\* Every API call, callback, handler and kernel step keeps the invariant.
LEMMA InvStep == Inv /\ [Next]_vars => Inv'
<1> SUFFICES ASSUME Inv, [Next]_vars PROVE Inv'
  OBVIOUS
<1> USE DEF Inv
<1> TypeOK'
  BY TypeStep
<1> USE DEF streams, events, sockets, world
<1>1. ASSUME NEW s \in Slots, NEW n \in Names, StreamOpen(s, n) PROVE Inv'
  <2>1. \A x \in Slots : /\ Connected(x)' <=> Connected(x)
                         /\ Syncing(x)' <=> Syncing(x)
    BY <1>1 DEF StreamOpen, Connected, Syncing, TypeOK
  <2>2. DeadlineIffSync' /\ CloseFindsOpened' /\ StateHygiene'
    BY <1>1 DEF StreamOpen, DeadlineIffSync, CloseFindsOpened, StateHygiene, TypeOK
  <2>3. QED BY <1>1, <2>1, <2>2, FrameStep DEF StreamOpen
<1>2. ASSUME NEW s \in Slots, StreamClose(s) PROVE Inv'
  <2>1. \A x \in Slots : /\ Connected(x)' <=> Connected(x)
                         /\ Syncing(x)' <=> Syncing(x)
    BY <1>2 DEF StreamClose, Connected, Syncing
  <2>2. DeadlineIffSync' /\ CloseFindsOpened' /\ StateHygiene'
    BY <1>2 DEF StreamClose, DeadlineIffSync, CloseFindsOpened, StateHygiene
  <2>3. QED BY <1>2, <2>1, <2>2, FrameStep DEF StreamClose
<1>3. ASSUME NEW s \in Slots, ReadCb(s) \/ ReadStart(s) \/ ReadEnd(s) \/ ReadOther(s)
      PROVE  Inv'
  <2>1. UNCHANGED <<streams, opens, closes, fdt, ftab, dump, wild>>
    BY <1>3 DEF ReadCb, ReadStart, ReadEnd, ReadOther
  <2>2. \A x \in Slots : \/ q'[x] = q[x]
                         \/ q[x] # <<>> /\ q'[x] = Tail(q[x])
    BY <1>3 DEF ReadCb, ReadStart, ReadEnd, ReadOther, Reading, TypeOK
  <2>3. \A x \in Slots : /\ Connected(x)' <=> Connected(x)
                         /\ Syncing(x)' <=> Syncing(x)
    BY <2>1 DEF Connected, Syncing
  <2>4. DeadlineIffSync' /\ CloseFindsOpened' /\ StateHygiene'
    BY <2>1 DEF DeadlineIffSync, CloseFindsOpened, StateHygiene
  <2>5. QED BY <2>1, <2>2, <2>3, <2>4, FrameStep
<1>4. ASSUME Resume \/ Suspend \/ UNCHANGED vars PROVE Inv'
  <2>1. UNCHANGED <<streams, opens, closes, fdt, ftab, q, dump, wild>>
    BY <1>4 DEF Resume, Suspend, vars
  <2>2. \A x \in Slots : /\ Connected(x)' <=> Connected(x)
                         /\ Syncing(x)' <=> Syncing(x)
    BY <2>1 DEF Connected, Syncing
  <2>3. DeadlineIffSync' /\ CloseFindsOpened' /\ StateHygiene'
    BY <2>1 DEF DeadlineIffSync, CloseFindsOpened, StateHygiene
  <2>4. QED BY <2>1, <2>2, <2>3, FrameStep
<1>5. ASSUME NEW s \in Slots, ProcessOpen(s) PROVE Inv'
  <2>1. s \in alloc /\ state[s] = "INIT"
    BY <1>5 DEF ProcessOpen, CloseFindsOpened
  <2>2. /\ state' = [state EXCEPT ![s] = "SYNC"]
        /\ sync' = [sync EXCEPT ![s] = "OPENING"]
        /\ armed' = [armed EXCEPT ![s] = TRUE]
    BY <1>5, <2>1 DEF ProcessOpen
  <2>3. \A x \in Slots : /\ Connected(x)' <=> Connected(x)
                         /\ Syncing(x)' <=> Syncing(x)
    BY <1>5, <2>1, <2>2 DEF ProcessOpen, Connected, Syncing, TypeOK
  <2>4. DeadlineIffSync' /\ CloseFindsOpened' /\ StateHygiene'
    BY <1>5, <2>1, <2>2
       DEF ProcessOpen, DeadlineIffSync, CloseFindsOpened, StateHygiene, TypeOK
  <2>5. QED BY <1>5, <2>3, <2>4, FrameStep DEF ProcessOpen
<1>6. ASSUME NEW s \in Slots, ProcessClose(s) PROVE Inv'
  <2>1. s \in alloc /\ state[s] # "INIT"
    BY <1>6 DEF ProcessClose, CloseFindsOpened
  <2>2. SocketClose(s) /\ alloc' = alloc \ {s}
    BY <1>6, <2>1 DEF ProcessClose
  <2>3. /\ \A f \in Fds : fdt'[f] \in Slots => fdt'[f] = fdt[f] /\ f # sock[s]
        /\ \A i \in Files : ftab'[i] \in Slots => ftab'[i] = ftab[i] /\ i # uix[s]
        /\ \A x \in Slots : HasFd(x)' <=> HasFd(x) /\ sock[x] # sock[s]
        /\ \A x \in Slots : HasFile(x)' <=> HasFile(x) /\ uix[x] # uix[s]
        /\ \A x \in Slots : HasFd(x)' => q'[x] = q[x] /\ dump'[x] = dump[x]
        /\ \A x \in Slots : ~HasFd(x)' => q'[x] = <<>> /\ dump'[x] = "none"
        /\ ~wild' => /\ ~wild /\ HasFile(s)
                     /\ sock[s] \in Fds => fdt[sock[s]] \in {s, "free"}
    BY <1>6, <2>2, SocketCloseEffect DEF ProcessClose
  <2>4. \A x \in Slots : /\ Connected(x)' <=> Connected(x) /\ x # s
                         /\ Syncing(x)' <=> Syncing(x) /\ x # s
    BY <1>6, <2>2 DEF ProcessClose, Connected, Syncing
  <2>5. NoSocketLeak'
    <3>1. UNCHANGED <<sock, uix>>
      BY <1>6 DEF ProcessClose
    <3>2. QED BY <2>3, <2>4, <3>1 DEF NoSocketLeak
  <2>6. SocketOwned'
    <3> SUFFICES ASSUME ~wild', NEW x \in Slots, Connected(x)'
                 PROVE  HasFd(x)' /\ HasFile(x)'
      BY DEF SocketOwned
    <3>1. x # s /\ HasFd(x) /\ HasFile(x)
      BY <2>3, <2>4 DEF SocketOwned
    <3>2. sock[x] # sock[s] /\ uix[x] # uix[s]
      BY <2>3, <3>1, RtnlConstants DEF HasFd, HasFile
    <3>3. QED BY <2>3, <3>1, <3>2
  <2>7. OneDump'
    <3> SUFFICES ASSUME NEW x \in Slots, HasFd(x)'
                 PROVE  /\ dump'[x] # "none" => Syncing(x)'
                        /\ \A i \in DOMAIN q'[x] : q'[x][i].kind = "DONE" =>
                             /\ Syncing(x)' /\ dump'[x] = "none"
                             /\ q'[x][i].seq = seq'[x] /\ ~q'[x][i].notify
                             /\ \A j \in DOMAIN q'[x] : q'[x][j].kind = "DONE" => j = i
      BY <2>3 DEF OneDump
    <3>1. x # s
      BY <2>3
    <3>2. q'[x] = q[x] /\ dump'[x] = dump[x] /\ seq'[x] = seq[x] /\ (Syncing(x)' <=> Syncing(x))
      BY <1>6, <2>3, <2>4, <3>1 DEF ProcessClose
    <3>3. QED BY <3>2 DEF OneDump
  <2>8. DeadlineIffSync' /\ CloseFindsOpened' /\ StateHygiene'
    BY <1>6, <2>2 DEF ProcessClose, DeadlineIffSync, CloseFindsOpened, StateHygiene
  <2>9. QED BY <2>5, <2>6, <2>7, <2>8
<1>7. ASSUME NEW s \in Slots, ReadRestart(s) PROVE Inv'
  <2>1. Connected(s) /\ state[s] = "SYNC"
    BY <1>7 DEF ReadRestart, Reading, Restarts, HasFd, NoSocketLeak
  <2>2. Syncing(s)
    BY <2>1 DEF Connected, Syncing
  <2>3. SyncReset(s)
    BY <1>7, <2>2 DEF ReadRestart, Syncing
  <2>4. QED BY <1>7, <2>2, <2>3, ResetStep DEF ReadRestart
<1>8. ASSUME NEW s \in Slots, ReadDone(s) PROVE Inv'
  <2>1. /\ Syncing(s) /\ dump[s] = "none"
        /\ \A i \in DOMAIN Tail(q[s]) : Tail(q[s])[i].kind # "DONE"
    BY <1>8, NoMoreDone DEF ReadDone, Reading
  <2>2. CASE AskRefused(s) /\ UNCHANGED state
    <3>1. \A x \in Slots \ {s} : seq'[x] = seq[x]
      BY <2>2 DEF AskRefused, TypeOK
    <3>2. QED BY <1>8, <2>1, <2>2, <3>1, ResetStep DEF ReadDone, AskRefused
  <2>3. ASSUME q' = [q EXCEPT ![s] = Tail(@)],
               \A x \in Slots \ {s} : /\ seq'[x] = seq[x] /\ dump'[x] = dump[x]
                                      /\ Syncing(x)' <=> Syncing(x),
               \A x \in Slots : Connected(x)' <=> Connected(x),
               UNCHANGED <<sock, uix, fdt, ftab, wild>>,
               dump'[s] # "none" => Syncing(s)'
        PROVE  NoSocketLeak' /\ SocketOwned' /\ OneDump'
    <3>1. \A x \in Slots : (HasFd(x)' <=> HasFd(x)) /\ (HasFile(x)' <=> HasFile(x))
      BY <2>3 DEF HasFd, HasFile
    <3>2. NoSocketLeak'
      BY <2>3 DEF NoSocketLeak
    <3>3. SocketOwned'
      BY <2>3, <3>1 DEF SocketOwned
    <3>4. \A x \in Slots \ {s} : q'[x] = q[x]
      BY <2>3 DEF TypeOK
    <3>5. q'[s] = Tail(q[s]) /\ HasFd(s)
      BY <1>8, <2>3 DEF TypeOK, ReadDone, Reading
    <3>6. OneDump'
      <4> SUFFICES ASSUME NEW x \in Slots
                   PROVE  /\ ~HasFd(x)' => q'[x] = <<>> /\ dump'[x] = "none"
                          /\ dump'[x] # "none" => Syncing(x)'
                          /\ \A i \in DOMAIN q'[x] : q'[x][i].kind = "DONE" =>
                               /\ Syncing(x)' /\ dump'[x] = "none"
                               /\ q'[x][i].seq = seq'[x] /\ ~q'[x][i].notify
                               /\ \A j \in DOMAIN q'[x] : q'[x][j].kind = "DONE" => j = i
        BY DEF OneDump
      <4>1. CASE x = s
        <5>2. \A i \in DOMAIN q'[s] : q'[s][i].kind # "DONE"
          BY <2>1, <3>5
        <5>3. HasFd(s)'
          BY <3>1, <3>5
        <5>4. QED BY <2>3, <4>1, <5>2, <5>3
      <4>2. CASE x # s
        BY <2>3, <3>1, <3>4, <4>2 DEF OneDump
      <4>3. QED BY <4>1, <4>2
    <3>7. QED BY <3>2, <3>3, <3>6
  <2>4. CASE sync[s] \notin {"OPENING", "NEIGH"} /\ AskNext(s) /\ UNCHANGED state
    <3>1. NextDump[sync[s]] \in Classes
      BY <2>4 DEF NextDump, Sync, Classes, TypeOK
    <3>2. /\ q' = [q EXCEPT ![s] = Tail(@)]
          /\ sync' = [sync EXCEPT ![s] = NextDump[@]]
          /\ armed' = [armed EXCEPT ![s] = TRUE]
          /\ UNCHANGED <<alloc, state, sock, uix, opens, closes, fdt, ftab, wild>>
      BY <1>8, <2>4 DEF AskNext, ReadDone
    <3>3. \A x \in Slots : /\ Syncing(x)' <=> Syncing(x)
                           /\ Connected(x)' <=> Connected(x)
      BY <2>1, <3>1, <3>2 DEF Syncing, Connected, Classes, TypeOK
    <3>4. \A x \in Slots \ {s} : seq'[x] = seq[x] /\ dump'[x] = dump[x]
      BY <2>4 DEF AskNext, DumpRequest, TypeOK
    <3>5. NoSocketLeak' /\ SocketOwned' /\ OneDump'
      BY <2>1, <2>3, <3>2, <3>3, <3>4
    <3>6. DeadlineIffSync' /\ CloseFindsOpened' /\ StateHygiene'
      BY <2>1, <3>2 DEF Syncing, DeadlineIffSync, CloseFindsOpened, StateHygiene, TypeOK
    <3>7. QED BY <3>5, <3>6
  <2>5. CASE sync[s] = "NEIGH"
    <3>1. /\ q' = [q EXCEPT ![s] = Tail(@)]
          /\ state' = [state EXCEPT ![s] = "READY"]
          /\ sync' = [sync EXCEPT ![s] = "OPENING"]
          /\ armed' = [armed EXCEPT ![s] = FALSE]
          /\ UNCHANGED <<alloc, sock, uix, seq, dump, opens, closes, fdt, ftab, wild>>
      BY <1>8, <2>5 DEF ReadDone
    <3>2. \A x \in Slots : Connected(x)' <=> Connected(x)
      BY <2>1, <3>1 DEF Syncing, Connected, TypeOK
    <3>3. \A x \in Slots \ {s} : Syncing(x)' <=> Syncing(x)
      BY <3>1 DEF Syncing, TypeOK
    <3>4. NoSocketLeak' /\ SocketOwned' /\ OneDump'
      BY <2>1, <2>3, <3>1, <3>2, <3>3
    <3>5. DeadlineIffSync' /\ CloseFindsOpened' /\ StateHygiene'
      BY <2>1, <3>1 DEF Syncing, DeadlineIffSync, CloseFindsOpened, StateHygiene, TypeOK
    <3>6. QED BY <3>4, <3>5
  <2>6. QED BY <1>8, <2>1, <2>2, <2>4, <2>5 DEF ReadDone, Syncing
<1>9. ASSUME NEW s \in Slots, ExpireRunning(s) PROVE Inv'
  <2>1. Syncing(s)
    BY <1>9 DEF ExpireRunning, Due, Quiet, Opening, DeadlineIffSync, Syncing
  <2>2. QED BY <1>9, <2>1, ResetStep DEF ExpireRunning, Syncing
<1>10. ASSUME NEW s \in Slots, OpenFails(s) PROVE Inv'
  <2>1. UNCHANGED <<alloc, state, sync, uix, armed, opens, closes, fdt, ftab,
                    seq, dump, q, wild>>
    BY <1>10 DEF OpenFails
  <2>2. ~Connected(s) /\ ~HasFd(s)
    BY <1>10 DEF OpenFails, Opening, Connected, Syncing, NoSocketLeak, HasFd
  <2>3. PICK f \in {sock[s], NoFd} \cup {f \in Fds : fdt[f] = "free"} :
               sock' = [sock EXCEPT ![s] = f]
    BY <1>10 DEF OpenFails
  <2>4. \A x \in Slots : HasFd(x)' <=> HasFd(x)
    BY <2>1, <2>2, <2>3, RtnlConstants DEF HasFd, TypeOK
  <2>5. \A x \in Slots : /\ Connected(x)' <=> Connected(x)
                         /\ Syncing(x)' <=> Syncing(x)
                         /\ HasFile(x)' <=> HasFile(x)
    BY <2>1 DEF Connected, Syncing, HasFile
  <2>6. NoSocketLeak'
    BY <2>1, <2>2, <2>3, <2>5 DEF NoSocketLeak, TypeOK
  <2>7. SocketOwned' /\ OneDump'
    BY <2>1, <2>4, <2>5 DEF SocketOwned, OneDump
  <2>8. DeadlineIffSync' /\ CloseFindsOpened' /\ StateHygiene'
    BY <2>1 DEF DeadlineIffSync, CloseFindsOpened, StateHygiene
  <2>9. QED BY <2>6, <2>7, <2>8
<1>11. ASSUME NEW s \in Slots, NEW f \in Fds, NEW i \in Files, NEW ok \in BOOLEAN,
              OpenSocket(s, f, i, ok)
       PROVE  Inv'
  <2>1. /\ sock' = [sock EXCEPT ![s] = f]
        /\ uix' = [uix EXCEPT ![s] = i]
        /\ fdt' = [fdt EXCEPT ![f] = s]
        /\ ftab' = [ftab EXCEPT ![i] = s]
        /\ sync' = [sync EXCEPT ![s] = "LINK"]
        /\ fdt[f] = "free" /\ ftab[i] = "free"
        /\ UNCHANGED <<alloc, state, armed, opens, closes, q, wild>>
    BY <1>11 DEF OpenSocket
  <2>2. s \in alloc /\ state[s] = "SYNC" /\ sync[s] = "OPENING"
    BY <1>11 DEF OpenSocket, Opening, Due
  <2>3. ~Connected(s) /\ ~HasFd(s)
    BY <2>2 DEF Connected, Syncing, NoSocketLeak, HasFd
  <2>4. q[s] = <<>>
    BY <2>3 DEF OneDump
  <2>5. /\ \A x \in Slots \ {s} : /\ Connected(x)' <=> Connected(x)
                                  /\ Syncing(x)' <=> Syncing(x)
        /\ Syncing(s)' /\ Connected(s)'
    BY <2>1, <2>2 DEF Connected, Syncing, TypeOK
  <2>6. \A x \in Slots \ {s} : seq'[x] = seq[x] /\ dump'[x] = dump[x]
    BY <1>11 DEF OpenSocket, DumpRequest, TypeOK
  <2>7. \A x \in Slots \ {s} : /\ HasFd(x)' <=> HasFd(x)
                               /\ HasFile(x)' <=> HasFile(x)
    BY <2>1, RtnlConstants DEF HasFd, HasFile, TypeOK
  <2>8. HasFd(s)' /\ HasFile(s)'
    BY <2>1 DEF HasFd, HasFile, TypeOK
  <2>9. NoSocketLeak'
    BY <2>1, <2>3, <2>5 DEF NoSocketLeak, TypeOK
  <2>10. SocketOwned'
    BY <2>1, <2>5, <2>7, <2>8 DEF SocketOwned
  <2>11. OneDump'
    <3>1. \A j \in DOMAIN q'[s] : FALSE
      BY <2>1, <2>4
    <3>2. QED BY <2>1, <2>5, <2>6, <2>7, <2>8, <3>1 DEF OneDump
  <2>12. DeadlineIffSync' /\ CloseFindsOpened' /\ StateHygiene'
    BY <2>1, <2>2 DEF DeadlineIffSync, CloseFindsOpened, StateHygiene, TypeOK
  <2>13. QED BY <2>9, <2>10, <2>11, <2>12
<1>12. ASSUME NEW s \in Slots, KernelAnswer(s) \/ KernelError(s) PROVE Inv'
  <2>1. /\ UNCHANGED <<streams, opens, closes, fdt, ftab, wild>>
        /\ dump[s] # "none"
        /\ \A x \in Slots \ {s} : q'[x] = q[x] /\ dump'[x] = dump[x]
    BY <1>12 DEF KernelAnswer, KernelDumpObj, KernelDumpDone, KernelError, TypeOK
  <2>2. PICK m : /\ q'[s] = Append(q[s], m)
                 /\ m.seq = seq[s] /\ m.notify = FALSE
                 /\ m.kind = "DONE" => dump'[s] = "none"
                 /\ dump'[s] \in {dump[s], "none"}
    <3>1. ASSUME NEW k \in {"NEW", "DONE", "ERROR"}, NEW o,
                 q'[s] = Append(q[s], Answer(s, k, o)),
                 dump'[s] = IF k = "NEW" THEN dump[s] ELSE "none"
          PROVE  \E m : /\ q'[s] = Append(q[s], m)
                        /\ m.seq = seq[s] /\ m.notify = FALSE
                        /\ m.kind = "DONE" => dump'[s] = "none"
                        /\ dump'[s] \in {dump[s], "none"}
      <4>1. /\ Answer(s, k, o).kind = k /\ Answer(s, k, o).seq = seq[s]
            /\ Answer(s, k, o).notify = FALSE
        BY DEF Answer
      <4>2. QED BY <3>1, <4>1
    <3>2. ASSUME NEW o \in Objs, KernelDumpObj(s, o)
          PROVE  q'[s] = Append(q[s], Answer(s, "NEW", o)) /\ dump'[s] = dump[s]
      BY <3>2 DEF KernelDumpObj, TypeOK
    <3>3. CASE KernelDumpDone(s)
      <4>1. q'[s] = Append(q[s], Answer(s, "DONE", NoObj)) /\ dump'[s] = "none"
        BY <3>3 DEF KernelDumpDone, TypeOK
      <4>2. QED BY <3>1, <4>1
    <3>4. CASE KernelError(s)
      <4>1. q'[s] = Append(q[s], Answer(s, "ERROR", NoObj)) /\ dump'[s] = "none"
        BY <3>4 DEF KernelError, TypeOK
      <4>2. QED BY <3>1, <4>1
    <3>5. CASE \E o \in Objs : KernelDumpObj(s, o)
      BY <3>1, <3>2, <3>5
    <3>6. QED BY <1>12, <3>3, <3>4, <3>5 DEF KernelAnswer
  <2>3. HasFd(s) /\ Syncing(s) /\ \A i \in DOMAIN q[s] : q[s][i].kind # "DONE"
    BY <2>1 DEF OneDump
  <2>4. \A x \in Slots : /\ HasFd(x)' <=> HasFd(x)
                         /\ HasFile(x)' <=> HasFile(x)
                         /\ Connected(x)' <=> Connected(x)
                         /\ Syncing(x)' <=> Syncing(x)
    BY <2>1 DEF HasFd, HasFile, Connected, Syncing
  <2>5. NoSocketLeak' /\ SocketOwned'
    BY <2>1, <2>4 DEF NoSocketLeak, SocketOwned
  <2>6. OneDump'
    <3>1. /\ DOMAIN q'[s] = 1 .. Len(q[s]) + 1
          /\ DOMAIN q[s] = 1 .. Len(q[s]) /\ Len(q[s]) \in Nat
          /\ q'[s][Len(q[s]) + 1] = m
          /\ \A i \in DOMAIN q[s] : q'[s][i] = q[s][i]
      BY <2>2 DEF TypeOK
    <3>2. \A i \in DOMAIN q'[s] : q'[s][i].kind = "DONE" =>
             i = Len(q[s]) + 1 /\ q'[s][i] = m
      BY <2>3, <3>1
    <3>3. \A i \in DOMAIN q'[s] : q'[s][i].kind = "DONE" =>
             /\ Syncing(s)' /\ dump'[s] = "none"
             /\ q'[s][i].seq = seq'[s] /\ ~q'[s][i].notify
             /\ \A j \in DOMAIN q'[s] : q'[s][j].kind = "DONE" => j = i
      BY <2>1, <2>2, <2>3, <2>4, <3>2
    <3>4. QED BY <2>1, <2>2, <2>3, <2>4, <3>3 DEF OneDump
  <2>7. DeadlineIffSync' /\ CloseFindsOpened' /\ StateHygiene'
    BY <2>1 DEF DeadlineIffSync, CloseFindsOpened, StateHygiene
  <2>8. QED BY <2>5, <2>6, <2>7
<1>13. ASSUME NEW n \in Names, NEW o \in Objs, NEW h \in NoteHdrs, KernelChange(n, o, h)
       PROVE  Inv'
  <2> DEFINE note == [kind |-> IF o \in kern[n] THEN "DEL" ELSE "NEW", obj |-> o,
                      seq |-> h.seq, notify |-> h.notify]
  <2>1. UNCHANGED <<streams, opens, closes, fdt, ftab, dump, wild>>
    BY <1>13 DEF KernelChange
  <2>2. \A x \in Slots : \/ q'[x] = q[x]
                         \/ HasFd(x) /\ q'[x] = Append(q[x], note)
    BY <1>13 DEF KernelChange
  <2>3. \A x \in Slots : /\ HasFd(x)' <=> HasFd(x)
                         /\ HasFile(x)' <=> HasFile(x)
                         /\ Connected(x)' <=> Connected(x)
                         /\ Syncing(x)' <=> Syncing(x)
    BY <2>1 DEF HasFd, HasFile, Connected, Syncing
  <2>4. NoSocketLeak' /\ SocketOwned'
    BY <2>1, <2>3 DEF NoSocketLeak, SocketOwned
  <2>5. ASSUME NEW x \in Slots, HasFd(x), q'[x] = Append(q[x], note)
        PROVE  \A i \in DOMAIN q'[x] : q'[x][i].kind = "DONE" =>
                 i \in DOMAIN q[x] /\ q'[x][i] = q[x][i]
    <3>1. /\ DOMAIN q'[x] = 1 .. Len(q[x]) + 1
          /\ DOMAIN q[x] = 1 .. Len(q[x]) /\ Len(q[x]) \in Nat
          /\ q'[x][Len(q[x]) + 1] = note
          /\ \A i \in DOMAIN q[x] : q'[x][i] = q[x][i]
      BY <2>5 DEF TypeOK
    <3>2. note.kind # "DONE"
      OBVIOUS
    <3>3. QED BY <3>1, <3>2
  <2>6. OneDump'
    <3> SUFFICES ASSUME NEW x \in Slots
                 PROVE  /\ ~HasFd(x)' => q'[x] = <<>> /\ dump'[x] = "none"
                        /\ dump'[x] # "none" => Syncing(x)'
                        /\ \A i \in DOMAIN q'[x] : q'[x][i].kind = "DONE" =>
                             /\ Syncing(x)' /\ dump'[x] = "none"
                             /\ q'[x][i].seq = seq'[x] /\ ~q'[x][i].notify
                             /\ \A j \in DOMAIN q'[x] : q'[x][j].kind = "DONE" => j = i
      BY DEF OneDump
    <3>1. CASE q'[x] = q[x]
      BY <2>1, <2>3, <3>1 DEF OneDump
    <3>2. CASE HasFd(x) /\ q'[x] = Append(q[x], note)
      BY <2>1, <2>3, <2>5, <3>2 DEF OneDump
    <3>3. QED BY <2>2, <3>1, <3>2
  <2>7. DeadlineIffSync' /\ CloseFindsOpened' /\ StateHygiene'
    BY <2>1 DEF DeadlineIffSync, CloseFindsOpened, StateHygiene
  <2>8. QED BY <2>4, <2>6, <2>7
<1>14. QED
  BY <1>1, <1>2, <1>3, <1>4, <1>5, <1>6, <1>7, <1>8, <1>9, <1>10, <1>11, <1>12, <1>13
     DEF Next, Process, Read, Expire

-----------------------------------------------------------------------------
(***************************************************************************)
(* The theorems about the streams.                                         *)
(***************************************************************************)
\* Every variable keeps its type (rtnl_ns_t, the event queues, the tables).
THEOREM TypeCorrect == Spec => []TypeOK
<1>1. Init => TypeOK
  BY TypeInit
<1>2. TypeOK /\ [Next]_vars => TypeOK'
  BY TypeStep
<1>3. QED BY <1>1, <1>2, PTL DEF Spec

\* The invariant holds in every state of the streams.
LEMMA Invariance == Spec => []Inv
<1>1. QED BY InvInit, InvStep, PTL DEF Spec

\* rtnl_sync_reset, rtnl_process_close and rtnl_socket_open never lose track
\* of a socket: what belongs to a slot is what its connected stream names.
THEOREM NoLeak == Spec => []NoSocketLeak
<1>1. Inv => NoSocketLeak
  BY DEF Inv
<1>2. QED BY <1>1, Invariance, PTL

\* As long as no close was stray, a connected stream owns its socket and its
\* entry in the poller's file pool.
THEOREM Owned == Spec => []SocketOwned
<1>1. Inv => SocketOwned
  BY DEF Inv
<1>2. QED BY <1>1, Invariance, PTL

\* rtnl_process_timeout is right about INIT and READY, and no stream waits
\* for an answer without a deadline.
THEOREM Deadlines == Spec => []DeadlineIffSync
<1>1. Inv => DeadlineIffSync
  BY DEF Inv
<1>2. QED BY <1>1, Invariance, PTL

\* rtnl_process_close never meets a stream in INIT.
THEOREM CloseAfterOpen == Spec => []CloseFindsOpened
<1>1. Inv => CloseFindsOpened
  BY DEF Inv
<1>2. QED BY <1>1, Invariance, PTL

\* rtnl_sync_done "Cannot happen here" cannot.
THEOREM DoneIsExpected == Spec => []DoneExpected
<1>1. Inv => DoneExpected
  BY NoMoreDone DEF Inv, DoneExpected, Reading
<1>2. QED BY <1>1, Invariance, PTL

\* Only the close of a stream between two sockets is stray.
THEOREM StrayClose == Spec => StrayCloseIsStranded
<1> DEFINE Step == wild' => wild \/ \E s \in closes : /\ s \notin closes'
                                                      /\ state[s] = "SYNC"
                                                      /\ sync[s] = "OPENING"
<1>1. ASSUME Inv, TypeOK', [Next]_vars PROVE [Step]_vars
  <2> USE <1>1 DEF Inv
  <2> SUFFICES ASSUME wild', ~wild
               PROVE  \E s \in closes : /\ s \notin closes'
                                        /\ state[s] = "SYNC"
                                        /\ sync[s] = "OPENING"
    OBVIOUS
  <2>1. ASSUME NEW s \in Slots, ProcessClose(s) PROVE Step
    <3>1. s \in closes /\ s \notin closes' /\ s \in alloc /\ state[s] # "INIT"
      BY <2>1 DEF ProcessClose, CloseFindsOpened
    <3>2. SocketClose(s)
      BY <2>1, <3>1 DEF ProcessClose
    <3>3. ~Connected(s)
      BY <3>2 DEF SocketClose, SocketOwned, HasFd
    <3>4. QED BY <3>1, <3>3 DEF Connected, Syncing, TypeOK
  <2>2. ASSUME NEW s \in Slots, SyncReset(s) PROVE ~Syncing(s)
    BY <2>2 DEF SyncReset, SocketClose, SocketOwned, HasFd, Connected
  <2>3. ASSUME NEW s \in Slots, ReadRestart(s) \/ ReadDone(s) PROVE FALSE
    <3>1. Syncing(s)
      <4>1. CASE ReadDone(s)
        BY <4>1, NoMoreDone DEF ReadDone, Reading
      <4>2. CASE ReadRestart(s)
        <5>1. Connected(s) /\ state[s] = "SYNC"
          BY <4>2 DEF ReadRestart, Reading, Restarts, HasFd, NoSocketLeak
        <5>2. QED BY <5>1 DEF Connected, Syncing
      <4>3. QED BY <2>3, <4>1, <4>2
    <3>2. SyncReset(s)
      BY <2>3, <3>1 DEF ReadRestart, ReadDone, AskNext, AskRefused, Syncing
    <3>3. QED BY <2>2, <3>1, <3>2
  <2>4. ASSUME NEW s \in Slots, ExpireRunning(s) PROVE FALSE
    <3>1. SyncReset(s) /\ Syncing(s)
      BY <2>4 DEF ExpireRunning, Due, Quiet, Opening, DeadlineIffSync, Syncing
    <3>2. QED BY <2>2, <3>1
  <2>5. ASSUME NEW s \in Slots, KernelAnswer(s) PROVE FALSE
    BY <2>5 DEF KernelAnswer, KernelDumpDone, KernelDumpObj
  <2>6. ASSUME NEW s \in Slots, NEW f \in Fds, NEW i \in Files, NEW ok \in BOOLEAN,
               OpenFails(s) \/ OpenSocket(s, f, i, ok)
        PROVE  FALSE
    BY <2>6 DEF OpenFails, OpenSocket
  <2>7. ASSUME NEW s \in Slots, Expire(s) PROVE FALSE
    BY <2>4, <2>6, <2>7 DEF Expire, OpenFails
  <2>8. CASE Process
    <3>1. ASSUME Resume \/ Suspend PROVE FALSE
      BY <3>1 DEF Resume, Suspend
    <3>2. ASSUME NEW s \in Slots, \/ ProcessOpen(s) \/ ReadStart(s)
                                  \/ ReadEnd(s) \/ ReadOther(s)
          PROVE  FALSE
      BY <3>2 DEF ProcessOpen, ReadStart, ReadEnd, ReadOther
    <3>3. QED BY <2>1, <2>3, <2>8, <3>1, <3>2 DEF Process, Read
  <2>9. ASSUME NEW s \in Slots, \/ \E n \in Names : StreamOpen(s, n)
                                \/ StreamClose(s) \/ ReadCb(s) \/ KernelError(s)
        PROVE  FALSE
    BY <2>9 DEF StreamOpen, StreamClose, ReadCb, KernelError
  <2>10. ASSUME NEW n \in Names, NEW o \in Objs, NEW h \in NoteHdrs, KernelChange(n, o, h)
         PROVE  FALSE
    BY <2>10 DEF KernelChange
  <2>11. CASE UNCHANGED vars
    BY <2>11 DEF vars
  <2>12. QED BY <2>5, <2>7, <2>8, <2>9, <2>10, <2>11 DEF Next
<1>2. QED BY <1>1, Invariance, TypeCorrect, PTL DEF Spec, StrayCloseIsStranded

-----------------------------------------------------------------------------
(***************************************************************************)
(* The detailed stream implements Stream.                                  *)
(***************************************************************************)
\* A step that moves no slot in or out of the pool and changes no state and
\* no request to close leaves the handles as they are.
LEMMA SamePhase ==
    ASSUME UNCHANGED <<alloc, closes, name>>,
           \A x \in alloc : state'[x] = "READY" <=> state[x] = "READY"
    PROVE  UNCHANGED <<Phase, name>>
BY DEF Phase

\* Opening, READY, closing and the end of a close are the steps of Stream;
\* that a freed slot was asked to close, and that a slot in use is freed by
\* its close, is CloseFindsOpened.
LEMMA PhaseStep ==
    ASSUME Inv, [Next]_vars
    PROVE  [Interface!Next]_<<Phase, name>>
<1> USE DEF Inv
<1>1. ASSUME NEW s \in Slots, NEW n \in Names, StreamOpen(s, n)
      PROVE  Interface!Next
  <2>1. s \notin closes
    BY <1>1 DEF StreamOpen, CloseFindsOpened
  <2>2. Phase' = [Phase EXCEPT ![s] = "syncing"] /\ Phase[s] = "free"
    BY <1>1, <2>1 DEF StreamOpen, Phase, TypeOK
  <2>3. name' = [name EXCEPT ![s] = n]
    BY <1>1 DEF StreamOpen
  <2>4. QED BY <2>2, <2>3 DEF Interface!Next, Interface!Open
<1>2. ASSUME NEW s \in Slots, StreamClose(s) PROVE Interface!Next
  <2>1. Phase[s] \in {"syncing", "ready"} /\ UNCHANGED name
    BY <1>2 DEF StreamClose, Phase, streams
  <2>2. Phase' = [Phase EXCEPT ![s] = "closing"]
    BY <1>2 DEF StreamClose, Phase, streams
  <2>3. QED BY <2>1, <2>2 DEF Interface!Next, Interface!Close
<1>3. ASSUME NEW s \in Slots, ProcessClose(s) PROVE Interface!Next
  <2>1. alloc' = alloc \ {s} /\ closes' = closes \ {s} /\ UNCHANGED <<state, name>>
    BY <1>3 DEF ProcessClose, CloseFindsOpened
  <2>2. s \in alloc /\ s \in closes
    BY <1>3 DEF ProcessClose, CloseFindsOpened
  <2>3. Phase' = [Phase EXCEPT ![s] = "free"] /\ Phase[s] = "closing"
    BY <2>1, <2>2 DEF Phase
  <2>4. QED BY <2>1, <2>3 DEF Interface!Next, Interface!Free
<1>4. ASSUME NEW s \in Slots, ReadDone(s) PROVE [Interface!Next]_<<Phase, name>>
  <2>1. UNCHANGED <<alloc, closes, name>>
    BY <1>4 DEF ReadDone, events
  <2>2. Syncing(s)
    BY <1>4, NoMoreDone DEF ReadDone, Reading
  <2>3. CASE UNCHANGED state
    BY <2>1, <2>3, SamePhase
  <2>4. CASE state' = [state EXCEPT ![s] = "READY"]
    <3>1. CASE s \in closes
      BY <2>1, <2>4, <3>1 DEF Phase, TypeOK
    <3>2. CASE s \notin closes
      <4>1. Phase[s] = "syncing" /\ Phase' = [Phase EXCEPT ![s] = "ready"]
        BY <2>1, <2>2, <2>4, <3>2 DEF Phase, TypeOK, Syncing
      <4>2. QED BY <2>1, <4>1 DEF Interface!Next, Interface!Synced
    <3>3. QED BY <3>1, <3>2
  <2>5. QED BY <1>4, <2>3, <2>4 DEF ReadDone
<1>5. ASSUME NEW s \in Slots, ProcessOpen(s) PROVE UNCHANGED <<Phase, name>>
  <2>1. \A x \in alloc : state'[x] = "READY" <=> state[x] = "READY"
    BY <1>5 DEF ProcessOpen, TypeOK
  <2>2. QED BY <1>5, <2>1, SamePhase DEF ProcessOpen
<1>6. ASSUME NEW s \in Slots, \/ ReadCb(s) \/ ReadStart(s) \/ ReadEnd(s)
                              \/ ReadRestart(s) \/ ReadOther(s)
      PROVE UNCHANGED <<Phase, name>>
  BY <1>6, SamePhase
     DEF ReadCb, ReadStart, ReadEnd, ReadRestart, ReadOther, streams, events
<1>7. ASSUME NEW s \in Slots, Expire(s) PROVE UNCHANGED <<Phase, name>>
  BY <1>7, SamePhase DEF Expire, ExpireRunning, OpenFails, OpenSocket, events
<1>8. ASSUME NEW s \in Slots, KernelAnswer(s) \/ KernelError(s)
      PROVE  UNCHANGED <<Phase, name>>
  BY <1>8, SamePhase
     DEF KernelAnswer, KernelDumpDone, KernelDumpObj, KernelError, streams, events
<1>9. ASSUME NEW n \in Names, NEW o \in Objs, NEW h \in NoteHdrs, KernelChange(n, o, h)
      PROVE  UNCHANGED <<Phase, name>>
  BY <1>9, SamePhase DEF KernelChange, streams, events
<1>10. ASSUME Resume \/ Suspend \/ UNCHANGED vars PROVE UNCHANGED <<Phase, name>>
  BY <1>10, SamePhase DEF Resume, Suspend, vars, streams, events
<1>11. QED
  BY <1>1, <1>2, <1>3, <1>4, <1>5, <1>6, <1>7, <1>8, <1>9, <1>10
     DEF Next, Process, Read

\* rtnl.c keeps the promises of rtnl.h that Stream states.
THEOREM Implementation == Spec => ImplementsStream
<1>1. Init => Interface!Init
  BY DEF Init, Phase, Interface!Init
<1>2. Inv /\ [Next]_vars => [Interface!Next]_<<Phase, name>>
  BY PhaseStep
<1>3. QED BY <1>1, <1>2, Invariance, PTL DEF Spec, ImplementsStream, Interface!Spec

NetnsInv == Inv /\ NetnsTypeOK /\ Shared

-----------------------------------------------------------------------------
(***************************************************************************)
(* The streams know nothing of their users.                                *)
(***************************************************************************)
\* Every step of the composition is a step of the streams, or none.
LEMMA StreamSteps == NetnsTypeOK /\ [NetnsNext]_allVars => [Next]_vars
<1> SUFFICES ASSUME NetnsTypeOK, [NetnsNext]_allVars PROVE [Next]_vars
  OBVIOUS
<1>1. CASE UNCHANGED allVars
  BY <1>1 DEF allVars
<1>2. CASE Api
  <2>1. ASSUME NEW n \in Names, NEW i \in NsIdx, NEW s \in Slots, NetnsOpen(n, i, s)
        PROVE  Next
    BY <2>1 DEF NetnsOpen, Next
  <2>2. ASSUME NEW i \in NsIdx, NetnsJoin(i) PROVE UNCHANGED vars
    BY <2>2 DEF NetnsJoin
  <2>3. ASSUME NEW h \in HIdx, NetnsClose(h)
        PROVE  UNCHANGED vars \/ \E s \in Slots : StreamClose(s)
    <3>1. UNCHANGED vars \/ StreamClose(nsstream[hns[h]])
      BY <2>3 DEF NetnsClose, NetnsDestroy
    <3>2. nsstream[hns[h]] \in Slots
      BY DEF NetnsTypeOK
    <3>3. QED BY <3>1, <3>2
  <2>4. ASSUME NEW h \in HIdx, NEW del \in BOOLEAN, NetnsCallme(h, del)
        PROVE  UNCHANGED vars
    BY <2>4 DEF NetnsCallme
  <2>5. QED BY <1>2, <2>1, <2>2, <2>3, <2>4 DEF Api, Next
<1>3. CASE Streams
  <2>1. CASE MainLoop
    BY <2>1 DEF MainLoop, Engine, Receive, Next, Process, Read
  <2>2. CASE Environment
    BY <2>2 DEF Environment, Next
  <2>3. QED BY <1>3, <2>1, <2>2 DEF Streams
<1>4. QED BY <1>1, <1>2, <1>3 DEF NetnsNext

-----------------------------------------------------------------------------
(***************************************************************************)
(* Types of the mirrors.                                                   *)
(***************************************************************************)
\* pool_get gives out a handle that is not in use.
LEMMA FreshIsFree ==
    ASSUME NetnsTypeOK, Shared
    PROVE  FreshHandle \notin hpool
<1>1. CASE 0 \notin hpool
  BY <1>1 DEF FreshHandle
<1>2. CASE 0 \in hpool
  <2>1. PICK k \in 0 .. MaxHandles : hpool \cup {0} = 0 .. k
    BY DEF Shared
  <2>2. hpool = 0 .. k
    BY <1>2, <2>1
  <2> k \in Nat
    BY NetnsConstants
  <2>3. Cardinality(hpool) = k + 1
    BY <2>2, FS_Interval
  <2>4. QED BY <1>2, <2>2, <2>3 DEF FreshHandle
<1>3. QED BY <1>1, <1>2

\* What a message does to the mirror of its stream and to what was announced
\* of it: only entries the lookup finds go, only the object of the message
\* comes, and an addition is announced whether or not it replaces anything.
LEMMA DeliverEffect ==
    ASSUME NetnsTypeOK, NEW s \in Slots, q[s] # <<>>, Deliver(s, Head(q[s])),
           NEW m, m = Head(q[s]), NEW i, i = opaque[s]
    PROVE  /\ view' \in [NsIdx -> SUBSET Things] /\ told' \in [HIdx -> SUBSET Things]
           /\ \A j \in NsIdx \ {i} : view'[j] = view[j]
           /\ \A x \in view[i] \ view'[i] :
                m.kind \in {"NEW", "DEL"} /\ x[2] \in Found[m.obj]
           /\ \A x \in view'[i] \ view[i] : m.kind = "NEW" /\ x = <<name[s], m.obj>>
           /\ m.kind = "NEW" => <<name[s], m.obj>> \in view'[i]
           /\ \A x \in view'[i] \ view[i], h \in HIdx :
                h \in Subscribers(i) => x \in told'[h]
           /\ \A h \in HIdx : \A x \in told[h] \ told'[h] :
                /\ h \in Subscribers(i) /\ m.kind = "DEL"
                /\ x[2] \in Found[m.obj] /\ (Found[x[2]] = {x[2]} => x \notin view'[i])
<1> DEFINE new == <<name[s], m.obj>>
           found == IF m.kind \in {"NEW", "DEL"} THEN Entries(i, m.obj) ELSE {}
<1> USE DEF Notify
<1>1. m \in Msg /\ i \in NsIdx /\ view[i] \subseteq Things
  BY TailType DEF NetnsTypeOK, TypeOK
<1>2. m.kind = "NEW" => new \in Things
  BY <1>1 DEF Msg, Things, NetnsTypeOK, TypeOK
<1>3. /\ view \in [NsIdx -> SUBSET Things] /\ told \in [HIdx -> SUBSET Things]
  BY DEF NetnsTypeOK
<1>4. found \subseteq view[i] /\ \A x \in found : x[2] \in Found[m.obj]
  BY DEF Entries
<1>5. \/ UNCHANGED <<view, told>> /\ m.kind # "NEW"
      \/ /\ m.kind = "DEL"
         /\ \E x \in found : \E kept \in Copies(x) :
              view' = [view EXCEPT ![i] = (@ \ {x}) \cup kept] /\ Notify(i, {}, {x})
      \/ /\ m.kind = "NEW" /\ view' = [view EXCEPT ![i] = @ \cup {new}]
         /\ Notify(i, {new}, {})
      \/ /\ m.kind = "NEW"
         /\ \E x \in found : \E kept \in Copies(x) :
              view' = [view EXCEPT ![i] = (@ \ {x}) \cup kept \cup {new}]
         /\ Notify(i, {new}, {})
  BY DEF Deliver
<1>6. \A x : \A kept \in Copies(x) : kept \subseteq {x} /\ (Found[x[2]] = {x[2]} => kept = {})
  BY DEF Copies
<1> HIDE DEF new, found
<1>7. CASE UNCHANGED <<view, told>> /\ m.kind # "NEW"
  BY <1>3, <1>7
<1>8. ASSUME m.kind = "DEL", NEW x \in found, NEW kept \in Copies(x),
             view' = [view EXCEPT ![i] = (@ \ {x}) \cup kept], Notify(i, {}, {x})
      PROVE  /\ view'[i] = (view[i] \ {x}) \cup kept
             /\ kept \subseteq {x} /\ (Found[x[2]] = {x[2]} => kept = {})
             /\ x \in view[i] /\ x \in Things /\ x[2] \in Found[m.obj]
             /\ \A j \in NsIdx \ {i} : view'[j] = view[j]
             /\ view' \in [NsIdx -> SUBSET Things]
             /\ \A h \in HIdx : told'[h] = IF h \in Subscribers(i) THEN told[h] \ {x} ELSE told[h]
             /\ told' \in [HIdx -> SUBSET Things]
  BY <1>1, <1>3, <1>4, <1>6, <1>8
<1>9. ASSUME m.kind = "NEW", NEW x \in found, NEW kept \in Copies(x),
             view' = [view EXCEPT ![i] = (@ \ {x}) \cup kept \cup {new}]
      PROVE  /\ view'[i] = (view[i] \ {x}) \cup kept \cup {new}
             /\ kept \subseteq {x} /\ x \in view[i] /\ x[2] \in Found[m.obj]
             /\ \A j \in NsIdx \ {i} : view'[j] = view[j]
             /\ view' \in [NsIdx -> SUBSET Things]
  BY <1>1, <1>2, <1>3, <1>4, <1>6, <1>9
<1>10. ASSUME m.kind = "NEW", view' = [view EXCEPT ![i] = @ \cup {new}]
       PROVE  /\ view'[i] = view[i] \cup {new}
              /\ \A j \in NsIdx \ {i} : view'[j] = view[j]
              /\ view' \in [NsIdx -> SUBSET Things]
  BY <1>1, <1>2, <1>3, <1>10
<1>11. ASSUME m.kind = "NEW", Notify(i, {new}, {})
       PROVE  /\ \A h \in HIdx : told'[h] = IF h \in Subscribers(i) THEN told[h] \cup {new} ELSE told[h]
              /\ told' \in [HIdx -> SUBSET Things]
  BY <1>2, <1>3, <1>11
<1>12. CASE /\ m.kind = "DEL"
            /\ \E x \in found : \E kept \in Copies(x) :
                 view' = [view EXCEPT ![i] = (@ \ {x}) \cup kept] /\ Notify(i, {}, {x})
  <2>1. PICK x \in found : \E kept \in Copies(x) :
               view' = [view EXCEPT ![i] = (@ \ {x}) \cup kept] /\ Notify(i, {}, {x})
    BY <1>12
  <2>2. PICK kept \in Copies(x) :
               view' = [view EXCEPT ![i] = (@ \ {x}) \cup kept] /\ Notify(i, {}, {x})
    BY <2>1
  <2>3. /\ view'[i] = (view[i] \ {x}) \cup kept
        /\ kept \subseteq {x} /\ (Found[x[2]] = {x[2]} => kept = {})
        /\ x \in view[i] /\ x[2] \in Found[m.obj]
        /\ \A j \in NsIdx \ {i} : view'[j] = view[j]
        /\ view' \in [NsIdx -> SUBSET Things] /\ told' \in [HIdx -> SUBSET Things]
        /\ \A h \in HIdx : told'[h] = IF h \in Subscribers(i) THEN told[h] \ {x} ELSE told[h]
    BY <1>8, <1>12, <2>2
  <2> HIDE DEF Notify
  <2>4. QED BY <1>12, <2>3
<1>13. CASE /\ m.kind = "NEW" /\ view' = [view EXCEPT ![i] = @ \cup {new}]
            /\ Notify(i, {new}, {})
  BY <1>10, <1>11, <1>13 DEF new
<1>14. CASE /\ m.kind = "NEW"
            /\ \E x \in found : \E kept \in Copies(x) :
                 view' = [view EXCEPT ![i] = (@ \ {x}) \cup kept \cup {new}]
            /\ Notify(i, {new}, {})
  <2>1. PICK x \in found : \E kept \in Copies(x) :
               view' = [view EXCEPT ![i] = (@ \ {x}) \cup kept \cup {new}]
    BY <1>14
  <2>2. PICK kept \in Copies(x) :
               view' = [view EXCEPT ![i] = (@ \ {x}) \cup kept \cup {new}]
    BY <2>1
  <2>3. /\ view'[i] = (view[i] \ {x}) \cup kept \cup {new}
        /\ kept \subseteq {x} /\ x \in view[i] /\ x[2] \in Found[m.obj]
        /\ \A j \in NsIdx \ {i} : view'[j] = view[j]
        /\ view' \in [NsIdx -> SUBSET Things]
    BY <1>9, <1>14, <2>2
  <2>4. /\ \A h \in HIdx : told'[h] = IF h \in Subscribers(i) THEN told[h] \cup {new} ELSE told[h]
        /\ told' \in [HIdx -> SUBSET Things]
    BY <1>11, <1>14
  <2> HIDE DEF Notify
  <2>5. QED BY <1>14, <2>3, <2>4 DEF new
<1>15. QED BY <1>5, <1>7, <1>12, <1>13, <1>14

\* The empty pools of mirrors and handles are well typed.
LEMMA NetnsTypeInit == NetnsInit => NetnsTypeOK
<1> SUFFICES ASSUME NetnsInit PROVE NetnsTypeOK
  OBVIOUS
<1>1. TypeOK
  BY TypeInit DEF NetnsInit
<1>2. QED BY <1>1 DEF NetnsInit, NetnsTypeOK

\* Every step keeps the types; counting down needs that somebody is counted.
LEMMA NetnsTypeStep == NetnsTypeOK /\ Shared /\ [NetnsNext]_allVars => NetnsTypeOK'
<1> SUFFICES ASSUME NetnsTypeOK, Shared, [NetnsNext]_allVars PROVE NetnsTypeOK'
  OBVIOUS
<1>1. TypeOK'
  BY StreamSteps, TypeStep DEF NetnsTypeOK
<1> USE DEF netnss, handles, history, netnsVars
<1>2. ASSUME NEW n \in Names, NEW i \in NsIdx, NEW s \in Slots, NetnsOpen(n, i, s)
      PROVE  NetnsTypeOK'
  BY <1>1, <1>2 DEF NetnsOpen, Subscribe, NetnsTypeOK
<1>3. ASSUME NEW i \in NsIdx, NetnsJoin(i) PROVE NetnsTypeOK'
  BY <1>1, <1>3 DEF NetnsJoin, Subscribe, NetnsTypeOK
<1>4. ASSUME NEW h \in HIdx, NetnsClose(h) PROVE NetnsTypeOK'
  <2>1. count' \in [NsIdx -> Nat]
    <3>1. hns[h] \in NsIdx /\ count[hns[h]] \in Nat
      BY DEF NetnsTypeOK
    <3>2. count[hns[h]] > 0
      BY <1>4 DEF NetnsClose, Shared
    <3>3. count[hns[h]] - 1 \in Nat
      BY <3>1, <3>2
    <3>4. count' = [count EXCEPT ![hns[h]] = @ - 1] \/ count' = count
      BY <1>4 DEF NetnsClose
    <3>5. QED BY <3>3, <3>4 DEF NetnsTypeOK
  <2>2. view' \in [NsIdx -> SUBSET Things] /\ nets' \subseteq NsIdx
    BY <1>4 DEF NetnsClose, NetnsDestroy, NetnsTypeOK
  <2>3. QED BY <1>1, <1>4, <2>1, <2>2 DEF NetnsClose, NetnsTypeOK
<1>5. ASSUME NEW h \in HIdx, NEW del \in BOOLEAN, NetnsCallme(h, del)
      PROVE  NetnsTypeOK'
  BY <1>1, <1>5 DEF NetnsCallme, NetnsTypeOK
<1>6. ASSUME Streams PROVE NetnsTypeOK'
  <2>1. gap' \in [Slots -> BOOLEAN]
    <3>1. gap' = [s \in Slots |-> lost'[s] \/ (gap[s] /\ HasFd(s)')]
      BY <1>6 DEF Streams, Gaps
    <3>2. lost' \in [Slots -> BOOLEAN]
      BY <1>1 DEF TypeOK
    <3>3. QED BY <3>1, <3>2 DEF NetnsTypeOK
  <2>2. CASE UNCHANGED netnsVars
    BY <1>1, <2>1, <2>2 DEF NetnsTypeOK
  <2>3. ASSUME NEW s \in Slots, Receive(s) PROVE NetnsTypeOK'
    <3>1. q[s] # <<>> /\ Deliver(s, Head(q[s]))
      BY <2>3 DEF Receive, ReadRestart, ReadOther, Reading
    <3>2. view' \in [NsIdx -> SUBSET Things] /\ told' \in [HIdx -> SUBSET Things]
      BY <3>1, DeliverEffect
    <3>3. QED BY <1>1, <2>1, <3>1, <3>2 DEF Deliver, NetnsTypeOK
  <2>4. QED BY <1>6, <2>2, <2>3 DEF Streams, MainLoop
<1>7. CASE UNCHANGED allVars
  BY <1>1, <1>7 DEF allVars, NetnsTypeOK
<1>8. QED BY <1>2, <1>3, <1>4, <1>5, <1>6, <1>7 DEF NetnsNext, Api

-----------------------------------------------------------------------------
(***************************************************************************)
(* Sharing.                                                                *)
(***************************************************************************)
\* The part of Shared about one netns.
Owned1(i) ==
    /\ count[i] = Cardinality(Subscribers(i)) /\ count[i] > 0
    /\ nsstream[i] \in alloc \ closes
    /\ opaque[nsstream[i]] = i /\ name[nsstream[i]] = nsname[i]
    /\ \A j \in nets : nsname[j] = nsname[i] => j = i

\* The set of subscribers is finite.
LEMMA SubscribersFinite ==
    ASSUME NetnsTypeOK, NEW i
    PROVE  IsFiniteSet(Subscribers(i))
<1>1. IsFiniteSet(HIdx)
  BY NetnsConstants, FS_Interval DEF HIdx
<1>2. Subscribers(i) \subseteq HIdx
  BY DEF Subscribers, NetnsTypeOK
<1>3. QED BY <1>1, <1>2, FS_Subset

\* A new subscriber of i is one more subscriber of i, and changes no other
\* netns' subscribers; the handles stay dense.
LEMMA SubscribeEffect ==
    ASSUME NetnsTypeOK, Shared, NEW i \in NsIdx, Subscribe(i)
    PROVE  /\ Cardinality(Subscribers(i)') = Cardinality(Subscribers(i)) + 1
           /\ \A j \in NsIdx \ {i} : Subscribers(j)' = Subscribers(j)
           /\ \A h \in hpool' : h \notin hpool => hns'[h] = i
           /\ \A h \in hpool : h \in hpool' /\ hns'[h] = hns[h]
           /\ \E k \in 0 .. MaxHandles : hpool' \cup {0} = 0 .. k
<1> DEFINE h == FreshHandle
<1>1. h \notin hpool /\ h \in HIdx
  BY FreshIsFree DEF Subscribe
<1>2. hpool' = hpool \cup {h} /\ hns' = [hns EXCEPT ![h] = i]
  BY DEF Subscribe
<1>7. \E k \in 0 .. MaxHandles : hpool' \cup {0} = 0 .. k
  <2>1. PICK k \in 0 .. MaxHandles : hpool \cup {0} = 0 .. k
    BY DEF Shared
  <2> k \in Nat /\ MaxHandles \in Nat
    BY NetnsConstants
  <2>2. CASE 0 \notin hpool
    BY <1>2, <2>1, <2>2 DEF FreshHandle
  <2>3. CASE 0 \in hpool
    <3>1. hpool = 0 .. k
      BY <2>1, <2>3
    <3>2. Cardinality(hpool) = k + 1
      BY <3>1, FS_Interval
    <3>3. h = k + 1
      BY <2>3, <3>2 DEF FreshHandle
    <3>4. k + 1 \in 0 .. MaxHandles
      BY <1>1, <3>3 DEF HIdx
    <3> HIDE DEF h
    <3>5. hpool' \cup {0} = 0 .. (k + 1)
      BY <1>2, <3>1, <3>3
    <3>6. QED BY <3>4, <3>5
  <2>4. QED BY <2>2, <2>3
<1> HIDE DEF h
<1>3. Subscribers(i)' = Subscribers(i) \cup {h} /\ h \notin Subscribers(i)
  BY <1>1, <1>2 DEF Subscribers, NetnsTypeOK
<1>4. Cardinality(Subscribers(i)') = Cardinality(Subscribers(i)) + 1
  BY <1>3, SubscribersFinite, FS_AddElement
<1>5. \A j \in NsIdx \ {i} : Subscribers(j)' = Subscribers(j)
  BY <1>1, <1>2 DEF Subscribers, NetnsTypeOK
<1>6. /\ \A x \in hpool' : x \notin hpool => hns'[x] = i
      /\ \A x \in hpool : x \in hpool' /\ hns'[x] = hns[x]
  BY <1>1, <1>2 DEF NetnsTypeOK
<1>8. QED BY <1>4, <1>5, <1>6, <1>7

\* What the streams do by themselves keeps the open ones and their names.
LEMMA StreamsKeep ==
    ASSUME Inv, Streams
    PROVE  /\ UNCHANGED <<name, nets, nsname, nsstream, count, opaque, handles>>
           /\ alloc' \ closes' = alloc \ closes
<1> USE DEF netnsVars, netnss, handles, streams, events
<1>1. UNCHANGED <<nets, nsname, nsstream, count, opaque, hpool, hns, aborted>>
  BY DEF Streams, MainLoop, Receive, Deliver
<1>2. ASSUME NEW s \in Slots, ProcessClose(s)
      PROVE  UNCHANGED name /\ alloc' \ closes' = alloc \ closes
  <2>1. s \in alloc /\ state[s] # "INIT"
    BY <1>2 DEF ProcessClose, Inv, CloseFindsOpened
  <2>2. alloc' = alloc \ {s} /\ closes' = closes \ {s} /\ s \in closes
    BY <1>2, <2>1 DEF ProcessClose
  <2>3. QED BY <1>2, <2>2 DEF ProcessClose
<1>3. ASSUME NEW s \in Slots, \/ ReadCb(s) \/ ProcessOpen(s) \/ ReadStart(s)
                              \/ ReadEnd(s) \/ ReadDone(s) \/ ReadRestart(s)
                              \/ ReadOther(s)
      PROVE  UNCHANGED <<name, alloc, closes>>
  BY <1>3 DEF ReadCb, ProcessOpen, ReadStart, ReadEnd, ReadDone, ReadRestart, ReadOther
<1>4. ASSUME MainLoop PROVE UNCHANGED name /\ alloc' \ closes' = alloc \ closes
  <2>1. CASE Resume \/ Suspend
    BY <2>1 DEF Resume, Suspend
  <2>2. CASE \E s \in Slots : Engine(s) \/ Receive(s)
    <3>1. PICK s \in Slots : Engine(s) \/ Receive(s)
      BY <2>2
    <3>2. CASE ProcessClose(s)
      BY <1>2, <3>2
    <3>3. CASE ~ProcessClose(s)
      BY <1>3, <3>1, <3>3 DEF Engine, Receive
    <3>4. QED BY <3>2, <3>3
  <2>3. QED BY <1>4, <2>1, <2>2 DEF MainLoop
<1>5. ASSUME Environment PROVE UNCHANGED <<name, alloc, closes>>
  <2>1. ASSUME NEW s \in Slots, Expire(s) \/ KernelAnswer(s) \/ KernelError(s)
        PROVE  UNCHANGED <<name, alloc, closes>>
    BY <2>1 DEF Expire, ExpireRunning, OpenFails, OpenSocket, KernelAnswer,
                KernelDumpDone, KernelDumpObj, KernelError
  <2>2. ASSUME NEW n \in Names, NEW o \in Objs, NEW h \in NoteHdrs, KernelChange(n, o, h)
        PROVE  UNCHANGED <<name, alloc, closes>>
    BY <2>2 DEF KernelChange
  <2>3. QED BY <1>5, <2>1, <2>2 DEF Environment
<1>6. QED BY <1>1, <1>4, <1>5 DEF Streams

\* Without a mirror there is nothing to share.
LEMMA SharedInit == NetnsInit => Shared
<1> SUFFICES ASSUME NetnsInit PROVE Shared
  OBVIOUS
<1>1. hpool \cup {0} = 0 .. 0 /\ 0 \in 0 .. MaxHandles
  BY NetnsConstants DEF NetnsInit
<1>2. alloc = {}
  BY DEF NetnsInit, Init
<1>3. QED BY <1>1, <1>2 DEF NetnsInit, Shared

\* Opening a netns uses a slot and an index nobody has, joining one more
\* handle, and closing the last handle lets go of all three.
LEMMA SharedStep ==
    ASSUME NetnsInv, [NetnsNext]_allVars
    PROVE  Shared'
<1> USE DEF NetnsInv
<1>1. ASSUME NEW n \in Names, NEW i \in NsIdx, NEW s \in Slots, NetnsOpen(n, i, s)
      PROVE  Shared'
  <2>1. /\ i \notin nets /\ \A j \in nets : nsname[j] # n
        /\ nets' = nets \cup {i}
        /\ nsname' = [nsname EXCEPT ![i] = n]
        /\ nsstream' = [nsstream EXCEPT ![i] = s]
        /\ opaque' = [opaque EXCEPT ![s] = i]
        /\ count' = [count EXCEPT ![i] = 1]
        /\ Subscribe(i)
    BY <1>1 DEF NetnsOpen
  <2>2. /\ s \notin alloc /\ s \notin closes
        /\ alloc' = alloc \cup {s} /\ closes' = closes
        /\ name' = [name EXCEPT ![s] = n]
    BY <1>1 DEF NetnsOpen, StreamOpen, Inv, CloseFindsOpened
  <2>3. Subscribers(i) = {} /\ Cardinality(Subscribers(i)) = 0
    <3>1. Subscribers(i) = {}
      BY <2>1 DEF Shared, Subscribers
    <3>2. QED BY <3>1, FS_EmptySet
  <2>4. /\ Cardinality(Subscribers(i)') = 1
        /\ \A j \in NsIdx \ {i} : Subscribers(j)' = Subscribers(j)
        /\ \A h \in hpool' : h \notin hpool => hns'[h] = i
        /\ \A h \in hpool : h \in hpool' /\ hns'[h] = hns[h]
        /\ \E k \in 0 .. MaxHandles : hpool' \cup {0} = 0 .. k
    <3>1. Cardinality(Subscribers(i)') = Cardinality(Subscribers(i)) + 1
      BY <2>1, SubscribeEffect
    <3>2. QED BY <2>1, <2>3, <3>1, SubscribeEffect
  <2>5. Owned1(i)'
    BY <2>1, <2>2, <2>4 DEF Owned1, NetnsTypeOK, Inv, TypeOK
  <2>6. ASSUME NEW j \in nets PROVE Owned1(j)'
    <3>1. j \in NsIdx /\ j # i /\ nsstream[j] # s /\ nsstream[j] \in Slots
      BY <2>1, <2>2 DEF Shared, NetnsTypeOK
    <3>2. /\ count'[j] = count[j] /\ nsstream'[j] = nsstream[j]
          /\ nsname'[j] = nsname[j] /\ opaque'[nsstream[j]] = opaque[nsstream[j]]
          /\ name'[nsstream[j]] = name[nsstream[j]]
      BY <2>1, <2>2, <3>1 DEF NetnsTypeOK, Inv, TypeOK
    <3>3. Subscribers(j)' = Subscribers(j)
      BY <2>4, <3>1
    <3>4. \A x \in nets' : nsname'[x] = nsname'[j] => x = j
      BY <2>1, <3>1, <3>2 DEF Shared, NetnsTypeOK
    <3>5. QED BY <2>2, <3>1, <3>2, <3>3, <3>4 DEF Owned1, Shared
  <2>7. \A h \in hpool' : hns'[h] \in nets'
    BY <2>1, <2>4 DEF Shared
  <2>8. \A x \in alloc' \ closes' : opaque'[x] \in nets' /\ nsstream'[opaque'[x]] = x
    BY <2>1, <2>2 DEF Shared, NetnsTypeOK
  <2>9. QED BY <2>1, <2>4, <2>5, <2>6, <2>7, <2>8 DEF Shared, Owned1
<1>2. ASSUME NEW i \in NsIdx, NetnsJoin(i) PROVE Shared'
  <2>1. /\ i \in nets /\ Subscribe(i)
        /\ count' = [count EXCEPT ![i] = @ + 1]
        /\ UNCHANGED <<name, alloc, closes, nets, nsname, nsstream, opaque>>
    BY <1>2 DEF NetnsJoin, vars, streams, events
  <2>2. /\ Cardinality(Subscribers(i)') = Cardinality(Subscribers(i)) + 1
        /\ \A j \in NsIdx \ {i} : Subscribers(j)' = Subscribers(j)
        /\ \A h \in hpool' : h \notin hpool => hns'[h] = i
        /\ \A h \in hpool : h \in hpool' /\ hns'[h] = hns[h]
        /\ \E k \in 0 .. MaxHandles : hpool' \cup {0} = 0 .. k
    BY <2>1, SubscribeEffect
  <2>3. ASSUME NEW j \in nets
        PROVE  count'[j] = Cardinality(Subscribers(j)') /\ count'[j] > 0
    BY <2>1, <2>2 DEF Shared, NetnsTypeOK
  <2>4. \A h \in hpool' : hns'[h] \in nets'
    BY <2>1, <2>2 DEF Shared
  <2>5. QED BY <2>1, <2>2, <2>3, <2>4 DEF Shared
<1>3. ASSUME NEW h \in HIdx, NetnsClose(h) PROVE Shared'
  <2>1. CASE h # 0
    BY <1>3, <2>1 DEF NetnsClose, Shared, Subscribers, vars, streams, events
  <2>2. CASE h = 0
    <3>0. PICK i : i = hns[h]
      OBVIOUS
    <3>1. /\ h \in hpool /\ hpool' = hpool \ {h}
          /\ count' = [count EXCEPT ![i] = @ - 1]
          /\ UNCHANGED <<nsname, nsstream, opaque, hns>>
      BY <1>3, <2>2, <3>0 DEF NetnsClose
    <3>2. i \in nets /\ i \in NsIdx /\ Subscribers(i)' = Subscribers(i) \ {h}
      BY <3>0, <3>1 DEF Shared, Subscribers, NetnsTypeOK
    <3>3. \A j \in NsIdx \ {i} : Subscribers(j)' = Subscribers(j)
      BY <3>0, <3>1 DEF Subscribers
    <3>4. h \in Subscribers(i)
      BY <3>0, <3>1 DEF Subscribers
    <3>5. Cardinality(Subscribers(i)') = count[i] - 1
      BY <3>2, <3>4, SubscribersFinite, FS_RemoveElement DEF Shared
    <3>6. \E k \in 0 .. MaxHandles : hpool' \cup {0} = 0 .. k
      BY <2>2, <3>1 DEF Shared
    <3>7. CASE count[i] # 1
      <4>1. UNCHANGED <<name, alloc, closes, nets>>
        BY <1>3, <2>2, <3>0, <3>7 DEF NetnsClose, vars, streams, events
      <4>2. count[i] \in Nat /\ count[i] > 1 /\ count'[i] = count[i] - 1
        BY <3>1, <3>2, <3>7 DEF Shared, NetnsTypeOK
      <4>3. ASSUME NEW j \in nets
            PROVE  count'[j] = Cardinality(Subscribers(j)') /\ count'[j] > 0
        <5>1. CASE j = i
          BY <3>5, <4>2, <5>1
        <5>2. CASE j # i
          <6>1. j \in NsIdx \ {i} /\ count'[j] = count[j]
            BY <3>1, <5>2 DEF NetnsTypeOK
          <6>2. QED BY <3>3, <6>1 DEF Shared
        <5>3. QED BY <5>1, <5>2
      <4>4. QED BY <3>1, <3>6, <4>1, <4>3 DEF Shared
    <3>8. CASE count[i] = 1
      <4>1. nets' = nets \ {i} /\ StreamClose(nsstream[i])
        BY <1>3, <2>2, <3>0, <3>8 DEF NetnsClose, NetnsDestroy
      <4>2. UNCHANGED <<name, alloc>> /\ closes' = closes \cup {nsstream[i]}
        BY <4>1 DEF StreamClose, streams
      <4>3. Subscribers(i)' = {}
        <5>1. IsFiniteSet(Subscribers(i)')
          BY <3>2, SubscribersFinite, FS_RemoveElement
        <5>2. Cardinality(Subscribers(i)') = 0
          BY <3>5, <3>8
        <5>3. QED BY <5>1, <5>2, FS_EmptySet
      <4>4. ASSUME NEW j \in nets' PROVE Owned1(j)'
        <5>1. j \in nets /\ j # i /\ j \in NsIdx
          BY <4>1 DEF NetnsTypeOK
        <5>2. nsstream[j] # nsstream[i]
          BY <3>2, <5>1 DEF Shared
        <5>3. count'[j] = count[j] /\ Subscribers(j)' = Subscribers(j)
          BY <3>1, <3>3, <5>1 DEF NetnsTypeOK
        <5>4. QED BY <3>1, <4>1, <4>2, <5>1, <5>2, <5>3 DEF Owned1, Shared
      <4>5. \A x \in hpool' : hns'[x] \in nets'
        <5> SUFFICES ASSUME NEW x \in hpool' PROVE hns[x] \in nets /\ hns[x] # i
          BY <3>1, <4>1
        <5>1. QED BY <3>1, <4>3 DEF Shared, Subscribers
      <4>6. \A x \in alloc' \ closes' : opaque'[x] \in nets' /\ nsstream'[opaque'[x]] = x
        BY <3>1, <4>1, <4>2 DEF Shared
      <4>7. QED BY <3>6, <4>4, <4>5, <4>6 DEF Shared, Owned1
    <3>9. QED BY <3>7, <3>8
  <2>3. QED BY <2>1, <2>2
<1>4. ASSUME NEW h \in HIdx, NEW del \in BOOLEAN, NetnsCallme(h, del) PROVE Shared'
  <2>1. UNCHANGED <<name, alloc, closes, netnss, handles>>
    BY <1>4 DEF NetnsCallme, vars, streams, events
  <2>2. UNCHANGED <<hpool, hns>> /\ \A i : Subscribers(i)' = Subscribers(i)
    BY <2>1 DEF handles, Subscribers
  <2>3. QED BY <2>1, <2>2 DEF Shared, netnss
<1>5. CASE Streams
  <2>1. /\ UNCHANGED <<name, nets, nsname, nsstream, count, opaque, handles>>
        /\ alloc' \ closes' = alloc \ closes
    BY <1>5, StreamsKeep
  <2>2. UNCHANGED <<hpool, hns>> /\ \A i : Subscribers(i)' = Subscribers(i)
    BY <2>1 DEF handles, Subscribers
  <2>3. QED BY <2>1, <2>2 DEF Shared
<1>6. CASE UNCHANGED allVars
  <2>1. UNCHANGED <<name, alloc, closes, netnss, handles>>
    BY <1>6 DEF allVars, netnsVars, vars, streams, events
  <2>2. UNCHANGED <<hpool, hns>> /\ \A i : Subscribers(i)' = Subscribers(i)
    BY <2>1 DEF handles, Subscribers
  <2>3. QED BY <2>1, <2>2 DEF Shared, netnss
<1>7. QED BY <1>1, <1>2, <1>3, <1>4, <1>5, <1>6 DEF NetnsNext, Api

-----------------------------------------------------------------------------
(***************************************************************************)
(* The theorems about the mirrors.                                         *)
(***************************************************************************)
\* The invariant of the streams, the types and the sharing hold together.
LEMMA NetnsInvariance == NetnsSpec => []NetnsInv
<1>1. NetnsInit => NetnsInv
  BY InvInit, NetnsTypeInit, SharedInit DEF NetnsInit, NetnsInv
<1>2. NetnsInv /\ [NetnsNext]_allVars => NetnsInv'
  BY StreamSteps, InvStep, NetnsTypeStep, SharedStep DEF NetnsInv
<1>3. QED BY <1>1, <1>2, PTL DEF NetnsSpec

\* netns.c uses rtnl.c as anybody may, so that the theorems about the streams
\* hold under it: a stream is opened and closed as rtnl.h has it.
THEOREM Composition == NetnsSpec => Spec
<1>1. NetnsInit => Init
  BY DEF NetnsInit
<1>2. NetnsInv /\ [NetnsNext]_allVars => [Next]_vars
  BY StreamSteps DEF NetnsInv
<1>3. QED BY <1>1, <1>2, NetnsInvariance, PTL DEF NetnsSpec, Spec

\* netns_open and netns_close count right, share one mirror per namespace,
\* and lose no stream and no handle.
THEOREM Sharing == NetnsSpec => []Shared
<1>1. NetnsInv => Shared
  BY DEF NetnsInv
<1>2. QED BY <1>1, NetnsInvariance, PTL

\* netns_notify and netns_callme: nothing gets into the mirror unannounced.
LEMMA AnnouncedStep ==
    ASSUME NetnsInv, Announced, [NetnsNext]_allVars
    PROVE  Announced'
<1> USE DEF NetnsInv
<1>1. ASSUME NEW n \in Names, NEW i \in NsIdx, NEW s \in Slots, NetnsOpen(n, i, s)
      PROVE  Announced'
  <2>1. /\ i \notin nets /\ Subscribe(i)
        /\ view' = [view EXCEPT ![i] = {}]
    BY <1>1 DEF NetnsOpen
  <2>2. \A h \in hpool : hns[h] # i
    BY <2>1 DEF Shared
  <2>3. \A h \in hpool : /\ told'[h] = told[h] /\ hns'[h] = hns[h]
                         /\ full'[h] = full[h] /\ view'[hns[h]] = view[hns[h]]
    BY <2>1, <2>2, FreshIsFree DEF Subscribe, NetnsTypeOK
  <2>4. FreshHandle \in HIdx /\ hpool' = hpool \cup {FreshHandle}
    BY <2>1 DEF Subscribe
  <2>5. /\ told'[FreshHandle] = {} /\ hns'[FreshHandle] = i
        /\ view'[i] = {}
    BY <2>1, <2>4 DEF Subscribe, NetnsTypeOK
  <2>6. QED BY <2>3, <2>4, <2>5 DEF Announced
<1>2. ASSUME NEW i \in NsIdx, NetnsJoin(i) PROVE Announced'
  <2>1. Subscribe(i) /\ UNCHANGED view
    BY <1>2 DEF NetnsJoin
  <2>2. \A h \in hpool : told'[h] = told[h] /\ hns'[h] = hns[h] /\ full'[h] = full[h]
    BY <2>1, FreshIsFree DEF Subscribe, NetnsTypeOK
  <2>3. FreshHandle \in HIdx /\ hpool' = hpool \cup {FreshHandle}
    BY <2>1 DEF Subscribe
  <2>4. /\ told'[FreshHandle] = {} /\ hns'[FreshHandle] = i
        /\ full'[FreshHandle] = (view'[i] = {})
    BY <2>1, <2>3 DEF Subscribe, NetnsTypeOK
  <2>5. QED BY <2>1, <2>2, <2>3, <2>4 DEF Announced
<1>3. ASSUME NEW h \in HIdx, NetnsClose(h) PROVE Announced'
  <2>1. UNCHANGED <<told, full, hns>>
    BY <1>3 DEF NetnsClose, history
  <2>2. CASE UNCHANGED view /\ hpool' \subseteq hpool
    BY <2>1, <2>2 DEF Announced
  <2>3. CASE /\ hpool' = hpool \ {h} /\ count[hns[h]] = 1 /\ h \in hpool
             /\ view' = [view EXCEPT ![hns[h]] = {}]
    <3>1. Cardinality(Subscribers(hns[h])) = 1
      BY <2>3 DEF Shared
    <3>2. Subscribers(hns[h]) = {h}
      <4>1. PICK x : Subscribers(hns[h]) = {x}
        BY <3>1, SubscribersFinite, FS_Singleton
      <4>2. h \in Subscribers(hns[h])
        BY <2>3 DEF Subscribers
      <4>3. QED BY <4>1, <4>2
    <3>3. \A x \in hpool' : x \in hpool /\ hns[x] # hns[h]
      BY <2>3, <3>2 DEF Subscribers
    <3>4. QED BY <2>1, <2>3, <3>3 DEF Announced, NetnsTypeOK
  <2>4. QED BY <1>3, <2>2, <2>3 DEF NetnsClose, NetnsDestroy
<1>4. ASSUME NEW h \in HIdx, NEW del \in BOOLEAN, NetnsCallme(h, del)
      PROVE  Announced'
  BY <1>4 DEF NetnsCallme, Announced, NetnsTypeOK, netnss, handles
<1>5. ASSUME NEW s \in Slots, Receive(s) PROVE Announced'
  <2> DEFINE m == Head(q[s])
             i == opaque[s]
  <2>1. q[s] # <<>> /\ Deliver(s, m)
    BY <1>5 DEF Receive, ReadRestart, ReadOther, Reading
  <2>2. UNCHANGED <<hpool, hns, full>>
    BY <2>1 DEF Deliver, handles
  <2>3. m \in Msg
    BY <2>1, TailType DEF NetnsTypeOK, TypeOK
  <2>4. /\ view' \in [NsIdx -> SUBSET Things]
        /\ \A j \in NsIdx \ {i} : view'[j] = view[j]
        /\ \A x \in view'[i] \ view[i], h \in HIdx :
             h \in Subscribers(i) => x \in told'[h]
        /\ \A h \in HIdx : \A x \in told[h] \ told'[h] :
             /\ h \in Subscribers(i) /\ m.kind = "DEL"
             /\ x[2] \in Found[m.obj] /\ (Found[x[2]] = {x[2]} => x \notin view'[i])
    BY <2>1, DeliverEffect
  <2>5. SUFFICES ASSUME NEW h \in hpool, full[h], NEW x \in view'[hns[h]], x[2] \in Distinct
                 PROVE  x \in told'[h]
    BY <2>2 DEF Announced
  <2>6. h \in HIdx /\ hns[h] \in NsIdx /\ (hns[h] = i <=> h \in Subscribers(i))
    BY DEF NetnsTypeOK, Subscribers
  <2> HIDE DEF m, i
  <2>7. CASE x \notin view[hns[h]]
    BY <2>4, <2>6, <2>7
  <2>8. CASE x \in view[hns[h]]
    <3>1. x \in told[h]
      BY <2>5, <2>8 DEF Announced
    <3>2. SUFFICES ASSUME x \notin told'[h] PROVE FALSE
      OBVIOUS
    <3>3. /\ m.kind = "DEL" /\ x[2] \in Found[m.obj] /\ hns[h] = i
          /\ Found[x[2]] = {x[2]} => x \notin view'[i]
      BY <2>4, <2>6, <3>1, <3>2
    <3>4. m.obj \in Objs
      BY <2>3, <3>3 DEF Msg
    <3>5. m.obj = x[2] /\ x[2] \in Objs
      BY <2>5, <3>3, <3>4 DEF Distinct
    <3>6. Found[x[2]] \subseteq Objs
      BY <3>5, NetnsConstants
    <3>7. Found[x[2]] = {x[2]}
      BY <2>5, <3>3, <3>5, <3>6 DEF Distinct
    <3>8. QED BY <2>5, <3>3, <3>7
  <2>9. QED BY <2>7, <2>8
<1>6. ASSUME UNCHANGED netnsVars PROVE Announced'
  BY <1>6 DEF netnsVars, netnss, handles, history, Announced
<1>7. QED
  BY <1>1, <1>2, <1>3, <1>4, <1>5, <1>6
     DEF NetnsNext, Api, Streams, MainLoop, allVars

LEMMA MirrorAnnounced == NetnsSpec => []Announced
<1>1. NetnsInit => Announced
  BY DEF NetnsInit, Announced
<1>2. NetnsInv /\ Announced /\ [NetnsNext]_allVars => Announced'
  BY AnnouncedStep
<1>3. QED BY <1>1, <1>2, NetnsInvariance, PTL DEF NetnsSpec

-----------------------------------------------------------------------------
(***************************************************************************)
(* Completeness.                                                           *)
(***************************************************************************)
\* The dumps asked for before the one a stream waits for.
Earlier == [LINK |-> {}, ADDR |-> {"LINK"}, ROUTE4 |-> {"LINK", "ADDR"},
            ROUTE6 |-> {"LINK", "ADDR", "ROUTE4"},
            NEIGH |-> {"LINK", "ADDR", "ROUTE4", "ROUTE6"}]

\* The kernel has taken the last request, and its answer has not failed.
Asked(s) == dump[s] # "none" \/ \E j \in DOMAIN q[s] : q[s][j].kind = "DONE"

\* The classes whose dumps the socket of s has been sent, or is being sent.
Covered(s) == IF state[s] = "READY" THEN Classes
              ELSE Earlier[sync[s]] \cup (IF Asked(s) THEN {sync[s]} ELSE {})

\* The mirror (j = 0) or message j says that o exists; message j that it
\* does not.
Said(s, o, j) == IF j = 0 THEN <<name[s], o>> \in view[opaque[s]]
                 ELSE q[s][j].kind = "NEW" /\ q[s][j].obj = o

Unsaid(s, o, j) == q[s][j].kind = "DEL" /\ q[s][j].obj = o

\* Once the queue is read, o is in the mirror.
Reported(s, o) ==
    \E j \in 0 .. Len(q[s]) :
        /\ Said(s, o, j)
        /\ \A k \in j + 1 .. Len(q[s]) : ~Unsaid(s, o, k)

\* Whatever a socket without a gap has been asked about and exists is still
\* to be dumped or will have been reported.
Follows(s) ==
    HasFd(s) /\ ~gap[s] =>
        \A o \in kern[name[s]] \cap Distinct :
            ClassOf[o] \in Covered(s) => o \in todo[s] \/ Reported(s, o)

\* The dump under way is the one the stream waits for.
DumpAsked ==
    \A s \in Slots : /\ dump[s] = "none" => todo[s] = {}
                     /\ dump[s] # "none" => dump[s] = sync[s]
                     /\ \A o \in todo[s] : ClassOf[o] = dump[s]

\* A stream that is being closed, whose last messages still go to its index,
\* is alone there: its successor has no socket yet.
ClosingApart ==
    \A s \in closes, t \in alloc \ closes : opaque[s] = opaque[t] => ~Connected(t)

GapsNoted == \A s \in Slots : lost[s] => gap[s]

MirrorInv ==
    /\ DumpAsked /\ ClosingApart /\ GapsNoted
    /\ \A s \in alloc \ closes : Follows(s)

\* Only a connected stream has a descriptor.
LEMMA FdConnected ==
    ASSUME TypeOK, NoSocketLeak, NEW s \in Slots, HasFd(s)
    PROVE  Connected(s)
  BY DEF HasFd, NoSocketLeak, TypeOK

\* A step that leaves a stream and its mirror alone leaves it complete.
LEMMA FollowsKept ==
    ASSUME NEW s \in Slots, Follows(s),
           HasFd(s)' /\ ~gap'[s] =>
             /\ HasFd(s) /\ ~gap[s]
             /\ name'[s] = name[s] /\ opaque'[s] = opaque[s] /\ q'[s] = q[s]
             /\ todo'[s] = todo[s] /\ kern'[name[s]] = kern[name[s]]
             /\ view'[opaque[s]] = view[opaque[s]]
             /\ Covered(s)' \subseteq Covered(s)
    PROVE  Follows(s)'
<1> SUFFICES ASSUME HasFd(s)', ~gap'[s], NEW o \in kern'[name'[s]] \cap Distinct,
                    ClassOf[o] \in Covered(s)'
             PROVE  o \in todo'[s] \/ Reported(s, o)'
  BY DEF Follows
<1>1. o \in todo[s] \/ Reported(s, o)
  BY DEF Follows
<1>2. Reported(s, o) => Reported(s, o)'
  BY DEF Reported, Said, Unsaid
<1>3. QED BY <1>1, <1>2

\* A message behind the others reports what it announces, and no message but
\* a deletion takes anything back.
LEMMA AppendReports ==
    ASSUME TypeOK, NEW s \in Slots, NEW m \in Msg, NEW o \in Objs,
           q'[s] = Append(q[s], m), UNCHANGED <<name, opaque, view>>
    PROVE  /\ Reported(s, o) /\ ~(m.kind = "DEL" /\ m.obj = o) => Reported(s, o)'
           /\ m.kind = "NEW" /\ m.obj = o => Reported(s, o)'
<1>1. /\ Len(q[s]) \in Nat /\ Len(q'[s]) = Len(q[s]) + 1
      /\ q'[s][Len(q[s]) + 1] = m
      /\ \A j \in 1 .. Len(q[s]) : q'[s][j] = q[s][j]
  BY DEF TypeOK
<1>2. ASSUME Reported(s, o), ~(m.kind = "DEL" /\ m.obj = o) PROVE Reported(s, o)'
  <2>1. PICK j \in 0 .. Len(q[s]) :
               Said(s, o, j) /\ \A k \in j + 1 .. Len(q[s]) : ~Unsaid(s, o, k)
    BY <1>2 DEF Reported
  <2>2. j \in 0 .. Len(q'[s]) /\ Said(s, o, j)'
    BY <1>1, <2>1 DEF Said
  <2>3. ASSUME NEW k \in j + 1 .. Len(q'[s]) PROVE ~Unsaid(s, o, k)'
    <3>1. k \in 1 .. Len(q[s]) \/ k = Len(q[s]) + 1
      BY <1>1
    <3>2. QED BY <1>1, <1>2, <2>1, <3>1 DEF Unsaid
  <2>4. QED BY <2>2, <2>3 DEF Reported
<1>3. ASSUME m.kind = "NEW", m.obj = o PROVE Reported(s, o)'
  <2>1. PICK n \in Nat : n = Len(q[s]) + 1
    BY <1>1
  <2>2. Said(s, o, n)'
    BY <1>1, <1>3, <2>1 DEF Said
  <2>3. QED BY <1>1, <2>1, <2>2 DEF Reported
<1>4. QED BY <1>2, <1>3

\* Reading a message does to the mirror what the message said.
LEMMA RecvReports ==
    ASSUME NetnsTypeOK, NEW s \in Slots, q[s] # <<>>, NEW o \in Distinct,
           q'[s] = Tail(q[s]), UNCHANGED <<name, opaque>>,
           \/ Deliver(s, Head(q[s]))
           \/ (Head(q[s]).kind = "DONE" /\ UNCHANGED view),
           Reported(s, o)
    PROVE  Reported(s, o)'
<1> DEFINE m == Head(q[s])
           i == opaque[s]
<1>1. /\ Len(q[s]) \in Nat \ {0} /\ Len(q'[s]) = Len(q[s]) - 1
      /\ m = q[s][1]
      /\ \A j \in 1 .. Len(q[s]) - 1 : q'[s][j] = q[s][j + 1]
  BY DEF NetnsTypeOK, TypeOK
<1>2. m \in Msg
  BY TailType DEF NetnsTypeOK, TypeOK
<1>3. /\ m.kind = "NEW" => <<name[s], m.obj>> \in view'[i]
      /\ \A x \in view[i] \ view'[i] :
           m.kind \in {"NEW", "DEL"} /\ x[2] \in Found[m.obj]
  <2>1. CASE Deliver(s, Head(q[s]))
    BY <2>1, DeliverEffect
  <2>2. CASE Head(q[s]).kind = "DONE" /\ UNCHANGED view
    BY <2>2
  <2>3. QED BY <2>1, <2>2
<1>4. PICK j \in 0 .. Len(q[s]) :
             Said(s, o, j) /\ \A k \in j + 1 .. Len(q[s]) : ~Unsaid(s, o, k)
  BY DEF Reported
<1>5. \A k \in 1 .. Len(q'[s]) : k + 1 > j => ~Unsaid(s, o, k)'
  BY <1>1, <1>4 DEF Unsaid
<1>6. CASE j > 1
  <2>1. j - 1 \in 0 .. Len(q'[s]) /\ Said(s, o, j - 1)'
    BY <1>1, <1>4, <1>6 DEF Said
  <2>2. \A k \in j .. Len(q'[s]) : ~Unsaid(s, o, k)'
    BY <1>1, <1>4, <1>5, <1>6
  <2>3. QED BY <1>1, <1>4, <1>6, <2>1, <2>2 DEF Reported
<1>7. CASE j \in {0, 1}
  <2>1. <<name[s], o>> \in view'[i]
    <3>1. CASE j = 1
      BY <1>1, <1>3, <1>4, <3>1 DEF Said
    <3>2. CASE j = 0
      <4>1. <<name[s], o>> \in view[i] /\ ~(m.kind = "DEL" /\ m.obj = o)
        BY <1>1, <1>4, <3>2 DEF Said, Unsaid
      <4>2. CASE <<name[s], o>> \notin view'[i]
        <5>1. m.kind \in {"NEW", "DEL"} /\ o \in Found[m.obj]
          BY <1>3, <4>1, <4>2
        <5>2. m.obj \in Objs
          BY <1>2, <5>1 DEF Msg
        <5>3. m.obj = o
          BY <5>1, <5>2 DEF Distinct
        <5>4. QED BY <1>3, <4>1, <4>2, <5>1, <5>3
      <4>3. QED BY <4>2
    <3>3. QED BY <1>7, <3>1, <3>2
  <2>2. Said(s, o, 0)'
    BY <2>1 DEF Said
  <2>3. QED BY <1>1, <1>5, <1>7, <2>2 DEF Reported
<1>8. QED BY <1>1, <1>4, <1>6, <1>7

\* Every change of sync_state comes without a dump or with a new one.
LEMMA DumpAskedStep ==
    ASSUME Inv, DumpAsked, [Next]_vars
    PROVE  DumpAsked'
<1> USE DEF Inv
<1> DEFINE At(x) == /\ dump[x] = "none" => todo[x] = {}
                    /\ dump[x] # "none" => dump[x] = sync[x]
                    /\ \A o \in todo[x] : ClassOf[o] = dump[x]
<1>1. ASSUME NEW x \in Slots PROVE At(x)
  BY DEF DumpAsked
<1>2. SUFFICES ASSUME NEW x \in Slots PROVE At(x)'
  BY DEF DumpAsked
<1>3. ASSUME dump'[x] = dump[x], todo'[x] = todo[x], sync'[x] = sync[x] PROVE At(x)'
  BY <1>1, <1>3
<1>4. ASSUME NEW s \in Slots, SocketClose(s), UNCHANGED <<sock, uix>>
      PROVE  /\ \/ dump'[x] = "none" /\ todo'[x] = {}
                \/ dump'[x] = dump[x] /\ todo'[x] = todo[x]
             /\ dump'[s] = "none" /\ todo'[s] = {}
  <2>1. /\ \A y \in Slots : HasFd(y)' <=> HasFd(y) /\ sock[y] # sock[s]
        /\ \A y \in Slots : ~HasFd(y)' => q'[y] = <<>> /\ dump'[y] = "none"
    BY <1>4, SocketCloseEffect
  <2>2. dump'[s] = "none"
    BY <2>1
  <2>3. \A y \in Slots : \/ dump'[y] = "none" /\ todo'[y] = {}
                         \/ dump'[y] = dump[y] /\ todo'[y] = todo[y]
    BY <1>4 DEF SocketClose, CloseFd
  <2>4. QED BY <1>1, <2>2, <2>3
<1>5. ASSUME NEW s \in Slots, SyncReset(s), UNCHANGED <<sock, uix>>
      PROVE  At(x)'
  <2>1. SocketClose(s) /\ sync' = [sync EXCEPT ![s] = "OPENING"]
    BY <1>5 DEF SyncReset
  <2>2. /\ \/ dump'[x] = "none" /\ todo'[x] = {}
           \/ dump'[x] = dump[x] /\ todo'[x] = todo[x]
        /\ dump'[s] = "none" /\ todo'[s] = {}
    BY <1>4, <1>5, <2>1
  <2>3. QED BY <1>1, <2>1, <2>2 DEF TypeOK
<1> HIDE DEF At
<1>6. ASSUME UNCHANGED <<dump, todo, sync>> PROVE At(x)'
  BY <1>3, <1>6
<1>7. ASSUME NEW s \in Slots, ProcessOpen(s) PROVE At(x)'
  <2>1. state[s] = "INIT" /\ s \in alloc
    BY <1>7 DEF ProcessOpen, CloseFindsOpened
  <2>2. dump[s] = "none"
    BY <2>1 DEF OneDump, Syncing
  <2>3. sync' = [sync EXCEPT ![s] = "OPENING"] /\ UNCHANGED <<dump, todo>>
    BY <1>7, <2>1 DEF ProcessOpen, sockets
  <2>4. QED BY <1>1, <2>2, <2>3 DEF At, TypeOK
<1>8. ASSUME NEW s \in Slots, ProcessClose(s) PROVE At(x)'
  <2>1. UNCHANGED <<sync, sock, uix>>
    BY <1>8 DEF ProcessClose
  <2>2. SocketClose(s) \/ UNCHANGED <<dump, todo>>
    BY <1>8 DEF ProcessClose, sockets
  <2>3. QED BY <1>1, <1>4, <1>6, <2>1, <2>2 DEF At
<1>9. ASSUME NEW s \in Slots, ReadRestart(s) PROVE At(x)'
  BY <1>5, <1>6, <1>9 DEF ReadRestart
<1>10. ASSUME NEW s \in Slots, NEW c \in Classes, NEW ok \in BOOLEAN,
              DumpRequest(s, c, ok), sync'[s] = c, \A y \in Slots \ {s} : sync'[y] = sync[y]
       PROVE  At(x)'
  <2>1. x # s => dump'[x] = dump[x] /\ todo'[x] = todo[x] /\ sync'[x] = sync[x]
    BY <1>10 DEF DumpRequest, TypeOK
  <2>2. /\ dump'[s] = IF ok THEN c ELSE "none"
        /\ todo'[s] = IF ok THEN {o \in kern[name[s]] : ClassOf[o] = c} ELSE {}
    BY <1>10 DEF DumpRequest, TypeOK
  <2>3. CASE x = s
    BY <1>10, <2>2, <2>3 DEF At, Classes
  <2>4. QED BY <1>3, <2>1, <2>3
<1>11. ASSUME NEW s \in Slots, ReadDone(s) PROVE At(x)'
  <2>1. dump[s] = "none" /\ Syncing(s)
    BY <1>11, NoMoreDone DEF ReadDone, Reading
  <2>2. CASE sync[s] = "NEIGH"
    <3>1. sync' = [sync EXCEPT ![s] = "OPENING"] /\ UNCHANGED <<dump, todo>>
      BY <1>11, <2>2 DEF ReadDone
    <3>2. QED BY <1>1, <2>1, <3>1 DEF At, TypeOK
  <2>3. CASE sync[s] # "NEIGH" /\ AskNext(s)
    <3>1. NextDump[sync[s]] \in Classes
      BY <2>1, <2>3 DEF NextDump, Sync, Classes, TypeOK, Syncing
    <3>2. sync' = [sync EXCEPT ![s] = NextDump[@]] /\ DumpRequest(s, NextDump[sync[s]], TRUE)
      BY <2>3 DEF AskNext
    <3>3. QED BY <1>10, <3>1, <3>2 DEF TypeOK
  <2>4. CASE AskRefused(s)
    BY <1>5, <1>11, <2>4 DEF AskRefused, ReadDone
  <2>5. QED BY <1>11, <2>1, <2>2, <2>3, <2>4 DEF ReadDone, Syncing
<1>12. ASSUME NEW s \in Slots, ExpireRunning(s) PROVE At(x)'
  BY <1>5, <1>6, <1>12 DEF ExpireRunning, sockets
<1>13. ASSUME NEW s \in Slots, NEW f \in Fds, NEW i \in Files, NEW ok \in BOOLEAN,
              OpenSocket(s, f, i, ok)
       PROVE  At(x)'
  <2>1. DumpRequest(s, "LINK", ok) /\ sync' = [sync EXCEPT ![s] = "LINK"]
    BY <1>13 DEF OpenSocket
  <2>2. QED BY <1>10, <2>1 DEF Classes, TypeOK
<1>14. ASSUME NEW s \in Slots, KernelDumpDone(s) \/ KernelError(s) PROVE At(x)'
  <2>1. UNCHANGED sync
    BY <1>14 DEF KernelDumpDone, KernelError, streams
  <2>2. CASE x = s
    <3>1. dump'[s] = "none" /\ todo'[s] = {}
      BY <1>14 DEF KernelDumpDone, KernelError, TypeOK
    <3>2. QED BY <2>2, <3>1 DEF At
  <2>3. CASE x # s
    <3>1. dump'[x] = dump[x] /\ todo'[x] = todo[x]
      BY <1>14, <2>3 DEF KernelDumpDone, KernelError, TypeOK
    <3>2. QED BY <1>3, <2>1, <3>1
  <2>4. QED BY <2>2, <2>3
<1>15. ASSUME UNCHANGED <<dump, sync>>, todo'[x] \subseteq todo[x] PROVE At(x)'
  BY <1>1, <1>15 DEF At
<1>16. ASSUME NEW s \in Slots, NEW o \in Objs, KernelDumpObj(s, o) PROVE At(x)'
  BY <1>15, <1>16 DEF KernelDumpObj, streams, TypeOK
<1>17. ASSUME NEW n \in Names, NEW o \in Objs, NEW h \in NoteHdrs, KernelChange(n, o, h)
       PROVE  At(x)'
  <2>1. todo'[x] \subseteq todo[x]
    BY <1>17 DEF KernelChange, TypeOK
  <2>2. QED BY <1>15, <1>17, <2>1 DEF KernelChange, streams
<1>18. QED
  BY <1>6, <1>7, <1>8, <1>9, <1>11, <1>12, <1>13, <1>14, <1>16, <1>17
     DEF Next, Process, Read, Expire, KernelAnswer, vars, streams, sockets,
         StreamOpen, StreamClose, ReadCb, Resume, Suspend, ReadStart, ReadEnd,
         ReadOther, OpenFails

\* Only the deadline handler connects a stream, once no close is pending.
LEMMA ConnectedStep ==
    ASSUME Inv, [Next]_vars, NEW x \in Slots, x \in alloc, Connected(x)', ~Connected(x)
    PROVE  closes = {}
<1> USE DEF Inv, Connected, Syncing
<1>1. ASSUME NEW s \in Slots, SyncReset(s), UNCHANGED <<alloc, state>> PROVE FALSE
  BY <1>1 DEF SyncReset, TypeOK
<1>2. ASSUME UNCHANGED <<alloc, state, sync>> PROVE FALSE
  BY <1>2
<1>3. ASSUME NEW s \in Slots, \/ ProcessOpen(s) \/ ProcessClose(s)
                              \/ \E n \in Names : StreamOpen(s, n)
      PROVE  FALSE
  BY <1>3 DEF ProcessOpen, ProcessClose, StreamOpen, TypeOK, CloseFindsOpened
<1>4. ASSUME NEW s \in Slots, ReadRestart(s) PROVE FALSE
  BY <1>1, <1>2, <1>4 DEF ReadRestart
<1>5. ASSUME NEW s \in Slots, ReadDone(s) PROVE FALSE
  <2>1. Syncing(s)
    BY <1>5, NoMoreDone DEF ReadDone, Reading
  <2>2. CASE AskRefused(s) /\ UNCHANGED state
    BY <1>1, <1>5, <2>2 DEF AskRefused, ReadDone
  <2>3. x # s
    BY <2>1
  <2>4. CASE sync[s] = "NEIGH" \/ (AskNext(s) /\ UNCHANGED state)
    <3>1. state'[x] = state[x] /\ sync'[x] = sync[x] /\ UNCHANGED alloc
      BY <1>5, <2>3, <2>4 DEF ReadDone, AskNext, TypeOK
    <3>2. QED BY <3>1
  <2>5. sync[s] # "OPENING"
    BY <2>1
  <2>6. sync[s] = "NEIGH" \/ ((AskNext(s) \/ AskRefused(s)) /\ UNCHANGED state)
    BY <1>5, <2>5 DEF ReadDone
  <2>7. QED BY <2>2, <2>4, <2>6
<1>6. ASSUME NEW s \in Slots, ExpireRunning(s) PROVE FALSE
  BY <1>1, <1>2, <1>6 DEF ExpireRunning
<1>7. ASSUME NEW s \in Slots, NEW f \in Fds, NEW i \in Files, NEW ok \in BOOLEAN,
             OpenSocket(s, f, i, ok)
      PROVE  closes = {}
  BY <1>7 DEF OpenSocket, Opening, Due, Quiet
<1>8. QED
  BY <1>2, <1>3, <1>4, <1>5, <1>6, <1>7
     DEF Next, Process, Read, Expire, KernelAnswer, vars, streams,
         StreamClose, ReadCb, Resume, Suspend, ReadStart, ReadEnd, ReadOther,
         OpenFails, KernelDumpDone, KernelDumpObj, KernelError, KernelChange

\* Closing, opening and connecting keep a closing stream apart.
LEMMA ClosingApartStep ==
    ASSUME NetnsInv, ClosingApart, [NetnsNext]_allVars
    PROVE  ClosingApart'
<1> USE DEF NetnsInv
<1>1. SUFFICES ASSUME NEW s \in closes', NEW t \in alloc' \ closes', opaque'[s] = opaque'[t]
               PROVE  ~Connected(t)'
  BY DEF ClosingApart
<1>2. s \in Slots /\ t \in Slots /\ [Next]_vars /\ Inv'
  BY StreamSteps, InvStep DEF Inv, TypeOK
<1>3. ASSUME t \in alloc, s \in closes, t \notin closes, opaque[s] = opaque[t]
      PROVE  ~Connected(t)'
  BY <1>2, <1>3, ConnectedStep DEF ClosingApart
<1>4. ASSUME NEW n \in Names, NEW i \in NsIdx, NEW z \in Slots, NetnsOpen(n, i, z)
      PROVE  ~Connected(t)'
  <2>1. /\ z \notin alloc /\ alloc' = alloc \cup {z} /\ UNCHANGED closes
        /\ state' = [state EXCEPT ![z] = "INIT"]
        /\ opaque' = [opaque EXCEPT ![z] = i]
    BY <1>4 DEF NetnsOpen, StreamOpen
  <2>2. CASE t = z
    BY <2>1, <2>2 DEF Connected, Syncing, Inv, TypeOK
  <2>3. CASE t # z
    <3>1. t \in alloc /\ s \in closes /\ t \notin closes /\ s # z
      BY <1>1, <2>1, <2>3 DEF Inv, CloseFindsOpened
    <3>2. opaque[s] = opaque[t]
      BY <1>1, <2>1, <2>3, <3>1 DEF NetnsTypeOK
    <3>3. QED BY <1>3, <3>1, <3>2
  <2>4. QED BY <2>2, <2>3
<1>5. ASSUME NEW h \in HIdx, NetnsClose(h) PROVE ~Connected(t)'
  <2>1. UNCHANGED opaque
    BY <1>5 DEF NetnsClose
  <2>2. CASE UNCHANGED vars
    BY <1>1, <1>3, <2>1, <2>2 DEF vars, streams, events
  <2>3. ASSUME StreamClose(nsstream[hns[h]]), h \in hpool PROVE ~Connected(t)'
    <3>1. /\ UNCHANGED alloc /\ closes' = closes \cup {nsstream[hns[h]]}
          /\ hns[h] \in nets
      BY <2>3 DEF StreamClose, streams, Shared
    <3>2. t \in alloc \ closes /\ t # nsstream[hns[h]] /\ t = nsstream[opaque[t]]
      BY <1>1, <3>1 DEF Shared
    <3>3. s # nsstream[hns[h]]
      BY <1>1, <2>1, <3>1, <3>2 DEF Shared
    <3>4. QED BY <1>1, <1>3, <2>1, <3>1, <3>2, <3>3
  <2>4. QED BY <1>5, <2>2, <2>3 DEF NetnsClose, NetnsDestroy
<1>6. ASSUME Streams PROVE ~Connected(t)'
  <2>1. UNCHANGED opaque /\ alloc' \ closes' = alloc \ closes
    BY <1>6, StreamsKeep
  <2>2. closes' \subseteq closes
    <3> USE DEF streams, events
    <3>1. CASE MainLoop
      BY <3>1 DEF MainLoop, Engine, Receive, ReadCb, ProcessOpen, ProcessClose,
                  ReadStart, ReadEnd, ReadDone, ReadRestart, ReadOther, Resume, Suspend
    <3>2. CASE Environment
      BY <3>2 DEF Environment, Expire, ExpireRunning, OpenFails, OpenSocket, KernelAnswer,
                  KernelDumpDone, KernelDumpObj, KernelError, KernelChange
    <3>3. QED BY <1>6, <3>1, <3>2 DEF Streams
  <2>3. QED BY <1>1, <1>3, <2>1, <2>2
<1>7. ASSUME UNCHANGED <<vars, opaque>> PROVE ~Connected(t)'
  BY <1>1, <1>3, <1>7 DEF vars, streams, events
<1>8. QED
  BY <1>4, <1>5, <1>6, <1>7
     DEF NetnsNext, Api, NetnsJoin, NetnsCallme, allVars, netnsVars, netnss

\* A dropped message leaves a gap, which is closed with the socket.
LEMMA GapsNotedStep ==
    ASSUME NetnsInv, GapsNoted, [NetnsNext]_allVars
    PROVE  GapsNoted'
<1>1. CASE Streams
  BY <1>1 DEF Streams, Gaps, GapsNoted
<1>2. CASE UNCHANGED <<lost, gap>>
  BY <1>2 DEF GapsNoted
<1>3. ASSUME Api PROVE UNCHANGED <<lost, gap>>
  <2>1. ASSUME NEW h \in HIdx, NetnsClose(h) PROVE UNCHANGED <<lost, gap>>
    BY <2>1 DEF NetnsClose, NetnsDestroy, StreamClose, vars, sockets
  <2>2. ASSUME NEW n \in Names, NEW i \in NsIdx, NEW s \in Slots, NetnsOpen(n, i, s)
        PROVE  UNCHANGED <<lost, gap>>
    BY <2>2 DEF NetnsOpen, StreamOpen, sockets
  <2>3. QED BY <1>3, <2>1, <2>2 DEF Api, NetnsJoin, NetnsCallme, vars, sockets
<1>4. QED BY <1>1, <1>2, <1>3 DEF NetnsNext, allVars, vars, sockets

\* Two streams that have a socket report to different mirrors, if one of
\* them is still used.
LEMMA OtherMirror ==
    ASSUME NetnsInv, ClosingApart, NEW s \in Slots, HasFd(s),
           NEW t \in alloc \ closes, HasFd(t), s # t
    PROVE  opaque[s] # opaque[t]
<1>1. Connected(s) /\ Connected(t) /\ s \in alloc
  BY FdConnected DEF NetnsInv, Inv, TypeOK, Connected, Syncing
<1>2. CASE s \in closes
  BY <1>1, <1>2 DEF ClosingApart
<1>3. CASE s \notin closes
  BY <1>1, <1>3 DEF NetnsInv, Shared
<1>4. QED BY <1>2, <1>3

\* API calls take mirrors only from streams they close, or give them to
\* streams that have no socket yet.
LEMMA FollowsApi ==
    ASSUME NetnsInv, MirrorInv, Api, NEW t \in alloc' \ closes'
    PROVE  Follows(t)'
<1> USE DEF NetnsInv
<1>1. ASSUME t \in alloc \ closes, UNCHANGED <<name[t], opaque[t], view[opaque[t]]>>,
             UNCHANGED <<state, sync, q, dump, todo, kern, sock, fdt, gap>>
      PROVE  Follows(t)'
  <2>1. t \in Slots /\ Follows(t)
    BY <1>1 DEF MirrorInv, Inv, TypeOK
  <2>2. (HasFd(t)' <=> HasFd(t)) /\ Covered(t)' = Covered(t)
    BY <1>1 DEF HasFd, Covered, Asked
  <2>3. QED BY <1>1, <2>1, <2>2, FollowsKept
<1>2. ASSUME NEW n \in Names, NEW i \in NsIdx, NEW s \in Slots, NetnsOpen(n, i, s)
      PROVE  Follows(t)'
  <2>1. /\ i \notin nets /\ s \notin alloc
        /\ alloc' = alloc \cup {s} /\ UNCHANGED closes
        /\ state' = [state EXCEPT ![s] = "INIT"]
        /\ name' = [name EXCEPT ![s] = n]
        /\ opaque' = [opaque EXCEPT ![s] = i]
        /\ view' = [view EXCEPT ![i] = {}]
        /\ UNCHANGED <<sync, q, dump, todo, kern, sock, fdt, gap>>
    BY <1>2 DEF NetnsOpen, StreamOpen, sockets, world
  <2>2. CASE t = s
    <3>1. ~HasFd(s)
      BY <2>1, FdConnected DEF Inv, Connected, Syncing
    <3>2. ~HasFd(t)'
      BY <2>1, <2>2, <3>1 DEF HasFd
    <3>3. QED BY <3>2 DEF Follows
  <2>3. CASE t # s
    <3>1. t \in alloc \ closes /\ opaque[t] \in nets /\ t \in Slots
      BY <2>1, <2>3 DEF Shared, Inv, TypeOK
    <3>2. opaque[t] # i
      BY <2>1, <3>1
    <3>3. /\ name'[t] = name[t] /\ opaque'[t] = opaque[t] /\ state'[t] = state[t]
          /\ view'[opaque[t]] = view[opaque[t]]
      BY <2>1, <2>3, <3>1, <3>2 DEF Inv, TypeOK, NetnsTypeOK
    <3>4. (HasFd(t)' <=> HasFd(t)) /\ Covered(t)' = Covered(t)
      BY <2>1, <3>3 DEF HasFd, Covered, Asked
    <3>5. QED BY <2>1, <3>1, <3>3, <3>4, FollowsKept DEF MirrorInv
  <2>4. QED BY <2>2, <2>3
<1>3. ASSUME NEW h \in HIdx, NetnsClose(h) PROVE Follows(t)'
  <2>1. UNCHANGED <<opaque, gap>>
    BY <1>3 DEF NetnsClose
  <2>2. CASE UNCHANGED <<vars, view>>
    <3>1. UNCHANGED <<alloc, closes, name, state, sync, q, dump, todo, kern, sock, fdt>>
      BY <2>2 DEF vars, streams, events, sockets, world
    <3>2. t \in alloc \ closes
      BY <3>1
    <3>3. QED BY <1>1, <2>1, <2>2, <3>1, <3>2
  <2>3. ASSUME NetnsDestroy(hns[h]), h \in hpool PROVE Follows(t)'
    <3>1. /\ closes' = closes \cup {nsstream[hns[h]]}
          /\ view' = [view EXCEPT ![hns[h]] = {}] /\ hns[h] \in nets
          /\ UNCHANGED <<alloc, name, state, sync, q, dump, todo, kern, sock, fdt>>
      BY <2>3 DEF NetnsDestroy, StreamClose, streams, sockets, world, Shared
    <3>2. t \in alloc \ closes /\ t # nsstream[hns[h]]
      BY <3>1
    <3>3. opaque[t] # hns[h]
      BY <3>2 DEF Shared
    <3>4. view'[opaque[t]] = view[opaque[t]]
      BY <3>1, <3>2, <3>3 DEF NetnsTypeOK, Inv, TypeOK
    <3>5. QED BY <1>1, <2>1, <3>1, <3>2, <3>4
  <2>4. QED BY <1>3, <2>2, <2>3 DEF NetnsClose
<1>4. ASSUME UNCHANGED <<vars, view, opaque, gap>> PROVE Follows(t)'
  <2>1. UNCHANGED <<alloc, closes, name, state, sync, q, dump, todo, kern, sock, fdt>>
    BY <1>4 DEF vars, streams, events, sockets, world
  <2>2. t \in alloc \ closes
    BY <2>1
  <2>3. QED BY <1>1, <1>4, <2>1, <2>2
<1>5. QED BY <1>2, <1>3, <1>4 DEF Api, NetnsJoin, NetnsCallme, netnss

\* What the steps below have in common: a stream the step is not about, or
\* one whose queue and dump it leaves alone.
LEMMA FollowsFrame ==
    ASSUME NetnsInv, MirrorInv, Streams, NEW t \in alloc \ closes,
           HasFd(t)' /\ ~gap'[t] =>
             /\ HasFd(t)
             /\ q'[t] = q[t] /\ todo'[t] = todo[t] /\ dump'[t] = dump[t]
             /\ state'[t] = state[t] /\ sync'[t] = sync[t]
             /\ view'[opaque[t]] = view[opaque[t]]
             /\ kern'[name[t]] = kern[name[t]]
    PROVE  Follows(t)'
<1>1. UNCHANGED <<name, opaque>> /\ t \in Slots
  BY StreamsKeep DEF NetnsInv, Inv, TypeOK
<1>2. ASSUME HasFd(t)', ~gap'[t]
      PROVE  /\ HasFd(t) /\ ~gap[t]
             /\ name'[t] = name[t] /\ opaque'[t] = opaque[t] /\ q'[t] = q[t]
             /\ todo'[t] = todo[t] /\ kern'[name[t]] = kern[name[t]]
             /\ view'[opaque[t]] = view[opaque[t]]
             /\ Covered(t)' \subseteq Covered(t)
  BY <1>1, <1>2 DEF Streams, Gaps, Covered, Asked
<1>3. QED BY <1>1, <1>2, FollowsKept DEF MirrorInv

\* A reset takes its own socket along and leaves the others alone.
LEMMA FollowsReset ==
    ASSUME NetnsInv, MirrorInv, Streams, NEW s \in Slots, SyncReset(s),
           UNCHANGED <<sock, uix, state, kern>>, NEW t \in alloc \ closes,
           HasFd(t) /\ t # s => view'[opaque[t]] = view[opaque[t]]
    PROVE  Follows(t)'
<1>1. /\ \A x \in Slots : HasFd(x)' <=> HasFd(x) /\ sock[x] # sock[s]
      /\ \A x \in Slots : HasFd(x)' => q'[x] = q[x] /\ dump'[x] = dump[x]
      /\ \A x \in Slots : HasFd(x)' => todo'[x] = todo[x]
  BY SocketCloseEffect DEF SyncReset, NetnsInv, Inv
<1>2. t \in Slots /\ sync' = [sync EXCEPT ![s] = "OPENING"]
  BY DEF SyncReset, NetnsInv, Inv, TypeOK
<1>3. ASSUME HasFd(t)' PROVE sync'[t] = sync[t] /\ t # s
  BY <1>1, <1>2, <1>3 DEF NetnsInv, Inv, TypeOK
<1>4. QED BY <1>1, <1>2, <1>3, FollowsFrame

\* ns_recv_rtnl: a message either restarts its stream or gets into the mirror.
LEMMA FollowsReceive ==
    ASSUME NetnsInv, MirrorInv, Streams,
           NEW s \in Slots, Receive(s), NEW t \in alloc \ closes
    PROVE  Follows(t)'
<1> USE DEF NetnsInv
<1>1. /\ HasFd(s) /\ q[s] # <<>> /\ Deliver(s, Head(q[s]))
      /\ UNCHANGED <<name, opaque>> /\ t \in Slots
  BY StreamsKeep DEF Receive, ReadRestart, ReadOther, Reading, Inv, TypeOK
<1>2. ASSUME HasFd(t), t # s PROVE view'[opaque[t]] = view[opaque[t]]
  <2>1. opaque[s] # opaque[t]
    BY <1>1, <1>2, OtherMirror DEF MirrorInv
  <2>2. QED BY <1>1, <2>1 DEF Deliver, NetnsTypeOK
<1>3. CASE ReadRestart(s)
  <2>1. sync[s] # "OPENING"
    BY <1>3, FdConnected DEF ReadRestart, Reading, Restarts, Connected, Syncing, Inv
  <2>2. SyncReset(s) /\ UNCHANGED <<sock, uix, state, kern>>
    BY <1>3, <2>1 DEF ReadRestart, world
  <2>3. QED BY <1>2, <2>2, FollowsReset
<1>4. CASE ReadOther(s)
  <2>1. /\ q' = [q EXCEPT ![s] = Tail(@)] /\ Head(q[s]).kind # "DONE"
        /\ UNCHANGED <<state, sync, sock, fdt, dump, todo, kern>>
    BY <1>4 DEF ReadOther, streams, world
  <2>2. CASE t # s
    BY <1>2, <2>1, <2>2, FollowsFrame DEF HasFd, Inv, TypeOK
  <2>3. CASE t = s
    <3>1. SUFFICES ASSUME ~gap'[s], NEW o \in kern[name[s]] \cap Distinct, ClassOf[o] \in Covered(s)'
                   PROVE  o \in todo[s] \/ Reported(s, o)'
      BY <1>1, <2>1, <2>3 DEF Follows
    <3>2. ~gap[s] /\ o \in Objs
      BY <1>1, <2>1, <3>1 DEF Streams, Gaps, HasFd, Inv, TypeOK
    <3>3. q'[s] = Tail(q[s])
      BY <2>1 DEF Inv, TypeOK
    <3>4. Asked(s)' => Asked(s)
      BY <1>1, <2>1, <3>3 DEF Asked, Inv, TypeOK
    <3>5. Covered(s)' \subseteq Covered(s)
      BY <2>1, <3>4 DEF Covered
    <3>6. o \in todo[s] \/ Reported(s, o)
      BY <1>1, <2>3, <3>1, <3>2, <3>5 DEF MirrorInv, Follows
    <3>7. Reported(s, o) => Reported(s, o)'
      BY <1>1, <3>2, <3>3, RecvReports
    <3>8. QED BY <3>6, <3>7
  <2>4. QED BY <2>2, <2>3
<1>5. QED BY <1>3, <1>4 DEF Receive

\* The dumps are asked for in the order of Earlier, to the last.
LEMMA NextCovers ==
    ASSUME NEW c \in Classes
    PROVE  /\ c = "NEIGH" => Classes = Earlier[c] \cup {c}
           /\ c # "NEIGH" => /\ NextDump[c] \in Classes
                             /\ Earlier[NextDump[c]] = Earlier[c] \cup {c}
  BY DEF Classes, Earlier, NextDump

\* rtnl_sync_done: the end of a dump makes way for the next one, or for READY.
LEMMA FollowsDone ==
    ASSUME NetnsInv, MirrorInv, Streams, UNCHANGED view,
           NEW s \in Slots, ReadDone(s), NEW t \in alloc \ closes
    PROVE  Follows(t)'
<1> USE DEF NetnsInv
<1>1. /\ HasFd(s) /\ q[s] # <<>> /\ Head(q[s]).kind = "DONE"
      /\ UNCHANGED <<name, opaque, sock, uix, kern>> /\ t \in Slots
  BY StreamsKeep DEF ReadDone, Reading, Inv, TypeOK, world
<1>2. Syncing(s) /\ dump[s] = "none"
  BY <1>1, NoMoreDone DEF Inv
<1>3. sync[s] \in Classes /\ state[s] = "SYNC"
  BY <1>2 DEF Syncing, Sync, Inv, TypeOK
<1>4. Asked(s)
  <2>1. 1 \in DOMAIN q[s] /\ q[s][1] = Head(q[s])
    BY <1>1 DEF Inv, TypeOK
  <2>2. QED BY <1>1, <2>1 DEF Asked
<1>5. Covered(s) = Earlier[sync[s]] \cup {sync[s]}
  BY <1>3, <1>4 DEF Covered
<1>6. todo[s] = {}
  BY <1>2 DEF MirrorInv, DumpAsked
<1>7. ASSUME q'[s] = Tail(q[s]), UNCHANGED fdt, NEW o \in Distinct,
             o \in kern[name[s]], ClassOf[o] \in Covered(s), t = s, ~gap'[s]
      PROVE  Reported(s, o)'
  <2>1. ~gap[s]
    BY <1>1, <1>7 DEF Streams, Gaps, HasFd
  <2>2. Reported(s, o)
    BY <1>1, <1>6, <1>7, <2>1 DEF MirrorInv, Follows
  <2>3. QED BY <1>1, <1>7, <2>2, RecvReports
<1>8. CASE sync[s] = "NEIGH"
  <2>1. /\ q' = [q EXCEPT ![s] = Tail(@)]
        /\ state' = [state EXCEPT ![s] = "READY"]
        /\ sync' = [sync EXCEPT ![s] = "OPENING"]
        /\ UNCHANGED <<fdt, dump, todo>>
    BY <1>8 DEF ReadDone
  <2>2. CASE t # s
    BY <1>1, <2>1, <2>2, FollowsFrame DEF HasFd, Inv, TypeOK
  <2>3. CASE t = s
    <3>1. SUFFICES ASSUME ~gap'[s], NEW o \in kern[name[s]] \cap Distinct, ClassOf[o] \in Covered(s)'
                   PROVE  Reported(s, o)'
      BY <1>1, <2>3 DEF Follows
    <3>2. o \in Objs /\ ClassOf[o] \in Classes
      BY RtnlConstants DEF Inv, TypeOK
    <3>3. ClassOf[o] \in Covered(s)
      BY <1>3, <1>5, <1>8, <3>2, NextCovers
    <3>4. q'[s] = Tail(q[s])
      BY <2>1 DEF Inv, TypeOK
    <3>5. QED BY <1>7, <2>1, <2>3, <3>1, <3>2, <3>3, <3>4
  <2>4. QED BY <2>2, <2>3
<1>9. CASE sync[s] # "NEIGH" /\ AskNext(s) /\ UNCHANGED state
  <2> DEFINE c == NextDump[sync[s]]
  <2>1. /\ q' = [q EXCEPT ![s] = Tail(@)]
        /\ sync' = [sync EXCEPT ![s] = c]
        /\ dump' = [dump EXCEPT ![s] = c]
        /\ todo' = [todo EXCEPT ![s] = {o \in kern[name[s]] : ClassOf[o] = c}]
        /\ UNCHANGED <<fdt, state>>
    BY <1>9 DEF AskNext, DumpRequest
  <2>2. CASE t # s
    BY <1>1, <2>1, <2>2, FollowsFrame DEF HasFd, Inv, TypeOK
  <2>3. CASE t = s
    <3>1. SUFFICES ASSUME ~gap'[s], NEW o \in kern[name[s]] \cap Distinct, ClassOf[o] \in Covered(s)'
                   PROVE  o \in todo'[s] \/ Reported(s, o)'
      BY <1>1, <2>3 DEF Follows
    <3>2. o \in Objs
      BY DEF Inv, TypeOK
    <3>3. Covered(s)' \subseteq Earlier[c] \cup {c}
      BY <1>3, <2>1 DEF Covered, Inv, TypeOK
    <3>4. ClassOf[o] \in Covered(s) \/ ClassOf[o] = c
      BY <1>3, <1>5, <1>9, <3>1, <3>3, NextCovers
    <3>5. CASE ClassOf[o] = c
      BY <2>1, <3>5 DEF Inv, TypeOK
    <3>6. CASE ClassOf[o] \in Covered(s)
      <4>1. q'[s] = Tail(q[s])
        BY <2>1 DEF Inv, TypeOK
      <4>2. QED BY <1>7, <2>1, <2>3, <3>1, <3>2, <3>6, <4>1
    <3>7. QED BY <3>4, <3>5, <3>6
  <2>4. QED BY <2>2, <2>3
<1>10. CASE AskRefused(s) /\ UNCHANGED state
  BY <1>1, <1>10, FollowsReset DEF AskRefused
<1>11. QED
  <2>1. sync[s] # "OPENING"
    BY <1>2 DEF Syncing
  <2>2. \/ sync[s] = "NEIGH"
        \/ sync[s] # "NEIGH" /\ (AskNext(s) \/ AskRefused(s)) /\ UNCHANGED state
    BY <2>1 DEF ReadDone
  <2>3. QED BY <1>8, <1>9, <1>10, <2>2

\* The kernel's answers: what leaves the dump gets into the queue.
LEMMA FollowsAnswer ==
    ASSUME NetnsInv, MirrorInv, Streams, UNCHANGED netnsVars, NEW s \in Slots,
           KernelAnswer(s) \/ KernelError(s), NEW t \in alloc \ closes
    PROVE  Follows(t)'
<1> USE DEF NetnsInv
<1>1. /\ dump[s] # "none" /\ dump[s] = sync[s] /\ t \in Slots /\ s \in Slots
      /\ UNCHANGED <<name, opaque, view, state, sync, sock, fdt, kern, seq>>
  BY DEF KernelAnswer, KernelDumpDone, KernelDumpObj, KernelError, streams, world,
         MirrorInv, DumpAsked, Inv, TypeOK, netnsVars, netnss
<1>2. seq[s] \in 0 .. SeqMod - 1
  BY DEF Inv, TypeOK
<1>3. CASE t # s
  <2>1. q'[t] = q[t] /\ dump'[t] = dump[t] /\ todo'[t] = todo[t]
    BY <1>1, <1>3 DEF KernelAnswer, KernelDumpDone, KernelDumpObj, KernelError, Inv, TypeOK
  <2>2. QED BY <1>1, <2>1, FollowsFrame DEF HasFd
<1>4. CASE t = s
  <2> SUFFICES ASSUME HasFd(s), ~gap'[s], NEW o \in kern[name[s]] \cap Distinct, ClassOf[o] \in Covered(s)'
               PROVE  o \in todo'[s] \/ Reported(s, o)'
    BY <1>1, <1>4 DEF Follows, HasFd
  <2>1. ~gap[s] /\ o \in Objs
    BY <1>1 DEF Streams, Gaps, HasFd, Inv, TypeOK
  <2>2. Covered(s)' \subseteq Covered(s)
    BY <1>1 DEF Covered, Asked
  <2>3. o \in todo[s] \/ Reported(s, o)
    BY <1>4, <2>1, <2>2 DEF MirrorInv, Follows
  <2>4. CASE KernelDumpDone(s)
    <3>1. Answer(s, "DONE", NoObj) \in Msg
      BY <1>2 DEF Answer, Msg
    <3>2. q'[s] = Append(q[s], Answer(s, "DONE", NoObj)) /\ todo[s] = {}
      BY <2>4 DEF KernelDumpDone, Inv, TypeOK
    <3>3. Answer(s, "DONE", NoObj).kind = "DONE"
      BY DEF Answer
    <3>4. Reported(s, o)'
      BY <1>1, <2>1, <2>3, <3>1, <3>2, <3>3, AppendReports DEF Inv
    <3>5. QED BY <3>4
  <2>5. ASSUME NEW p \in Objs, KernelDumpObj(s, p) PROVE o \in todo'[s] \/ Reported(s, o)'
    <3>1. Answer(s, "NEW", p) \in Msg
      BY <1>2 DEF Answer, Msg
    <3>2. q'[s] = Append(q[s], Answer(s, "NEW", p)) /\ todo'[s] = todo[s] \ {p}
      BY <2>5 DEF KernelDumpObj, Inv, TypeOK
    <3>3. Answer(s, "NEW", p).kind = "NEW" /\ Answer(s, "NEW", p).obj = p
      BY DEF Answer
    <3>4. (Reported(s, o) => Reported(s, o)') /\ (o = p => Reported(s, o)')
      BY <1>1, <2>1, <3>1, <3>2, <3>3, AppendReports DEF Inv
    <3>5. QED BY <2>3, <3>2, <3>4
  <2>6. CASE KernelError(s)
    <3>1. Answer(s, "ERROR", NoObj) \in Msg
      BY <1>2 DEF Answer, Msg
    <3>2. /\ q'[s] = Append(q[s], Answer(s, "ERROR", NoObj))
          /\ dump'[s] = "none"
      BY <2>6 DEF KernelError, Inv, TypeOK
    <3>3. Answer(s, "ERROR", NoObj).kind = "ERROR"
      BY DEF Answer
    <3>4. Reported(s, o) => Reported(s, o)'
      BY <1>1, <2>1, <3>1, <3>2, <3>3, AppendReports DEF Inv
    <3>5. ~Asked(s)'
      <4>1. \A j \in DOMAIN q[s] : q[s][j].kind # "DONE"
        BY <1>1 DEF Inv, OneDump
      <4>2. \A j \in DOMAIN q'[s] : q'[s][j].kind # "DONE"
        BY <3>1, <3>2, <3>3, <4>1 DEF Inv, TypeOK
      <4>3. QED BY <3>2, <4>2 DEF Asked
    <3>6. Syncing(s) /\ sync[s] \in Classes
      BY <1>1 DEF Inv, OneDump, Syncing, Sync, TypeOK
    <3>7. ClassOf[o] \in Earlier[sync[s]]
      BY <1>1, <3>5, <3>6 DEF Covered, Syncing
    <3>8. o \notin todo[s]
      BY <1>1, <3>6, <3>7 DEF MirrorInv, DumpAsked, Earlier, Classes
    <3>9. QED BY <2>3, <3>4, <3>8
  <2>7. QED BY <2>4, <2>5, <2>6 DEF KernelAnswer
<1>5. QED BY <1>3, <1>4

\* A change of a namespace is told to every socket bound there, or leaves a
\* gap.
LEMMA FollowsChange ==
    ASSUME NetnsInv, MirrorInv, Streams, UNCHANGED netnsVars, NEW t \in alloc \ closes,
           NEW n \in Names, NEW p \in Objs, NEW h \in NoteHdrs, KernelChange(n, p, h)
    PROVE  Follows(t)'
<1> USE DEF NetnsInv
<1> DEFINE k == IF p \in kern[n] THEN "DEL" ELSE "NEW"
           note == [kind |-> k, obj |-> p, seq |-> h.seq, notify |-> h.notify]
<1>1. /\ t \in Slots
      /\ UNCHANGED <<name, opaque, view, state, sync, sock, fdt, dump>>
  BY DEF KernelChange, streams, Inv, TypeOK, netnsVars, netnss
<1>2. (HasFd(t)' <=> HasFd(t)) /\ (~gap'[t] => ~gap[t] \/ ~HasFd(t)) /\ (~gap'[t] => ~lost'[t])
  BY <1>1 DEF HasFd, Streams, Gaps
<1>3. note \in Msg /\ note.kind = k /\ note.obj = p
  BY RtnlConstants DEF Msg
<1>4. CASE name[t] # n \/ ~HasFd(t)
  <2>1. q'[t] = q[t] /\ todo'[t] = todo[t]
    BY <1>1, <1>4 DEF KernelChange
  <2>2. HasFd(t) => kern'[name[t]] = kern[name[t]]
    BY <1>1, <1>4 DEF KernelChange, Inv, TypeOK
  <2>3. QED BY <1>1, <1>2, <2>1, <2>2, FollowsFrame
<1>5. CASE name[t] = n /\ HasFd(t)
  <2> SUFFICES ASSUME ~gap'[t], NEW o \in kern'[n] \cap Distinct, ClassOf[o] \in Covered(t)'
               PROVE  o \in todo'[t] \/ Reported(t, o)'
    BY <1>1, <1>5 DEF Follows
  <2>1. /\ kern'[n] = IF p \in kern[n] THEN kern[n] \ {p} ELSE kern[n] \cup {p}
        /\ todo'[t] = todo[t] \ {p}
        /\ lost'[t] = (lost[t] \/ ~Room(t))
        /\ q'[t] = IF Room(t) THEN Append(q[t], note) ELSE q[t]
    BY <1>1, <1>5 DEF KernelChange, Inv, TypeOK
  <2>2. q'[t] = Append(q[t], note)
    BY <1>2, <2>1
  <2>3. o \in Objs
    BY <2>1 DEF Inv, TypeOK
  <2> HIDE DEF k, note
  <2>4. Asked(t)' => Asked(t)
    <3>1. note.kind # "DONE"
      BY <1>3 DEF k
    <3>2. (\E j \in DOMAIN q'[t] : q'[t][j].kind = "DONE")
             => \E j \in DOMAIN q[t] : q[t][j].kind = "DONE"
      BY <1>1, <1>3, <2>2, <3>1 DEF Inv, TypeOK
    <3>3. QED BY <1>1, <3>2 DEF Asked
  <2>5. Covered(t)' \subseteq Covered(t)
    BY <1>1, <2>4 DEF Covered
  <2>6. CASE o = p
    <3>1. k = "NEW"
      BY <2>1, <2>6 DEF k
    <3>2. Reported(t, o)'
      BY <1>1, <1>3, <2>2, <2>3, <2>6, <3>1, AppendReports DEF Inv
    <3>3. QED BY <3>2
  <2>7. CASE o # p
    <3>1. o \in kern[name[t]] /\ ~gap[t]
      BY <1>2, <1>5, <2>1, <2>7
    <3>2. o \in todo[t] \/ Reported(t, o)
      BY <1>5, <2>5, <3>1 DEF MirrorInv, Follows
    <3>3. Reported(t, o) => Reported(t, o)'
      BY <1>1, <1>3, <2>2, <2>3, <2>7, AppendReports DEF Inv
    <3>4. QED BY <2>1, <2>7, <3>2, <3>3
  <2>8. QED BY <2>6, <2>7
<1>6. QED BY <1>4, <1>5

\* A new socket begins with the dump of the links, which covers what it asks.
LEMMA FollowsOpen ==
    ASSUME NetnsInv, MirrorInv, Streams, UNCHANGED netnsVars, NEW s \in Slots,
           NEW f \in Fds, NEW i \in Files, NEW ok \in BOOLEAN, OpenSocket(s, f, i, ok),
           NEW t \in alloc \ closes
    PROVE  Follows(t)'
<1> USE DEF NetnsInv
<1>1. /\ s \in alloc /\ state[s] = "SYNC" /\ sync[s] = "OPENING"
      /\ fdt[f] = "free" /\ sock' = [sock EXCEPT ![s] = f]
      /\ fdt' = [fdt EXCEPT ![f] = s]
      /\ sync' = [sync EXCEPT ![s] = "LINK"]
      /\ dump' = [dump EXCEPT ![s] = IF ok THEN "LINK" ELSE "none"]
      /\ todo' = [todo EXCEPT ![s] =
                    IF ok THEN {o \in kern[name[s]] : ClassOf[o] = "LINK"} ELSE {}]
      /\ UNCHANGED <<state, q, kern, name, view, opaque>> /\ t \in Slots
  BY DEF OpenSocket, Opening, Due, DumpRequest, world, netnsVars, netnss, Inv, TypeOK
<1>2. CASE t # s
  <2>1. HasFd(t)' => HasFd(t)
    BY <1>1, <1>2, RtnlConstants DEF HasFd, Inv, TypeOK
  <2>2. QED BY <1>1, <1>2, <2>1, FollowsFrame DEF Inv, TypeOK
<1>3. CASE t = s
  <2>1. ~HasFd(s)
    BY <1>1, FdConnected DEF Connected, Syncing, Inv
  <2>2. q[s] = <<>>
    BY <2>1 DEF Inv, OneDump
  <2>3. Covered(s)' \subseteq IF ok THEN {"LINK"} ELSE {}
    <3>1. DOMAIN q'[s] = {}
      BY <1>1, <2>2
    <3>2. Asked(s)' => ok
      BY <1>1, <3>1 DEF Asked, Inv, TypeOK
    <3>3. state'[s] = "SYNC" /\ sync'[s] = "LINK"
      BY <1>1 DEF Inv, TypeOK
    <3>4. QED BY <3>2, <3>3 DEF Covered, Earlier
  <2>4. \A o \in kern'[name'[s]] : ClassOf[o] \in Covered(s)' => o \in todo'[s]
    BY <1>1, <2>3 DEF Inv, TypeOK
  <2>5. QED BY <1>3, <2>4 DEF Follows
<1>4. QED BY <1>2, <1>3

\* Every step of the streams keeps the mirrors complete.
LEMMA FollowsStreams ==
    ASSUME NetnsInv, MirrorInv, Streams, NEW t \in alloc \ closes
    PROVE  Follows(t)'
<1> USE DEF NetnsInv
<1>1. t \in Slots /\ UNCHANGED name
  BY StreamsKeep DEF Inv, TypeOK
<1>2. ASSUME UNCHANGED view,
             UNCHANGED <<sock, fdt, q, dump, todo, kern, state, sync>>
      PROVE  Follows(t)'
  BY <1>2, FollowsFrame DEF HasFd
<1>3. ASSUME MainLoop PROVE Follows(t)'
  <2>1. ASSUME NEW s \in Slots, Engine(s), UNCHANGED netnsVars PROVE Follows(t)'
    <3>1. UNCHANGED view
      BY <2>1 DEF netnsVars, netnss
    <3>2. CASE ReadCb(s) \/ ReadStart(s) \/ ReadEnd(s)
      BY <1>2, <3>1, <3>2 DEF ReadCb, ReadStart, ReadEnd, streams, sockets, world
    <3>3. CASE ProcessOpen(s)
      <4>1. s \in alloc /\ state[s] = "INIT"
        BY <3>3 DEF ProcessOpen, Inv, CloseFindsOpened
      <4>2. /\ UNCHANGED <<sock, fdt, q, dump, todo, kern>>
            /\ state' = [state EXCEPT ![s] = "SYNC"]
            /\ sync' = [sync EXCEPT ![s] = "OPENING"]
        BY <3>3, <4>1 DEF ProcessOpen, sockets, world
      <4>3. HasFd(t) => t # s
        BY <1>1, <4>1, FdConnected DEF Connected, Syncing, Inv
      <4>4. HasFd(t)' => HasFd(t) /\ state'[t] = state[t] /\ sync'[t] = sync[t]
        BY <1>1, <4>2, <4>3 DEF HasFd, Inv, TypeOK
      <4>5. QED BY <3>1, <4>2, <4>4, FollowsFrame
    <3>4. CASE ProcessClose(s)
      <4>1. UNCHANGED <<state, sync, sock, uix, kern>>
        BY <3>4 DEF ProcessClose, world
      <4>2. CASE SocketClose(s)
        <5>1. HasFd(t)' => /\ HasFd(t) /\ q'[t] = q[t]
                           /\ dump'[t] = dump[t] /\ todo'[t] = todo[t]
          BY <1>1, <4>1, <4>2, SocketCloseEffect DEF Inv
        <5>2. QED BY <3>1, <4>1, <5>1, FollowsFrame
      <4>3. CASE UNCHANGED <<fdt, q, dump, todo>>
        BY <1>2, <3>1, <4>1, <4>3
      <4>4. QED BY <3>4, <4>2, <4>3 DEF ProcessClose, sockets
    <3>5. CASE ReadDone(s)
      BY <3>1, <3>5, FollowsDone
    <3>6. QED BY <2>1, <3>2, <3>3, <3>4, <3>5 DEF Engine
  <2>2. CASE (Resume \/ Suspend) /\ UNCHANGED netnsVars
    BY <1>2, <2>2 DEF Resume, Suspend, netnsVars, netnss, streams, sockets, world
  <2>3. QED BY <1>3, <2>1, <2>2, FollowsReceive DEF MainLoop
<1>4. ASSUME Environment, UNCHANGED netnsVars PROVE Follows(t)'
  <2>1. UNCHANGED view
    BY <1>4 DEF netnsVars, netnss
  <2>2. ASSUME NEW s \in Slots, ExpireRunning(s) PROVE Follows(t)'
    <3>1. CASE state[s] = "SYNC"
      BY <2>1, <2>2, <3>1, FollowsReset DEF ExpireRunning, world
    <3>2. CASE state[s] # "SYNC"
      BY <1>2, <2>1, <2>2, <3>2 DEF ExpireRunning, sockets, world
    <3>3. QED BY <3>1, <3>2
  <2>3. ASSUME NEW s \in Slots, OpenFails(s) PROVE Follows(t)'
    <3>1. /\ UNCHANGED <<fdt, q, dump, todo, kern, state, sync>>
          /\ s \in alloc /\ state[s] = "SYNC" /\ sync[s] = "OPENING"
      BY <2>3 DEF OpenFails, Opening, Due, sockets, world
    <3>2. PICK f \in {sock[s], NoFd} \cup {f \in Fds : fdt[f] = "free"} :
                 sock' = [sock EXCEPT ![s] = f]
      BY <2>3 DEF OpenFails
    <3>3. ~HasFd(s)
      BY <3>1, FdConnected DEF Connected, Syncing, Inv
    <3>4. HasFd(t)' => HasFd(t)
      BY <1>1, <3>1, <3>2, <3>3, RtnlConstants DEF HasFd, Inv, TypeOK
    <3>5. QED BY <2>1, <3>1, <3>4, FollowsFrame
  <2>4. QED BY <1>4, <2>2, <2>3, FollowsOpen, FollowsAnswer, FollowsChange
            DEF Environment, Expire
<1>5. QED BY <1>3, <1>4 DEF Streams

\* No step makes a mirror incomplete.
LEMMA MirrorStep ==
    ASSUME NetnsInv, MirrorInv, [NetnsNext]_allVars
    PROVE  MirrorInv'
<1> USE DEF NetnsInv
<1>1. DumpAsked' /\ ClosingApart' /\ GapsNoted'
  BY StreamSteps, DumpAskedStep, ClosingApartStep, GapsNotedStep DEF MirrorInv
<1>2. ASSUME NEW t \in alloc' \ closes' PROVE Follows(t)'
  <2>1. CASE Streams
    BY <1>2, <2>1, StreamsKeep, FollowsStreams
  <2>2. CASE Api
    BY <1>2, <2>2, FollowsApi
  <2>3. CASE UNCHANGED allVars
    <3>1. UNCHANGED <<alloc, closes, sock, fdt, q, todo, dump, kern, state, sync,
                      name, opaque, view, gap>>
      BY <2>3 DEF allVars, netnsVars, netnss, vars, streams, events, sockets, world
    <3>2. Follows(t)' <=> Follows(t)
      BY <3>1 DEF Follows, HasFd, Covered, Asked, Reported, Said, Unsaid
    <3>3. QED BY <3>1, <3>2 DEF MirrorInv
  <2>4. QED BY <2>1, <2>2, <2>3 DEF NetnsNext
<1>3. QED BY <1>1, <1>2 DEF MirrorInv

\* A READY stream has been sent all five dumps: with its queue read, no
\* object is still to come.
LEMMA FollowingIsComplete ==
    ASSUME NetnsInv, MirrorInv
    PROVE  MirrorComplete
<1> USE DEF NetnsInv
<1>1. SUFFICES ASSUME NEW i \in nets, Drained(nsstream[i]), ~gap[nsstream[i]],
                      NEW o \in kern[nsname[i]] \cap Distinct
               PROVE  <<nsname[i], o>> \in view[i]
  BY DEF MirrorComplete, Owed
<1>2. PICK s \in alloc \ closes : /\ s = nsstream[i] /\ s \in Slots
                                  /\ opaque[s] = i /\ name[s] = nsname[i]
  BY DEF Shared, Inv, TypeOK
<1>3. HasFd(s) /\ state[s] = "READY" /\ q[s] = <<>> /\ ~gap[s]
  BY <1>1, <1>2 DEF Drained
<1>4. ClassOf[o] \in Covered(s) /\ o \in Objs
  BY <1>2, <1>3, RtnlConstants DEF Covered, Inv, TypeOK
<1>5. o \in todo[s] \/ Reported(s, o)
  BY <1>2, <1>3, <1>4 DEF MirrorInv, Follows
<1>6. o \notin todo[s]
  BY <1>2, <1>3 DEF MirrorInv, DumpAsked, Inv, OneDump, Syncing
<1>7. Len(q[s]) = 0
  BY <1>3
<1>8. Said(s, o, 0)
  BY <1>5, <1>6, <1>7 DEF Reported
<1>9. QED BY <1>2, <1>8 DEF Said

\* Nothing that the lookups tell apart is missing from a mirror whose stream
\* is READY and has read all it was sent, whatever appeared during the dumps,
\* however often they were restarted, and whoever had the mirror's index or
\* the stream's slot before: MirrorComplete.
THEOREM Completeness == NetnsSpec => []MirrorComplete
<1>1. NetnsInit => MirrorInv
  BY DEF NetnsInit, Init, MirrorInv, DumpAsked, ClosingApart, GapsNoted
<1>2. NetnsInv /\ MirrorInv /\ [NetnsNext]_allVars => MirrorInv'
  BY MirrorStep
<1>3. NetnsInv /\ MirrorInv => MirrorComplete
  BY FollowingIsComplete
<1>4. QED BY <1>1, <1>2, <1>3, NetnsInvariance, PTL DEF NetnsSpec

\* netns_notify: whoever has asked for what there was when it came is told of
\* all that exists, over losses, restarted dumps and objects that are replaced.
THEOREM SubscribersInformed == NetnsSpec => []Informed
<1>1. NetnsInv /\ MirrorComplete /\ Announced => Informed
  <2> SUFFICES ASSUME NetnsInv, MirrorComplete, Announced, NEW h \in hpool, full[h],
                      Drained(nsstream[hns[h]]), ~gap[nsstream[hns[h]]],
                      NEW x \in Owed(hns[h])
               PROVE  x \in told[h]
    BY DEF Informed
  <2>1. hns[h] \in nets
    BY DEF NetnsInv, Shared
  <2>2. x \in view[hns[h]]
    BY <2>1 DEF MirrorComplete
  <2>3. x[2] \in Distinct
    BY DEF Owed
  <2>4. QED BY <2>2, <2>3 DEF Announced
<1>2. QED BY <1>1, NetnsInvariance, Completeness, MirrorAnnounced, PTL

\* Whatever a message adds to a mirror was sent to the stream the mirror has,
\* or to one it had.
LEMMA ReceiveOwn ==
    ASSUME NetnsInv, NEW s \in Slots, Receive(s), NEW i \in NsIdx,
           NEW x \in view'[i] \ view[i]
    PROVE  \/ x[1] = nsname[i]
           \/ \E t \in closes : opaque[t] = i /\ name[t] = x[1]
<1> USE DEF NetnsInv
<1>1. q[s] # <<>> /\ Deliver(s, Head(q[s])) /\ HasFd(s)
  BY DEF Receive, ReadRestart, ReadOther, Reading
<1>2. s \in alloc
  BY <1>1, FdConnected DEF Inv, Connected, Syncing
<1> DEFINE m == Head(q[s])
           k == opaque[s]
<1>3. /\ \A j \in NsIdx \ {k} : view'[j] = view[j]
      /\ \A y \in view'[k] \ view[k] : m.kind = "NEW" /\ y = <<name[s], m.obj>>
  BY <1>1, DeliverEffect
<1> HIDE DEF m, k
<1>4. opaque[s] = i /\ x = <<name[s], m.obj>>
  BY <1>3 DEF k
<1>5. CASE s \in closes
  BY <1>4, <1>5
<1>6. CASE s \notin closes
  BY <1>2, <1>4, <1>6 DEF Shared
<1>7. QED BY <1>5, <1>6

\* netns_close and rtnl_stream_close: what is read for a mirror was sent to
\* its own namespace's socket, or to that of a predecessor not yet closed.
THEOREM MirrorShowsOwn == NetnsSpec => OnlyOwn
<1>1. ASSUME NetnsInv, [NetnsNext]_allVars,
             NEW i \in nets \cap nets', NEW x \in view'[i] \ view[i]
      PROVE  \/ x[1] = nsname[i]
             \/ \E s \in closes : opaque[s] = i /\ name[s] = x[1]
  <2> USE <1>1 DEF NetnsInv
  <2>1. ASSUME NEW s \in Slots, Receive(s)
        PROVE  \/ x[1] = nsname[i]
               \/ \E t \in closes : opaque[t] = i /\ name[t] = x[1]
    BY <2>1, ReceiveOwn DEF NetnsTypeOK
  <2>2. ASSUME NEW n \in Names, NEW j \in NsIdx, NEW s \in Slots, NetnsOpen(n, j, s)
        PROVE  FALSE
    BY <2>2 DEF NetnsOpen, NetnsTypeOK
  <2>3. ASSUME NEW h \in HIdx, NetnsClose(h) PROVE FALSE
    <3>1. view' = view \/ view' = [view EXCEPT ![hns[h]] = {}]
      BY <2>3 DEF NetnsClose, NetnsDestroy
    <3>2. i \in NsIdx /\ view \in [NsIdx -> SUBSET Things]
      BY DEF NetnsTypeOK
    <3>3. QED BY <3>1, <3>2
  <2>4. CASE UNCHANGED view
    BY <2>4
  <2>5. QED
    BY <2>1, <2>2, <2>3, <2>4
       DEF NetnsNext, Api, NetnsJoin, NetnsCallme, Streams, MainLoop, netnsVars, netnss, allVars
<1>2. NetnsInv /\ [NetnsNext]_allVars =>
        [\A i \in nets \cap nets' : \A x \in view'[i] \ view[i] :
           \/ x[1] = nsname[i]
           \/ \E s \in closes : opaque[s] = i /\ name[s] = x[1]]_allVars
  BY <1>1
<1>3. QED BY <1>2, NetnsInvariance, PTL DEF NetnsSpec, OnlyOwn
=============================================================================
