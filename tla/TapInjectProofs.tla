-------------------------- MODULE TapInjectProofs --------------------------
(***************************************************************************)
(* Proofs about the taps of the router, for any number of interfaces,      *)
(* descriptors, calls and failures.                                        *)
(***************************************************************************)
EXTENDS TapInject, FiniteSetTheorems, SequenceTheorems, TLAPS

\* Who is on a list after an entry was added, taken off or others were added.
LEMMA ListedAppend ==
  ASSUME NEW S, NEW l \in Seq(S), NEW h \in S, NEW s
  PROVE  /\ Append(l, h) \in Seq(S)
         /\ Listed(s, Append(l, h)) <=> Listed(s, l) \/ s = h
         /\ \A i \in DOMAIN Append(l, h) :
              (i \in DOMAIN l /\ Append(l, h)[i] = l[i]) \/ Append(l, h)[i] = h
<1>1. /\ Append(l, h) \in Seq(S)
      /\ Len(Append(l, h)) = Len(l) + 1
      /\ DOMAIN Append(l, h) = 1 .. Len(l) + 1 /\ DOMAIN l = 1 .. Len(l)
      /\ \A i \in 1 .. Len(l) : Append(l, h)[i] = l[i]
      /\ Append(l, h)[Len(l) + 1] = h /\ Len(l) \in Nat
  OBVIOUS
<1>2. Listed(s, Append(l, h)) <=> Listed(s, l) \/ s = h
  BY <1>1 DEF Listed
<1>3. \A i \in DOMAIN Append(l, h) :
        (i \in DOMAIN l /\ Append(l, h)[i] = l[i]) \/ Append(l, h)[i] = h
  BY <1>1
<1>4. QED BY <1>1, <1>2, <1>3

\* Who is left on a list.
LEMMA ListedTail ==
  ASSUME NEW S, NEW l \in Seq(S), l # <<>>, NEW s
  PROVE  /\ Tail(l) \in Seq(S) /\ Head(l) \in S
         /\ Listed(s, l) <=> Listed(s, Tail(l)) \/ s = Head(l)
         /\ \A i \in DOMAIN Tail(l) : i + 1 \in DOMAIN l /\ Tail(l)[i] = l[i + 1]
<1>1. /\ Tail(l) \in Seq(S) /\ Head(l) \in S /\ Head(l) = l[1]
      /\ DOMAIN l = 1 .. Len(l) /\ Len(l) \in Nat \ {0}
      /\ Len(Tail(l)) = Len(l) - 1 /\ DOMAIN Tail(l) = 1 .. Len(l) - 1
      /\ \A i \in 1 .. Len(l) - 1 : Tail(l)[i] = l[i + 1]
  OBVIOUS
<1>2. ASSUME Listed(s, l) PROVE Listed(s, Tail(l)) \/ s = Head(l)
  <2>1. PICK i \in 1 .. Len(l) : l[i] = s
    BY <1>1, <1>2 DEF Listed
  <2>2. CASE i = 1
    BY <1>1, <2>1, <2>2
  <2>3. CASE i # 1
    <3>1. i - 1 \in 1 .. Len(l) - 1 /\ (i - 1) + 1 = i
      BY <1>1, <2>3
    <3>2. Tail(l)[i - 1] = s
      BY <1>1, <2>1, <3>1
    <3>3. QED BY <1>1, <3>1, <3>2 DEF Listed
  <2>4. QED BY <2>2, <2>3
<1>3. ASSUME Listed(s, Tail(l)) \/ s = Head(l) PROVE Listed(s, l)
  BY <1>1, <1>3 DEF Listed
<1>4. QED BY <1>1, <1>2, <1>3

\* Who is on two lists in a row.
LEMMA ListedConcat ==
  ASSUME NEW S, NEW l \in Seq(S), NEW m \in Seq(S), NEW s
  PROVE  /\ l \o m \in Seq(S)
         /\ Listed(s, l \o m) <=> Listed(s, l) \/ Listed(s, m)
         /\ \A i \in DOMAIN (l \o m) :
              \/ i \in DOMAIN l /\ (l \o m)[i] = l[i]
              \/ \E j \in DOMAIN m : (l \o m)[i] = m[j]
<1>1. /\ l \o m \in Seq(S) /\ Len(l) \in Nat /\ Len(m) \in Nat
      /\ DOMAIN l = 1 .. Len(l) /\ DOMAIN m = 1 .. Len(m)
      /\ DOMAIN (l \o m) = 1 .. Len(l) + Len(m)
      /\ \A i \in 1 .. Len(l) + Len(m) :
           (l \o m)[i] = IF i <= Len(l) THEN l[i] ELSE m[i - Len(l)]
  OBVIOUS
<1>2. ASSUME NEW i \in DOMAIN (l \o m)
      PROVE  \/ i \in DOMAIN l /\ (l \o m)[i] = l[i]
             \/ \E j \in DOMAIN m : (l \o m)[i] = m[j]
  <2>1. CASE i <= Len(l)
    BY <1>1, <2>1
  <2>2. CASE ~(i <= Len(l))
    <3>1. i - Len(l) \in DOMAIN m /\ (l \o m)[i] = m[i - Len(l)]
      BY <1>1, <2>2
    <3>2. QED BY <3>1
  <2>3. QED BY <2>1, <2>2
<1>3. ASSUME Listed(s, l) PROVE Listed(s, l \o m)
  BY <1>1, <1>3 DEF Listed
<1>4. ASSUME Listed(s, m) PROVE Listed(s, l \o m)
  <2>1. PICK j \in 1 .. Len(m) : m[j] = s
    BY <1>1, <1>4 DEF Listed
  <2>2. Len(l) + j \in 1 .. Len(l) + Len(m) /\ ~(Len(l) + j <= Len(l))
        /\ (Len(l) + j) - Len(l) = j
    BY <1>1
  <2>3. (l \o m)[Len(l) + j] = s
    BY <1>1, <2>1, <2>2
  <2>4. QED BY <1>1, <2>2, <2>3 DEF Listed
<1>5. ASSUME Listed(s, l \o m) PROVE Listed(s, l) \/ Listed(s, m)
  BY <1>2, <1>5 DEF Listed
<1>6. QED BY <1>1, <1>2, <1>3, <1>4, <1>5

\* What a pool gives out was free, and is not in its free list any more.
LEMMA PoolGet ==
  ASSUME NEW S, NEW free \in Seq(S), free # <<>>
  PROVE  /\ Top(free) \in S /\ Pop(free) \in Seq(S)
         /\ \A i \in DOMAIN Pop(free) :
              i \in DOMAIN free /\ i # Len(free) /\ Pop(free)[i] = free[i]
         /\ Len(free) \in DOMAIN free
<1> DEFINE m == Len(free) - 1
<1>1. /\ m \in Nat /\ m + 1 = Len(free) /\ DOMAIN free = 1 .. m + 1
      /\ \A i \in 1 .. m + 1 : free[i] \in S
  OBVIOUS
<1>2. Pop(free) = SubSeq(free, 1, m)
  BY DEF Pop
<1> HIDE DEF m
<1>3. \A i \in 1 .. m : i \in 1 .. m + 1 /\ i # m + 1
  BY <1>1
<1>4. /\ Pop(free) \in Seq(S)
      /\ Len(Pop(free)) = m
      /\ \A i \in 1 .. m : Pop(free)[i] = free[i]
  BY <1>1, <1>2, <1>3, SubSeqProperties
<1>5. DOMAIN Pop(free) = 1 .. m
  BY <1>4, LenProperties
<1>6. Top(free) \in S /\ Len(free) \in DOMAIN free
  BY <1>1 DEF Top
<1>7. QED BY <1>1, <1>3, <1>4, <1>5, <1>6

\* How often a tap is listed is a number.
LEMMA TimesNat ==
  ASSUME NEW k \in Nat, NEW f
  PROVE  Times(k, f) \in Nat
<1>1. IsFiniteSet(1 .. k)
  BY FS_Interval
<1>2. IsFiniteSet({i \in 1 .. k : rx[i] = f})
  BY <1>1, FS_Subset
<1>3. QED BY <1>2, FS_CardinalityType DEF Times

\* What pool_foreach collects is a list of interfaces.
LEMMA ListingSeq ==
  ASSUME TypeOK, NEW l \in Listings
  PROVE  /\ l \in Seq(HwIdx)
         /\ \A i \in DOMAIN l : l[i] \in hw
         /\ \A h \in hw : Listed(h, l)
<1>1. hw \subseteq HwIdx /\ IsFiniteSet(HwIdx)
  BY FS_Interval, TapConstants DEF TypeOK, HwIdx
<1>2. Cardinality(hw) \in Nat
  BY <1>1, FS_Subset, FS_CardinalityType
<1>3. l \in [1 .. Cardinality(hw) -> hw]
  BY DEF Listings
<1>4. l \in Seq(HwIdx)
  BY <1>1, <1>2, <1>3, SeqDef
<1>5. QED BY <1>3, <1>4 DEF Listings, Listed

\* The empty lists, maps and pools are well typed.
LEMMA TypeInit == Init => TypeOK
<1> SUFFICES ASSUME Init PROVE TypeOK
  OBVIOUS
<1>1. 1 \in HwIdx
  BY TapConstants DEF HwIdx
<1>2. \A n \in Nat : Stock(n) \in Seq(1 .. n)
  BY SeqDef DEF Stock
<1>3. hwFree \in Seq(HwIdx) /\ etherFree \in Seq(HwIdx)
  BY <1>2, TapConstants DEF Init, HwIdx
<1>4. toEnable \in Seq(HwIdx) /\ toDisable \in Seq(HwIdx) /\ rx \in Seq(Fds)
  BY DEF Init
<1>5. /\ inst \in [HwIdx -> HwIdx]
      /\ ether \in [HwIdx -> BOOLEAN] /\ waiting \in [Fds -> Nat]
  BY <1>1 DEF Init
<1>6. /\ fdOf \in [HwIdx -> Fds \cup {None}]
      /\ ifxOf \in [HwIdx -> Ifxs \cup {None}]
      /\ swOfFd \in [Fds -> HwIdx \cup {None}]
      /\ swOfIfx \in [Ifxs -> HwIdx \cup {None}]
      /\ tapIfx \in [Fds -> Ifxs \cup {None}] /\ tapName \in [Fds -> HwIdx]
  BY <1>1 DEF Init
<1>7. QED BY <1>3, <1>4, <1>5, <1>6 DEF Init, TypeOK

\* tap_inject_enable and the callback keep the types of what they change.
LEMMA AddDelType ==
  ASSUME TypeOK, NEW h \in HwIdx, NEW add \in BOOLEAN, InterfaceAddDel(h, add)
  PROVE  /\ enabled' \in BOOLEAN /\ subs' \in Nat /\ punt' \in BOOLEAN
         /\ isrPending' \in BOOLEAN
         /\ toEnable' \in Seq(HwIdx) /\ toDisable' \in Seq(HwIdx)
<1>1. /\ enabled \in BOOLEAN /\ subs \in Nat /\ punt \in BOOLEAN
      /\ isrPending \in BOOLEAN
      /\ toEnable \in Seq(HwIdx) /\ toDisable \in Seq(HwIdx)
  BY DEF TypeOK
<1>2. Append(toEnable, h) \in Seq(HwIdx) /\ Append(toDisable, h) \in Seq(HwIdx)
  BY <1>1, ListedAppend
<1>3. CASE ~cfgEnable
  BY <1>1, <1>3 DEF InterfaceAddDel, lists
<1>4. CASE cfgEnable
  <2>1. enabled' \in BOOLEAN /\ punt' \in BOOLEAN /\ isrPending' \in BOOLEAN
    BY <1>4, Zenon DEF InterfaceAddDel, Enable
  <2>2. subs' \in Nat
    BY <1>1, <1>4 DEF InterfaceAddDel, Enable
  <2>3. toEnable' \in Seq(HwIdx) /\ toDisable' \in Seq(HwIdx)
    BY <1>1, <1>2, <1>4 DEF InterfaceAddDel
  <2>4. QED BY <2>1, <2>2, <2>3
<1>5. QED BY <1>3, <1>4

\* Every call, interrupt, callback and packet keeps the types.
LEMMA TypeStep == TypeOK /\ [Next]_vars => TypeOK'
<1> SUFFICES ASSUME TypeOK, [Next]_vars PROVE TypeOK'
  OBVIOUS
<1>0. CASE UNCHANGED vars
  BY <1>0 DEF TypeOK, vars, interfaces, config, lists, isr, maps, taps, packets
<1>1. ASSUME NEW e \in BOOLEAN, InterfaceAdd(e) PROVE TypeOK'
  <2>1. /\ Top(hwFree) \in HwIdx /\ Pop(hwFree) \in Seq(HwIdx)
        /\ e => Top(etherFree) \in HwIdx /\ Pop(etherFree) \in Seq(HwIdx)
    BY <1>1, PoolGet DEF InterfaceAdd, TypeOK
  <2>2. /\ hw' \subseteq HwIdx /\ ether' \in [HwIdx -> BOOLEAN]
        /\ inst' \in [HwIdx -> HwIdx]
        /\ hwFree' \in Seq(HwIdx) /\ etherFree' \in Seq(HwIdx)
    BY <1>1, <2>1 DEF InterfaceAdd, TypeOK
  <2>3. /\ enabled' \in BOOLEAN /\ subs' \in Nat /\ punt' \in BOOLEAN
        /\ isrPending' \in BOOLEAN
        /\ toEnable' \in Seq(HwIdx) /\ toDisable' \in Seq(HwIdx)
    BY <1>1, <2>1, AddDelType DEF InterfaceAdd
  <2>4. QED BY <1>1, <2>2, <2>3
             DEF InterfaceAdd, ProcessRuns, isr, maps, taps, packets, TypeOK
<1>2. ASSUME NEW h \in HwIdx, InterfaceDel(h) PROVE TypeOK'
  <2>1. /\ hw' \subseteq HwIdx
        /\ hwFree' \in Seq(HwIdx) /\ etherFree' \in Seq(HwIdx)
    BY <1>2, ListedAppend DEF InterfaceDel, TypeOK
  <2>2. /\ enabled' \in BOOLEAN /\ subs' \in Nat /\ punt' \in BOOLEAN
        /\ isrPending' \in BOOLEAN
        /\ toEnable' \in Seq(HwIdx) /\ toDisable' \in Seq(HwIdx)
    BY <1>2, AddDelType DEF InterfaceDel
  <2>3. QED BY <1>2, <2>1, <2>2
             DEF InterfaceDel, ProcessRuns, isr, maps, taps, packets, TypeOK
<1>4. CASE CliEnable
  <2>1. toEnable' \in Seq(HwIdx)
    BY <1>4, ListingSeq, ListedConcat DEF CliEnable, TypeOK
  <2>2. /\ enabled' \in BOOLEAN /\ subs' \in Nat /\ punt' \in BOOLEAN
    BY <1>4 DEF CliEnable, Enable, TypeOK
  <2>3. QED BY <1>4, <2>1, <2>2 DEF CliEnable, ProcessRuns, interfaces, maps,
                                   taps, packets, TypeOK
<1>5. CASE CliDisable
  <2>1. toDisable' \in Seq(HwIdx)
    BY <1>5, ListingSeq, ListedConcat DEF CliDisable, TypeOK
  <2>2. /\ enabled' \in BOOLEAN /\ calls' \in Nat
        /\ caller' \in {"none", "isr", "enable", "undo", "disable"}
    <3>1. calls \in Nat
      BY DEF TypeOK
    <3>2. enabled' = FALSE /\ caller' = "disable" /\ calls' = calls + 1
      BY <1>5 DEF CliDisable, ProcessRuns
    <3>3. enabled' \in BOOLEAN
      BY <3>2
    <3>4. calls' \in Nat
      BY <3>1, <3>2
    <3>5. QED BY <3>2, <3>3, <3>4
  <2>3. QED BY <1>5, <2>1, <2>2 DEF CliDisable, interfaces, maps, taps,
                                   packets, TypeOK
<1>6. CASE IsrStart
  BY <1>6 DEF IsrStart, interfaces, config, maps, taps, packets, TypeOK
<1>7. CASE SkipOther
  <2>1. Tail(toEnable) \in Seq(HwIdx)
    BY <1>7, ListedTail DEF SkipOther, Connecting, TypeOK
  <2>2. QED BY <1>7, <2>1 DEF SkipOther, interfaces, config, isr, maps, taps,
                             packets, TypeOK
<1>8. ASSUME NEW f \in Fds, NEW x \in Ifxs, Connect(f, x) PROVE TypeOK'
  <2>1. Tail(toEnable) \in Seq(HwIdx) /\ Head(toEnable) \in HwIdx
    BY <1>8, ListedTail DEF Connect, Connecting, TypeOK
  <2>2. /\ fdOf' \in [HwIdx -> Fds \cup {None}]
        /\ ifxOf' \in [HwIdx -> Ifxs \cup {None}]
        /\ swOfFd' \in [Fds -> HwIdx \cup {None}]
        /\ swOfIfx' \in [Ifxs -> HwIdx \cup {None}]
        /\ replaced' \in BOOLEAN
    BY <1>8, <2>1 DEF Connect, InsertTap, TypeOK
  <2>3. tapIfx' \in [Fds -> Ifxs \cup {None}] /\ tapName' \in [Fds -> HwIdx]
    BY <1>8, <2>1 DEF Connect, TypeOK
  <2>4. QED BY <1>8, <2>1, <2>2, <2>3
             DEF Connect, interfaces, config, isr, packets, TypeOK
<1>9. CASE ConnectFails
  BY <1>9 DEF ConnectFails, interfaces, config, lists, maps, taps, packets,
              TypeOK
<1>10. CASE Disconnect
  <2>1. Tail(toDisable) \in Seq(HwIdx) /\ Head(toDisable) \in HwIdx
    BY <1>10, ListedTail DEF Disconnect, TypeOK
  <2>2. /\ fdOf' \in [HwIdx -> Fds \cup {None}]
        /\ ifxOf' \in [HwIdx -> Ifxs \cup {None}]
        /\ swOfFd' \in [Fds -> HwIdx \cup {None}]
        /\ swOfIfx' \in [Ifxs -> HwIdx \cup {None}]
        /\ tapIfx' \in [Fds -> Ifxs \cup {None}]
        /\ waiting' \in [Fds -> Nat] /\ replaced' \in BOOLEAN
    <3>1. CASE fdOf[Head(toDisable)] = None
      BY <1>10, <3>1 DEF Disconnect, maps, TypeOK
    <3>2. CASE fdOf[Head(toDisable)] # None
      <4>1. /\ fdOf' = [fdOf EXCEPT ![Head(toDisable)] = None]
            /\ ifxOf' = [ifxOf EXCEPT ![Head(toDisable)] = None]
            /\ swOfFd' = [swOfFd EXCEPT ![fdOf[Head(toDisable)]] = None]
            /\ swOfIfx' = [swOfIfx EXCEPT ![ifxOf[Head(toDisable)]] = None]
            /\ tapIfx' = [tapIfx EXCEPT ![fdOf[Head(toDisable)]] = None]
            /\ waiting' = [waiting EXCEPT ![fdOf[Head(toDisable)]] = 0]
            /\ replaced' = replaced
        BY <1>10, <3>2 DEF Disconnect
      <4>2. replaced' \in BOOLEAN
        BY <4>1 DEF TypeOK
      <4>3. QED BY <4>1, <4>2 DEF TypeOK
    <3>3. QED BY <3>1, <3>2
  <2>3. QED BY <1>10, <2>1, <2>2 DEF Disconnect, interfaces, config, isr, TypeOK
<1>11. CASE IsrEnd
  <2>1. toDisable' \in Seq(HwIdx)
    BY <1>11, ListingSeq DEF IsrEnd, TypeOK
  <2>2. cfgEnable' \in BOOLEAN /\ enabled' \in BOOLEAN
        /\ caller' \in {"none", "isr", "enable", "undo", "disable"}
    BY <1>11 DEF IsrEnd, TypeOK
  <2>3. toEnable' \in Seq(HwIdx)
    BY <1>11 DEF IsrEnd
  <2>4. QED BY <1>11, <2>1, <2>2, <2>3
             DEF IsrEnd, interfaces, maps, taps, packets, TypeOK
<1>12. ASSUME NEW f \in Fds, LinuxSend(f) PROVE TypeOK'
  BY <1>12 DEF LinuxSend, interfaces, config, lists, isr, maps, taps, TypeOK
<1>13. ASSUME NEW f \in Fds, TapRead(f) PROVE TypeOK'
  <2>1. rx' \in Seq(Fds)
    BY <1>13, ListedAppend DEF TapRead, TypeOK
  <2>2. QED BY <1>13, <2>1 DEF TapRead, interfaces, config, lists, isr, maps,
                              taps, TypeOK
<1>14. ASSUME NEW k \in 0 .. MaxListed * Cardinality(Fds), Rx(k) PROVE TypeOK'
  <2>1. k \in Nat /\ k <= Len(rx)
    BY <1>14 DEF Rx
  <2>2. ASSUME NEW f \in Fds PROVE waiting[f] - Times(k, f) \in Nat
    <3>1. Times(k, f) \in Nat /\ Times(k, f) <= waiting[f] /\ waiting[f] \in Nat
      BY <1>14, <2>1, TimesNat DEF Rx, Readable, TypeOK
    <3>2. QED BY <3>1
  <2>3. waiting' \in [Fds -> Nat]
    BY <1>14, <2>2 DEF Rx
  <2>4. \A i \in 1 .. k : rx[i] \in Fds
    BY <2>1 DEF TypeOK
  <2>5. lastRx' \subseteq HwIdx \X (HwIdx \cup {None})
    BY <1>14, <2>4 DEF Rx, TypeOK
  <2>6. rx' \in Seq(Fds) /\ faults' \in Nat
    BY <1>14 DEF Rx, TypeOK
  <2>7. QED BY <1>14, <2>3, <2>5, <2>6
             DEF Rx, interfaces, config, lists, isr, maps, taps, TypeOK
<1>15. QED BY <1>0, <1>1, <1>2, <1>4, <1>5, <1>6, <1>7, <1>8, <1>9,
             <1>10, <1>11, <1>12, <1>13, <1>14 DEF Next, Isr

-----------------------------------------------------------------------------
(***************************************************************************)
(* The maps.                                                               *)
(***************************************************************************)
\* Only connecting and disconnecting change the maps: the first uses a
\* descriptor and an index that no map holds, the second clears one entry of
\* each.
LEMMA OneTapStep == TypeOK /\ OneTapEach /\ [Next]_vars => OneTapEach'
<1> SUFFICES ASSUME TypeOK, OneTapEach, [Next]_vars PROVE OneTapEach'
  OBVIOUS
<1>1. ASSUME UNCHANGED <<maps, tapIfx>> PROVE OneTapEach'
  BY <1>1 DEF OneTapEach, maps, Tapped, Open
<1>2. ASSUME NEW f \in Fds, NEW x \in Ifxs, Connect(f, x) PROVE OneTapEach'
  <2> SUFFICES ASSUME ~replaced' PROVE OneTapEach'
    BY DEF OneTapEach
  <2> DEFINE h == Head(toEnable)
  <2>1. h \in HwIdx
    BY <1>2, ListedTail DEF Connect, Connecting, TypeOK
  <2> HIDE DEF h
  <2>2. /\ ~Open(f) /\ \A g \in Fds : tapIfx[g] # x
        /\ tapIfx' = [tapIfx EXCEPT ![f] = x]
        /\ fdOf' = [fdOf EXCEPT ![h] = f] /\ ifxOf' = [ifxOf EXCEPT ![h] = x]
        /\ swOfFd' = [swOfFd EXCEPT ![f] = h]
        /\ swOfIfx' = [swOfIfx EXCEPT ![x] = h]
        /\ ~replaced /\ fdOf[h] = None
    BY <1>2 DEF Connect, InsertTap, h
  <2>3. f # None /\ x # None /\ h # None
    BY <2>1, TapConstants
  <2>4. \A s \in HwIdx : Tapped(s) =>
          /\ Open(fdOf[s]) /\ tapIfx[fdOf[s]] = ifxOf[s]
          /\ swOfFd[fdOf[s]] = s /\ swOfIfx[ifxOf[s]] = s
          /\ fdOf[s] \in Fds /\ fdOf[s] # f
          /\ ifxOf[s] \in Ifxs /\ ifxOf[s] # x /\ s # h
    BY <2>2 DEF OneTapEach, Tapped, Open, TypeOK
  <2>5. \A s \in HwIdx : Tapped(s)' =>
          /\ Open(fdOf[s])' /\ (tapIfx[fdOf[s]] = ifxOf[s])'
          /\ (swOfFd[fdOf[s]] = s)' /\ (swOfIfx[ifxOf[s]] = s)'
    BY <2>1, <2>2, <2>3, <2>4 DEF Tapped, Open, TypeOK
  <2>6. \A g \in Fds : IF Open(g)' THEN swOfFd'[g] \in HwIdx /\ fdOf'[swOfFd'[g]] = g
                                   ELSE swOfFd'[g] = None
    <3> TAKE g \in Fds
    <3>1. CASE g = f
      BY <2>1, <2>2, <2>3, <3>1 DEF Open, TypeOK
    <3>2. CASE g # f
      <4>1. /\ Open(g)' = Open(g) /\ swOfFd'[g] = swOfFd[g]
            /\ IF Open(g) THEN swOfFd[g] \in HwIdx /\ fdOf[swOfFd[g]] = g
                          ELSE swOfFd[g] = None
        BY <2>2, <3>2 DEF OneTapEach, Open, TypeOK
      <4>2. Open(g) => swOfFd[g] # h
        BY <2>2, <4>1, TapConstants
      <4>3. QED BY <2>2, <4>1, <4>2 DEF TypeOK
    <3>3. QED BY <3>1, <3>2
  <2>7. \A y \in Ifxs : swOfIfx'[y] # None =>
          Tapped(swOfIfx[y])' /\ (ifxOf[swOfIfx[y]] = y)'
    <3> SUFFICES ASSUME NEW y \in Ifxs, swOfIfx'[y] # None
                 PROVE  Tapped(swOfIfx[y])' /\ (ifxOf[swOfIfx[y]] = y)'
      OBVIOUS
    <3>1. CASE y = x
      BY <2>1, <2>2, <2>3, <3>1 DEF Tapped, TypeOK
    <3>2. CASE y # x
      <4>1. /\ swOfIfx'[y] = swOfIfx[y] /\ swOfIfx[y] \in HwIdx
            /\ Tapped(swOfIfx[y]) /\ ifxOf[swOfIfx[y]] = y
        BY <2>2, <3>2 DEF OneTapEach, TypeOK
      <4>2. swOfIfx[y] # h
        BY <2>2, <4>1 DEF Tapped
      <4>3. QED BY <2>2, <4>1, <4>2 DEF Tapped, TypeOK
    <3>3. QED BY <3>1, <3>2
  <2>8. QED BY <2>5, <2>6, <2>7 DEF OneTapEach
<1>3. ASSUME Disconnect PROVE OneTapEach'
  <2> DEFINE s == Head(toDisable)
  <2>1. s \in HwIdx
    BY <1>3, ListedTail DEF Disconnect, TypeOK
  <2>2. CASE fdOf[s] = None
    BY <1>1, <1>3, <2>2 DEF Disconnect
  <2>3. CASE fdOf[s] # None /\ ~replaced
    <3> HIDE DEF s
    <3> DEFINE f == fdOf[s]
               x == ifxOf[s]
    <3>1. /\ fdOf' = [fdOf EXCEPT ![s] = None]
          /\ ifxOf' = [ifxOf EXCEPT ![s] = None]
          /\ swOfFd' = [swOfFd EXCEPT ![f] = None]
          /\ swOfIfx' = [swOfIfx EXCEPT ![x] = None]
          /\ tapIfx' = [tapIfx EXCEPT ![f] = None]
          /\ f # None
      BY <1>3, <2>3 DEF Disconnect, s
    <3>2. /\ f \in Fds /\ x \in Ifxs /\ Open(f) /\ tapIfx[f] = x
          /\ swOfFd[f] = s /\ swOfIfx[x] = s
      BY <2>1, <2>3 DEF OneTapEach, Tapped, Open, TypeOK
    <3> HIDE DEF f, x
    <3>3. \A t \in HwIdx : Tapped(t)' =>
            /\ t # s /\ Tapped(t) /\ fdOf[t] # f /\ ifxOf[t] # x
            /\ fdOf[t] \in Fds /\ ifxOf[t] \in Ifxs
            /\ Open(fdOf[t]) /\ tapIfx[fdOf[t]] = ifxOf[t]
            /\ swOfFd[fdOf[t]] = t /\ swOfIfx[ifxOf[t]] = t
      BY <2>1, <2>3, <3>1, <3>2 DEF OneTapEach, Tapped, Open, TypeOK
    <3>4. \A t \in HwIdx : Tapped(t)' =>
            /\ Open(fdOf[t])' /\ (tapIfx[fdOf[t]] = ifxOf[t])'
            /\ (swOfFd[fdOf[t]] = t)' /\ (swOfIfx[ifxOf[t]] = t)'
      BY <2>1, <3>1, <3>3 DEF Open, TypeOK
    <3>5. \A g \in Fds : IF Open(g)' THEN swOfFd'[g] \in HwIdx /\ fdOf'[swOfFd'[g]] = g
                                     ELSE swOfFd'[g] = None
      <4> TAKE g \in Fds
      <4>1. CASE g = f
        BY <3>1, <3>2, <4>1 DEF Open, TypeOK
      <4>2. CASE g # f
        <5>1. /\ Open(g)' = Open(g) /\ swOfFd'[g] = swOfFd[g]
              /\ IF Open(g) THEN swOfFd[g] \in HwIdx /\ fdOf[swOfFd[g]] = g
                            ELSE swOfFd[g] = None
          BY <2>3, <3>1, <3>2, <4>2 DEF OneTapEach, Open, TypeOK
        <5>2. Open(g) => swOfFd[g] # s
          BY <4>2, <5>1 DEF f
        <5>3. QED BY <3>1, <5>1, <5>2 DEF TypeOK
      <4>3. QED BY <4>1, <4>2
    <3>6. \A y \in Ifxs : swOfIfx'[y] # None =>
            Tapped(swOfIfx[y])' /\ (ifxOf[swOfIfx[y]] = y)'
      <4> SUFFICES ASSUME NEW y \in Ifxs, swOfIfx'[y] # None
                   PROVE  Tapped(swOfIfx[y])' /\ (ifxOf[swOfIfx[y]] = y)'
        OBVIOUS
      <4>1. y # x
        BY <3>1, <3>2 DEF TypeOK
      <4>2. /\ swOfIfx'[y] = swOfIfx[y] /\ swOfIfx[y] \in HwIdx
            /\ Tapped(swOfIfx[y]) /\ ifxOf[swOfIfx[y]] = y
        BY <2>3, <3>1, <4>1 DEF OneTapEach, TypeOK
      <4>3. swOfIfx[y] # s
        BY <4>1, <4>2 DEF x
      <4>4. QED BY <3>1, <4>2, <4>3 DEF Tapped, TypeOK
    <3>7. QED BY <3>4, <3>5, <3>6 DEF OneTapEach
  <2>4. CASE replaced
    BY <1>3, <2>4 DEF Disconnect, maps, OneTapEach
  <2>5. QED BY <2>2, <2>3, <2>4
<1>4. QED
  BY <1>1, <1>2, <1>3
     DEF Next, Isr, vars, maps, taps, InterfaceAdd, InterfaceDel,
         CliEnable, CliDisable, IsrStart, SkipOther,
         ConnectFails, IsrEnd, LinuxSend, TapRead, Rx

-----------------------------------------------------------------------------
(***************************************************************************)
(* The lists.                                                              *)
(***************************************************************************)
Lists == TapHasInterface /\ HwPool /\ ListsEmpty /\ ToEnableKnown /\ Untapped

\* A new interface has an index nobody has; what was listed for that index
\* is still listed.
LEMMA AddLists ==
  ASSUME TapInv, NEW e \in BOOLEAN, InterfaceAdd(e)
  PROVE  Lists'
<1> DEFINE h == Top(hwFree)
<1>1. /\ h \in HwIdx
      /\ \A i \in DOMAIN Pop(hwFree) :
           i \in DOMAIN hwFree /\ i # Len(hwFree) /\ Pop(hwFree)[i] = hwFree[i]
      /\ Len(hwFree) \in DOMAIN hwFree
  BY PoolGet DEF InterfaceAdd, TapInv, TypeOK
<1>2. h \notin hw /\ \A i \in DOMAIN Pop(hwFree) : Pop(hwFree)[i] # h
  BY <1>1 DEF TapInv, HwPool, Top
<1>3. /\ hw' = hw \cup {h} /\ hwFree' = Pop(hwFree)
      /\ ether' = [ether EXCEPT ![h] = e]
      /\ \A s \in HwIdx : s # h => inst'[s] = inst[s]
      /\ caller = "none" /\ caller' = "none" /\ err' = err
      /\ cfgEnable' = cfgEnable /\ fdOf' = fdOf /\ tapName' = tapName
      /\ replaced' = replaced /\ InterfaceAddDel(h, TRUE)
  BY DEF InterfaceAdd, ProcessRuns, isr, maps, taps, TapInv, TypeOK
<1> HIDE DEF h
<1>4. toDisable' = toDisable
  BY <1>3 DEF InterfaceAddDel, lists
<1>5. HwPool'
  BY <1>1, <1>2, <1>3 DEF TapInv, HwPool
<1>6. TapHasInterface'
  <2> SUFFICES ASSUME ~replaced, NEW s \in HwIdx, Tapped(s)
               PROVE  \/ s \in hw /\ s # h /\ ether[s] /\ tapName[fdOf[s]] = inst[s]
                      \/ Listed(s, toDisable)
    BY <1>3, <1>4 DEF TapHasInterface, Tapped, Listed, TapInv, TypeOK
  <2> QED BY <1>2 DEF TapInv, TapHasInterface
<1>7. ListsEmpty'
  BY <1>3, <1>4 DEF InterfaceAddDel, lists, ListsEmpty, TapInv
<1>8. ToEnableKnown'
  <2>1. CASE cfgEnable
    <3>1. toEnable' = Append(toEnable, h) /\ toEnable \in Seq(HwIdx)
      BY <1>3, <2>1 DEF InterfaceAddDel, TapInv, TypeOK
    <3>2. \A i \in DOMAIN toEnable' :
            (i \in DOMAIN toEnable /\ toEnable'[i] = toEnable[i]) \/ toEnable'[i] = h
      BY <1>1, <3>1, ListedAppend
    <3>3. QED BY <1>3, <1>4, <3>2 DEF ToEnableKnown, Listed, TapInv
  <2>2. CASE ~cfgEnable
    BY <1>3, <1>4, <2>2 DEF InterfaceAddDel, lists, ToEnableKnown, Listed, TapInv
  <2>3. QED BY <2>1, <2>2
<1>9. Untapped'
  BY <1>3, <1>4 DEF InterfaceAddDel, lists, Untapped, Tapped, TapInv
<1>10. QED BY <1>5, <1>6, <1>7, <1>8, <1>9 DEF Lists

\* The tap of a deleted interface is listed, or there is none.
LEMMA DelLists ==
  ASSUME TapInv, NEW h \in HwIdx, InterfaceDel(h)
  PROVE  Lists'
<1>1. /\ h \in hw /\ hw' = hw \ {h} /\ hwFree' = Append(hwFree, h)
      /\ ether' = ether /\ inst' = inst
      /\ caller = "none" /\ caller' = "none" /\ err' = err
      /\ cfgEnable' = cfgEnable /\ fdOf' = fdOf /\ tapName' = tapName
      /\ replaced' = replaced /\ InterfaceAddDel(h, FALSE)
  BY DEF InterfaceDel, ProcessRuns, isr, maps, taps
<1>2. toEnable' = toEnable
  BY <1>1 DEF InterfaceAddDel, lists
<1>3. HwPool'
  <2>1. hwFree \in Seq(HwIdx)
    BY DEF TapInv, TypeOK
  <2>2. /\ Len(hwFree) \in Nat /\ DOMAIN hwFree = 1 .. Len(hwFree)
        /\ DOMAIN hwFree' = 1 .. Len(hwFree) + 1
        /\ hwFree'[Len(hwFree) + 1] = h
        /\ \A i \in 1 .. Len(hwFree) : hwFree'[i] = hwFree[i]
    BY <1>1, <2>1
  <2>3. \A i \in DOMAIN hwFree : hwFree[i] # h
    BY <1>1 DEF TapInv, HwPool
  <2>4. \A i \in DOMAIN hwFree' : i \in DOMAIN hwFree \/ i = Len(hwFree) + 1
    BY <2>2
  <2>5. QED BY <1>1, <2>2, <2>3, <2>4 DEF TapInv, HwPool
<1>4. CASE cfgEnable
  <2>1. toDisable' = Append(toDisable, h) /\ isrPending'
    BY <1>1, <1>4 DEF InterfaceAddDel
  <2>2. \A s : Listed(s, toDisable)' <=> Listed(s, toDisable) \/ s = h
    <3>1. toDisable \in Seq(HwIdx)
      BY DEF TapInv, TypeOK
    <3>2. QED BY <2>1, <3>1, ListedAppend
  <2>3. TapHasInterface'
    BY <1>1, <2>2 DEF TapHasInterface, Tapped, TapInv
  <2>4. ListsEmpty'
    BY <1>1, <2>1 DEF ListsEmpty, TapInv
  <2>5. ToEnableKnown'
    BY <1>1, <1>2, <2>2 DEF ToEnableKnown, TapInv
  <2>6. Untapped'
    BY <1>1, <1>4 DEF Untapped
  <2>7. QED BY <1>3, <2>3, <2>4, <2>5, <2>6 DEF Lists
<1>5. CASE ~cfgEnable
  <2>1. toDisable' = toDisable /\ isrPending' = isrPending
    BY <1>1, <1>5 DEF InterfaceAddDel, lists
  <2>2. toEnable = <<>> /\ (~replaced => \A s \in HwIdx : ~Tapped(s))
    BY <1>1, <1>5 DEF Untapped, TapInv
  <2>3. TapHasInterface'
    BY <1>1, <2>2 DEF TapHasInterface, Tapped
  <2>4. ListsEmpty' /\ Untapped'
    BY <1>1, <1>2, <2>1, <2>2 DEF ListsEmpty, Untapped, Tapped, TapInv
  <2>5. ToEnableKnown'
    BY <1>2, <2>2 DEF ToEnableKnown
  <2>6. QED BY <1>3, <2>3, <2>4, <2>5 DEF Lists
<1>6. QED BY <1>4, <1>5

\* What neither the interfaces, the lists, the isr nor the taps see changes
\* nothing.
LEMMA FrameLists ==
  ASSUME TapInv,
         UNCHANGED <<hw, ether, inst, hwFree, cfgEnable, lists, isr,
                     fdOf, tapName, replaced>>
  PROVE  Lists'
<1>1. TapHasInterface' /\ HwPool' /\ ListsEmpty'
  BY DEF TapInv, TapHasInterface, HwPool, ListsEmpty, Tapped, Listed, lists, isr
<1>2. ToEnableKnown' /\ Untapped'
  BY DEF TapInv, ToEnableKnown, Untapped, Tapped, Listed, lists, isr
<1>3. QED BY <1>1, <1>2 DEF Lists

\* All interfaces exist.
LEMMA EnableLists == TapInv /\ CliEnable => Lists'
<1> SUFFICES ASSUME TapInv, CliEnable PROVE Lists'
  OBVIOUS
<1>1. PICK all \in Listings : toEnable' = toEnable \o all
  BY DEF CliEnable
<1>2. /\ UNCHANGED <<hw, ether, inst, hwFree, cfgEnable, toDisable, err, fdOf,
                     tapName, replaced>>
      /\ caller = "none" /\ caller' = "enable" /\ ~err
  BY DEF CliEnable, ProcessRuns, interfaces, maps, taps, TapInv, ListsEmpty
<1>3. \A i \in DOMAIN toEnable' :
        \/ i \in DOMAIN toEnable /\ toEnable'[i] = toEnable[i]
        \/ toEnable'[i] \in hw
  <2>1. toEnable \in Seq(HwIdx) /\ all \in Seq(HwIdx)
        /\ \A j \in DOMAIN all : all[j] \in hw
    BY ListingSeq DEF TapInv, TypeOK
  <2>2. QED BY <1>1, <2>1, ListedConcat
<1>4. TapHasInterface' /\ HwPool' /\ ListsEmpty'
  BY <1>2 DEF TapInv, TapHasInterface, HwPool, ListsEmpty, Tapped, Listed
<1>5. ToEnableKnown'
  BY <1>2, <1>3 DEF TapInv, ToEnableKnown, Listed
<1>6. Untapped'
  BY <1>2 DEF Untapped
<1>7. QED BY <1>4, <1>5, <1>6 DEF Lists

\* Every interface, so every one with a tap, is listed.
LEMMA DisableLists == TapInv /\ CliDisable => Lists'
<1> SUFFICES ASSUME TapInv, CliDisable PROVE Lists'
  OBVIOUS
<1>1. PICK all \in Listings : toDisable' = toDisable \o all
  BY DEF CliDisable
<1>2. /\ UNCHANGED <<hw, ether, inst, hwFree, cfgEnable, toEnable, err, fdOf,
                     tapName, replaced>>
      /\ caller = "none" /\ caller' = "disable" /\ ~err
  BY DEF CliDisable, ProcessRuns, interfaces, maps, taps, TapInv, ListsEmpty
<1>3. /\ \A s \in hw : Listed(s, toDisable')
      /\ \A s : Listed(s, toDisable) => Listed(s, toDisable')
  <2>1. toDisable \in Seq(HwIdx) /\ all \in Seq(HwIdx)
        /\ \A s \in hw : Listed(s, all)
    BY ListingSeq DEF TapInv, TypeOK
  <2>2. \A s : Listed(s, toDisable \o all) <=> Listed(s, toDisable) \/ Listed(s, all)
    BY <2>1, ListedConcat
  <2>3. QED BY <1>1, <2>1, <2>2
<1>4. \A s : Listed(s, toDisable)' <=> Listed(s, toDisable')
  BY DEF Listed
<1>5. TapHasInterface'
  BY <1>2, <1>3, <1>4 DEF TapInv, TapHasInterface, Tapped
<1>6. HwPool' /\ ListsEmpty'
  BY <1>2 DEF TapInv, HwPool, ListsEmpty
<1>7. ToEnableKnown'
  BY <1>2, <1>3, <1>4 DEF TapInv, ToEnableKnown
<1>8. Untapped'
  BY <1>2, <1>3, <1>4 DEF TapInv, TapHasInterface, Untapped, Tapped
<1>9. QED BY <1>5, <1>6, <1>7, <1>8 DEF Lists

\* What is left to connect was to be connected.
LEMMA TailKnown ==
  ASSUME TapInv, toEnable # <<>>, toEnable' = Tail(toEnable),
         UNCHANGED <<hw, toDisable, caller, err>>
  PROVE  /\ ToEnableKnown'
         /\ toEnable' # <<>> => toEnable # <<>>
<1>1. \A i \in DOMAIN Tail(toEnable) :
        i + 1 \in DOMAIN toEnable /\ Tail(toEnable)[i] = toEnable[i + 1]
  BY ListedTail DEF TapInv, TypeOK
<1>2. ToEnableKnown'
  BY <1>1 DEF TapInv, ToEnableKnown, Listed
<1>3. QED BY <1>2

\* An interface that is not Ethernet's gets no tap.
LEMMA SkipLists == TapInv /\ SkipOther => Lists'
<1> SUFFICES ASSUME TapInv, SkipOther PROVE Lists'
  OBVIOUS
<1>1. /\ UNCHANGED <<hw, ether, inst, hwFree, cfgEnable, toDisable, isrPending,
                     caller, err, fdOf, tapName, replaced>>
      /\ toEnable # <<>> /\ toEnable' = Tail(toEnable)
      /\ caller # "none" /\ ~err
  BY DEF SkipOther, Connecting, IsrRuns, interfaces, config, isr, maps, taps
<1>2. ToEnableKnown'
  BY <1>1, TailKnown
<1>3. TapHasInterface' /\ HwPool' /\ ListsEmpty'
  BY <1>1 DEF TapInv, TapHasInterface, HwPool, ListsEmpty, Tapped, Listed
<1>4. Untapped'
  BY <1>1 DEF TapInv, Untapped, Tapped, Listed
<1>5. QED BY <1>2, <1>3, <1>4 DEF Lists

\* A tap is connected under the name of its interface, or of one that is
\* listed to be disconnected.
LEMMA ConnectLists ==
  ASSUME TapInv, NEW f \in Fds, NEW x \in Ifxs, Connect(f, x)
  PROVE  Lists'
<1> DEFINE h == Head(toEnable)
<1>1. /\ UNCHANGED <<hw, ether, inst, hwFree, cfgEnable, toDisable, isrPending,
                     caller, err>>
      /\ toEnable # <<>> /\ toEnable' = Tail(toEnable)
      /\ caller # "none" /\ ~err /\ ether[h] /\ ~Open(f)
      /\ fdOf' = [fdOf EXCEPT ![h] = f]
      /\ tapName' = [tapName EXCEPT ![f] = inst[h]]
      /\ replaced' = (replaced \/ fdOf[h] # None)
  BY DEF Connect, Connecting, IsrRuns, InsertTap, interfaces, config, isr
<1>2. h \in HwIdx /\ h = toEnable[1] /\ 1 \in DOMAIN toEnable
  <2>1. toEnable \in Seq(HwIdx)
    BY DEF TapInv, TypeOK
  <2>2. QED BY <1>1, <2>1
<1>3. (h \in hw /\ caller # "disable") \/ Listed(h, toDisable)
  BY <1>1, <1>2 DEF TapInv, ToEnableKnown
<1> HIDE DEF h
<1>4. ASSUME ~replaced PROVE \A s \in HwIdx : Tapped(s) => fdOf[s] # f /\ fdOf[s] \in Fds
  BY <1>1, <1>4 DEF TapInv, OneTapEach, Tapped, TypeOK
<1>5. \A s : Listed(s, toDisable)' <=> Listed(s, toDisable)
  BY <1>1 DEF Listed
<1>6. TapHasInterface'
  <2> SUFFICES ASSUME ~replaced', NEW s \in HwIdx, Tapped(s)'
               PROVE  \/ s \in hw' /\ ether'[s] /\ tapName'[fdOf'[s]] = inst'[s]
                      \/ Listed(s, toDisable)'
    BY DEF TapHasInterface
  <2>1. CASE s = h
    <3>1. fdOf'[s] = f /\ tapName'[f] = inst[h]
      BY <1>1, <1>2, <2>1 DEF TapInv, TypeOK
    <3>2. QED BY <1>1, <1>3, <1>5, <2>1, <3>1
  <2>2. CASE s # h
    <3>1. ~replaced /\ fdOf'[s] = fdOf[s] /\ Tapped(s)
      BY <1>1, <1>2, <2>2 DEF TapInv, TypeOK, Tapped
    <3>2. tapName'[fdOf'[s]] = tapName[fdOf[s]]
      BY <1>1, <1>4, <3>1 DEF TapInv, TypeOK
    <3>3. QED BY <1>1, <3>1, <3>2 DEF TapInv, TapHasInterface, Listed
  <2>3. QED BY <2>1, <2>2
<1>7. HwPool' /\ ListsEmpty'
  BY <1>1 DEF TapInv, HwPool, ListsEmpty
<1>8. ToEnableKnown'
  BY <1>1, TailKnown
<1>9. Untapped'
  <2>1. caller # "undo" /\ ~(~cfgEnable /\ caller = "isr")
    BY <1>1 DEF TapInv, Untapped
  <2>2. ASSUME ~replaced', caller = "disable", NEW s \in HwIdx, Tapped(s)'
        PROVE  Listed(s, toDisable)'
    <3>1. CASE s = h
      BY <1>3, <1>5, <2>2, <3>1
    <3>2. CASE s # h
      BY <1>1, <2>2, <3>2 DEF TapInv, Untapped, Tapped, TypeOK, Listed
    <3>3. QED BY <3>1, <3>2
  <2>3. QED BY <1>1, <2>1, <2>2 DEF Untapped
<1>10. QED BY <1>6, <1>7, <1>8, <1>9 DEF Lists

\* What failed to connect has no tap to begin with.
LEMMA FailLists == TapInv /\ ConnectFails => Lists'
<1> SUFFICES ASSUME TapInv, ConnectFails PROVE Lists'
  OBVIOUS
<1>1. /\ UNCHANGED <<hw, ether, inst, hwFree, cfgEnable, lists, caller, fdOf,
                     tapName, replaced>>
      /\ caller # "none" /\ err'
  BY DEF ConnectFails, Connecting, IsrRuns, interfaces, config, maps, taps
<1>2. TapHasInterface' /\ HwPool' /\ ListsEmpty' /\ ToEnableKnown'
  BY <1>1 DEF TapInv, TapHasInterface, HwPool, ListsEmpty, ToEnableKnown,
              Tapped, Listed, lists
<1>3. Untapped'
  BY <1>1 DEF TapInv, Untapped, Tapped, Listed, lists
<1>4. QED BY <1>2, <1>3 DEF Lists

\* What leaves the list has no tap, and nothing is left to be connected.
LEMMA DisconnectLists == TapInv /\ Disconnect => Lists'
<1> SUFFICES ASSUME TapInv, Disconnect PROVE Lists'
  OBVIOUS
<1> DEFINE h == Head(toDisable)
<1>1. /\ UNCHANGED <<hw, ether, inst, hwFree, cfgEnable, toEnable, isrPending,
                     caller, err, tapName, replaced>>
      /\ toDisable # <<>> /\ toDisable' = Tail(toDisable)
      /\ caller # "none" /\ (toEnable = <<>> \/ err)
      /\ fdOf' = IF fdOf[h] = None THEN fdOf ELSE [fdOf EXCEPT ![h] = None]
  BY DEF Disconnect, Connecting, IsrRuns, interfaces, config, isr, maps
<1>2. h \in HwIdx /\ \A s : Listed(s, toDisable) <=> Listed(s, toDisable)' \/ s = h
  <2>1. toDisable \in Seq(HwIdx)
    BY DEF TapInv, TypeOK
  <2>2. h \in HwIdx /\ \A s : Listed(s, toDisable) <=> Listed(s, Tail(toDisable)) \/ s = h
    BY <1>1, <2>1, ListedTail
  <2>3. \A s : Listed(s, toDisable)' <=> Listed(s, Tail(toDisable))
    BY <1>1 DEF Listed
  <2>4. QED BY <2>2, <2>3
<1> HIDE DEF h
<1>3. \A s \in HwIdx : Tapped(s)' => s # h /\ Tapped(s) /\ fdOf'[s] = fdOf[s]
  BY <1>1, <1>2 DEF Tapped, TapInv, TypeOK
<1>4. TapHasInterface'
  BY <1>1, <1>2, <1>3 DEF TapInv, TapHasInterface
<1>5. HwPool' /\ ListsEmpty'
  BY <1>1 DEF TapInv, HwPool, ListsEmpty
<1>6. ToEnableKnown'
  BY <1>1 DEF ToEnableKnown
<1>7. Untapped'
  BY <1>1, <1>2, <1>3 DEF TapInv, Untapped
<1>8. QED BY <1>4, <1>5, <1>6, <1>7 DEF Lists

\* The isr leaves no list behind; undoing an enable lists what has a tap.
LEMMA EndLists == TapInv /\ IsrEnd => Lists'
<1> SUFFICES ASSUME TapInv, IsrEnd PROVE Lists'
  OBVIOUS
<1>1. /\ UNCHANGED <<hw, ether, inst, hwFree, isrPending, fdOf, tapName,
                     replaced>>
      /\ toDisable = <<>> /\ toEnable' = <<>> /\ ~err' /\ caller # "none"
  BY DEF IsrEnd, IsrRuns, interfaces, maps, taps
<1>2. \A s : ~Listed(s, toDisable)
  BY <1>1 DEF Listed
<1>3. HwPool' /\ ToEnableKnown'
  BY <1>1 DEF TapInv, HwPool, ToEnableKnown
<1>4. CASE caller = "enable" /\ err
  <2>1. toDisable' \in Listings /\ caller' = "undo"
    BY <1>4 DEF IsrEnd
  <2>2. \A s \in hw : Listed(s, toDisable')
    BY <2>1, ListingSeq DEF TapInv
  <2>3. \A s : Listed(s, toDisable)' <=> Listed(s, toDisable')
    BY DEF Listed
  <2>4. TapHasInterface' /\ Untapped'
    BY <1>1, <1>2, <2>1, <2>2, <2>3
       DEF TapInv, TapHasInterface, Untapped, Tapped
  <2>5. ListsEmpty'
    BY <1>1, <2>1 DEF ListsEmpty
  <2>6. QED BY <1>3, <2>4, <2>5 DEF Lists
<1>5. CASE ~(caller = "enable" /\ err)
  <2>1. /\ caller' = "none" /\ toDisable' = toDisable
        /\ cfgEnable' = CASE caller = "enable" -> TRUE
                          [] caller = "disable" -> FALSE
                          [] OTHER -> cfgEnable
    BY <1>5 DEF IsrEnd
  <2>2. TapHasInterface' /\ ListsEmpty'
    BY <1>1, <1>2, <2>1 DEF TapInv, TapHasInterface, ListsEmpty, Tapped
  <2>3. ASSUME ~cfgEnable', ~replaced, NEW s \in HwIdx PROVE ~Tapped(s)
    <3>1. CASE caller \in {"disable", "undo"}
      BY <1>2, <2>3, <3>1 DEF TapInv, Untapped
    <3>2. CASE caller = "isr"
      BY <2>1, <2>3, <3>2 DEF TapInv, Untapped
    <3>3. CASE caller = "enable"
      BY <2>1, <2>3, <3>3
    <3>4. QED BY <1>1, <3>1, <3>2, <3>3 DEF TapInv, TypeOK
  <2>4. Untapped'
    BY <1>1, <2>1, <2>3 DEF Untapped, Tapped
  <2>5. QED BY <1>3, <2>2, <2>4 DEF Lists
<1>6. QED BY <1>4, <1>5

\* What is listed, and why, after each step.
LEMMA ListsStep == TapInv /\ [Next]_vars => Lists'
<1> SUFFICES ASSUME TapInv, [Next]_vars PROVE Lists'
  OBVIOUS
<1>1. CASE UNCHANGED vars
  BY <1>1, FrameLists DEF vars, interfaces, config, maps, taps
<1>3. CASE IsrStart
  <2>1. /\ UNCHANGED <<hw, ether, inst, hwFree, cfgEnable, toEnable, toDisable,
                       err, fdOf, tapName, replaced>>
        /\ caller = "none" /\ caller' = "isr"
    BY <1>3 DEF IsrStart, interfaces, config, maps, taps
  <2>2. TapHasInterface' /\ HwPool' /\ ListsEmpty'
    BY <2>1 DEF TapInv, TapHasInterface, HwPool, ListsEmpty, Tapped, Listed
  <2>3. ToEnableKnown' /\ Untapped'
    BY <2>1 DEF TapInv, ToEnableKnown, Untapped, Tapped, Listed
  <2>4. QED BY <2>2, <2>3 DEF Lists
<1>4. ASSUME NEW f \in Fds, LinuxSend(f) \/ TapRead(f) PROVE Lists'
  BY <1>4, FrameLists DEF LinuxSend, TapRead, interfaces, config, maps, taps
<1>5. ASSUME NEW k \in 0 .. MaxListed * Cardinality(Fds), Rx(k) PROVE Lists'
  BY <1>5, FrameLists DEF Rx, interfaces, config, maps, taps
<1>6. QED
  BY <1>1, <1>3, <1>4, <1>5, AddLists, DelLists, EnableLists,
     DisableLists, SkipLists, ConnectLists, FailLists, DisconnectLists, EndLists
     DEF Next, Isr

\* Nothing is listed or connected at first, and every index is free.
LEMMA ListsInit == Init => OneTapEach /\ Lists
<1> SUFFICES ASSUME Init PROVE OneTapEach /\ Lists
  OBVIOUS
<1>1. \A i \in DOMAIN hwFree : hwFree[i] = NHw + 1 - i /\ i \in Nat
  BY TapConstants DEF Init, Stock
<1>2. HwPool
  BY <1>1, TapConstants DEF HwPool, Init
<1>3. \A s \in HwIdx : ~Tapped(s)
  BY DEF Init, Tapped
<1>4. OneTapEach
  BY <1>3 DEF Init, OneTapEach, Open
<1>5. TapHasInterface /\ ListsEmpty /\ ToEnableKnown /\ Untapped
  BY <1>3 DEF Init, TapHasInterface, ListsEmpty, ToEnableKnown, Untapped
<1>6. QED BY <1>2, <1>4, <1>5 DEF Lists

\* The inductive invariant.
LEMMA Invariance == Spec => []TapInv
<1>1. TapInv <=> TypeOK /\ OneTapEach /\ Lists
  BY DEF TapInv, Lists
<1>2. Init => TapInv
  BY <1>1, TypeInit, ListsInit
<1>3. TapInv /\ [Next]_vars => TapInv'
  <2> SUFFICES ASSUME TapInv, [Next]_vars PROVE TapInv'
    OBVIOUS
  <2>1. TypeOK' /\ OneTapEach' /\ Lists'
    BY TypeStep, OneTapStep, ListsStep DEF TapInv
  <2>2. QED BY <2>1 DEF TapInv, Lists
<1>4. QED BY <1>2, <1>3, PTL DEF Spec

\* Every index, list and map keeps its type, for any number of interfaces.
THEOREM TypeCorrect == Spec => []TypeOK
<1>1. TapInv => TypeOK
  BY DEF TapInv
<1>2. QED BY <1>1, Invariance, PTL

\* tap_inject_insert_tap and tap_inject_delete_tap keep the four maps those
\* of the open taps, whatever fails, as long as no index was reused.
THEOREM MapsAreOfOpenTaps == Spec => []OneTapEach
<1>1. TapInv => OneTapEach
  BY DEF TapInv
<1>2. QED BY <1>1, Invariance, PTL

\* Between two runs of tap_inject_iface_isr and within one, a tap that is not
\* its interface's is on the list of those to close.
THEOREM TapsFollowInterfaces == Spec => []TapHasInterface
<1>1. TapInv => TapHasInterface
  BY DEF TapInv
<1>2. QED BY <1>1, Invariance, PTL

\* tap_inject_tap_connect overwrites the maps of a tap that is still open
\* only for an index deleted and taken again since the isr last ran.
THEOREM OnlyReuseReplaces == Spec => ReplacedByReuse
<1> DEFINE Reuse == replaced' => \/ replaced
                                 \/ Listed(Head(toEnable), toDisable)
<1>1. TapInv /\ [Next]_vars => [Reuse]_vars
  <2> SUFFICES ASSUME TapInv, [Next]_vars, replaced', ~replaced
               PROVE  Listed(Head(toEnable), toDisable)
    OBVIOUS
  <2>1. PICK f \in Fds, x \in Ifxs : Connect(f, x)
    BY DEF Next, Isr, vars, maps, InterfaceAdd, InterfaceDel,
           CliEnable, CliDisable, IsrStart, SkipOther, ConnectFails,
           Disconnect, IsrEnd, LinuxSend, TapRead, Rx
  <2> DEFINE h == Head(toEnable)
  <2>2. h \in HwIdx
    BY <2>1, ListedTail DEF Connect, Connecting, TapInv, TypeOK
  <2>3. fdOf[h] # None /\ ~NameTaken(inst[h])
    BY <2>1 DEF Connect, InsertTap
  <2>4. Open(fdOf[h]) /\ fdOf[h] \in Fds
    BY <2>2, <2>3 DEF TapInv, OneTapEach, Tapped, TypeOK
  <2>5. tapName[fdOf[h]] # inst[h]
    BY <2>3, <2>4 DEF NameTaken
  <2>6. QED BY <2>2, <2>3, <2>5 DEF TapInv, TapHasInterface, Tapped
<1>2. QED BY <1>1, Invariance, PTL DEF Spec, ReplacedByReuse

\* tap_inject_rx looks the descriptor up when it runs, after the isr: what
\* was listed before an interface changed is not taken for another's.
THEOREM RxIsOfItsInterface == Spec => RxThroughOwn
<1> DEFINE Own == rx # <<>> /\ rx' = <<>> /\ ~replaced =>
             \A p \in lastRx' : p[2] \in hw /\ ether[p[2]] /\ inst[p[2]] = p[1]
<1>1. TapInv /\ [Next]_vars => [Own]_vars
  <2> SUFFICES ASSUME TapInv, [Next]_vars, rx # <<>>, rx' = <<>>, ~replaced,
                      NEW p \in lastRx'
               PROVE  p[2] \in hw /\ ether[p[2]] /\ inst[p[2]] = p[1]
    OBVIOUS
  <2>1. ASSUME NEW f \in Fds, TapRead(f) PROVE FALSE
    <3>1. rx \in Seq(Fds) /\ rx' = Append(rx, f)
      BY <2>1 DEF TapRead, TapInv, TypeOK
    <3>2. QED BY <3>1
  <2>2. PICK k \in 0 .. MaxListed * Cardinality(Fds) : Rx(k)
    BY <2>1 DEF Next, Isr, vars, packets, InterfaceAdd, InterfaceDel,
                CliEnable, CliDisable, IsrStart, SkipOther,
                Connect, ConnectFails, Disconnect, IsrEnd, LinuxSend
  <2>3. PICK i \in 1 .. k : p = <<tapName[rx[i]], swOfFd[rx[i]]>>
    BY <2>2 DEF Rx
  <2>4. k \in Nat /\ k <= Len(rx) /\ Readable(k) /\ caller = "none"
        /\ ~isrPending
    BY <2>2 DEF Rx
  <2> DEFINE g == rx[i]
             s == swOfFd[g]
  <2>5. g \in Fds /\ Open(g)
    BY <2>4 DEF Readable, TapInv, TypeOK
  <2>6. s \in HwIdx /\ fdOf[s] = g
    BY <2>5 DEF TapInv, OneTapEach
  <2>7. Tapped(s)
    BY <2>5, <2>6, TapConstants DEF Tapped
  <2>8. ~Listed(s, toDisable)
    BY <2>4 DEF TapInv, ListsEmpty, Listed
  <2>9. s \in hw /\ ether[s] /\ tapName[g] = inst[s]
    BY <2>6, <2>7, <2>8 DEF TapInv, TapHasInterface
  <2>10. QED BY <2>3, <2>9
<1>2. QED BY <1>1, Invariance, PTL DEF Spec, RxThroughOwn
=============================================================================
