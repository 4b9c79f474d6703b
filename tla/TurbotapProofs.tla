--------------------------- MODULE TurbotapProofs ---------------------------
(***************************************************************************)
(* Proofs about turbotap: its slots and descriptors, and the buffers its   *)
(* input node reads packets into.                                          *)
(***************************************************************************)
EXTENDS Turbotap, FiniteSetTheorems, WellFoundedInduction, TLAPS

-----------------------------------------------------------------------------
(***************************************************************************)
(* Slots and descriptors.  Everything about them is done by the CLI; the   *)
(* packet nodes leave all of this alone.                                   *)
(***************************************************************************)
control == <<kfd, nslots, active, fds, sw_if_index, inactive, history, maps, hw>>

ControlType ==
    /\ kfd \in [Fds -> (Kinds \X Names) \cup {None}]
    /\ nslots \in 0 .. MaxSlots
    /\ active \in [Slots -> BOOLEAN]
    /\ unix_fd \in [Slots -> Fds \cup {None}] /\ provision_fd \in [Slots -> Fds \cup {None}]
    /\ turbotap_fd \in [Slots -> Fds \cup {None}] /\ sock_fd \in [Slots -> Fds \cup {None}]
    /\ sw_if_index \in [Slots -> SwIfs \cup {None}]
    /\ inactive \in Seq(Slots) /\ leaked \subseteq Fds /\ lost \subseteq Slots
    /\ bySw \in [SwIfs -> Slots \cup {None}] /\ byFd \in [Fds -> Slots \cup {None}]
    /\ hw \in [SwIfs -> (Names \X Slots) \cup {None}]

\* Slot i is that of interface s, and has the four descriptors of n's tap.
Wired(s, n, i) ==
    /\ active[i] /\ sw_if_index[i] = s /\ bySw[s] = i /\ byFd[unix_fd[i]] = i
    /\ Own(i) \subseteq Fds
    /\ kfd[unix_fd[i]] = <<"tun", n>> /\ kfd[provision_fd[i]] = <<"tap", n>>
    /\ kfd[turbotap_fd[i]] = <<"turbotap", n>> /\ kfd[sock_fd[i]] = <<"sock", n>>

\* Maps, interfaces and active slots correspond one to one.
Matched ==
    /\ \A s \in SwIfs : hw[s] # None => Wired(s, hw[s][1], hw[s][2])
    /\ \A s \in SwIfs : bySw[s] # None => hw[s] # None
    /\ \A f \in Fds : byFd[f] # None => active[byFd[f]] /\ unix_fd[byFd[f]] = f
    /\ \A i \in Slots : active[i] =>
         /\ i < nslots /\ sw_if_index[i] \in SwIfs
         /\ hw[sw_if_index[i]] # None /\ hw[sw_if_index[i]][2] = i

\* An inactive slot names no descriptor; one that can be reused is listed once,
\* and one that cannot was lost.
Idle ==
    /\ \A i \in Slots : ~active[i] => Own(i) = {None}
    /\ \A i \in Slots : i < nslots /\ ~active[i] => (Listed(i) <=> i \notin lost)
    /\ \A i \in lost : i < nslots /\ ~active[i]
    /\ \A x, y \in DOMAIN inactive :
          /\ ~active[inactive[x]] /\ inactive[x] < nslots
          /\ inactive[x] = inactive[y] => x = y

ControlInv == ControlType /\ Matched /\ Idle /\ DescriptorsOwned

\* A slot with an interface is wired.
LEMMA ActiveWired ==
    ASSUME ControlInv, NEW i \in Slots, active[i]
    PROVE  /\ sw_if_index[i] \in SwIfs /\ hw[sw_if_index[i]] \in Names \X {i}
           /\ Wired(sw_if_index[i], hw[sw_if_index[i]][1], i)
<1>1. /\ sw_if_index[i] \in SwIfs
      /\ hw[sw_if_index[i]] # None /\ hw[sw_if_index[i]][2] = i
  BY DEF ControlInv, Matched
<1>2. hw[sw_if_index[i]] \in Names \X {i}
  BY <1>1 DEF ControlInv, ControlType
<1>3. QED BY <1>1, <1>2 DEF ControlInv, Matched

\* The descriptors of an interface are open.
LEMMA OwnOpen ==
    ASSUME ControlInv, NEW i \in Slots, active[i], NEW f \in Own(i)
    PROVE  f \in Fds /\ kfd[f] # None
<1>1. PICK n \in Names : Wired(sw_if_index[i], n, i)
  BY ActiveWired
<1>2. f \in Fds /\ \E k \in Kinds : kfd[f] = <<k, n>>
  BY <1>1 DEF Wired, Own, Kinds
<1>3. QED BY <1>2, TurbotapConstants

\* What the statement of SlotsSound asks of the maps follows.
LEMMA ControlSound == ControlInv => SlotsSound /\ DescriptorsOwned
<1> SUFFICES ASSUME ControlInv PROVE SlotsSound
  BY DEF ControlInv
<1>1. ASSUME NEW s \in SwIfs, hw[s] # None
      PROVE  LET i == bySw[s] IN
             /\ i # None /\ hw[s][2] = i /\ active[i] /\ sw_if_index[i] = s
             /\ kfd[unix_fd[i]] = <<"tun", hw[s][1]>> /\ kfd[sock_fd[i]] = <<"sock", hw[s][1]>>
             /\ byFd[unix_fd[i]] = i
  <2>1. Wired(s, hw[s][1], hw[s][2]) /\ hw[s][2] \in Slots
    BY <1>1 DEF ControlInv, ControlType, Matched
  <2>2. QED BY <2>1, TurbotapConstants DEF Wired
<1>2. ASSUME NEW i \in Slots, ~active[i]
      PROVE  /\ \A s \in SwIfs : bySw[s] # i
             /\ \A f \in Fds : byFd[f] # i
             /\ Own(i) = {None}
  <2>1. ASSUME NEW s \in SwIfs PROVE bySw[s] # i
    <3>1. CASE hw[s] = None
      BY <3>1, TurbotapConstants DEF ControlInv, Matched
    <3>2. CASE hw[s] # None
      <4>1. bySw[s] = hw[s][2] /\ active[hw[s][2]]
        BY <3>2 DEF ControlInv, Matched, Wired
      <4>2. QED BY <1>2, <4>1
    <3>3. QED BY <3>1, <3>2
  <2>2. ASSUME NEW f \in Fds PROVE byFd[f] # i
    BY <1>2, TurbotapConstants DEF ControlInv, Matched
  <2>3. QED BY <1>2, <2>1, <2>2 DEF ControlInv, Idle
<1>3. QED BY <1>1, <1>2 DEF ControlInv, Idle, SlotsSound

\* A slot that is given out is not in use, and is not listed afterwards.
LEMMA GetSlot ==
    ASSUME ControlInv, NEW i \in Slots, turbotap_get_new_tapif(i)
    PROVE  /\ ~active[i] /\ i < nslots' /\ nslots <= nslots'
           /\ nslots' \in 0 .. MaxSlots /\ inactive' \in Seq(Slots)
           /\ DOMAIN inactive' \subseteq DOMAIN inactive
           /\ \A x \in DOMAIN inactive' : inactive'[x] = inactive[x] /\ inactive'[x] # i
           /\ \A x \in DOMAIN inactive : x \in DOMAIN inactive' \/ inactive[x] = i
           /\ \A j \in Slots \ {i} : j < nslots' => j < nslots
           /\ i \notin lost
<1>1. inactive \in Seq(Slots) /\ nslots \in 0 .. MaxSlots /\ MaxSlots \in Nat
  BY TurbotapConstants DEF ControlInv, ControlType
<1>2. CASE inactive # <<>> /\ i = Last(inactive) /\ inactive' = Front(inactive) /\ UNCHANGED nslots
  <2>1. /\ Len(inactive) \in Nat \ {0} /\ DOMAIN inactive = 1 .. Len(inactive)
        /\ i = inactive[Len(inactive)]
    BY <1>1, <1>2 DEF Last
  <2>2. /\ inactive' \in Seq(Slots) /\ DOMAIN inactive' = 1 .. Len(inactive) - 1
        /\ \A x \in DOMAIN inactive' : inactive'[x] = inactive[x]
    BY <1>1, <1>2, <2>1 DEF Front
  <2>3. ~active[i] /\ i < nslots
    BY <2>1 DEF ControlInv, Idle
  <2>4. \A x \in DOMAIN inactive' : inactive[x] # i
    BY <2>1, <2>2 DEF ControlInv, Idle
  <2>5. i \notin lost
    BY <2>1, <2>3 DEF ControlInv, Idle, Listed
  <2>6. \A x \in DOMAIN inactive : x \in DOMAIN inactive' \/ inactive[x] = i
    BY <2>1, <2>2
  <2>7. QED BY <1>1, <1>2, <2>1, <2>2, <2>3, <2>4, <2>5, <2>6
<1>3. CASE /\ inactive = <<>> /\ i = nslots /\ nslots < MaxSlots
           /\ nslots' = nslots + 1 /\ UNCHANGED inactive
  <2>1. ~active[i]
    BY <1>1, <1>3 DEF ControlInv, Matched
  <2>2. DOMAIN inactive = {}
    BY <1>3
  <2>3. i \notin lost
    BY <1>1, <1>3 DEF ControlInv, Idle
  <2>4. \A j \in Slots \ {i} : j < nslots' => j < nslots
    BY <1>1, <1>3 DEF Slots
  <2>5. QED BY <1>1, <1>3, <2>1, <2>2, <2>3, <2>4
<1>4. QED BY <1>2, <1>3 DEF turbotap_get_new_tapif

\* The other slots that are not in use stay listed, or lost.
LEMMA OthersListed ==
    ASSUME ControlInv, NEW i \in Slots, turbotap_get_new_tapif(i),
           NEW j \in Slots, j # i, j < nslots', ~active[j]
    PROVE  j < nslots /\ (Listed(j)' <=> j \notin lost)
<1>1. /\ DOMAIN inactive' \subseteq DOMAIN inactive
      /\ \A x \in DOMAIN inactive' : inactive'[x] = inactive[x]
      /\ \A x \in DOMAIN inactive : x \in DOMAIN inactive' \/ inactive[x] = i
      /\ j < nslots
  BY GetSlot
<1>2. Listed(j)' <=> Listed(j)
  BY <1>1 DEF Listed
<1>3. QED BY <1>1, <1>2 DEF ControlInv, Idle

\* Connecting takes descriptors, a slot and an interface nobody has.
LEMMA ConnectControl ==
    ASSUME ControlInv, NEW n \in Names, ConnectOk(n)
    PROVE  ControlInv'
<1>1. PICK a, b, c, d \in Fds :
        /\ kfd[a] = None /\ kfd[b] = None /\ kfd[c] = None /\ kfd[d] = None
        /\ a < b /\ b < c /\ c < d
        /\ kfd' = [kfd EXCEPT ![a] = <<"turbotap", n>>, ![b] = <<"tun", n>>,
                              ![c] = <<"tap", n>>, ![d] = <<"sock", n>>]
        /\ \E i \in Slots, s \in SwIfs :
             /\ turbotap_get_new_tapif(i)
             /\ hw[s] = None
             /\ hw' = [hw EXCEPT ![s] = <<n, i>>]
             /\ Fill(i, s, a, b, c, d)
             /\ bySw' = [bySw EXCEPT ![s] = i]
             /\ byFd' = [byFd EXCEPT ![b] = i]
  <2> DEFINE F == {f \in Fds : \E k \in 0 .. 3 : IsFree(f, k)}
             Made(a, b, c, d) ==
               /\ a < b /\ b < c /\ c < d
               /\ kfd' = [kfd EXCEPT ![a] = <<"turbotap", n>>, ![b] = <<"tun", n>>,
                                     ![c] = <<"tap", n>>, ![d] = <<"sock", n>>]
               /\ \E i \in Slots, s \in SwIfs :
                    /\ turbotap_get_new_tapif(i)
                    /\ hw[s] = None
                    /\ hw' = [hw EXCEPT ![s] = <<n, i>>]
                    /\ Fill(i, s, a, b, c, d)
                    /\ bySw' = [bySw EXCEPT ![s] = i]
                    /\ byFd' = [byFd EXCEPT ![b] = i]
  <2>1. \E a, b, c, d \in F : Made(a, b, c, d)
    BY Zenon DEF ConnectOk
  <2>2. \A f \in F : f \in Fds /\ kfd[f] = None
    BY DEF IsFree
  <2> HIDE DEF F
  <2>3. \E a, b, c, d \in Fds :
          /\ kfd[a] = None /\ kfd[b] = None /\ kfd[c] = None /\ kfd[d] = None
          /\ Made(a, b, c, d)
    <3> HIDE DEF Made
    <3>1. QED BY <2>1, <2>2
  <2>4. QED BY Zenon, <2>3
<1>2. PICK i \in Slots, s \in SwIfs :
        /\ turbotap_get_new_tapif(i)
        /\ hw[s] = None
        /\ hw' = [hw EXCEPT ![s] = <<n, i>>]
        /\ Fill(i, s, a, b, c, d)
        /\ bySw' = [bySw EXCEPT ![s] = i]
        /\ byFd' = [byFd EXCEPT ![b] = i]
  BY <1>1
<1>3. /\ turbotap_fd' = [turbotap_fd EXCEPT ![i] = a]
      /\ unix_fd' = [unix_fd EXCEPT ![i] = b]
      /\ provision_fd' = [provision_fd EXCEPT ![i] = c]
      /\ sock_fd' = [sock_fd EXCEPT ![i] = d]
      /\ sw_if_index' = [sw_if_index EXCEPT ![i] = s]
      /\ active' = [active EXCEPT ![i] = TRUE]
  BY <1>2 DEF Fill
<1> HIDE <1>2
<1>4. /\ hw[s] = None /\ hw' = [hw EXCEPT ![s] = <<n, i>>]
      /\ bySw' = [bySw EXCEPT ![s] = i] /\ byFd' = [byFd EXCEPT ![b] = i]
      /\ leaked' = leaked /\ lost' = lost
  BY <1>2 DEF ConnectOk, history
<1>5. /\ ~active[i] /\ i \notin lost /\ i < nslots' /\ nslots <= nslots'
      /\ nslots' \in 0 .. MaxSlots /\ inactive' \in Seq(Slots)
      /\ DOMAIN inactive' \subseteq DOMAIN inactive
      /\ \A x \in DOMAIN inactive' : inactive'[x] = inactive[x] /\ inactive'[x] # i
  BY <1>2, GetSlot
<1>6. a # b /\ a # c /\ a # d /\ b # c /\ b # d /\ c # d
  BY <1>1 DEF Fds
<1>7. /\ kfd'[a] = <<"turbotap", n>> /\ kfd'[b] = <<"tun", n>>
      /\ kfd'[c] = <<"tap", n>> /\ kfd'[d] = <<"sock", n>>
      /\ \A f \in Fds : kfd[f] # None => kfd'[f] = kfd[f]
      /\ \A f \in Fds : f \notin {a, b, c, d} => kfd'[f] = kfd[f]
      /\ kfd' \in [Fds -> (Kinds \X Names) \cup {None}]
  BY <1>1, <1>6 DEF ControlInv, ControlType, Kinds
<1>8. ControlType'
  BY <1>3, <1>4, <1>5, <1>7 DEF ControlInv, ControlType
<1>9. /\ Own(i)' = {a, b, c, d} /\ active'[i] /\ sw_if_index'[i] = s
      /\ unix_fd'[i] = b /\ provision_fd'[i] = c /\ turbotap_fd'[i] = a /\ sock_fd'[i] = d
      /\ bySw'[s] = i /\ byFd'[b] = i /\ hw'[s] = <<n, i>>
  BY <1>3, <1>4 DEF ControlInv, ControlType, Own
<1>10. ASSUME NEW j \in Slots, j # i
       PROVE  /\ Own(j)' = Own(j) /\ active'[j] = active[j] /\ sw_if_index'[j] = sw_if_index[j]
              /\ unix_fd'[j] = unix_fd[j] /\ provision_fd'[j] = provision_fd[j]
              /\ turbotap_fd'[j] = turbotap_fd[j] /\ sock_fd'[j] = sock_fd[j]
  BY <1>3, <1>10 DEF ControlInv, ControlType, Own
<1>11. ASSUME NEW z \in SwIfs, z # s PROVE hw'[z] = hw[z] /\ bySw'[z] = bySw[z]
  BY <1>4, <1>11 DEF ControlInv, ControlType
<1>12. ASSUME NEW j \in Slots, active[j], NEW f \in Own(j)
       PROVE  /\ j # i /\ f \notin {a, b, c, d} /\ f \in Fds
              /\ kfd'[f] = kfd[f] /\ byFd'[f] = byFd[f]
  <2>1. f \in Fds /\ kfd[f] # None
    BY <1>12, OwnOpen
  <2>2. QED BY <1>1, <1>4, <1>5, <1>7, <1>12, <2>1 DEF ControlInv, ControlType
<1>13. Wired(s, n, i)'
  BY <1>7, <1>9 DEF Wired
<1>14. ASSUME NEW z \in SwIfs, z # s, hw[z] # None
       PROVE  Wired(z, hw[z][1], hw[z][2])'
  <2>1. hw[z][2] \in Slots /\ Wired(z, hw[z][1], hw[z][2])
    BY <1>14 DEF ControlInv, ControlType, Matched
  <2>2. PICK j \in Slots : j = hw[z][2]
    BY <2>1
  <2>3. PICK k : k = hw[z][1]
    OBVIOUS
  <2>4. j # i /\ \A f \in Own(j) : kfd'[f] = kfd[f] /\ byFd'[f] = byFd[f]
    <3>1. active[j]
      BY <2>1, <2>2 DEF Wired
    <3>2. QED BY <1>5, <1>12, <3>1
  <2>5. unix_fd[j] \in Own(j) /\ provision_fd[j] \in Own(j) /\ turbotap_fd[j] \in Own(j) /\ sock_fd[j] \in Own(j)
    BY DEF Own
  <2>6. Wired(z, k, j)'
    <3>1. Wired(z, k, j)
      BY <2>1, <2>2, <2>3
    <3>2. /\ active'[j] = active[j] /\ sw_if_index'[j] = sw_if_index[j] /\ bySw'[z] = bySw[z]
          /\ Own(j)' = Own(j) /\ unix_fd'[j] = unix_fd[j] /\ provision_fd'[j] = provision_fd[j]
          /\ turbotap_fd'[j] = turbotap_fd[j] /\ sock_fd'[j] = sock_fd[j]
      BY <1>10, <1>11, <1>14, <2>4
    <3>3. QED BY <2>4, <2>5, <3>1, <3>2 DEF Wired
  <2>7. hw'[z] = hw[z]
    BY <1>11, <1>14
  <2>8. QED BY <2>2, <2>3, <2>6, <2>7
<1>15. Matched'
  <2>1. \A z \in SwIfs : hw'[z] # None => Wired(z, hw[z][1], hw[z][2])'
    <3> SUFFICES ASSUME NEW z \in SwIfs, hw'[z] # None PROVE Wired(z, hw[z][1], hw[z][2])'
      OBVIOUS
    <3>1. CASE z = s
      <4>1. hw'[z][1] = n /\ hw'[z][2] = i
        BY <1>9, <3>1
      <4>2. QED BY <1>13, <3>1, <4>1
    <3>2. CASE z # s
      BY <1>11, <1>14, <3>2
    <3>3. QED BY <3>1, <3>2
  <2>2. \A z \in SwIfs : bySw'[z] # None => hw'[z] # None
    <3>1. <<n, i>> # None
      BY TurbotapConstants
    <3>2. hw'[s] # None
      BY <1>9, <3>1
    <3>3. \A z \in SwIfs : bySw[z] # None => hw[z] # None
      BY DEF ControlInv, Matched
    <3>4. QED BY <1>11, <3>2, <3>3
  <2>3. ASSUME NEW f \in Fds, byFd'[f] # None
        PROVE  active'[byFd'[f]] /\ unix_fd'[byFd'[f]] = f
    <3>1. CASE f = b
      BY <1>9, <3>1
    <3>2. CASE f # b
      <4>1. byFd'[f] = byFd[f]
        BY <1>4, <3>2 DEF ControlInv, ControlType
      <4>2. byFd[f] \in Slots /\ active[byFd[f]] /\ unix_fd[byFd[f]] = f
        BY <2>3, <4>1 DEF ControlInv, ControlType, Matched
      <4>3. byFd[f] # i
        BY <1>5, <4>2
      <4>4. QED BY <1>10, <4>1, <4>2, <4>3
    <3>3. QED BY <3>1, <3>2
  <2>4. ASSUME NEW j \in Slots, active'[j]
        PROVE  /\ j < nslots' /\ sw_if_index'[j] \in SwIfs
               /\ hw'[sw_if_index'[j]] # None /\ hw'[sw_if_index'[j]][2] = j
    <3>1. CASE j = i
      <4>1. <<n, i>> # None
        BY TurbotapConstants
      <4>2. j < nslots' /\ sw_if_index'[j] = s /\ hw'[s] = <<n, j>>
        BY <1>5, <1>9, <3>1
      <4>3. hw'[s] # None /\ hw'[s][2] = j
        BY <3>1, <4>1, <4>2
      <4>4. QED BY <4>2, <4>3
    <3>2. CASE j # i
      <4>1. active[j] /\ sw_if_index'[j] = sw_if_index[j]
        BY <1>10, <2>4, <3>2
      <4>2. /\ j < nslots /\ sw_if_index[j] \in SwIfs
            /\ hw[sw_if_index[j]] # None /\ hw[sw_if_index[j]][2] = j
        BY <4>1 DEF ControlInv, Matched
      <4>3. sw_if_index[j] # s
        BY <1>4, <4>2
      <4>4. hw'[sw_if_index[j]] = hw[sw_if_index[j]]
        BY <1>11, <4>2, <4>3
      <4>5. j < nslots'
        BY <1>5, <4>2 DEF ControlInv, ControlType, Slots
      <4>6. QED BY <4>1, <4>2, <4>4, <4>5
    <3>3. QED BY <3>1, <3>2
  <2>5. QED BY <2>1, <2>2, <2>3, <2>4 DEF Matched
<1>16. Idle'
  <2>1. ASSUME NEW j \in Slots, ~active'[j] PROVE Own(j)' = {None}
    BY <1>9, <1>10, <2>1 DEF ControlInv, Idle
  <2>2. ASSUME NEW x \in DOMAIN inactive'
        PROVE  ~active'[inactive'[x]] /\ inactive'[x] < nslots'
    <3>1. x \in DOMAIN inactive /\ inactive'[x] = inactive[x] /\ inactive'[x] # i
      BY <1>5
    <3>2. inactive[x] \in Slots
      BY <3>1 DEF ControlInv, ControlType
    <3>3. ~active[inactive[x]] /\ inactive[x] < nslots
      BY <3>1 DEF ControlInv, Idle
    <3>4. QED BY <1>5, <1>10, <3>1, <3>2, <3>3 DEF ControlInv, ControlType, Slots
  <2>3. \A x, y \in DOMAIN inactive' : inactive'[x] = inactive'[y] => x = y
    BY <1>5 DEF ControlInv, Idle
  <2>4. ASSUME NEW j \in Slots, j < nslots', ~active'[j]
        PROVE  Listed(j)' <=> j \notin lost'
    <3>1. j # i /\ ~active[j]
      BY <1>9, <1>10, <2>4
    <3>2. QED BY <1>2, <1>4, <2>4, <3>1, OthersListed
  <2>5. ASSUME NEW j \in lost' PROVE j < nslots' /\ ~active'[j]
    <3>1. j \in Slots /\ j # i /\ j < nslots /\ ~active[j]
      BY <1>4, <1>5, <2>5 DEF ControlInv, ControlType, Idle
    <3>2. QED BY <1>5, <1>10, <3>1 DEF ControlInv, ControlType, Slots
  <2>6. QED BY <2>1, <2>2, <2>3, <2>4, <2>5 DEF Idle
<1>17. DescriptorsOwned'
  <2>1. ASSUME NEW f \in Fds, kfd'[f] # None, f \notin leaked'
        PROVE  \E j \in Slots : active'[j] /\ f \in Own(j)'
    <3>1. CASE f \in {a, b, c, d}
      BY <1>9, <3>1
    <3>2. CASE f \notin {a, b, c, d}
      <4>1. PICK j \in Slots : active[j] /\ f \in Own(j)
        BY <1>4, <1>7, <2>1, <3>2 DEF ControlInv, DescriptorsOwned
      <4>2. QED BY <1>10, <1>12, <4>1
    <3>3. QED BY <3>1, <3>2
  <2>2. ASSUME NEW j \in Slots, NEW k \in Slots, active'[j], active'[k],
               NEW f \in Own(j)', f \in Own(k)'
        PROVE  j = k
    <3>1. CASE j = i /\ k # i
      BY <1>9, <1>10, <1>12, <2>2, <3>1
    <3>2. CASE j # i /\ k = i
      BY <1>9, <1>10, <1>12, <2>2, <3>2
    <3>3. CASE j # i /\ k # i
      <4>1. active[j] /\ active[k] /\ f \in Own(j) /\ f \in Own(k)
        BY <1>10, <2>2, <3>3
      <4>2. QED BY <4>1 DEF ControlInv, DescriptorsOwned
    <3>4. QED BY <3>1, <3>2, <3>3
  <2>3. ASSUME NEW f \in leaked'
        PROVE  kfd'[f] # None /\ \A j \in Slots : f \notin Own(j)'
    <3>1. f \in Fds /\ kfd[f] # None /\ \A j \in Slots : f \notin Own(j)
      BY <1>4, <2>3 DEF ControlInv, ControlType, DescriptorsOwned
    <3>2. kfd'[f] # None /\ f \notin {a, b, c, d}
      BY <1>1, <1>7, <3>1
    <3>3. QED BY <1>9, <1>10, <3>1, <3>2
  <2>4. QED BY <2>1, <2>2, <2>3 DEF DescriptorsOwned
<1>18. QED BY <1>8, <1>15, <1>16, <1>17 DEF ControlInv

\* Deleting closes the descriptors of one slot, and of no other.
LEMMA DeleteControl ==
    ASSUME ControlInv, NEW s \in SwIfs, vnet_turbotap_delete(s)
    PROVE  ControlInv'
<1>1. PICK i : i = bySw[s]
  OBVIOUS
<1>2. i # None /\ i \in Slots /\ hw[s] # None
  BY <1>1 DEF vnet_turbotap_delete, ControlInv, ControlType, Matched
<1>3. hw[s] \in Names \X Slots /\ Wired(s, hw[s][1], hw[s][2])
  BY <1>2 DEF ControlInv, ControlType, Matched
<1>4. hw[s][2] = i /\ active[i] /\ sw_if_index[i] = s /\ Own(i) \subseteq Fds /\ unix_fd[i] \in Fds
  BY <1>1, <1>3 DEF Wired, Own
<1>5. /\ active' = [active EXCEPT ![i] = FALSE]
      /\ inactive' = Append(inactive, i)
      /\ hw' = [hw EXCEPT ![s] = None]
      /\ bySw' = [bySw EXCEPT ![s] = None]
      /\ byFd' = [byFd EXCEPT ![unix_fd[i]] = None]
      /\ kfd' = [f \in Fds |-> IF f \in Own(i) THEN None ELSE kfd[f]]
      /\ unix_fd' = [unix_fd EXCEPT ![i] = None]
      /\ provision_fd' = [provision_fd EXCEPT ![i] = None]
      /\ turbotap_fd' = [turbotap_fd EXCEPT ![i] = None]
      /\ sock_fd' = [sock_fd EXCEPT ![i] = None]
      /\ nslots' = nslots /\ sw_if_index' = sw_if_index
      /\ leaked' = leaked /\ lost' = lost
  BY <1>1, <1>4 DEF vnet_turbotap_delete, turbotap_tap_disconnect, Close, Own, history
<1>6. ControlType'
  BY <1>2, <1>4, <1>5 DEF ControlInv, ControlType
<1>7. ~active'[i] /\ Own(i)' = {None} /\ hw'[s] = None /\ bySw'[s] = None
  BY <1>2, <1>5 DEF ControlInv, ControlType, Own
<1>8. ASSUME NEW j \in Slots, j # i
      PROVE  /\ Own(j)' = Own(j) /\ active'[j] = active[j] /\ sw_if_index'[j] = sw_if_index[j]
             /\ unix_fd'[j] = unix_fd[j] /\ provision_fd'[j] = provision_fd[j]
             /\ turbotap_fd'[j] = turbotap_fd[j] /\ sock_fd'[j] = sock_fd[j]
  BY <1>5, <1>8 DEF ControlInv, ControlType, Own
<1>9. ASSUME NEW z \in SwIfs, z # s PROVE hw'[z] = hw[z] /\ bySw'[z] = bySw[z]
  BY <1>5, <1>9 DEF ControlInv, ControlType
<1>10. ASSUME NEW j \in Slots, active[j], j # i, NEW f \in Own(j)
       PROVE  f \in Fds /\ kfd'[f] = kfd[f] /\ byFd'[f] = byFd[f]
  <2>1. f \in Fds
    BY <1>10, OwnOpen
  <2>2. f \notin Own(i)
    BY <1>2, <1>4, <1>10 DEF ControlInv, DescriptorsOwned
  <2>3. f # unix_fd[i]
    BY <2>2 DEF Own
  <2>4. QED BY <1>5, <2>1, <2>2, <2>3 DEF ControlInv, ControlType
<1>11. ASSUME NEW z \in SwIfs, z # s, hw[z] # None
       PROVE  Wired(z, hw[z][1], hw[z][2])'
  <2>1. hw[z][2] \in Slots /\ Wired(z, hw[z][1], hw[z][2])
    BY <1>11 DEF ControlInv, ControlType, Matched
  <2>2. PICK j \in Slots : j = hw[z][2]
    BY <2>1
  <2>3. PICK k : k = hw[z][1]
    OBVIOUS
  <2>4. Wired(z, k, j)
    BY <2>1, <2>2, <2>3
  <2>5. active[j] /\ j # i
    BY <1>4, <1>11, <2>4 DEF Wired
  <2>6. \A f \in Own(j) : kfd'[f] = kfd[f] /\ byFd'[f] = byFd[f]
    BY <1>10, <2>5
  <2>7. unix_fd[j] \in Own(j) /\ provision_fd[j] \in Own(j) /\ turbotap_fd[j] \in Own(j) /\ sock_fd[j] \in Own(j)
    BY DEF Own
  <2>8. Wired(z, k, j)'
    BY <1>8, <1>9, <1>11, <2>4, <2>5, <2>6, <2>7 DEF Wired
  <2>9. hw'[z] = hw[z]
    BY <1>9, <1>11
  <2>10. QED BY <2>2, <2>3, <2>8, <2>9
<1>12. Matched'
  <2>1. \A z \in SwIfs : hw'[z] # None => Wired(z, hw[z][1], hw[z][2])'
    BY <1>7, <1>9, <1>11
  <2>2. \A z \in SwIfs : bySw'[z] # None => hw'[z] # None
    BY <1>7, <1>9 DEF ControlInv, Matched
  <2>3. ASSUME NEW f \in Fds, byFd'[f] # None
        PROVE  active'[byFd'[f]] /\ unix_fd'[byFd'[f]] = f
    <3>1. f # unix_fd[i] /\ byFd'[f] = byFd[f]
      BY <1>4, <1>5, <2>3 DEF ControlInv, ControlType
    <3>2. byFd[f] \in Slots /\ active[byFd[f]] /\ unix_fd[byFd[f]] = f
      BY <2>3, <3>1 DEF ControlInv, ControlType, Matched
    <3>3. byFd[f] # i
      BY <3>1, <3>2
    <3>4. QED BY <1>8, <3>1, <3>2, <3>3
  <2>4. ASSUME NEW j \in Slots, active'[j]
        PROVE  /\ j < nslots' /\ sw_if_index'[j] \in SwIfs
               /\ hw'[sw_if_index'[j]] # None /\ hw'[sw_if_index'[j]][2] = j
    <3>1. j # i
      BY <1>7, <2>4
    <3>2. active[j] /\ sw_if_index'[j] = sw_if_index[j]
      BY <1>8, <2>4, <3>1
    <3>3. /\ j < nslots /\ sw_if_index[j] \in SwIfs
          /\ hw[sw_if_index[j]] # None /\ hw[sw_if_index[j]][2] = j
      BY <3>2 DEF ControlInv, Matched
    <3>4. hw'[sw_if_index[j]] = hw[sw_if_index[j]]
      BY <1>4, <1>9, <3>1, <3>3
    <3>5. QED BY <1>5, <3>2, <3>3, <3>4
  <2>5. QED BY <2>1, <2>2, <2>3, <2>4 DEF Matched
<1>13. Idle'
  <2>1. ASSUME NEW j \in Slots, ~active'[j] PROVE Own(j)' = {None}
    BY <1>7, <1>8, <2>1 DEF ControlInv, Idle
  <2>2. /\ inactive \in Seq(Slots) /\ Len(inactive) \in Nat
        /\ DOMAIN inactive = 1 .. Len(inactive) /\ DOMAIN inactive' = 1 .. Len(inactive) + 1
        /\ inactive'[Len(inactive) + 1] = i
        /\ \A x \in DOMAIN inactive : inactive'[x] = inactive[x]
    BY <1>2, <1>5 DEF ControlInv, ControlType
  <2>3. ASSUME NEW x \in DOMAIN inactive
        PROVE  /\ inactive[x] \in Slots /\ inactive[x] # i
               /\ ~active'[inactive[x]] /\ inactive[x] < nslots
    <3>1. inactive[x] \in Slots
      BY <2>2
    <3>2. ~active[inactive[x]] /\ inactive[x] < nslots
      BY DEF ControlInv, Idle
    <3>3. QED BY <1>4, <1>8, <3>1, <3>2
  <2>4. i < nslots
    BY <1>2, <1>4 DEF ControlInv, Matched
  <2>5. ASSUME NEW x \in DOMAIN inactive'
        PROVE  ~active'[inactive'[x]] /\ inactive'[x] < nslots'
    <3>1. CASE x \in DOMAIN inactive
      BY <1>5, <2>2, <2>3, <3>1
    <3>2. CASE x = Len(inactive) + 1
      BY <1>5, <1>7, <2>2, <2>4, <3>2
    <3>3. QED BY <2>2, <3>1, <3>2
  <2>6. ASSUME NEW x \in DOMAIN inactive', NEW y \in DOMAIN inactive', inactive'[x] = inactive'[y]
        PROVE  x = y
    <3>1. CASE x \in DOMAIN inactive /\ y \in DOMAIN inactive
      BY <2>2, <2>6, <3>1 DEF ControlInv, Idle
    <3>2. CASE x \in DOMAIN inactive /\ y = Len(inactive) + 1
      BY <2>2, <2>3, <2>6, <3>2
    <3>3. CASE x = Len(inactive) + 1 /\ y \in DOMAIN inactive
      BY <2>2, <2>3, <2>6, <3>3
    <3>4. QED BY <2>2, <3>1, <3>2, <3>3
  <2>7. ASSUME NEW j \in Slots, j < nslots', ~active'[j]
        PROVE  Listed(j)' <=> j \notin lost'
    <3>1. CASE j = i
      <4>1. Len(inactive) + 1 \in DOMAIN inactive'
        BY <2>2
      <4>2. Listed(j)'
        BY <2>2, <3>1, <4>1 DEF Listed
      <4>3. j \notin lost'
        BY <1>4, <1>5, <3>1 DEF ControlInv, Idle
      <4>4. QED BY <4>2, <4>3
    <3>2. CASE j # i
      <4>1. Listed(j)' <=> Listed(j)
        BY <2>2, <3>2 DEF Listed
      <4>2. j < nslots /\ ~active[j]
        BY <1>5, <1>8, <2>7, <3>2
      <4>3. QED BY <1>5, <4>1, <4>2 DEF ControlInv, Idle
    <3>3. QED BY <3>1, <3>2
  <2>8. ASSUME NEW j \in lost' PROVE j < nslots' /\ ~active'[j]
    <3>1. j \in Slots /\ j < nslots /\ ~active[j] /\ j # i
      BY <1>4, <1>5, <2>8 DEF ControlInv, ControlType, Idle
    <3>2. QED BY <1>5, <1>8, <3>1
  <2>9. QED BY <2>1, <2>5, <2>6, <2>7, <2>8 DEF Idle
<1>14. DescriptorsOwned'
  <2>1. ASSUME NEW f \in Fds, kfd'[f] # None, f \notin leaked'
        PROVE  \E j \in Slots : active'[j] /\ f \in Own(j)'
    <3>1. f \notin Own(i) /\ kfd[f] # None /\ f \notin leaked
      BY <1>5, <2>1
    <3>2. PICK j \in Slots : active[j] /\ f \in Own(j)
      BY <3>1 DEF ControlInv, DescriptorsOwned
    <3>3. QED BY <1>8, <3>1, <3>2
  <2>2. ASSUME NEW j \in Slots, NEW k \in Slots, active'[j], active'[k],
               NEW f \in Own(j)', f \in Own(k)'
        PROVE  j = k
    <3>1. j # i /\ k # i
      BY <1>7, <2>2
    <3>2. active[j] /\ active[k] /\ f \in Own(j) /\ f \in Own(k)
      BY <1>8, <2>2, <3>1
    <3>3. QED BY <3>2 DEF ControlInv, DescriptorsOwned
  <2>3. ASSUME NEW f \in leaked'
        PROVE  kfd'[f] # None /\ \A j \in Slots : f \notin Own(j)'
    <3>1. f \in Fds /\ kfd[f] # None /\ \A j \in Slots : f \notin Own(j)
      BY <1>5, <2>3 DEF ControlInv, ControlType, DescriptorsOwned
    <3>2. kfd'[f] # None /\ f # None
      BY <1>2, <1>5, <3>1, TurbotapConstants
    <3>3. QED BY <1>7, <1>8, <3>1, <3>2
  <2>4. QED BY <2>1, <2>2, <2>3 DEF DescriptorsOwned
<1>15. QED BY <1>6, <1>12, <1>13, <1>14 DEF ControlInv

\* A connect that fails leaves at most a descriptor of /dev/net/turbotap.
LEMMA NoTunControl ==
    ASSUME ControlInv, NEW n \in Names, ConnectNoTun(n)
    PROVE  ControlInv'
<1>1. PICK f \in Fds : /\ kfd[f] = None /\ kfd' = [kfd EXCEPT ![f] = <<"turbotap", n>>]
                       /\ leaked' = leaked \cup {f}
  BY DEF ConnectNoTun, IsFree
<1>2. UNCHANGED <<nslots, active, fds, sw_if_index, inactive, lost, maps, hw>>
  BY DEF ConnectNoTun, slots
<1>3. /\ nslots' = nslots /\ active' = active /\ sw_if_index' = sw_if_index
      /\ inactive' = inactive /\ hw' = hw /\ bySw' = bySw /\ byFd' = byFd
      /\ unix_fd' = unix_fd /\ provision_fd' = provision_fd
      /\ turbotap_fd' = turbotap_fd /\ sock_fd' = sock_fd /\ lost' = lost
  BY <1>2 DEF fds, maps
<1>4. \A g \in Fds : kfd[g] # None => kfd'[g] = kfd[g]
  BY <1>1 DEF ControlInv, ControlType
<1>5. kfd' \in [Fds -> (Kinds \X Names) \cup {None}]
  BY <1>1 DEF ControlInv, ControlType, Kinds
<1>6. ControlType'
  BY <1>1, <1>3, <1>5 DEF ControlInv, ControlType
<1>7. ASSUME NEW s \in SwIfs, hw[s] # None PROVE Wired(s, hw[s][1], hw[s][2])'
  <2>1. Wired(s, hw[s][1], hw[s][2]) /\ hw[s][2] \in Slots
    BY <1>7 DEF ControlInv, ControlType, Matched
  <2>2. \A g \in Own(hw[s][2]) : kfd'[g] = kfd[g]
    BY <1>4, <2>1, OwnOpen DEF Wired
  <2>3. QED BY <1>3, <2>1, <2>2 DEF Wired, Own
<1>8. Matched'
  BY <1>3, <1>7 DEF ControlInv, Matched
<1>9. Idle'
  BY <1>3 DEF ControlInv, Idle, Own, Listed
<1>10. \A j \in Slots : Own(j)' = Own(j)
  BY <1>3 DEF Own
<1>11. DescriptorsOwned'
  <2>1. ASSUME NEW g \in Fds, kfd'[g] # None, g \notin leaked'
        PROVE  \E j \in Slots : active'[j] /\ g \in Own(j)'
    <3>1. g # f /\ g \notin leaked
      BY <1>1, <2>1
    <3>2. kfd'[g] = kfd[g]
      BY <1>1, <3>1 DEF ControlInv, ControlType
    <3>3. QED BY <1>3, <1>10, <2>1, <3>1, <3>2 DEF ControlInv, DescriptorsOwned
  <2>2. \A j, k \in Slots : active'[j] /\ active'[k] /\ Own(j)' \cap Own(k)' # {} => j = k
    BY <1>3, <1>10 DEF ControlInv, DescriptorsOwned
  <2>3. ASSUME NEW g \in leaked'
        PROVE  kfd'[g] # None /\ \A j \in Slots : g \notin Own(j)'
    <3>1. CASE g = f
      <4>1. kfd'[f] = <<"turbotap", n>> /\ <<"turbotap", n>> # None
        BY <1>1, TurbotapConstants DEF ControlInv, ControlType, Kinds
      <4>2. f # None
        BY TurbotapConstants
      <4>3. \A j \in Slots : f \notin Own(j)
        BY <1>1, <4>2, OwnOpen DEF ControlInv, Idle
      <4>4. QED BY <1>10, <3>1, <4>1, <4>3
    <3>2. CASE g # f
      <4>1. g \in Fds /\ kfd[g] # None /\ \A j \in Slots : g \notin Own(j)
        BY <1>1, <2>3, <3>2 DEF ControlInv, ControlType, DescriptorsOwned
      <4>2. QED BY <1>4, <1>10, <4>1
    <3>3. QED BY <3>1, <3>2
  <2>4. QED BY <2>1, <2>2, <2>3 DEF DescriptorsOwned
<1>12. QED BY <1>6, <1>8, <1>9, <1>11 DEF ControlInv

\* A slot that is lost stays idle.
LEMMA LateControl ==
    ASSUME ControlInv, ConnectLate
    PROVE  ControlInv'
<1>1. PICK i \in Slots : turbotap_get_new_tapif(i) /\ lost' = lost \cup {i}
  BY DEF ConnectLate
<1>2. /\ ~active[i] /\ i < nslots' /\ \A x \in DOMAIN inactive' : inactive'[x] # i
      /\ nslots <= nslots' /\ nslots' \in 0 .. MaxSlots /\ inactive' \in Seq(Slots)
      /\ DOMAIN inactive' \subseteq DOMAIN inactive
      /\ \A x \in DOMAIN inactive' : inactive'[x] = inactive[x]
  BY <1>1, GetSlot
<1>3. /\ kfd' = kfd /\ active' = active /\ sw_if_index' = sw_if_index
      /\ hw' = hw /\ bySw' = bySw /\ byFd' = byFd
      /\ unix_fd' = unix_fd /\ provision_fd' = provision_fd
      /\ turbotap_fd' = turbotap_fd /\ sock_fd' = sock_fd /\ leaked' = leaked
  BY DEF ConnectLate, fds, maps
<1>4. ControlType'
  BY <1>1, <1>2, <1>3 DEF ControlInv, ControlType
<1>5. \A i2 \in Slots : Own(i2)' = Own(i2)
  BY <1>3 DEF Own
<1>6. \A j \in Slots : j < nslots => j < nslots'
  BY <1>2 DEF ControlInv, ControlType, Slots
<1>7. Matched'
  BY <1>3, <1>6 DEF ControlInv, Matched, Wired, Own
<1>8. ASSUME NEW x \in DOMAIN inactive' PROVE inactive'[x] < nslots' /\ ~active'[inactive'[x]]
  <2>1. x \in DOMAIN inactive /\ inactive'[x] = inactive[x]
    BY <1>2
  <2>2. inactive[x] \in Slots
    BY <2>1 DEF ControlInv, ControlType
  <2>3. QED BY <1>3, <1>6, <2>1, <2>2 DEF ControlInv, Idle
<1>9. Idle'
  <2>1. ASSUME NEW j \in Slots, j < nslots', ~active'[j]
        PROVE  Listed(j)' <=> j \notin lost'
    <3>1. CASE j = i
      BY <1>1, <1>2, <3>1 DEF Listed
    <3>2. CASE j # i
      BY <1>1, <1>3, <2>1, <3>2, OthersListed
    <3>3. QED BY <3>1, <3>2
  <2>2. ASSUME NEW j \in lost' PROVE j < nslots' /\ ~active'[j]
    BY <1>1, <1>2, <1>3, <1>6, <2>2 DEF ControlInv, ControlType, Idle
  <2>3. QED BY <1>2, <1>3, <1>5, <1>8, <2>1, <2>2 DEF ControlInv, Idle
<1>10. DescriptorsOwned'
  BY <1>3, <1>5 DEF ControlInv, DescriptorsOwned
<1>11. QED BY <1>4, <1>7, <1>9, <1>10 DEF ControlInv

-----------------------------------------------------------------------------
(***************************************************************************)
(* Numbers, sets and their enumerations.                                   *)
(***************************************************************************)
\* A set of numbers has a least element, and it is what Min chooses.
LEMMA LeastNatural ==
    ASSUME NEW T, T \subseteq Nat, T # {}
    PROVE  Min(T) \in T /\ \A y \in T : Min(T) <= y
<1> DEFINE Below == {0 .. n : n \in T}
<1>1. Below \subseteq FiniteSubsetsOf(Nat) /\ Below # {}
  <2>1. \A n \in T : 0 .. n \subseteq Nat /\ IsFiniteSet(0 .. n)
    BY FS_Interval
  <2>2. QED BY <2>1 DEF FiniteSubsetsOf
<1>2. PICK X \in Below : \A Y \in Below : <<Y, X>> \notin StrictSubsetOrdering(Nat)
  <2> HIDE DEF Below
  <2>1. QED BY <1>1, FS_StrictSubsetOrderingWellFounded, WFMin
<1>3. PICK x \in T : X = 0 .. x
  OBVIOUS
<1>4. ASSUME NEW y \in T PROVE x <= y
  <2> SUFFICES ASSUME y < x PROVE FALSE
    OBVIOUS
  <2>1. 0 .. y \subseteq 0 .. x /\ x \in 0 .. x /\ x \notin 0 .. y
    OBVIOUS
  <2>2. 0 .. y \in SUBSET Nat /\ 0 .. x \in SUBSET Nat
    OBVIOUS
  <2>3. <<0 .. y, 0 .. x>> \in StrictSubsetOrdering(Nat)
    <3>1. 0 .. y # 0 .. x
      BY <2>1
    <3> DEFINE A == 0 .. y  B == 0 .. x
    <3>2. A \subseteq B /\ A # B /\ A \in SUBSET Nat /\ B \in SUBSET Nat
      BY <2>1, <2>2, <3>1
    <3> HIDE DEF A, B
    <3>3. <<A, B>> \in StrictSubsetOrdering(Nat)
      BY <3>2 DEF StrictSubsetOrdering
    <3>4. QED BY <3>3 DEF A, B
  <2>4. QED BY <1>2, <1>3, <2>3
<1>5. QED BY <1>4 DEF Min

\* Rows of m before row b.
LEMMA Rows ==
    ASSUME NEW a \in Nat, NEW b \in Nat, NEW m \in Nat, a < b
    PROVE  a * m \in Nat /\ a * m + m <= b * m
<1>1. PICK d \in Nat : b = a + 1 + d
  BY b - a - 1 \in Nat
<1>2. b * m = a * m + m + d * m /\ d * m \in Nat /\ a * m \in Nat
  BY <1>1
<1>3. QED BY <1>2

\* Numbers below k * m, written in rows of m.
LEMMA Quotient ==
    ASSUME NEW m \in Nat \ {0}, NEW k \in Nat, NEW q \in 0 .. k * m - 1
    PROVE  \E x \in 1 .. k, y \in 1 .. m : q = (x - 1) * m + y - 1
<1>1. /\ q \div m \in Nat /\ q % m \in 0 .. m - 1
      /\ q = (q \div m) * m + (q % m)
  OBVIOUS
<1>2. q \div m < k
  BY <1>1, Rows
<1>3. /\ (q \div m) + 1 \in 1 .. k /\ (q % m) + 1 \in 1 .. m
      /\ q = (((q \div m) + 1) - 1) * m + ((q % m) + 1) - 1
  BY <1>1, <1>2
<1>4. QED BY <1>3

\* SetToSeq lists a finite set, each element once.
LEMMA SetToSeqExact ==
    ASSUME NEW S, IsFiniteSet(S)
    PROVE  /\ SetToSeq(S) \in Seq(S) /\ Len(SetToSeq(S)) = Cardinality(S)
           /\ IsInjective(SetToSeq(S)) /\ ToSet(SetToSeq(S)) = S
<1>1. Cardinality(S) \in Nat /\ ExistsBijection(1 .. Cardinality(S), S)
  BY FS_CardinalityType
<1>2. \E f \in [1 .. Cardinality(S) -> S] : IsInjective(f)
  BY <1>1 DEF ExistsBijection, Bijection, Injection
<1>3. SetToSeq(S) \in [1 .. Cardinality(S) -> S] /\ IsInjective(SetToSeq(S))
  BY <1>2 DEF SetToSeq
<1>4. SetToSeq(S) \in Seq(S) /\ Len(SetToSeq(S)) = Cardinality(S)
  BY <1>1, <1>3
<1>5. /\ Cardinality(1 .. Cardinality(S)) = Cardinality(S)
      /\ SetToSeq(S) \in Injection(1 .. Cardinality(S), S)
  BY <1>1, <1>3, FS_Interval DEF Injection
<1>6. SetToSeq(S) \in Surjection(1 .. Cardinality(S), S)
  BY <1>5, FS_Injection
<1>7. ToSet(SetToSeq(S)) = S
  BY <1>3, <1>6 DEF ToSet, Surjection
<1>8. QED BY <1>3, <1>4, <1>7

\* The smaller and the larger of two.
LEMMA MinOfTwo ==
    ASSUME NEW a \in Int, NEW b \in Int
    PROVE  Min({a, b}) = IF a <= b THEN a ELSE b
  BY DEF Min

LEMMA MaxOfTwo ==
    ASSUME NEW a \in Int, NEW b \in Int
    PROVE  Max({a, b}) = IF a >= b THEN a ELSE b
  BY DEF Max

-----------------------------------------------------------------------------
(***************************************************************************)
(* The buffers of the messages that are read.                              *)
(***************************************************************************)
Packets == [sw : SwIfs, tap : Names, bufs : Seq(Bufs), data : Seq(Bufs)]

BufferType ==
    /\ wait \in [Names -> Nat]
    /\ rx_ready \in [Slots -> 1 .. MAX_RECV]
    /\ mtu_buffers \in [Slots -> Mtus]
    /\ pending \subseteq Slots /\ irq \in BOOLEAN
    /\ todo = None \/ todo \subseteq Slots
    /\ rx_buffers \in Seq(Bufs) /\ pool \subseteq Bufs
    /\ frame \in Seq(Packets)

\* A function on 1 .. n is a sequence.
LEMMA SequenceOf ==
    ASSUME NEW n \in Nat, NEW S, NEW f \in [1 .. n -> S]
    PROVE  f \in Seq(S) /\ Len(f) = n /\ DOMAIN f = 1 .. n
  OBVIOUS

\* Sequences over a set, one after the other.
LEMMA Concatenated ==
    ASSUME NEW S, NEW s \in Seq(S), NEW t \in Seq(S)
    PROVE  s \o t \in Seq(S) /\ Len(s \o t) = Len(s) + Len(t)
  OBVIOUS

\* What is allocated comes from the pool and is added to what was kept.
LEMMA AllocatedExact ==
    ASSUME rx_buffers \in Seq(Bufs), pool \subseteq Bufs, IsInjective(rx_buffers),
           pool \cap ToSet(rx_buffers) = {}, NEW b \in Nat
    PROVE  /\ Allocated(b) \in Seq(Bufs) /\ IsInjective(Allocated(b))
           /\ ToSet(rx_buffers) \subseteq ToSet(Allocated(b))
           /\ ToSet(Allocated(b)) \subseteq ToSet(rx_buffers) \cup pool
<1>1. CASE Len(rx_buffers) >= b
  BY <1>1 DEF Allocated
<1>2. CASE ~(Len(rx_buffers) >= b)
  <2> DEFINE q == SetToSeq(pool)
             n == Min({b + Extra - Len(rx_buffers), Cardinality(pool)})
             w == SubSeq(q, 1, n)
  <2>1. IsFiniteSet(pool) /\ Cardinality(pool) \in Nat
    BY FS_Subset, FS_CardinalityType, TurbotapConstants
  <2>2. q \in Seq(pool) /\ Len(q) = Cardinality(pool) /\ IsInjective(q)
    BY <2>1, SetToSeqExact
  <2>3. n \in 0 .. Cardinality(pool)
    <3>1. Len(rx_buffers) \in Nat /\ b + Extra - Len(rx_buffers) \in Nat
      BY <1>2, TurbotapConstants
    <3>2. QED BY <2>1, <3>1, MinOfTwo
  <2> HIDE DEF q, n
  <2>4. /\ w \in Seq(pool) /\ Len(w) = n /\ DOMAIN w = 1 .. n
        /\ \A j \in 1 .. n : w[j] = q[j] /\ j \in DOMAIN q
    BY <2>1, <2>2, <2>3
  <2>5. Allocated(b) = rx_buffers \o w
    BY <1>2 DEF Allocated, q, n
  <2> HIDE DEF w
  <2>6. \A x, y \in DOMAIN w : w[x] = w[y] => x = y
    BY <2>2, <2>4 DEF IsInjective
  <2>7. \A x \in DOMAIN w : w[x] \in pool /\ w[x] \in Bufs
    BY <2>4
  <2>8. w \in Seq(Bufs)
    BY <2>4, <2>7
  <2> DEFINE v == rx_buffers \o w
             l == Len(rx_buffers)
  <2>9. /\ v \in Seq(Bufs) /\ l \in Nat /\ DOMAIN v = 1 .. l + n
        /\ DOMAIN rx_buffers = 1 .. l
        /\ \A x \in 1 .. l : v[x] = rx_buffers[x]
        /\ \A x \in 1 .. l + n : x \notin 1 .. l => v[x] = w[x - l] /\ x - l \in DOMAIN w
    BY <2>3, <2>4, <2>8
  <2> HIDE DEF v, l
  <2>10. ASSUME NEW x \in DOMAIN v, NEW y \in DOMAIN v, v[x] = v[y] PROVE x = y
    <3>1. CASE x \in 1 .. l /\ y \in 1 .. l
      BY <2>9, <2>10, <3>1 DEF IsInjective
    <3>2. CASE x \in 1 .. l /\ y \notin 1 .. l
      BY <2>7, <2>9, <2>10, <3>2 DEF ToSet
    <3>3. CASE x \notin 1 .. l /\ y \in 1 .. l
      BY <2>7, <2>9, <2>10, <3>3 DEF ToSet
    <3>4. CASE x \notin 1 .. l /\ y \notin 1 .. l
      <4>1. x - l = y - l
        BY <2>6, <2>9, <2>10, <3>4
      <4>2. QED BY <2>3, <2>9, <4>1
    <3>5. QED BY <3>1, <3>2, <3>3, <3>4
  <2>11. ToSet(rx_buffers) \subseteq ToSet(v)
    <3>1. 1 .. l \subseteq 1 .. l + n
      BY <2>3, <2>9
    <3>2. QED BY <2>9, <3>1 DEF ToSet
  <2>12. ToSet(v) \subseteq ToSet(rx_buffers) \cup pool
    BY <2>7, <2>9 DEF ToSet
  <2>13. v \in Seq(Bufs) /\ IsInjective(v)
    BY <2>9, <2>10 DEF IsInjective
  <2>14. Allocated(b) = v
    BY <2>5 DEF v
  <2>15. QED BY <2>11, <2>12, <2>13, <2>14
<1>3. QED BY <1>1, <1>2

\* Messages are prepared only where the vector has buffers for them.
LEMMA PreparedFit ==
    ASSUME NEW r \in Nat, NEW m \in Nat \ {0}, NEW l \in Nat, NEW k \in Nat,
           k <= Prepared(r, m, l)
    PROVE  k * m <= l
<1> SUFFICES ASSUME l < k * m PROVE FALSE
  <2>1. k * m \in Nat
    OBVIOUS
  <2>2. QED BY <2>1
<1> DEFINE S == {j \in 0 .. r - 1 : l - j * m > m}
<1>1. k # 0
  OBVIOUS
<1>2. ASSUME NEW j \in S PROVE j \in 0 .. k - 2
  <2>1. j \in Nat /\ j * m \in Nat /\ l - j * m > m
    OBVIOUS
  <2>2. j + 1 < k
    <3> SUFFICES ASSUME k <= j + 1 PROVE FALSE
      BY <2>1
    <3>1. k * m <= (j + 1) * m
      <4>1. CASE k = j + 1
        BY <2>1, <4>1
      <4>2. CASE k < j + 1
        BY <2>1, <4>2, Rows
      <4>3. QED BY <2>1, <4>1, <4>2
    <3>2. (j + 1) * m = j * m + m
      BY <2>1
    <3>3. k * m \in Nat
      OBVIOUS
    <3>4. QED BY <2>1, <3>1, <3>2, <3>3
  <2>3. QED BY <2>1, <2>2
<1>3. S \in SUBSET (0 .. k - 2)
  BY <1>2
<1>4. IsFiniteSet(0 .. k - 2) /\ Cardinality(0 .. k - 2) = k - 1
  <2>1. k - 2 \in Int
    OBVIOUS
  <2>2. /\ IsFiniteSet(0 .. k - 2)
        /\ Cardinality(0 .. k - 2) = IF 0 > k - 2 THEN 0 ELSE k - 2 - 0 + 1
    BY <2>1, FS_Interval
  <2>3. QED BY <1>1, <2>2
<1> HIDE DEF S
<1>5. IsFiniteSet(S) /\ Cardinality(S) <= k - 1
  BY <1>3, <1>4, FS_Subset
<1>6. Cardinality(S) \in Nat
  BY <1>5, FS_CardinalityType
<1>7. Prepared(r, m, l) = Cardinality(S)
  BY DEF Prepared, S
<1>8. QED BY <1>5, <1>6, <1>7

\* Where the y-th buffer of the x-th message is in a vector of l.
Place(l, m, x, y) == l - (x - 1) * m - y + 1

\* Every place of the last k * m is that of one buffer of one message.
LEMMA Places ==
    ASSUME NEW l \in Nat, NEW m \in Nat \ {0}, NEW k \in Nat, k * m <= l
    PROVE  /\ \A x \in 1 .. k, y \in 1 .. m :
                 Place(l, m, x, y) \in 1 .. l /\ Place(l, m, x, y) > l - k * m
           /\ \A x, z \in 1 .. k, y, w \in 1 .. m :
                 Place(l, m, x, y) = Place(l, m, z, w) => x = z /\ y = w
           /\ \A p \in 1 .. l : p > l - k * m =>
                 \E x \in 1 .. k, y \in 1 .. m : p = Place(l, m, x, y)
<1>1. ASSUME NEW x \in 1 .. k, NEW y \in 1 .. m
      PROVE  Place(l, m, x, y) \in 1 .. l /\ Place(l, m, x, y) > l - k * m
  <2>1. (x - 1) * m \in Nat /\ (x - 1) * m + m <= k * m
    BY Rows
  <2>2. k * m \in Nat
    OBVIOUS
  <2>3. QED BY <2>1, <2>2 DEF Place
<1>2. ASSUME NEW x \in 1 .. k, NEW z \in 1 .. k, NEW y \in 1 .. m, NEW w \in 1 .. m,
             Place(l, m, x, y) = Place(l, m, z, w)
      PROVE  x = z /\ y = w
  <2>1. (x - 1) * m \in Nat /\ (z - 1) * m \in Nat
    BY Rows
  <2>2. (x - 1) * m + y = (z - 1) * m + w
    BY <1>2, <2>1 DEF Place
  <2>3. ~(x < z)
    <3> SUFFICES ASSUME x < z PROVE FALSE
      OBVIOUS
    <3>1. (x - 1) * m + m <= (z - 1) * m
      BY Rows
    <3>2. QED BY <2>1, <2>2, <3>1
  <2>4. ~(z < x)
    <3> SUFFICES ASSUME z < x PROVE FALSE
      OBVIOUS
    <3>1. (z - 1) * m + m <= (x - 1) * m
      BY Rows
    <3>2. QED BY <2>1, <2>2, <3>1
  <2>5. x = z
    BY <2>3, <2>4
  <2>6. QED BY <2>1, <2>2, <2>5
<1>3. ASSUME NEW p \in 1 .. l, p > l - k * m
      PROVE  \E x \in 1 .. k, y \in 1 .. m : p = Place(l, m, x, y)
  <2>1. k * m \in Nat
    OBVIOUS
  <2>2. l - p \in 0 .. k * m - 1
    BY <1>3, <2>1
  <2>3. PICK x \in 1 .. k, y \in 1 .. m : l - p = (x - 1) * m + y - 1
    BY <2>2, Quotient
  <2>4. (x - 1) * m \in Nat
    BY Rows
  <2>5. p = Place(l, m, x, y)
    BY <2>3, <2>4 DEF Place
  <2>6. QED BY <2>5
<1>4. QED BY <1>1, <1>2, <1>3

\* What a message uses of the vector, and what is put back of it.
Used(v, m, u, x) == [y \in 1 .. u[x] |-> v[Place(Len(v), m, x, y)]]
Spare(m, k, u) == {p \in (1 .. k) \X (1 .. m) : p[2] > u[p[1]]}
Unused(m, k, u) == SetToSeq(Spare(m, k, u))
Kept(v, m, k, u) ==
    SubSeq(v, 1, Len(v) - k * m)
        \o [j \in DOMAIN Unused(m, k, u) |->
               v[Place(Len(v), m, Unused(m, k, u)[j][1], Unused(m, k, u)[j][2])]]

\* The vector is the buffers the messages used and those that are kept.
LEMMA KeptExact ==
    ASSUME NEW v \in Seq(Bufs), IsInjective(v), NEW m \in Nat \ {0}, NEW k \in Nat,
           k * m <= Len(v), NEW u \in [1 .. k -> 1 .. m]
    PROVE  /\ Kept(v, m, k, u) \in Seq(Bufs) /\ IsInjective(Kept(v, m, k, u))
           /\ \A x \in 1 .. k :
                /\ Used(v, m, u, x) \in Seq(Bufs) /\ IsInjective(Used(v, m, u, x))
                /\ ToSet(Used(v, m, u, x)) \cap ToSet(Kept(v, m, k, u)) = {}
                /\ \A z \in 1 .. k : ToSet(Used(v, m, u, x)) \cap ToSet(Used(v, m, u, z)) # {}
                                        => x = z
           /\ ToSet(v) = ToSet(Kept(v, m, k, u)) \cup UNION {ToSet(Used(v, m, u, x)) : x \in 1 .. k}
<1> DEFINE l == Len(v)
           P(x, y) == Place(l, m, x, y)
           D == Spare(m, k, u)
           q == Unused(m, k, u)
           c == Cardinality(D)
           h == l - k * m
           R == Kept(v, m, k, u)
           U(x) == Used(v, m, u, x)
<1>1. /\ l \in Nat /\ DOMAIN v = 1 .. l /\ k * m \in Nat /\ h \in 0 .. l
      /\ \A p \in 1 .. l : v[p] \in Bufs
      /\ \A p, w \in 1 .. l : v[p] = v[w] => p = w
  BY DEF IsInjective
<1> HIDE DEF l, h
<1>2. /\ \A x \in 1 .. k, y \in 1 .. m : P(x, y) \in 1 .. l /\ P(x, y) > h
      /\ \A x, z \in 1 .. k, y, w \in 1 .. m : P(x, y) = P(z, w) => x = z /\ y = w
      /\ \A p \in 1 .. l : p > h => \E x \in 1 .. k, y \in 1 .. m : p = P(x, y)
  <2>1. k * m <= l
    BY DEF l
  <2>2. QED BY <1>1, <2>1, Places DEF h
<1>3. ASSUME NEW x \in 1 .. k, NEW z \in 1 .. k, NEW y \in 1 .. m, NEW w \in 1 .. m,
              P(x, y) = P(z, w)
       PROVE  x = z /\ y = w
  BY <1>2, <1>3
<1>4. \A x \in 1 .. k : u[x] \in 1 .. m /\ 1 .. u[x] \subseteq 1 .. m /\ u[x] \in Nat
  OBVIOUS
<1>5. /\ q \in Seq(D) /\ Len(q) = c /\ IsInjective(q) /\ ToSet(q) = D /\ c \in Nat
  <2>1. IsFiniteSet(1 .. k) /\ IsFiniteSet(1 .. m)
    BY FS_Interval
  <2>2. IsFiniteSet((1 .. k) \X (1 .. m))
    BY <2>1, FS_Product
  <2>3. IsFiniteSet(D)
    <3>1. D \in SUBSET ((1 .. k) \X (1 .. m))
      BY DEF Spare
    <3>2. QED BY <2>2, <3>1, FS_Subset
  <2>4. SetToSeq(D) = q
    BY DEF Unused
  <2>5. QED BY <2>3, <2>4, SetToSeqExact, FS_CardinalityType
<1>6. \A j \in 1 .. c : q[j] \in D /\ q[j][1] \in 1 .. k /\ q[j][2] \in 1 .. m /\ q[j][2] > u[q[j][1]]
                       /\ q[j] = <<q[j][1], q[j][2]>>
  <2>1. \A j \in 1 .. c : q[j] \in D
    BY <1>5
  <2>2. QED BY <2>1 DEF Spare
<1>7. DOMAIN q = 1 .. c
  BY <1>5
<1>8. /\ R \in Seq(Bufs) /\ DOMAIN R = 1 .. h + c
      /\ \A p \in 1 .. h : R[p] = v[p]
      /\ \A p \in 1 .. h + c : p \notin 1 .. h =>
            p - h \in 1 .. c /\ R[p] = v[P(q[p - h][1], q[p - h][2])]
  <2> DEFINE B == [j \in 1 .. c |-> v[P(q[j][1], q[j][2])]]
             A == SubSeq(v, 1, h)
  <2>1. \A j \in 1 .. c : v[P(q[j][1], q[j][2])] \in Bufs
    BY <1>1, <1>2, <1>6
  <2>2. B \in Seq(Bufs) /\ Len(B) = c
    <3>1. B \in [1 .. c -> Bufs]
      BY <2>1
    <3> HIDE DEF B
    <3>2. c \in Nat
      BY <1>5
    <3>3. QED BY <3>1, <3>2, SequenceOf
  <2>3. A \in Seq(Bufs) /\ Len(A) = h /\ \A p \in 1 .. h : A[p] = v[p]
    BY <1>1 DEF l
  <2>4. R = A \o B
    BY <1>7 DEF Kept, h, l
  <2>5. \A j \in 1 .. c : B[j] = v[P(q[j][1], q[j][2])]
    OBVIOUS
  <2> HIDE DEF A, B
  <2>6. h \in Nat /\ c \in Nat
    BY <1>1, <1>5
  <2>7. QED BY <2>2, <2>3, <2>4, <2>5, <2>6
<1>9. /\ \A x \in 1 .. k : U(x) \in Seq(Bufs) /\ DOMAIN U(x) = 1 .. u[x]
      /\ \A x \in 1 .. k : \A y \in 1 .. u[x] : y \in 1 .. m /\ U(x)[y] = v[P(x, y)]
  <2> SUFFICES ASSUME NEW x \in 1 .. k
      PROVE  /\ U(x) \in Seq(Bufs) /\ DOMAIN U(x) = 1 .. u[x]
             /\ \A y \in 1 .. u[x] : y \in 1 .. m /\ U(x)[y] = v[P(x, y)]
    OBVIOUS
  <2>1. \A y \in 1 .. u[x] : y \in 1 .. m /\ v[P(x, y)] \in Bufs
    BY <1>1, <1>2, <1>4
  <2>2. U(x) = [y \in 1 .. u[x] |-> v[P(x, y)]]
    BY DEF Used, l
  <2>3. U(x) \in [1 .. u[x] -> Bufs]
    BY <2>1, <2>2
  <2>4. U(x) \in Seq(Bufs)
    BY <1>4, <2>3, SequenceOf
  <2>5. QED BY <2>1, <2>2, <2>4
<1>10. IsInjective(R)
  <2> SUFFICES ASSUME NEW a \in 1 .. h + c, NEW b \in 1 .. h + c, R[a] = R[b] PROVE a = b
    BY <1>8 DEF IsInjective
  <2>1. h \in Nat /\ c \in Nat /\ 1 .. h \subseteq 1 .. l
    BY <1>1, <1>5
  <2>2. ASSUME NEW p \in 1 .. h + c, p \notin 1 .. h
        PROVE  /\ p - h \in 1 .. c /\ R[p] = v[P(q[p - h][1], q[p - h][2])]
               /\ P(q[p - h][1], q[p - h][2]) \in 1 .. l /\ P(q[p - h][1], q[p - h][2]) > h
    BY <1>2, <1>6, <1>8, <2>2
  <2>3. CASE a \in 1 .. h /\ b \in 1 .. h
    BY <1>1, <1>8, <2>1, <2>3
  <2>4. CASE a \in 1 .. h /\ b \notin 1 .. h
    <3>1. a = P(q[b - h][1], q[b - h][2])
      BY <1>1, <1>8, <2>1, <2>2, <2>4
    <3>2. QED BY <2>1, <2>2, <2>4, <3>1
  <2>5. CASE a \notin 1 .. h /\ b \in 1 .. h
    <3>1. b = P(q[a - h][1], q[a - h][2])
      BY <1>1, <1>8, <2>1, <2>2, <2>5
    <3>2. QED BY <2>1, <2>2, <2>5, <3>1
  <2>6. CASE a \notin 1 .. h /\ b \notin 1 .. h
    <3>1. P(q[a - h][1], q[a - h][2]) = P(q[b - h][1], q[b - h][2])
      <4>1. PICK e \in 1 .. l : e = P(q[a - h][1], q[a - h][2]) /\ R[a] = v[e]
        BY <2>2, <2>6
      <4>2. PICK f \in 1 .. l : f = P(q[b - h][1], q[b - h][2]) /\ R[b] = v[f]
        BY <2>2, <2>6
      <4>3. e = f
        BY <1>1, <4>1, <4>2
      <4>4. QED BY <4>1, <4>2, <4>3
    <3>2. a - h \in 1 .. c /\ b - h \in 1 .. c
      BY <2>2, <2>6
    <3>3. PICK i \in 1 .. c, j \in 1 .. c : i = a - h /\ j = b - h
      BY <3>2
    <3>4. q[i][1] = q[j][1] /\ q[i][2] = q[j][2]
      <4>1. PICK x \in 1 .. k, y \in 1 .. m : x = q[i][1] /\ y = q[i][2]
        BY <1>6
      <4>2. PICK z \in 1 .. k, w \in 1 .. m : z = q[j][1] /\ w = q[j][2]
        BY <1>6
      <4>3. P(x, y) = P(z, w)
        BY <3>1, <3>3, <4>1, <4>2
      <4>4. x = z /\ y = w
        BY <1>3, <4>3
      <4>5. QED BY <4>1, <4>2, <4>4
    <3>5. q[i] = q[j]
      BY <1>6, <3>4
    <3>6. i = j
      BY <1>5, <1>7, <3>5 DEF IsInjective
    <3>7. QED BY <2>1, <3>3, <3>6
  <2>7. QED BY <2>3, <2>4, <2>5, <2>6
<1>11. ASSUME NEW x \in 1 .. k PROVE IsInjective(U(x))
  <2> SUFFICES ASSUME NEW a \in 1 .. u[x], NEW b \in 1 .. u[x], U(x)[a] = U(x)[b] PROVE a = b
    BY <1>9 DEF IsInjective
  <2>1. /\ a \in 1 .. m /\ b \in 1 .. m /\ P(x, a) \in 1 .. l /\ P(x, b) \in 1 .. l
        /\ v[P(x, a)] = v[P(x, b)]
    BY <1>2, <1>9
  <2>2. P(x, a) = P(x, b)
    BY <1>1, <2>1
  <2>3. QED BY <1>2, <2>1, <2>2
<1>12. ASSUME NEW x \in 1 .. k, NEW z \in 1 .. k, ToSet(U(x)) \cap ToSet(U(z)) # {}
       PROVE  x = z
  <2>1. PICK e : e \in ToSet(U(x)) /\ e \in ToSet(U(z))
    BY <1>12
  <2>2. PICK y \in 1 .. u[x] : e = U(x)[y]
    BY <1>9, <2>1 DEF ToSet
  <2>3. PICK w \in 1 .. u[z] : e = U(z)[w]
    BY <1>9, <2>1 DEF ToSet
  <2>4. y \in 1 .. m /\ w \in 1 .. m /\ v[P(x, y)] = v[P(z, w)]
    BY <1>9, <2>2, <2>3
  <2>5. P(x, y) = P(z, w)
    BY <1>1, <1>2, <2>4
  <2>6. QED BY <1>2, <2>4, <2>5
<1>13. ASSUME NEW x \in 1 .. k, NEW y \in 1 .. u[x], NEW p \in 1 .. h + c
       PROVE  U(x)[y] # R[p]
  <2>1. y \in 1 .. m /\ U(x)[y] = v[P(x, y)] /\ P(x, y) \in 1 .. l /\ P(x, y) > h
    BY <1>2, <1>9
  <2>2. CASE p \in 1 .. h
    <3>1. p \in 1 .. l /\ p # P(x, y) /\ R[p] = v[p]
      BY <1>1, <1>8, <2>1, <2>2
    <3>2. QED BY <1>1, <2>1, <3>1
  <2>3. CASE p \notin 1 .. h
    <3>1. PICK j \in 1 .. c : R[p] = v[P(q[j][1], q[j][2])]
      BY <1>8, <2>3
    <3>2. PICK z \in 1 .. k, w \in 1 .. m : z = q[j][1] /\ w = q[j][2] /\ w > u[z]
      BY <1>6
    <3>3. R[p] = v[P(z, w)] /\ P(z, w) \in 1 .. l
      BY <1>2, <3>1, <3>2
    <3>4. ~(x = z /\ y = w)
      BY <1>4, <3>2
    <3>5. P(x, y) # P(z, w)
      BY <1>3, <2>1, <3>4
    <3>6. QED BY <1>1, <2>1, <3>3, <3>5
  <2>4. QED BY <2>2, <2>3
<1>14. ASSUME NEW x \in 1 .. k PROVE ToSet(U(x)) \cap ToSet(R) = {}
  <2>1. ToSet(U(x)) = {U(x)[y] : y \in 1 .. u[x]} /\ ToSet(R) = {R[p] : p \in 1 .. h + c}
    BY <1>8, <1>9 DEF ToSet
  <2>2. QED BY <1>13, <2>1
<1>15. ASSUME NEW p \in 1 .. l
       PROVE  v[p] \in ToSet(R) \cup UNION {ToSet(U(x)) : x \in 1 .. k}
  <2>1. CASE p <= h
    <3>1. p \in 1 .. h /\ p \in 1 .. h + c
      BY <1>1, <1>5, <2>1
    <3>2. QED BY <1>8, <3>1 DEF ToSet
  <2>2. CASE p > h
    <3>1. PICK x \in 1 .. k, y \in 1 .. m : p = P(x, y)
      BY <1>2, <2>2
    <3>2. CASE y <= u[x]
      <4>1. y \in 1 .. u[x]
        BY <1>4, <3>2
      <4>2. v[p] \in ToSet(U(x))
        BY <1>9, <3>1, <4>1 DEF ToSet
      <4>3. QED BY <4>2
    <3>3. CASE y > u[x]
      <4>1. <<x, y>> \in D
        BY <3>3 DEF Spare
      <4>2. PICK j \in 1 .. c : q[j] = <<x, y>>
        BY <1>5, <1>7, <4>1 DEF ToSet
      <4>3. h + j \in 1 .. h + c /\ h + j \notin 1 .. h /\ (h + j) - h = j
        BY <1>1, <1>5
      <4>4. R[h + j] = v[P(x, y)]
        BY <1>8, <4>2, <4>3
      <4>5. QED BY <1>8, <3>1, <4>3, <4>4 DEF ToSet
    <3>4. QED BY <1>4, <3>2, <3>3
  <2>3. QED BY <1>1, <2>1, <2>2
<1>16. \A p \in 1 .. l : v[p] \in ToSet(v)
  BY <1>1 DEF ToSet
<1>17. ToSet(R) \subseteq ToSet(v)
  <2> SUFFICES ASSUME NEW p \in 1 .. h + c PROVE R[p] \in ToSet(v)
    BY <1>8 DEF ToSet
  <2>1. CASE p \in 1 .. h
    <3>1. p \in 1 .. l /\ R[p] = v[p]
      BY <1>1, <1>8, <2>1
    <3>2. QED BY <1>16, <3>1
  <2>2. CASE p \notin 1 .. h
    <3>1. PICK j \in 1 .. c : R[p] = v[P(q[j][1], q[j][2])]
      BY <1>8, <2>2
    <3>2. P(q[j][1], q[j][2]) \in 1 .. l
      BY <1>2, <1>6
    <3>3. QED BY <1>16, <3>1, <3>2
  <2>3. QED BY <2>1, <2>2
<1>18. ASSUME NEW x \in 1 .. k PROVE ToSet(U(x)) \subseteq ToSet(v)
  <2>1. ASSUME NEW y \in 1 .. u[x] PROVE U(x)[y] \in ToSet(v)
    <3>1. y \in 1 .. m /\ U(x)[y] = v[P(x, y)] /\ P(x, y) \in 1 .. l
      BY <1>2, <1>9
    <3>2. QED BY <1>16, <3>1
  <2>2. ToSet(U(x)) = {U(x)[y] : y \in 1 .. u[x]}
    BY <1>9 DEF ToSet
  <2>3. QED BY <2>1, <2>2
<1>19. ToSet(v) = ToSet(R) \cup UNION {ToSet(U(x)) : x \in 1 .. k}
  <2>1. ToSet(v) = {v[p] : p \in 1 .. l}
    BY <1>1 DEF ToSet
  <2>2. QED BY <1>15, <1>17, <1>18, <2>1
<1>20. QED BY <1>8, <1>9, <1>10, <1>11, <1>12, <1>14, <1>19

\* What was read is the frame's, the rest of the vector stays.
LEMMA ExactAfter ==
    ASSUME BuffersExact, frame \in Seq(Packets), rx_buffers \in Seq(Bufs), pool \subseteq Bufs,
           NEW v, ToSet(rx_buffers) \subseteq ToSet(v), ToSet(v) \subseteq ToSet(rx_buffers) \cup pool,
           pool' = pool \ ToSet(v), IsInjective(rx_buffers'),
           NEW k \in Nat, NEW g \in [1 .. k -> Packets], frame' = frame \o g,
           ToSet(v) = ToSet(rx_buffers)' \cup UNION {ToSet(g[x].bufs) : x \in 1 .. k},
           \A x \in 1 .. k :
             /\ g[x].bufs = g[x].data /\ IsInjective(g[x].bufs)
             /\ ToSet(g[x].bufs) \cap ToSet(rx_buffers)' = {}
             /\ \A z \in 1 .. k : ToSet(g[x].bufs) \cap ToSet(g[z].bufs) # {} => x = z
    PROVE  frame' \in Seq(Packets) /\ BuffersExact'
<1> DEFINE kept == ToSet(rx_buffers)
           l == Len(frame)
           W(x) == ToSet(frame[x].bufs)
           G(x) == ToSet(g[x].bufs)
<1>1. /\ pool \cap kept = {} /\ l \in Nat /\ DOMAIN frame = 1 .. l
      /\ \A x \in 1 .. l :
            /\ frame[x].bufs = frame[x].data /\ IsInjective(frame[x].bufs)
            /\ W(x) \cap (pool \cup kept) = {}
            /\ \A y \in 1 .. l : W(x) \cap W(y) # {} => x = y
      /\ pool \cup kept \cup UNION {W(x) : x \in 1 .. l} = Bufs
  <2>1. l \in Nat /\ DOMAIN frame = 1 .. l
    OBVIOUS
  <2> HIDE DEF l
  <2>2. QED BY <2>1 DEF BuffersExact
<1>2. /\ frame' \in Seq(Packets) /\ DOMAIN frame' = 1 .. l + k
      /\ \A x \in 1 .. l : frame'[x] = frame[x]
      /\ \A x \in 1 .. l + k : x \notin 1 .. l => x - l \in 1 .. k /\ frame'[x] = g[x - l]
      /\ \A x \in 1 .. k : l + x \in 1 .. l + k /\ frame'[l + x] = g[x]
  <2>1. g \in Seq(Packets) /\ Len(g) = k /\ DOMAIN g = 1 .. k
    BY SequenceOf
  <2>2. frame' \in Seq(Packets) /\ Len(frame') = l + k
    <3>1. frame \o g \in Seq(Packets) /\ Len(frame \o g) = Len(frame) + Len(g)
      <4>1. frame \in Seq(Packets) /\ g \in Seq(Packets)
        BY <2>1
      <4>2. QED BY ONLY <4>1, Concatenated
    <3>2. QED BY <2>1, <3>1
  <2>3. \A x \in 1 .. l + k : frame'[x] = IF x \in 1 .. l THEN frame[x] ELSE g[x - l]
    BY <2>1
  <2> HIDE DEF l
  <2>4. l \in Nat
    BY <1>1
  <2>5. QED BY <2>2, <2>3, <2>4
<1> HIDE DEF l
<1>3. ASSUME NEW x \in 1 .. k PROVE G(x) \subseteq ToSet(v)
  OBVIOUS
<1>4. \A e : e \in Bufs <=> \/ e \in pool \/ e \in kept
                            \/ \E x \in 1 .. l : e \in W(x)
  BY <1>1
<1>5. \A e : e \in ToSet(v) <=> \/ e \in kept' \/ \E x \in 1 .. k : e \in G(x)
  OBVIOUS
<1> HIDE DEF kept, W, G
<1>6. ASSUME NEW x \in 1 .. l PROVE W(x) \cap ToSet(v) = {}
  BY <1>1 DEF kept
<1>7. pool' \cap kept' = {} /\ pool' \cap ToSet(v) = {}
  BY <1>5
<1>8. ASSUME NEW x \in 1 .. l + k
      PROVE  /\ frame'[x].bufs = frame'[x].data /\ IsInjective(frame'[x].bufs)
             /\ ToSet(frame'[x].bufs) \cap (pool' \cup kept') = {}
  <2>1. CASE x \in 1 .. l
    <3>1. W(x) \cap pool = {} /\ W(x) \cap ToSet(v) = {} /\ kept' \subseteq ToSet(v)
      BY <1>1, <1>6, <1>5, <2>1
    <3>2. frame'[x] = frame[x]
      BY <1>2, <2>1
    <3>3. QED BY <1>1, <2>1, <3>1, <3>2 DEF W
  <2>2. CASE x \notin 1 .. l
    <3>1. PICK z \in 1 .. k : frame'[x] = g[z]
      BY <1>2, <2>2
    <3>2. G(z) \cap pool' = {} /\ G(z) \cap kept' = {}
      BY <1>3, <1>7 DEF G, kept
    <3>3. QED BY <3>1, <3>2 DEF G
  <2>3. QED BY <2>1, <2>2
<1>9. ASSUME NEW x \in 1 .. l + k, NEW y \in 1 .. l + k,
             ToSet(frame'[x].bufs) \cap ToSet(frame'[y].bufs) # {}
      PROVE  x = y
  <2>1. CASE x \in 1 .. l /\ y \in 1 .. l
    BY <1>1, <1>2, <1>9, <2>1 DEF W
  <2>2. CASE x \in 1 .. l /\ y \notin 1 .. l
    <3>1. PICK z \in 1 .. k : frame'[y] = g[z]
      BY <1>2, <2>2
    <3>2. QED BY <1>2, <1>3, <1>6, <1>9, <2>2, <3>1 DEF W, G
  <2>3. CASE x \notin 1 .. l /\ y \in 1 .. l
    <3>1. PICK z \in 1 .. k : frame'[x] = g[z]
      BY <1>2, <2>3
    <3>2. QED BY <1>2, <1>3, <1>6, <1>9, <2>3, <3>1 DEF W, G
  <2>4. CASE x \notin 1 .. l /\ y \notin 1 .. l
    <3>1. PICK z \in 1 .. k, w \in 1 .. k :
            z = x - l /\ w = y - l /\ frame'[x] = g[z] /\ frame'[y] = g[w]
      <4>1. x - l \in 1 .. k /\ frame'[x] = g[x - l]
        BY <1>2, <2>4
      <4>2. y - l \in 1 .. k /\ frame'[y] = g[y - l]
        BY <1>2, <2>4
      <4>3. QED BY <4>1, <4>2
    <3>2. z = w
      BY <1>9, <3>1
    <3>3. QED BY <1>1, <3>1, <3>2
  <2>5. QED BY <2>1, <2>2, <2>3, <2>4
<1>10. ASSUME NEW e
      PROVE  e \in Bufs <=> \/ e \in pool' \/ e \in kept'
                           \/ \E x \in 1 .. l + k : e \in ToSet(frame'[x].bufs)
  <2>1. (\E x \in 1 .. l + k : e \in ToSet(frame'[x].bufs))
          <=> \/ \E x \in 1 .. l : e \in W(x)
              \/ \E x \in 1 .. k : e \in G(x)
    <3>1. ASSUME NEW x \in 1 .. l + k, e \in ToSet(frame'[x].bufs)
          PROVE  (\E z \in 1 .. l : e \in W(z)) \/ (\E z \in 1 .. k : e \in G(z))
      BY <1>2, <3>1 DEF W, G
    <3>2. ASSUME NEW x \in 1 .. l, e \in W(x)
          PROVE  \E z \in 1 .. l + k : e \in ToSet(frame'[z].bufs)
      <4>1. x \in 1 .. l + k /\ frame'[x] = frame[x]
        BY <1>1, <1>2
      <4>2. QED BY <3>2, <4>1 DEF W
    <3>3. ASSUME NEW x \in 1 .. k, e \in G(x)
          PROVE  \E z \in 1 .. l + k : e \in ToSet(frame'[z].bufs)
      BY <1>2, <3>3 DEF G
    <3>4. QED BY <3>1, <3>2, <3>3
  <2>2. e \in Bufs <=> \/ e \in pool' \/ e \in ToSet(v) \/ \E x \in 1 .. l : e \in W(x)
    <3>1. e \in ToSet(v) => e \in pool \/ e \in kept
      BY DEF kept
    <3>2. e \in kept => e \in ToSet(v)
      BY DEF kept
    <3>3. e \in pool' <=> e \in pool /\ e \notin ToSet(v)
      OBVIOUS
    <3>4. QED BY <1>4, <3>1, <3>2, <3>3
  <2>3. QED BY <1>5, <2>1, <2>2
<1>11. BuffersExact'
  <2>1. pool' \cup kept' \cup UNION {ToSet(frame'[x].bufs) : x \in 1 .. l + k} = Bufs
    <3> DEFINE F(x) == ToSet(frame'[x].bufs)
               K == kept'
    <3>1. \A e : e \in Bufs <=> e \in pool' \/ e \in K \/ \E x \in 1 .. l + k : e \in F(x)
      BY <1>10
    <3> HIDE DEF F, K
    <3>2. pool' \cup K \cup UNION {F(x) : x \in 1 .. l + k} = Bufs
      BY <3>1
    <3>3. QED BY <3>2 DEF F, K
  <2>2. DOMAIN frame' = 1 .. l + k /\ IsInjective(rx_buffers') /\ pool' \cap kept' = {}
    BY <1>2, <1>7
  <2>3. \A x \in 1 .. l + k :
          /\ frame'[x].bufs = frame'[x].data /\ IsInjective(frame'[x].bufs)
          /\ ToSet(frame'[x].bufs) \cap (pool' \cup kept') = {}
          /\ \A y \in 1 .. l + k : ToSet(frame'[x].bufs) \cap ToSet(frame'[y].bufs) # {} => x = y
    BY <1>8, <1>9
  <2> DEFINE N == frame'
             V == rx_buffers'
             O == pool'
  <2>4. /\ IsInjective(V) /\ O \cap ToSet(V) = {}
        /\ \A x \in DOMAIN N :
              /\ N[x].bufs = N[x].data /\ IsInjective(N[x].bufs)
              /\ ToSet(N[x].bufs) \cap (O \cup ToSet(V)) = {}
              /\ \A y \in DOMAIN N : ToSet(N[x].bufs) \cap ToSet(N[y].bufs) # {} => x = y
        /\ O \cup ToSet(V) \cup UNION {ToSet(N[x].bufs) : x \in DOMAIN N} = Bufs
    BY Zenon, <2>1, <2>2, <2>3 DEF kept
  <2>5. QED BY Zenon, <2>4 DEF BuffersExact
<1>12. QED BY <1>2, <1>11

\* A tap is read for the interface that is connected to it.
LEMMA TapOfSlot ==
    ASSUME ControlInv, NEW i \in Slots, NEW t, sock_fd[i] # None, kfd[sock_fd[i]] = <<"sock", t>>
    PROVE  /\ sw_if_index[i] \in SwIfs /\ hw[sw_if_index[i]] # None
           /\ hw[sw_if_index[i]][1] = t
<1>1. active[i]
  BY DEF ControlInv, Idle, Own
<1>2. /\ sw_if_index[i] \in SwIfs /\ hw[sw_if_index[i]] \in Names \X {i}
      /\ Wired(sw_if_index[i], hw[sw_if_index[i]][1], i)
  BY <1>1, ActiveWired
<1>3. hw[sw_if_index[i]] # None
  BY <1>2, TurbotapConstants
<1>4. PICK n : n = hw[sw_if_index[i]][1]
  OBVIOUS
<1>5. <<"sock", t>> = <<"sock", n>>
  BY <1>2, <1>4 DEF Wired
<1>6. QED BY <1>2, <1>3, <1>4, <1>5

\* How many messages are asked for stays within what recvmmsg is given.
LEMMA AdaptedBounds ==
    ASSUME NEW r \in 1 .. MAX_RECV, NEW k \in Nat \ {0}
    PROVE  Adapted(r, k) \in 1 .. MAX_RECV
<1>1. MAX_RECV \in Nat \ {0}
  BY TurbotapConstants
<1>2. CASE r - k > 0
  <2>1. Adapted(r, k) = Max({r - k, k})
    BY <1>2 DEF Adapted
  <2>2. Max({r - k, k}) = IF r - k >= k THEN r - k ELSE k
    BY MaxOfTwo
  <2>3. QED BY <1>1, <1>2, <2>1, <2>2
<1>3. CASE ~(r - k > 0)
  <2>1. Adapted(r, k) = Min({r + k, MAX_RECV})
    BY <1>3 DEF Adapted
  <2>2. Min({r + k, MAX_RECV}) = IF r + k <= MAX_RECV THEN r + k ELSE MAX_RECV
    BY <1>1, MinOfTwo
  <2>3. QED BY <1>1, <2>1, <2>2
<1>4. QED BY <1>2, <1>3

\* One interface is read: its packets are its own, and no buffer is lost.
LEMMA RxExact ==
    ASSUME ControlInv, BufferType, BuffersExact, Rx
    PROVE  /\ BufferType' /\ BuffersExact'
           /\ \A x \in DOMAIN frame' \ DOMAIN frame : Attributed(frame'[x])
<1>1. Min(todo) \in todo /\ todo \subseteq Slots
  BY LeastNatural DEF Rx, BufferType, Slots
<1>2. PICK i \in Slots : i = Min(todo)
  BY <1>1
<1>3. turbotap_rx_iface(i) /\ pending' = pending \ {i} /\ todo' = todo \ {i}
  BY <1>2 DEF Rx
<1>4. mtu_buffers' = mtu_buffers /\ hw' = hw /\ irq' = irq
  BY DEF Rx
<1> DEFINE m == mtu_buffers[i]
           r == rx_ready[i]
           v == Allocated(r * m)
           asked == Prepared(r, m, Len(v))
           room == FrameSize - (Len(frame) % FrameSize)
           taps == {n \in Names : sock_fd[i] # None /\ kfd[sock_fd[i]] = <<"sock", n>>}
<1>5. m \in Nat \ {0} /\ r \in 1 .. MAX_RECV /\ r \in Nat /\ r * m \in Nat
  BY TurbotapConstants DEF BufferType
<1>6. rx_buffers \in Seq(Bufs) /\ pool \subseteq Bufs /\ frame \in Seq(Packets)
  BY DEF BufferType
<1>7. /\ v \in Seq(Bufs) /\ IsInjective(v)
      /\ ToSet(rx_buffers) \subseteq ToSet(v) /\ ToSet(v) \subseteq ToSet(rx_buffers) \cup pool
  <2>1. IsInjective(rx_buffers) /\ pool \cap ToSet(rx_buffers) = {}
    BY DEF BuffersExact
  <2>2. QED BY <1>5, <1>6, <2>1, AllocatedExact
<1>8. pool' = pool \ ToSet(v)
  BY <1>3 DEF turbotap_rx_iface
<1>9. \/ rx_buffers' = v /\ UNCHANGED <<wait, frame, rx_ready>>
      \/ \E t \in taps : \E n \in 1 .. Min({asked, wait[t]}) :
             /\ wait' = [wait EXCEPT ![t] = @ - n]
             /\ \E u \in [1 .. Min({n, room}) -> 1 .. m] : Received(i, v, t, Min({n, room}), u)
  BY <1>3 DEF turbotap_rx_iface
<1> HIDE DEF m, r, v, asked, room, taps
<1>10. CASE rx_buffers' = v /\ UNCHANGED <<wait, frame, rx_ready>>
  <2>1. frame' = frame \o <<>> /\ <<>> \in [1 .. 0 -> Packets]
    BY <1>6, <1>10
  <2>2. frame' \in Seq(Packets) /\ BuffersExact'
    <3> DEFINE g == <<>>
    <3>1. /\ g \in [1 .. 0 -> Packets] /\ frame' = frame \o g
          /\ ToSet(v) = ToSet(rx_buffers)' \cup UNION {ToSet(g[x].bufs) : x \in 1 .. 0}
          /\ IsInjective(rx_buffers')
      BY <1>7, <1>10, <2>1
    <3>2. 1 .. 0 = {}
      OBVIOUS
    <3> HIDE DEF g
    <3>3. QED BY <1>6, <1>7, <1>8, <3>1, <3>2, ExactAfter
  <2>3. BufferType'
    <3>1. rx_buffers' \in Seq(Bufs) /\ pool' \subseteq Bufs /\ todo' \subseteq Slots
      BY <1>1, <1>3, <1>6, <1>7, <1>8, <1>10
    <3>2. pending' \subseteq Slots /\ irq' \in BOOLEAN
      BY <1>3, <1>4 DEF BufferType
    <3>3. QED BY <1>4, <1>10, <2>2, <3>1, <3>2 DEF BufferType
  <2>4. QED BY <1>10, <2>2, <2>3
<1>11. ASSUME NEW t \in taps, NEW n \in 1 .. Min({asked, wait[t]}),
              wait' = [wait EXCEPT ![t] = @ - n],
              NEW u \in [1 .. Min({n, room}) -> 1 .. m], Received(i, v, t, Min({n, room}), u)
       PROVE  /\ BufferType' /\ BuffersExact'
              /\ \A x \in DOMAIN frame' \ DOMAIN frame : Attributed(frame'[x])
  <2>1. t \in Names /\ sock_fd[i] # None /\ kfd[sock_fd[i]] = <<"sock", t>>
    BY DEF taps
  <2>2. asked \in Nat
    <3> DEFINE S == {j \in 0 .. r - 1 : Len(v) - j * m > m}
    <3>1. r - 1 \in Int
      BY <1>5
    <3>2. IsFiniteSet(0 .. r - 1) /\ S \in SUBSET (0 .. r - 1)
      BY <3>1, FS_Interval
    <3> HIDE DEF S
    <3>3. Cardinality(S) \in Nat
      BY <3>2, FS_Subset, FS_CardinalityType
    <3>4. QED BY <3>3 DEF asked, Prepared, S
  <2>3. wait[t] \in Nat
    BY <2>1 DEF BufferType
  <2>4. n \in Nat \ {0} /\ n <= asked /\ n <= wait[t]
    BY <2>2, <2>3, MinOfTwo
  <2>5. room \in Nat \ {0}
    <3>1. Len(frame) \in Nat /\ FrameSize \in Nat \ {0}
      BY <1>6, TurbotapConstants
    <3>2. Len(frame) % FrameSize \in 0 .. FrameSize - 1
      BY <3>1
    <3>3. QED BY <3>1, <3>2 DEF room
  <2>6. PICK k : k = Min({n, room})
    OBVIOUS
  <2>7. k \in Nat \ {0} /\ k <= asked
    BY <2>2, <2>4, <2>5, <2>6, MinOfTwo
  <2>8. k * m <= Len(v)
    <3>1. Len(v) \in Nat
      BY <1>7
    <3>2. QED BY <1>5, <2>7, <3>1, PreparedFit DEF asked
  <2>9. u \in [1 .. k -> 1 .. m] /\ Received(i, v, t, k, u)
    BY <1>11, <2>6
  <2> DEFINE g == [x \in 1 .. k |-> [sw |-> sw_if_index[i], tap |-> t,
                                      bufs |-> Used(v, m, u, x), data |-> Used(v, m, u, x)]]
  <2>10. /\ frame' = frame \o g /\ rx_buffers' = Kept(v, m, k, u)
         /\ rx_ready' = [rx_ready EXCEPT ![i] = Adapted(r, k)]
    BY <2>9 DEF Received, Taken, Used, Kept, Unused, Spare, Place, m, r
  <2>11. /\ Kept(v, m, k, u) \in Seq(Bufs) /\ IsInjective(Kept(v, m, k, u))
         /\ \A x \in 1 .. k :
              /\ Used(v, m, u, x) \in Seq(Bufs) /\ IsInjective(Used(v, m, u, x))
              /\ ToSet(Used(v, m, u, x)) \cap ToSet(Kept(v, m, k, u)) = {}
              /\ \A z \in 1 .. k :
                    ToSet(Used(v, m, u, x)) \cap ToSet(Used(v, m, u, z)) # {} => x = z
         /\ ToSet(v) = ToSet(Kept(v, m, k, u)) \cup UNION {ToSet(Used(v, m, u, x)) : x \in 1 .. k}
    BY <1>5, <1>7, <2>7, <2>8, <2>9, KeptExact
  <2>12. sw_if_index[i] \in SwIfs /\ hw[sw_if_index[i]] # None /\ hw[sw_if_index[i]][1] = t
    BY <2>1, TapOfSlot
  <2>13. /\ g \in [1 .. k -> Packets]
         /\ \A x \in 1 .. k : /\ g[x].bufs = Used(v, m, u, x) /\ g[x].data = Used(v, m, u, x)
                               /\ g[x].sw = sw_if_index[i] /\ g[x].tap = t
    BY <2>1, <2>11, <2>12 DEF Packets
  <2> HIDE DEF g
  <2>14. frame' \in Seq(Packets) /\ BuffersExact'
    <3>1. ToSet(v) = ToSet(rx_buffers)' \cup UNION {ToSet(g[x].bufs) : x \in 1 .. k}
      <4> DEFINE F(x) == ToSet(g[x].bufs)
                 H(x) == ToSet(Used(v, m, u, x))
      <4>1. \A x \in 1 .. k : F(x) = H(x)
        BY <2>13
      <4>2. ToSet(v) = ToSet(rx_buffers)' \cup UNION {H(x) : x \in 1 .. k}
        BY <2>10, <2>11
      <4> HIDE DEF F, H
      <4>3. {F(x) : x \in 1 .. k} = {H(x) : x \in 1 .. k}
        BY <4>1
      <4>4. ToSet(v) = ToSet(rx_buffers)' \cup UNION {F(x) : x \in 1 .. k}
        BY <4>2, <4>3
      <4>5. QED BY <4>4 DEF F
    <3>2. \A x \in 1 .. k :
             /\ g[x].bufs = g[x].data /\ IsInjective(g[x].bufs)
             /\ ToSet(g[x].bufs) \cap ToSet(rx_buffers)' = {}
             /\ \A z \in 1 .. k : ToSet(g[x].bufs) \cap ToSet(g[z].bufs) # {} => x = z
      BY <2>10, <2>11, <2>13
    <3>3. IsInjective(rx_buffers')
      BY <2>10, <2>11
    <3>4. k \in Nat
      BY <2>7
    <3>5. QED BY <1>6, <1>7, <1>8, <2>10, <2>13, <3>1, <3>2, <3>3, <3>4, ExactAfter
  <2>15. BufferType'
    <3>1. Adapted(r, k) \in 1 .. MAX_RECV
      BY <1>5, <2>7, AdaptedBounds
    <3>2. rx_ready' \in [Slots -> 1 .. MAX_RECV]
      BY <2>10, <3>1 DEF BufferType
    <3>3. wait' \in [Names -> Nat]
      BY <1>11, <2>1, <2>3, <2>4 DEF BufferType
    <3>4. rx_buffers' \in Seq(Bufs)
      BY <2>10, <2>11
    <3>5. QED BY <1>1, <1>3, <1>4, <1>8, <2>14, <3>2, <3>3, <3>4 DEF BufferType
  <2>16. ASSUME NEW x \in DOMAIN frame' \ DOMAIN frame PROVE Attributed(frame'[x])
    <3>1. g \in Seq(Packets) /\ Len(g) = k /\ DOMAIN g = 1 .. k
      BY <2>7, <2>13, SequenceOf
    <3>2. PICK z \in 1 .. k : frame'[x] = g[z]
      <4>1. /\ Len(frame) \in Nat /\ DOMAIN frame = 1 .. Len(frame)
            /\ DOMAIN frame' = 1 .. Len(frame) + k
        <5>1. Len(frame \o g) = Len(frame) + Len(g) /\ frame \o g \in Seq(Packets)
          BY <1>6, <3>1, Concatenated
        <5>2. DOMAIN (frame \o g) = 1 .. Len(frame) + k
          BY <3>1, <5>1
        <5>3. QED BY <1>6, <2>10, <5>2
      <4>2. x \in 1 .. Len(frame) + k /\ x - Len(frame) \in 1 .. k
        BY <2>7, <2>16, <4>1
      <4>3. frame'[x] = g[x - Len(frame)]
        BY <1>6, <2>7, <2>10, <3>1, <4>1, <4>2
      <4>4. QED BY <4>2, <4>3
    <3>3. QED BY <2>12, <2>13, <3>2 DEF Attributed
  <2>17. QED BY <2>14, <2>15, <2>16
<1>12. QED BY <1>9, <1>10, <1>11

-----------------------------------------------------------------------------
(***************************************************************************)
(* The specification.                                                      *)
(***************************************************************************)
SlotsAndBuffers == ControlInv /\ BufferType /\ BuffersExact

\* The packet nodes and Linux do not touch slots or descriptors.
LEMMA ControlKept ==
    ASSUME ControlInv, UNCHANGED control
    PROVE  ControlInv'
<1>1. /\ kfd' = kfd /\ nslots' = nslots /\ active' = active /\ sw_if_index' = sw_if_index
      /\ inactive' = inactive /\ hw' = hw /\ bySw' = bySw /\ byFd' = byFd
      /\ unix_fd' = unix_fd /\ provision_fd' = provision_fd
      /\ turbotap_fd' = turbotap_fd /\ sock_fd' = sock_fd
      /\ leaked' = leaked /\ lost' = lost
  BY DEF control, fds, maps, history
<1>2. ControlType'
  BY <1>1 DEF ControlInv, ControlType
<1>3. \A i : Own(i)' = Own(i)
  BY <1>1 DEF Own
<1>4. \A s, n, i : Wired(s, n, i)' <=> Wired(s, n, i)
  BY <1>1, <1>3 DEF Wired
<1>5. Matched'
  BY <1>1, <1>4 DEF ControlInv, Matched
<1>6. Idle' /\ DescriptorsOwned'
  BY <1>1, <1>3 DEF ControlInv, Idle, Listed, DescriptorsOwned
<1>7. QED BY <1>2, <1>5, <1>6 DEF ControlInv

\* Steps that move no packet and no buffer.
LEMMA BuffersKept ==
    ASSUME BuffersExact, BufferType, UNCHANGED buffers
    PROVE  /\ BuffersExact'
           /\ rx_buffers' \in Seq(Bufs) /\ pool' \subseteq Bufs /\ frame' \in Seq(Packets)
  BY DEF buffers, BuffersExact, BufferType

\* The biggest MTU is one of them.
LEMMA MaxMtu == Max(Mtus) \in Mtus
  BY TurbotapConstants DEF Max

\* The steps of the CLI and the API.
LEMMA CliKeeps ==
    ASSUME SlotsAndBuffers,
           \/ \E n \in Names : vnet_turbotap_connect(n)
           \/ \E s \in SwIfs : vnet_turbotap_delete(s)
           \/ \E s \in SwIfs, m \in Mtus : turbotap_flag_change(s, m)
    PROVE  SlotsAndBuffers'
<1>1. UNCHANGED <<input, buffers>>
  BY DEF vnet_turbotap_connect, ConnectOk, ConnectNoTun, ConnectLate, vnet_turbotap_delete,
         turbotap_flag_change
<1>2. /\ BuffersExact'
      /\ rx_buffers' \in Seq(Bufs) /\ pool' \subseteq Bufs /\ frame' \in Seq(Packets)
  BY <1>1, BuffersKept DEF SlotsAndBuffers
<1>4. ControlInv'
  <2>1. ASSUME NEW n \in Names, vnet_turbotap_connect(n) PROVE ControlInv'
    BY <2>1, ConnectControl, NoTunControl, LateControl DEF SlotsAndBuffers, vnet_turbotap_connect
  <2>2. ASSUME NEW s \in SwIfs, vnet_turbotap_delete(s) PROVE ControlInv'
    BY <2>2, DeleteControl DEF SlotsAndBuffers
  <2>3. ASSUME NEW s \in SwIfs, NEW m \in Mtus, turbotap_flag_change(s, m) PROVE ControlInv'
    BY <2>3, ControlKept DEF SlotsAndBuffers, turbotap_flag_change, control, fds
  <2>4. QED BY <2>1, <2>2, <2>3
<1>5. /\ wait' \in [Names -> Nat] /\ rx_ready' \in [Slots -> 1 .. MAX_RECV]
      /\ mtu_buffers' \in [Slots -> Mtus]
  <2> DEFINE Typed == /\ wait' \in [Names -> Nat] /\ rx_ready' \in [Slots -> 1 .. MAX_RECV]
                      /\ mtu_buffers' \in [Slots -> Mtus]
  <2>1. ASSUME NEW n \in Names, ConnectOk(n) PROVE Typed
    <3>1. PICK i \in Slots : /\ rx_ready' = [rx_ready EXCEPT ![i] = MAX_RECV]
                             /\ mtu_buffers' = [mtu_buffers EXCEPT ![i] = Max(Mtus)]
      <4>1. \E i \in Slots : \E s, a, b, c, d : Fill(i, s, a, b, c, d)
        BY <2>1 DEF ConnectOk
      <4>2. QED BY <4>1 DEF Fill
    <3>2. MAX_RECV \in 1 .. MAX_RECV /\ wait' = wait
      BY <2>1, TurbotapConstants DEF ConnectOk
    <3>3. QED BY <3>1, <3>2, MaxMtu DEF SlotsAndBuffers, BufferType
  <2>2. ASSUME NEW n \in Names, ConnectNoTun(n) \/ ConnectLate PROVE Typed
    BY <2>2 DEF ConnectNoTun, ConnectLate, slots, SlotsAndBuffers, BufferType
  <2>3. ASSUME NEW s \in SwIfs, vnet_turbotap_delete(s) PROVE Typed
    <3>1. rx_ready' = rx_ready /\ mtu_buffers' = mtu_buffers
      BY <2>3 DEF vnet_turbotap_delete
    <3>2. PICK i : wait' = [z \in Names |->
                             IF \E f \in Fds : unix_fd[i] = f /\ kfd[f] = <<"tun", z>> THEN 0
                             ELSE wait[z]]
      BY <2>3 DEF vnet_turbotap_delete
    <3>3. QED BY <3>1, <3>2 DEF SlotsAndBuffers, BufferType
  <2>4. ASSUME NEW s \in SwIfs, NEW m \in Mtus, turbotap_flag_change(s, m) PROVE Typed
    BY <2>4 DEF turbotap_flag_change, SlotsAndBuffers, BufferType
  <2>5. QED BY <2>1, <2>2, <2>3, <2>4 DEF vnet_turbotap_connect
<1>6. BufferType'
  BY <1>1, <1>2, <1>5 DEF SlotsAndBuffers, BufferType, input
<1>7. QED BY <1>2, <1>4, <1>6 DEF SlotsAndBuffers

\* The frame's buffers return to the pool.
LEMMA FreedKeeps ==
    ASSUME SlotsAndBuffers, Freed
    PROVE  SlotsAndBuffers'
<1>1. /\ frame' = <<>> /\ rx_buffers' = rx_buffers
      /\ pool' = pool \cup UNION {ToSet(frame[x].bufs) : x \in DOMAIN frame}
      /\ UNCHANGED <<kfd, wait, slots, history, maps, hw, input>>
  BY DEF Freed
<1>2. ControlInv'
  BY <1>1, ControlKept DEF SlotsAndBuffers, control, slots
<1> DEFINE W(x) == ToSet(frame[x].bufs)
           kept == ToSet(rx_buffers)
<1>4. /\ IsInjective(rx_buffers) /\ pool \cap kept = {}
      /\ \A x \in DOMAIN frame : W(x) \cap (pool \cup kept) = {}
      /\ pool \cup kept \cup UNION {W(x) : x \in DOMAIN frame} = Bufs
  BY DEF SlotsAndBuffers, BuffersExact
<1> HIDE DEF W
<1>5. pool' \cap kept = {} /\ pool' \cup kept = Bufs
  BY <1>1, <1>4 DEF W
<1>6. BuffersExact'
  BY <1>1, <1>4, <1>5 DEF BuffersExact
<1>7. BufferType'
  BY <1>1, <1>5 DEF SlotsAndBuffers, BufferType, slots, input
<1>8. QED BY <1>2, <1>6, <1>7 DEF SlotsAndBuffers

\* Every state the specification reaches satisfies the invariant.
THEOREM SlotsAndBuffersHold == Spec => []SlotsAndBuffers
<1>1. Init => SlotsAndBuffers
  <2> SUFFICES ASSUME Init PROVE SlotsAndBuffers
    OBVIOUS
  <2>1. ControlType
    BY TurbotapConstants DEF Init, ControlType
  <2>2. Matched /\ Idle /\ DescriptorsOwned
    BY TurbotapConstants DEF Init, Matched, Idle, DescriptorsOwned, Own, Slots
  <2>3. BufferType
    <3>1. MAX_RECV \in 1 .. MAX_RECV /\ <<>> \in Seq(Bufs) /\ <<>> \in Seq(Packets)
      BY TurbotapConstants
    <3>2. QED BY <3>1, MaxMtu DEF Init, BufferType
  <2>5. BuffersExact
    BY DEF Init, BuffersExact, ToSet, IsInjective
  <2>6. QED BY <2>1, <2>2, <2>3, <2>5 DEF SlotsAndBuffers, ControlInv
<1>2. SlotsAndBuffers /\ [Next]_vars => SlotsAndBuffers'
  <2> SUFFICES ASSUME SlotsAndBuffers, [Next]_vars PROVE SlotsAndBuffers'
    OBVIOUS
  <2>1. ASSUME UNCHANGED <<kfd, slots, history, maps, hw, buffers>>, BufferType' PROVE SlotsAndBuffers'
    <3>1. ControlInv'
      BY <2>1, ControlKept DEF SlotsAndBuffers, control, slots
    <3>2. BuffersExact'
      BY <2>1, BuffersKept DEF SlotsAndBuffers
    <3>3. QED BY <2>1, <3>1, <3>2 DEF SlotsAndBuffers
  <2>2. CASE RxStart
    <3>1. BufferType'
      BY <2>2 DEF RxStart, SlotsAndBuffers, BufferType, slots, buffers
    <3>2. QED BY <2>1, <2>2, <3>1 DEF RxStart
  <2>3. CASE RxEnd
    <3>1. BufferType'
      BY <2>3 DEF RxEnd, SlotsAndBuffers, BufferType, slots, buffers
    <3>2. QED BY <2>1, <2>3, <3>1 DEF RxEnd
  <2>4. CASE Rx
    <3>1. ControlInv'
      BY <2>4, ControlKept DEF Rx, SlotsAndBuffers, control, fds
    <3>2. QED BY <2>4, <3>1, RxExact DEF SlotsAndBuffers
  <2>5. CASE Drop \/ \E s \in SwIfs : turbotap_tx(s)
    BY <2>5, FreedKeeps DEF Drop, turbotap_tx
  <2>6. ASSUME NEW f \in Fds, turbotap_read_ready(f) PROVE SlotsAndBuffers'
    <3>1. byFd[f] \in Slots \cup {None}
      BY DEF SlotsAndBuffers, ControlInv, ControlType
    <3>2. BufferType'
      BY <2>6, <3>1 DEF turbotap_read_ready, SlotsAndBuffers, BufferType, slots, buffers
    <3>3. QED BY <2>1, <2>6, <3>2 DEF turbotap_read_ready
  <2>7. ASSUME NEW n \in Names, LinuxSend(n) PROVE SlotsAndBuffers'
    <3>1. BufferType'
      BY <2>7 DEF LinuxSend, SlotsAndBuffers, BufferType, slots, input, buffers
    <3>2. QED BY <2>1, <2>7, <3>1 DEF LinuxSend
  <2>8. CASE \/ \E n \in Names : vnet_turbotap_connect(n)
             \/ \E s \in SwIfs : vnet_turbotap_delete(s)
             \/ \E s \in SwIfs, m \in Mtus : turbotap_flag_change(s, m)
    BY <2>8, CliKeeps
  <2>9. CASE UNCHANGED vars
    <3>1. BufferType'
      BY <2>9 DEF vars, SlotsAndBuffers, BufferType, slots, input, buffers
    <3>2. QED BY <2>1, <2>9, <3>1 DEF vars
  <2>10. QED
    BY <2>2, <2>3, <2>4, <2>5, <2>6, <2>7, <2>8, <2>9 DEF Next, Loop
<1>3. QED BY <1>1, <1>2, PTL DEF Spec

\* The variables keep their types.
THEOREM TypeCorrect == Spec => []TypeOK
<1>1. SlotsAndBuffers => TypeOK
  BY DEF SlotsAndBuffers, ControlInv, ControlType, BufferType, TypeOK
<1>2. QED BY <1>1, SlotsAndBuffersHold, PTL

\* Each interface is found through both maps, in a slot of its own, and slots
\* that are not in use are in no map (connect, delete: turbotap.c).
THEOREM SlotsCorrect == Spec => []SlotsSound
<1>1. SlotsAndBuffers => SlotsSound
  BY ControlSound DEF SlotsAndBuffers
<1>2. QED BY <1>1, SlotsAndBuffersHold, PTL

\* No descriptor of a tap is left open, or shared between interfaces.
THEOREM DescriptorsCorrect == Spec => []DescriptorsOwned
<1>1. SlotsAndBuffers => DescriptorsOwned
  BY DEF SlotsAndBuffers, ControlInv
<1>2. QED BY <1>1, SlotsAndBuffersHold, PTL

\* A packet is received on the interface its tap is connected to, whichever
\* slots were deleted and reused while their bits were pending (node.c:318-333).
THEOREM PacketsCorrect == Spec => PacketsOwn
<1>1. SlotsAndBuffers /\ [Next]_vars
        => [\A x \in DOMAIN frame' \ DOMAIN frame : Attributed(frame'[x])]_vars
  <2> SUFFICES ASSUME SlotsAndBuffers, Next
               PROVE  \A x \in DOMAIN frame' \ DOMAIN frame : Attributed(frame'[x])
    OBVIOUS
  <2>1. CASE Rx
    BY <2>1, RxExact DEF SlotsAndBuffers
  <2>2. CASE frame' = <<>>
    BY <2>2
  <2>3. CASE frame' = frame
    BY <2>3
  <2>4. QED
    BY <2>1, <2>2, <2>3
       DEF Next, Loop, RxStart, RxEnd, Drop, Freed, turbotap_tx, turbotap_read_ready, LinuxSend,
           vnet_turbotap_connect, ConnectOk, ConnectNoTun, ConnectLate, vnet_turbotap_delete,
           turbotap_flag_change, buffers
<1>2. QED BY <1>1, SlotsAndBuffersHold, PTL DEF Spec, PacketsOwn

\* However many buffers each message of a recvmmsg used, no buffer is lost
\* and none is in two places (turbotap_rx_iface: node.c).
THEOREM BuffersCorrect == Spec => []BuffersExact
<1>1. SlotsAndBuffers => BuffersExact
  BY DEF SlotsAndBuffers
<1>2. QED BY <1>1, SlotsAndBuffersHold, PTL
=============================================================================
