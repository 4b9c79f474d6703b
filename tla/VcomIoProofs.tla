---------------------------- MODULE VcomIoProofs ----------------------------
(***************************************************************************)
(* Proofs about waiting and moving data: what select returns, and what a   *)
(* read or write counts.                                                   *)
(***************************************************************************)
EXTENDS VcomIo, FiniteSetTheorems, TLAPS

\* Where the thread is tells the call it is in.
Calls ==
    /\ pc = "idle" => op = "none" /\ seen = {}
    /\ pc \in {"vcom", "libc", "check", "sleep"} => op = "select"
    /\ pc = "pselect" => op = "pselect"
    /\ pc = "data" => op \in {"read", "recv", "readv", "write", "writev"}
    /\ pc = "sleep" => asked = {} /\ seen = {} /\ ret = 0

\* The sets of the library: what was seen ready of them in this round, or,
\* while it reports nothing, all that was asked for.
Vcom ==
    \/ vn > 0 /\ vsets # {} /\ vsets = seen \cap VBits /\ steady \cap VBits \subseteq vsets
    \/ vn = 0 /\ vsets = asked \cap VBits /\ seen \cap VBits = {} /\ steady \cap VBits = {}
    \/ /\ vn = -1 /\ vsets = {} /\ asked \cap VBits = {}
       /\ seen \cap VBits = {} /\ steady \cap VBits = {}

\* The kernel's set is what was asked for until the kernel is polled.
Polled ==
    /\ pc = "vcom" => vsets = asked \cap VBits
    /\ pc \in {"libc", "check"} => steady \subseteq asked \cap Ready /\ Vcom
    /\ pc \in {"vcom", "libc", "check"} => lsets \subseteq asked
    /\ pc \in {"vcom", "libc"} /\ first => lsets = asked \cap LBits
    /\ pc = "libc" => ln = -1 /\ seen \cap LBits = {}
    /\ pc = "check" => /\ lsets = seen \cap LBits
                       /\ ln > 0 <=> lsets # {}
                       /\ first => steady \cap LBits \subseteq lsets

\* Bytes are counted once, from a first buffer on.
Moving ==
    /\ pc \notin {"data", "return"} => at = 1 /\ total = 0 /\ taken = 0
    /\ pc = "data" => /\ fd \in VFds /\ iov \in Iovs /\ at \in 1 .. Len(iov)
                      /\ taken = total

Results == ResultExact /\ SteadyReported /\ BytesAccounted

IoInv == TypeOK /\ Calls /\ Polled /\ Moving /\ Results

-----------------------------------------------------------------------------
\* The number of bits in a set.
LEMMA BitCount ==
    ASSUME NEW B, IsFiniteSet(B), NEW S \in SUBSET B
    PROVE  /\ Cardinality(S) \in 0 .. Cardinality(B) /\ Cardinality(B) \in Nat
           /\ Cardinality(S) > 0 <=> S # {}
<1>1. IsFiniteSet(S) /\ Cardinality(S) <= Cardinality(B)
  BY FS_Subset
<1>2. Cardinality(S) \in Nat /\ Cardinality(B) \in Nat
  BY <1>1, FS_CardinalityType
<1>3. QED BY <1>1, <1>2, FS_EmptySet

\* A bit belongs to the library or to the kernel.
LEMMA BitsApart == VBits \cap LBits = {} /\ Bits = VBits \cup LBits
BY VcomIoConstants DEF VBits, LBits, Bits

\* There are finitely many bits.
LEMMA FiniteBits == IsFiniteSet(VBits) /\ IsFiniteSet(LBits) /\ IsFiniteSet(Bits)
<1>1. IsFiniteSet({"r"}) /\ IsFiniteSet({"w"})
  BY FS_Singleton
<1>2. IsFiniteSet({"r"} \cup {"w"}) /\ {"r"} \cup {"w"} = {"r", "w"}
  BY <1>1, FS_Union
<1>3. IsFiniteSet(VBits) /\ IsFiniteSet(LBits)
  BY <1>1, <1>2, FS_Product, VcomIoConstants DEF VBits, LBits
<1>4. QED BY <1>3, FS_Union DEF Bits

\* Nothing but the world moves: bits that stay ready stay reported.
LEMMA WorldKeeps ==
    ASSUME IoInv, Other
    PROVE  IoInv'
<1>1. /\ pc' = pc /\ op' = op /\ ret' = ret /\ nonblock' = nonblock
      /\ asked' = asked /\ sets' = sets /\ vsets' = vsets /\ lsets' = lsets
      /\ vn' = vn /\ ln' = ln /\ end' = end /\ left' = left /\ seen' = seen /\ first' = first
      /\ fd' = fd /\ iov' = iov /\ at' = at /\ total' = total /\ taken' = taken
      /\ pc # "return" /\ steady' = steady \cap Ready'
  BY DEF Other, Tick, Arrives, Drains, Hangup, SharedRead, Elsewhere, data
<1> DEFINE World == /\ inbox' \in [AllFds -> 0 .. MaxIn] /\ room' \in [VFds -> 0 .. MaxOut]
                    /\ dead' \subseteq VFds /\ now' \in 0 .. MaxNow
<1>2. World
  <2>1. CASE Tick
    BY <2>1, VcomIoConstants DEF Tick, peer, IoInv, TypeOK
  <2>2. ASSUME NEW f \in AllFds, Arrives(f) PROVE World
    BY <2>2, VcomIoConstants DEF Arrives, IoInv, TypeOK
  <2>3. ASSUME NEW f \in VFds, Drains(f) PROVE World
    BY <2>3, VcomIoConstants DEF Drains, IoInv, TypeOK
  <2>4. ASSUME NEW f \in VFds, Hangup(f) PROVE World
    BY <2>4, VcomIoConstants DEF Hangup, IoInv, TypeOK
  <2>5. ASSUME NEW f \in LFds, SharedRead(f) PROVE World
    <3>1. inbox[f] \in 0 .. MaxIn /\ inbox[f] - 1 \in 0 .. MaxIn
      BY <2>5, VcomIoConstants DEF SharedRead, IoInv, TypeOK, AllFds
    <3>2. QED BY <2>5, <3>1 DEF SharedRead, IoInv, TypeOK
  <2>6. QED BY <2>1, <2>2, <2>3, <2>4, <2>5 DEF Other
<1>3. steady' \subseteq steady /\ steady' \subseteq Ready'
  BY <1>1
<1>4. TypeOK'
  BY <1>1, <1>2, <1>3 DEF IoInv, TypeOK
<1>5. Calls' /\ Moving'
  BY <1>1 DEF IoInv, Calls, Moving
<1>6. Polled'
  <2>1. Vcom => Vcom'
    BY <1>1, <1>3 DEF Vcom
  <2>2. QED BY <1>1, <1>3, <2>1 DEF IoInv, Polled
<1>7. Results'
  BY <1>1 DEF Results, ResultExact, SteadyReported, BytesAccounted, Selected
<1>8. QED BY <1>4, <1>5, <1>6, <1>7 DEF IoInv

\* A call begins.
LEMMA CallKeeps ==
    ASSUME IoInv, Call
    PROVE  IoInv'
<1>1. CASE \E S \in SUBSET Bits, t \in {NoTime} \cup -1 .. MaxNow : SelectStart(S, t)
  <2>1. PICK S \in SUBSET Bits, t \in {NoTime} \cup -1 .. MaxNow : SelectStart(S, t)
    BY <1>1
  <2>2. /\ pc = "idle" /\ op' = "select" /\ asked' = S /\ sets' = S /\ left' = t
        /\ vsets' = S \cap VBits /\ lsets' = S \cap LBits
        /\ end' = (IF t \in Nat THEN now + t ELSE NoTime)
        /\ vn' = vn /\ ln' = ln /\ seen' = seen /\ steady' = steady /\ first' = first
        /\ UNCHANGED <<peer, nonblock, now, data>>
    BY <2>1 DEF SelectStart, vcom_fd_set_split
  <2>3. \/ pc' = "return" /\ ret' = EINVAL
        \/ pc' = "sleep" /\ S = {} /\ ret' = 0
        \/ pc' = "vcom" /\ ret' = 0
    BY <2>1 DEF SelectStart
  <2>4. TypeOK'
    BY <2>2, <2>3 DEF IoInv, TypeOK, peer, data, EINVAL
  <2>5. Calls' /\ Moving'
    BY <2>2, <2>3 DEF IoInv, Calls, Moving, data
  <2>6. Polled'
    BY <2>2, <2>3 DEF Polled
  <2>7. Results'
    BY <2>2, <2>3 DEF Results, ResultExact, SteadyReported, BytesAccounted, Selected, EINVAL
  <2>8. QED BY <2>4, <2>5, <2>6, <2>7 DEF IoInv
<1>2. CASE \E S \in SUBSET Bits, t \in {NoTime} \cup -1 .. MaxNow : PselectStart(S, t)
  <2>1. PICK S \in SUBSET Bits, t \in {NoTime} \cup -1 .. MaxNow : PselectStart(S, t)
    BY <1>2
  <2>2. /\ pc = "idle" /\ op' = "pselect" /\ asked' = S /\ sets' = S /\ left' = t
        /\ lsets' = S \cap LBits
        /\ end' = (IF t \in Nat THEN now + t ELSE NoTime)
        /\ UNCHANGED <<peer, nonblock, now, vsets, vn, ln, seen, steady, first, data>>
    BY <2>1 DEF PselectStart, vcom_fd_clear
  <2>3. pc' \in {"return", "pselect"} /\ ret' \in {0, -1}
    BY <2>1 DEF PselectStart
  <2>4. TypeOK'
    BY <2>2, <2>3 DEF IoInv, TypeOK, peer, data
  <2>5. Calls' /\ Moving'
    BY <2>2, <2>3 DEF IoInv, Calls, Moving, data
  <2>6. Polled' /\ Results'
    BY <2>2, <2>3 DEF Polled, Results, ResultExact, SteadyReported, BytesAccounted, Selected
  <2>7. QED BY <2>4, <2>5, <2>6 DEF IoInv
<1>3. CASE \E o \in {"read", "recv", "readv", "write", "writev"}, f \in VFds, v \in Iovs :
             DataStart(o, f, v)
  <2>1. PICK o \in {"read", "recv", "readv", "write", "writev"}, f \in VFds, v \in Iovs :
          DataStart(o, f, v)
    BY <1>3
  <2>2. /\ pc = "idle" /\ pc' = "data" /\ op' = o /\ fd' = f /\ iov' = v
        /\ UNCHANGED <<peer, nonblock, now, ret, select, at, total, taken>>
    BY <2>1 DEF DataStart
  <2>3. TypeOK'
    BY <2>2 DEF IoInv, TypeOK, peer, select
  <2>4. Calls'
    BY <2>2 DEF Calls
  <2>5. 1 \in 1 .. Len(v)
    BY VcomIoConstants
  <2>6. Moving'
    BY <2>2, <2>5 DEF IoInv, Moving
  <2>7. Polled' /\ Results'
    BY <2>2 DEF Polled, Results, ResultExact, SteadyReported, BytesAccounted, Selected
  <2>8. QED BY <2>3, <2>4, <2>6, <2>7 DEF IoInv
<1>4. CASE \E f \in VFds : fcntl(f)
  <2>1. PICK f \in VFds : fcntl(f)
    BY <1>4
  <2>2. /\ pc = "idle" /\ nonblock' \subseteq VFds
        /\ UNCHANGED <<peer, now, pc, op, ret, select, data>>
    BY <2>1 DEF fcntl, IoInv, TypeOK
  <2>3. TypeOK'
    BY <2>2 DEF IoInv, TypeOK, peer, select, data
  <2>4. Calls' /\ Moving'
    BY <2>2 DEF IoInv, Calls, Moving, select, data
  <2>5. Polled' /\ Results'
    BY <2>2 DEF Polled, Results, ResultExact, SteadyReported, BytesAccounted, Selected
  <2>6. QED BY <2>3, <2>4, <2>5 DEF IoInv
<1>5. QED BY <1>1, <1>2, <1>3, <1>4 DEF Call

\* The library is polled: what is ready of what was asked for is seen.
LEMMA PollVcomKeeps ==
    ASSUME IoInv, PollVcom
    PROVE  IoInv'
<1> DEFINE n == Cardinality(vsets \cap Ready)
<1>1. /\ pc = "vcom" /\ steady' = asked \cap Ready /\ ln' = -1
      /\ UNCHANGED <<peer, nonblock, now, asked, sets, lsets, end, first, data>>
      /\ op = "select" /\ vsets = asked \cap VBits /\ Ready' = Ready
  BY DEF PollVcom, IoInv, Calls, Polled, Ready, peer
<1>2. /\ vsets \subseteq VBits /\ n \in 0 .. Cardinality(VBits) /\ Cardinality(VBits) \in Nat
      /\ n > 0 <=> vsets \cap Ready # {}
  <2>1. vsets \cap Ready \in SUBSET VBits
    BY DEF IoInv, TypeOK
  <2>2. QED BY <2>1, FiniteBits, BitCount DEF IoInv, TypeOK
<1>3. Cardinality(LBits) \in Nat
  BY FiniteBits, FS_CardinalityType
<1> HIDE DEF n
<1>4. \/ /\ vsets = {}
         /\ pc' = "libc" /\ vn' = -1 /\ seen' = {}
         /\ UNCHANGED <<vsets, op, ret, left>>
      \/ /\ vsets # {}
         /\ vn' = n /\ vsets' = (IF n > 0 THEN vsets \cap Ready ELSE vsets)
         /\ pc' = "libc" /\ seen' = vsets \cap Ready
         /\ UNCHANGED <<op, ret, left>>
      \/ /\ vsets # {}
         /\ pc' = "return" /\ op' = "error" /\ ret' = EBADFD /\ left' = Remains
         /\ UNCHANGED <<vsets, vn, seen>>
  BY DEF PollVcom, vcom_socket_sid_fds_2_fds, n
<1>5. TypeOK'
  <2>1. steady' \subseteq Bits /\ ln' \in -1 .. Cardinality(LBits)
    BY <1>1, <1>3 DEF IoInv, TypeOK
  <2>2. vn' \in -1 .. Cardinality(VBits) /\ vsets' \subseteq VBits /\ seen' \subseteq Bits
    BY <1>2, <1>4 DEF IoInv, TypeOK, Bits
  <2>3. left' \in Int \cup {NoTime} /\ ret' \in Int
    BY <1>4 DEF IoInv, TypeOK, Remains, EBADFD
  <2>4. pc' \in {"libc", "return"} /\ op' \in {"select", "error"}
    BY <1>1, <1>4
  <2>5. QED BY <1>1, <2>1, <2>2, <2>3, <2>4 DEF IoInv, TypeOK, peer, data
<1>6. Calls' /\ Moving'
  BY <1>1, <1>4 DEF IoInv, Calls, Moving, data
<1>7. ASSUME pc' = "libc" PROVE Vcom'
  <2>1. CASE vsets = {}
    BY <1>1, <1>4, <1>7, <2>1 DEF Vcom
  <2>2. CASE vsets # {} /\ n > 0
    <3>1. vn' = n /\ vsets' = vsets \cap Ready /\ seen' = vsets \cap Ready
      BY <1>4, <1>7, <2>2
    <3>2. vsets' # {} /\ vsets' = seen' \cap VBits
      BY <1>2, <2>2, <3>1
    <3>3. QED BY <1>1, <2>2, <3>1, <3>2 DEF Vcom
  <2>3. CASE vsets # {} /\ ~(n > 0)
    <3>1. n = 0 /\ vsets \cap Ready = {}
      BY <1>2, <2>3
    <3>2. QED BY <1>1, <1>4, <1>7, <2>3, <3>1 DEF Vcom
  <2>4. QED BY <2>1, <2>2, <2>3
<1>8. Polled'
  <2>1. pc' = "libc" => seen' \cap LBits = {}
    BY <1>2, <1>4, BitsApart
  <2>2. QED BY <1>1, <1>4, <1>7, <2>1 DEF IoInv, Polled
<1>9. Results'
  BY <1>4 DEF Results, ResultExact, SteadyReported, BytesAccounted, Selected
<1>10. QED BY <1>5, <1>6, <1>8, <1>9 DEF IoInv

\* The kernel is polled: its set becomes what is ready of it.
LEMMA PollLibcKeeps ==
    ASSUME IoInv, PollLibc
    PROVE  IoInv'
<1> DEFINE n == Cardinality(lsets \cap Ready)
<1>1. /\ pc = "libc" /\ op = "select" /\ ln = -1 /\ Ready' = Ready
      /\ UNCHANGED <<peer, nonblock, now, asked, sets, vsets, vn, end, steady, first, data>>
  BY DEF PollLibc, IoInv, Calls, Polled, Ready, peer
<1>2. /\ lsets \subseteq LBits /\ n \in 0 .. Cardinality(LBits) /\ Cardinality(LBits) \in Nat
      /\ n > 0 <=> lsets \cap Ready # {}
  <2>1. lsets \cap Ready \in SUBSET LBits
    BY DEF IoInv, TypeOK
  <2>2. QED BY <2>1, FiniteBits, BitCount DEF IoInv, TypeOK
<1> HIDE DEF n
<1>3. \/ /\ asked \cap LBits = {} /\ pc' = "check"
         /\ UNCHANGED <<lsets, ln, seen, op, ret, left>>
      \/ /\ asked \cap LBits # {} /\ pc' = "check"
         /\ lsets' = lsets \cap Ready /\ ln' = n /\ seen' = seen \cup (lsets \cap Ready)
         /\ UNCHANGED <<op, ret, left>>
      \/ /\ asked \cap LBits # {}
         /\ pc' = "return" /\ op' = "error" /\ ret' = EINTR /\ left' = Remains
         /\ UNCHANGED <<lsets, ln, seen>>
  BY DEF PollLibc, n
<1>4. /\ steady \subseteq asked \cap Ready /\ Vcom /\ lsets \subseteq asked
      /\ first => lsets = asked \cap LBits
      /\ seen \cap LBits = {}
  BY <1>1 DEF IoInv, Polled
<1>5. TypeOK'
  <2>1. lsets' \subseteq LBits /\ ln' \in -1 .. Cardinality(LBits) /\ seen' \subseteq Bits
    BY <1>1, <1>2, <1>3 DEF IoInv, TypeOK, Bits
  <2>2. left' \in Int \cup {NoTime} /\ ret' \in Int
    BY <1>3 DEF IoInv, TypeOK, Remains, EINTR
  <2>3. pc' \in {"check", "return"} /\ op' \in {"select", "error"}
    BY <1>1, <1>3
  <2>4. QED BY <1>1, <2>1, <2>2, <2>3 DEF IoInv, TypeOK, peer, data
<1>6. Calls' /\ Moving'
  BY <1>1, <1>3 DEF IoInv, Calls, Moving, data
<1>7. ASSUME pc' = "check"
      PROVE  /\ Vcom' /\ lsets' \subseteq asked /\ lsets' = seen' \cap LBits
             /\ ln' > 0 <=> lsets' # {}
             /\ first => steady \cap LBits \subseteq lsets'
  <2>1. CASE asked \cap LBits = {}
    <3>1. lsets = {} /\ lsets' = lsets /\ ln' = -1 /\ seen' = seen
      BY <1>1, <1>2, <1>3, <1>4, <1>7, <2>1
    <3>2. Vcom'
      BY <1>1, <1>4, <3>1 DEF Vcom
    <3>3. QED BY <1>4, <2>1, <3>1, <3>2
  <2>2. CASE asked \cap LBits # {}
    <3>1. lsets' = lsets \cap Ready /\ ln' = n /\ seen' = seen \cup (lsets \cap Ready)
      BY <1>3, <1>7, <2>2
    <3>2. seen' \cap VBits = seen \cap VBits /\ lsets' = seen' \cap LBits
      BY <1>2, <1>4, <3>1, BitsApart
    <3>3. Vcom'
      BY <1>1, <1>4, <3>2 DEF Vcom
    <3>4. QED BY <1>2, <1>4, <3>1, <3>2, <3>3
  <2>3. QED BY <2>1, <2>2
<1>8. Polled'
  BY <1>1, <1>3, <1>4, <1>7 DEF Polled
<1>9. Results'
  BY <1>3 DEF Results, ResultExact, SteadyReported, BytesAccounted, Selected
<1>10. QED BY <1>5, <1>6, <1>8, <1>9 DEF IoInv

\* The loop ends with something that is ready, or with nothing, or goes on.
LEMMA CheckKeeps ==
    ASSUME IoInv, Check
    PROVE  IoInv'
<1> DEFINE both == vsets \cup lsets
<1>1. /\ pc = "check" /\ op = "select"
      /\ UNCHANGED <<peer, nonblock, now, op, asked, vsets, lsets, vn, ln, end, seen, steady, data>>
      /\ Ready' = Ready
  BY DEF Check, IoInv, Calls, Ready, peer
<1>2. /\ steady \subseteq asked \cap Ready /\ Vcom /\ lsets \subseteq asked /\ lsets = seen \cap LBits
      /\ ln > 0 <=> lsets # {}
      /\ first => steady \cap LBits \subseteq lsets
      /\ vsets \subseteq VBits /\ steady \subseteq Bits /\ both \subseteq Bits /\ seen \subseteq Bits
  BY <1>1 DEF IoInv, TypeOK, Polled, Bits
<1>3. Cardinality(both) \in Nat /\ (Cardinality(both) > 0 <=> both # {})
  <2>1. both \in SUBSET Bits
    BY <1>2
  <2> HIDE DEF both
  <2>2. QED BY <2>1, FiniteBits, BitCount
<1>4. \/ /\ vn > 0 \/ ln > 0
         /\ sets' = both /\ ret' = Cardinality(both)
         /\ pc' = "return" /\ left' = Remains /\ first' = first
      \/ /\ ~(vn > 0 \/ ln > 0)
         /\ pc' = "vcom" /\ first' = FALSE
         /\ UNCHANGED <<sets, ret, left>>
      \/ /\ ~(vn > 0 \/ ln > 0)
         /\ pc' = "return" /\ ret' = 0 /\ left' = 0
         /\ UNCHANGED <<sets, first>>
  BY DEF Check, vcom_fd_set_merge
<1>5. TypeOK'
  <2>1. sets' \subseteq Bits /\ ret' \in Int /\ first' \in BOOLEAN
    <3>1. sets \subseteq Bits /\ ret \in Int /\ first \in BOOLEAN
      BY DEF IoInv, TypeOK
    <3> HIDE DEF both
    <3>2. sets' = both \/ sets' = sets
      BY <1>4
    <3>3. ret' = Cardinality(both) \/ ret' = ret \/ ret' = 0
      BY <1>4
    <3>4. first' = first \/ first' = FALSE
      BY <1>4
    <3>5. sets' \subseteq Bits
      BY <1>2, <3>1, <3>2
    <3>6. ret' \in Int
      BY <1>3, <3>1, <3>3
    <3>7. first' \in BOOLEAN
      BY <3>1, <3>4, Zenon
    <3>8. QED BY <3>5, <3>6, <3>7
  <2>2. left' \in Int \cup {NoTime}
    BY <1>4 DEF IoInv, TypeOK, Remains
  <2>3. pc' \in {"vcom", "return"}
    BY <1>4
  <2>4. QED BY <1>1, <2>1, <2>2, <2>3 DEF IoInv, TypeOK, peer, data
<1>6. Calls' /\ Moving'
  BY <1>1, <1>4 DEF IoInv, Calls, Moving, data
<1>7. Polled'
  <2>1. ASSUME pc' = "vcom" PROVE vsets' = asked' \cap VBits /\ lsets' \subseteq asked' /\ ~first'
    BY <1>1, <1>2, <1>4, <2>1 DEF Vcom
  <2>2. pc' \in {"vcom", "return"}
    BY <1>4
  <2>3. QED BY <2>1, <2>2 DEF Polled
<1>8. Results'
  <2>1. CASE (vn > 0 \/ ln > 0) /\ pc' = "return"
    <3>1. sets' = both /\ ret' = Cardinality(both) /\ first' = first
      BY <1>4, <2>1
    <3>2. both # {}
      BY <1>2, <2>1 DEF Vcom
    <3>3. Result' = both
      BY <1>3, <3>1, <3>2 DEF Result
    <3>4. both = IF NoneOfOurs THEN seen \cup (asked \cap VBits) ELSE seen
      <4>1. seen = (seen \cap VBits) \cup (seen \cap LBits)
        BY <1>2, BitsApart
      <4>2. CASE vn > 0
        <5>1. vsets # {} /\ vsets = seen \cap VBits
          BY <1>2, <4>2 DEF Vcom
        <5>2. QED BY <1>2, <4>1, <5>1 DEF NoneOfOurs
      <4>3. CASE ~(vn > 0)
        <5>1. vsets = asked \cap VBits /\ seen \cap VBits = {}
          BY <1>2, <4>3 DEF Vcom
        <5>2. seen # {}
          BY <1>2, <2>1, <4>3
        <5>3. QED BY <1>2, <4>1, <5>1, <5>2 DEF NoneOfOurs
      <4>4. QED BY <4>2, <4>3
    <3>5. steady \cap VBits \subseteq both
      BY <1>2 DEF Vcom
    <3>6. steady \cap (IF first THEN Bits ELSE VBits) \subseteq both
      BY <1>2, <3>5 DEF Bits
    <3>7. ResultExact' /\ SteadyReported'
      BY <1>1, <3>1, <3>3, <3>4, <3>6 DEF ResultExact, SteadyReported, NoneOfOurs
    <3>8. BytesAccounted'
      BY <1>1 DEF BytesAccounted
    <3>9. QED BY <3>7, <3>8 DEF Results
  <2>2. CASE ~(vn > 0 \/ ln > 0) /\ pc' = "return"
    <3>1. ret' = 0 /\ first' = first
      BY <1>4, <2>2
    <3>2. Result' = {}
      BY <3>1 DEF Result
    <3>3. steady \cap VBits = {} /\ lsets = {}
      BY <1>2, <2>2 DEF Vcom
    <3>4. steady \cap (IF first THEN Bits ELSE VBits) = {}
      BY <1>2, <3>3 DEF Bits
    <3>5. seen = {}
      <4>1. seen \cap VBits = {} /\ seen \cap LBits = {}
        BY <1>2, <2>2, <3>3 DEF Vcom
      <4>2. QED BY <1>2, <4>1, BitsApart
    <3>6. ResultExact' /\ SteadyReported'
      BY <1>1, <3>1, <3>2, <3>4, <3>5 DEF ResultExact, SteadyReported, NoneOfOurs
    <3>7. BytesAccounted'
      BY <1>1 DEF BytesAccounted
    <3>8. QED BY <3>6, <3>7 DEF Results
  <2>3. CASE pc' # "return"
    BY <2>3 DEF Results, ResultExact, SteadyReported, BytesAccounted, Selected
  <2>4. QED BY <2>1, <2>2, <2>3
<1>9. QED BY <1>5, <1>6, <1>7, <1>8 DEF IoInv

\* A select of nothing slept.
LEMMA SleepKeeps ==
    ASSUME IoInv, Sleep
    PROVE  IoInv'
<1>1. /\ pc = "sleep" /\ pc' = "return" /\ left' = Remains
      /\ op = "select" /\ ret = 0 /\ asked = {} /\ seen = {}
      /\ UNCHANGED <<peer, nonblock, now, op, ret, asked, sets, vsets, lsets, vn, ln,
                     end, seen, steady, first, data>>
  BY DEF Sleep, IoInv, Calls
<1>2. TypeOK'
  BY <1>1 DEF IoInv, TypeOK, peer, data, Remains
<1>3. Calls' /\ Moving' /\ Polled'
  BY <1>1 DEF Calls, Moving, Polled
<1>4. Results'
  BY <1>1 DEF Results, ResultExact, SteadyReported, BytesAccounted, Selected, Result, NoneOfOurs
<1>5. QED BY <1>2, <1>3, <1>4 DEF IoInv

\* What pselect returns is its own affair.
LEMMA PselectKeeps ==
    ASSUME IoInv, Pselect
    PROVE  IoInv'
<1>1. /\ pc = "pselect" /\ pc' = "return" /\ op = "pselect"
      /\ UNCHANGED <<peer, nonblock, now, op, asked, vsets, lsets, vn, ln, end, left,
                     seen, steady, first, data>>
  BY DEF Pselect, IoInv, Calls
<1>2. sets' \subseteq Bits /\ ret' \in Int
  <2>1. ASSUME sets' = vcom_fd_set(asked, lsets \cap Ready), ret' = Cardinality(sets')
        PROVE  sets' \subseteq Bits /\ ret' \in Int
    <3>1. sets' \in SUBSET Bits
      BY <2>1 DEF vcom_fd_set, IoInv, TypeOK, Bits
    <3>2. Cardinality(sets') \in Nat
      BY <3>1, FiniteBits, BitCount
    <3>3. QED BY <2>1, <3>1, <3>2
  <2>2. QED BY <2>1 DEF Pselect, IoInv, TypeOK
<1>3. TypeOK'
  BY <1>1, <1>2 DEF IoInv, TypeOK, peer, data
<1>4. Calls' /\ Moving' /\ Polled' /\ Results'
  BY <1>1 DEF Calls, Moving, Polled, Results, ResultExact, SteadyReported, BytesAccounted, Selected
<1>5. QED BY <1>3, <1>4 DEF IoInv

\* The application takes what was returned.
LEMMA TakeKeeps ==
    ASSUME IoInv, Take
    PROVE  IoInv'
<1>1. Cardinality(VBits) \in Nat /\ Cardinality(LBits) \in Nat
  BY FiniteBits, FS_CardinalityType
<1>2. TypeOK'
  BY <1>1 DEF Take, IoInv, TypeOK, peer
<1>3. Calls' /\ Moving' /\ Polled' /\ Results'
  BY DEF Take, Calls, Moving, Polled, Results, ResultExact, SteadyReported, BytesAccounted, Selected
<1>4. QED BY <1>2, <1>3 DEF IoInv

\* What is left of a call that moves data: its own variables.
LEMMA MoveKeeps ==
    ASSUME IoInv, pc = "data", NEW rv \in Int,
           total' = total + Moved(rv), taken' = taken + Moved(rv),
           inbox' \in [AllFds -> 0 .. MaxIn], room' \in [VFds -> 0 .. MaxOut],
           UNCHANGED <<dead, nonblock, now, op, select, fd, iov>>,
           \/ pc' = pc /\ ret' = ret /\ at' \in 1 .. Len(iov)
           \/ /\ pc' = "return" /\ ret' \in Int /\ at' = at
              /\ taken' = (IF ret' > 0 THEN ret' ELSE 0)
              /\ ret' = EAGAIN => ~Blocking
    PROVE  IoInv'
<1>1. /\ op \in {"read", "recv", "readv", "write", "writev"} /\ op' = op
      /\ fd \in VFds /\ iov \in Iovs /\ at \in 1 .. Len(iov) /\ taken = total /\ total \in Nat
      /\ fd' = fd /\ iov' = iov /\ nonblock' = nonblock /\ dead' = dead /\ now' = now
  BY DEF IoInv, Calls, Moving, TypeOK
<1>2. Moved(rv) \in Nat /\ Len(iov) \in Nat
  BY <1>1, VcomIoConstants DEF Moved
<1>3. total' \in Nat /\ taken' \in Nat /\ taken' = total' /\ at' \in Nat /\ ret' \in Int
  <2>1. total' \in Nat /\ taken' \in Nat /\ taken' = total'
    BY <1>1, <1>2
  <2>2. at \in Nat /\ ret \in Int
    BY DEF IoInv, TypeOK
  <2>3. at' \in Nat /\ ret' \in Int
    BY <1>2, <2>2
  <2>4. QED BY <2>1, <2>3
<1>4. TypeOK'
  BY <1>1, <1>3 DEF IoInv, TypeOK, select
<1>5. Calls' /\ Moving'
  BY <1>1, <1>3 DEF Calls, Moving
<1>6. Polled'
  BY DEF Polled
<1>7. Results'
  <2>1. ~Selected'
    BY <1>1 DEF Selected
  <2>2. Blocking' = Blocking
    BY <1>1 DEF Blocking
  <2>3. BytesAccounted'
    BY <1>1, <2>2 DEF BytesAccounted
  <2>4. QED BY <2>1, <2>3 DEF Results, ResultExact, SteadyReported
<1>8. QED BY <1>4, <1>5, <1>6, <1>7 DEF IoInv

\* One buffer is read.
LEMMA ReadKeeps ==
    ASSUME IoInv, Read
    PROVE  IoInv'
<1> DEFINE rv == session_read(iov[at])
<1>1. /\ pc = "data" /\ op \in {"read", "recv", "readv"}
      /\ inbox' = [inbox EXCEPT ![fd] = @ - Moved(rv)]
      /\ total' = total + Moved(rv) /\ taken' = taken + Moved(rv)
      /\ ReadOutcome(rv)
      /\ UNCHANGED <<room, dead, nonblock, now, op, select, fd, iov>>
  BY DEF Read
<1>2. /\ fd \in VFds /\ fd \in AllFds /\ iov \in Iovs /\ at \in 1 .. Len(iov) /\ Len(iov) \in Nat
      /\ taken = total /\ total \in Nat /\ inbox[fd] \in 0 .. MaxIn /\ iov[at] \in Nat \ {0}
  <2>1. fd \in VFds /\ iov \in Iovs /\ at \in 1 .. Len(iov) /\ taken = total /\ total \in Nat
    BY <1>1 DEF IoInv, Moving, TypeOK
  <2>2. iov \in Seq(Nat \ {0})
    BY <2>1, VcomIoConstants
  <2>3. QED BY <2>1, <2>2 DEF IoInv, TypeOK, AllFds
<1>3. (rv \in Nat \ {0} /\ rv <= inbox[fd]) \/ (rv \in {ECONNRESET, EAGAIN})
  BY <1>2, VcomIoConstants DEF session_read, Least
<1>4. rv \in Int /\ Moved(rv) \in 0 .. inbox[fd] /\ (rv >= 0 => Moved(rv) = rv) /\ (rv < 0 => Moved(rv) = 0)
  BY <1>2, <1>3, VcomIoConstants DEF Moved, ECONNRESET, EAGAIN
<1> HIDE DEF rv
<1>5. inbox' \in [AllFds -> 0 .. MaxIn] /\ room' \in [VFds -> 0 .. MaxOut]
  <2>1. inbox[fd] - Moved(rv) \in 0 .. MaxIn
    BY <1>2, <1>4, VcomIoConstants
  <2>2. QED BY <1>1, <2>1 DEF IoInv, TypeOK
<1>6. \/ pc' = pc /\ ret' = ret /\ at' \in 1 .. Len(iov)
      \/ /\ pc' = "return" /\ ret' \in Int /\ at' = at
         /\ taken' = (IF ret' > 0 THEN ret' ELSE 0)
         /\ ret' = EAGAIN => ~Blocking
  <2>1. CASE rv = iov[at] /\ at < Len(iov) /\ GoOn(at + 1)
    BY <1>2, <2>1 DEF GoOn
  <2>2. CASE rv >= 0 /\ Return(total + rv)
    <3>1. pc' = "return" /\ ret' = total + rv /\ at' = at
      BY <2>2 DEF Return
    <3>2. rv \in Nat /\ total \in Nat /\ Moved(rv) = rv
      BY <1>2, <1>4, <2>2
    <3>3. taken' = total + rv /\ total + rv \in Nat
      BY <1>1, <1>2, <3>2
    <3>4. total + rv # EAGAIN
      BY <3>3 DEF EAGAIN
    <3>5. QED BY <3>1, <3>3, <3>4
  <2>3. CASE GoOn(1)
    BY <1>2, <2>3 DEF GoOn
  <2>4. CASE /\ rv < 0 /\ ~(rv = EAGAIN /\ Blocking /\ total = 0)
             /\ Return(IF total > 0 \/ (op = "readv" /\ Blocking) THEN total ELSE rv)
    <3>1. CASE total > 0 \/ (op = "readv" /\ Blocking)
      <4>1. pc' = "return" /\ ret' = total /\ at' = at /\ taken' = total
        BY <1>1, <1>2, <1>4, <2>4, <3>1 DEF Return
      <4>2. total # EAGAIN
        BY <1>2 DEF EAGAIN
      <4>3. QED BY <1>2, <4>1, <4>2
    <3>2. CASE ~(total > 0 \/ (op = "readv" /\ Blocking))
      <4>1. pc' = "return" /\ ret' = rv /\ at' = at /\ taken' = 0 /\ total = 0
        BY <1>1, <1>2, <1>4, <2>4, <3>2 DEF Return
      <4>2. QED BY <1>4, <2>4, <4>1
    <3>3. QED BY <3>1, <3>2
  <2>5. QED BY <1>1, <2>1, <2>2, <2>3, <2>4 DEF ReadOutcome
<1>7. QED BY <1>1, <1>4, <1>5, <1>6, MoveKeeps

\* One buffer is written.
LEMMA WriteKeeps ==
    ASSUME IoInv, Write
    PROVE  IoInv'
<1> DEFINE rv == session_write(iov[at])
<1>1. /\ pc = "data" /\ op \in {"write", "writev"}
      /\ room' = [room EXCEPT ![fd] = @ - Moved(rv)]
      /\ total' = total + Moved(rv) /\ taken' = taken + Moved(rv)
      /\ WriteOutcome(rv)
      /\ UNCHANGED <<inbox, dead, nonblock, now, op, select, fd, iov>>
  BY DEF Write
<1>2. /\ fd \in VFds /\ iov \in Iovs /\ at \in 1 .. Len(iov) /\ Len(iov) \in Nat
      /\ taken = total /\ total \in Nat /\ room[fd] \in 0 .. MaxOut /\ iov[at] \in Nat \ {0}
  <2>1. fd \in VFds /\ iov \in Iovs /\ at \in 1 .. Len(iov) /\ taken = total /\ total \in Nat
    BY <1>1 DEF IoInv, Moving, TypeOK
  <2>2. iov \in Seq(Nat \ {0})
    BY <2>1, VcomIoConstants
  <2>3. QED BY <2>1, <2>2 DEF IoInv, TypeOK
<1>3. (rv \in Nat \ {0} /\ rv <= room[fd]) \/ (rv \in {ECONNRESET, EAGAIN})
  BY <1>2, VcomIoConstants DEF session_write, Least
<1>4. rv \in Int /\ Moved(rv) \in 0 .. room[fd] /\ (rv >= 0 => Moved(rv) = rv) /\ (rv < 0 => Moved(rv) = 0)
  BY <1>2, <1>3, VcomIoConstants DEF Moved, ECONNRESET, EAGAIN
<1> HIDE DEF rv
<1>5. inbox' \in [AllFds -> 0 .. MaxIn] /\ room' \in [VFds -> 0 .. MaxOut]
  <2>1. room[fd] - Moved(rv) \in 0 .. MaxOut
    BY <1>2, <1>4, VcomIoConstants
  <2>2. QED BY <1>1, <2>1 DEF IoInv, TypeOK
<1>6. ~Blocking
  BY <1>1 DEF Blocking
<1>7. \/ pc' = pc /\ ret' = ret /\ at' \in 1 .. Len(iov)
      \/ /\ pc' = "return" /\ ret' \in Int /\ at' = at
         /\ taken' = (IF ret' > 0 THEN ret' ELSE 0)
  <2>1. CASE rv >= 0 /\ at < Len(iov) /\ GoOn(at + 1)
    BY <1>2, <2>1 DEF GoOn
  <2>2. CASE rv >= 0 /\ at = Len(iov) /\ Return(total + rv)
    <3>1. pc' = "return" /\ ret' = total + rv /\ at' = at
      BY <2>2 DEF Return
    <3>2. rv \in Nat /\ total \in Nat /\ Moved(rv) = rv
      BY <1>2, <1>4, <2>2
    <3>3. taken' = total + rv /\ total + rv \in Nat
      BY <1>1, <1>2, <3>2
    <3>4. QED BY <3>1, <3>3
  <2>3. CASE rv < 0 /\ Return(IF total > 0 THEN total ELSE rv)
    BY <1>1, <1>2, <1>4, <2>3 DEF Return
  <2>4. QED BY <1>1, <2>1, <2>2, <2>3 DEF WriteOutcome
<1>8. QED BY <1>1, <1>4, <1>5, <1>6, <1>7, MoveKeeps

-----------------------------------------------------------------------------
\* Every state the specification reaches satisfies the invariant.
THEOREM IoHolds == Spec => []IoInv
<1>1. Init => IoInv
  <2> SUFFICES ASSUME Init PROVE IoInv
    OBVIOUS
  <2>1. Cardinality(VBits) \in Nat /\ Cardinality(LBits) \in Nat
    BY FiniteBits, FS_CardinalityType
  <2>2. TypeOK
    BY <2>1, VcomIoConstants DEF Init, TypeOK
  <2>3. Calls /\ Polled /\ Moving /\ Results
    BY DEF Init, Calls, Polled, Moving, Results, ResultExact, SteadyReported, BytesAccounted, Selected
  <2>4. QED BY <2>2, <2>3 DEF IoInv
<1>2. IoInv /\ [Next]_vars => IoInv'
  <2> SUFFICES ASSUME IoInv, [Next]_vars PROVE IoInv'
    OBVIOUS
  <2>1. CASE Step
    BY <2>1, TakeKeeps, SleepKeeps, PollVcomKeeps, PollLibcKeeps, CheckKeeps, PselectKeeps,
       ReadKeeps, WriteKeeps DEF Step
  <2>2. CASE Call
    BY <2>2, CallKeeps
  <2>3. CASE Other
    BY <2>3, WorldKeeps
  <2>4. CASE UNCHANGED vars
    <3>1. /\ inbox' = inbox /\ room' = room /\ dead' = dead /\ nonblock' = nonblock /\ now' = now
          /\ pc' = pc /\ op' = op /\ ret' = ret
          /\ asked' = asked /\ sets' = sets /\ vsets' = vsets /\ lsets' = lsets
          /\ vn' = vn /\ ln' = ln /\ end' = end /\ left' = left /\ seen' = seen
          /\ steady' = steady /\ first' = first
          /\ fd' = fd /\ iov' = iov /\ at' = at /\ total' = total /\ taken' = taken
      BY <2>4 DEF vars, peer, select, data
    <3>2. TypeOK'
      BY <3>1 DEF IoInv, TypeOK
    <3>3. Calls' /\ Moving'
      BY <3>1 DEF IoInv, Calls, Moving
    <3>4. Polled'
      BY <3>1 DEF IoInv, Polled, Vcom, Ready
    <3>5. Results'
      BY <3>1 DEF IoInv, Results, ResultExact, SteadyReported, BytesAccounted, Selected, Result, NoneOfOurs, Blocking
    <3>6. QED BY <3>2, <3>3, <3>4, <3>5 DEF IoInv
  <2>5. QED BY <2>1, <2>2, <2>3, <2>4 DEF Next
<1>3. QED BY <1>1, <1>2, PTL DEF Spec

\* The variables keep their types.
THEOREM TypeCorrect == Spec => []TypeOK
<1>1. IoInv => TypeOK
  BY DEF IoInv
<1>2. QED BY <1>1, IoHolds, PTL

\* The number select returns is that of the bits it returns, and these are the
\* bits seen ready in its last round, or, when none of the library's was, the
\* kernel's that were and all of the library's (vcom_select: vcom.c).
THEOREM SelectExact == Spec => []ResultExact
<1>1. IoInv => ResultExact
  BY DEF IoInv, Results
<1>2. QED BY <1>1, IoHolds, PTL

\* What was ready all through the last round is returned (vcom_select).
THEOREM SelectComplete == Spec => []SteadyReported
<1>1. IoInv => SteadyReported
  BY DEF IoInv, Results
<1>2. QED BY <1>1, IoHolds, PTL

\* Bytes that went through the session are returned, over all the buffers of a
\* vector, also when a later one fails (vcom_socket_readv and its kin).
THEOREM BytesExact == Spec => []BytesAccounted
<1>1. IoInv => BytesAccounted
  BY DEF IoInv, Results
<1>2. QED BY <1>1, IoHolds, PTL
=============================================================================
