-------------------------- MODULE FlowTableProofs --------------------------
(***************************************************************************)
(* Proofs about the flow table, for any number of keys and flows, any size *)
(* of the wheel and any jumps of the clock.                                *)
(***************************************************************************)
EXTENDS FlowTable, FiniteSetTheorems, TLAPS

\* Quotient and remainder.
LEMMA DivMod ==
  ASSUME NEW W \in Nat \ {0}, NEW a \in Nat
  PROVE  /\ a % W \in 0 .. W - 1 /\ a \div W \in Nat
         /\ a = W * (a \div W) + (a % W)
<1>1. a % W \in 0 .. W - 1
  OBVIOUS
<1>2. a \div W \in Int
  OBVIOUS
<1>3. a = W * (a \div W) + (a % W)
  OBVIOUS
<1>4. a \div W \in Nat
  <2> DEFINE q == a \div W
             r == a % W
  <2>1. q \in Int /\ r \in 0 .. W - 1 /\ a = W * q + r
    BY <1>1, <1>2, <1>3
  <2> HIDE DEF q, r
  <2>2. W * (q + 1) = W * q + W
    BY <2>1
  <2>3. W * (q + 1) > 0
    BY <2>1, <2>2
  <2>4. q + 1 > 0
    BY <2>1, <2>3
  <2>5. q \in Nat
    BY <2>1, <2>4
  <2>6. QED BY <2>5 DEF q
<1>5. QED BY <1>1, <1>2, <1>3, <1>4

\* Two numbers less than one turn of the wheel apart have different slots.
LEMMA SlotUnique ==
  ASSUME NEW W \in Nat \ {0}, NEW a \in Nat, NEW b \in Nat,
         a <= b, b < a + W, a % W = b % W
  PROVE  a = b
<1> DEFINE p == a \div W
           q == b \div W
           r == a % W
<1>1. p \in Nat /\ q \in Nat /\ r \in Nat /\ a = W * p + r /\ b = W * q + r
  <2> DEFINE rb == b % W
  <2>1. p \in Nat /\ r \in 0 .. W - 1 /\ a = W * p + r
    BY DivMod
  <2>2. q \in Nat /\ rb \in 0 .. W - 1 /\ b = W * q + rb
    BY DivMod
  <2>3. r = rb
    OBVIOUS
  <2> HIDE DEF p, q, r, rb
  <2>4. QED BY <2>1, <2>2, <2>3
<1> HIDE DEF p, q, r
<1>2. W * q - W * p < W /\ W * q - W * p >= 0
  BY <1>1
<1>3. W * (q - p) = W * q - W * p
  BY <1>1
<1>4. q - p < 1 /\ q - p > -1
  BY <1>1, <1>2, <1>3
<1>5. p = q
  BY <1>1, <1>4
<1>6. QED BY <1>1, <1>5

\* The slot of a second counted from the slot of another.
LEMMA SlotAdd ==
  ASSUME NEW W \in Nat \ {0}, NEW a \in Nat, NEW l \in Nat
  PROVE  ((a % W) + l) % W = (a + l) % W
<1> DEFINE p == a \div W
           r == a % W
           q == (r + l) \div W
           s == (r + l) % W
<1>1. p \in Nat /\ r \in Nat /\ a = W * p + r
  BY DivMod
<1>2. r + l \in Nat
  BY <1>1
<1>3. q \in Nat /\ s \in 0 .. W - 1 /\ r + l = W * q + s
  BY <1>2, DivMod
<1> DEFINE u == (a + l) \div W
           v == (a + l) % W
<1>4. u \in Nat /\ v \in 0 .. W - 1 /\ a + l = W * u + v
  <2>1. a + l \in Nat
    OBVIOUS
  <2>2. QED BY <2>1, DivMod
<1> HIDE DEF p, q, r, s, u, v
<1>5. a + l = W * (p + q) + s
  BY <1>1, <1>3
<1>6. W * (u - (p + q)) = s - v
  BY <1>1, <1>3, <1>4, <1>5
<1>7. u - (p + q) < 1 /\ u - (p + q) > -1
  BY <1>1, <1>3, <1>4, <1>6
<1>8. s = v
  BY <1>1, <1>3, <1>4, <1>6, <1>7
<1>9. QED BY <1>8 DEF s, v, r

-----------------------------------------------------------------------------
\* A flow that is put into the wheel is in one slot: that of its last second.
LEMMA InsertedSlots ==
  ASSUME TypeOK, NEW f \in Flows, NEW l \in Nat, timeIndex \in Slots
  PROVE  LET r == (timeIndex + l) % Wheel
         IN  /\ r \in Slots
             /\ Inserted(f, l) \in [Slots -> SUBSET Flows]
             /\ \A s \in Slots : \A g \in Flows :
                  g \in Inserted(f, l)[s] <=> IF g = f THEN s = r ELSE g \in wheel[s]
<1> DEFINE r == (timeIndex + l) % Wheel
<1>1. timeIndex + l \in Nat
  BY FlowConstants DEF Slots
<1>2. r \in Slots
  BY <1>1, DivMod, FlowConstants DEF Slots
<1> HIDE DEF r
<1>3. Inserted(f, l) = [s \in Slots |-> IF s = r THEN wheel[s] \cup {f}
                                                ELSE wheel[s] \ {f}]
  BY DEF Inserted, r
<1>4. /\ Inserted(f, l) \in [Slots -> SUBSET Flows]
      /\ \A s \in Slots : \A g \in Flows :
           g \in Inserted(f, l)[s] <=> IF g = f THEN s = r ELSE g \in wheel[s]
  BY <1>2, <1>3 DEF TypeOK
<1>5. QED BY <1>2, <1>4 DEF r

\* When a flow is due is a second, and for a lifetime of less than one turn of
\* the wheel the second it expires.
LEMMA DueType ==
  ASSUME TypeOK, WheelDue, NEW f \in Flows
  PROVE  /\ DueAt(f) \in Nat
         /\ expire[f] - seen[f] < Wheel => DueAt(f) = expire[f]
<1> DEFINE d == expire[f] - seen[f]
           r == d % Wheel
           k == d \div Wheel
<1>1. d \in Nat /\ seen[f] \in Nat /\ expire[f] = seen[f] + d
  BY DEF TypeOK, WheelDue
<1>2. r \in 0 .. Wheel - 1 /\ k \in Nat /\ d = Wheel * k + r
  BY <1>1, DivMod, FlowConstants
<1>3. DueAt(f) = seen[f] + r
  BY DEF DueAt
<1> HIDE DEF d, r, k
<1>4. d < Wheel => k = 0
  <2>1. SUFFICES ASSUME d < Wheel, k >= 1 PROVE FALSE
    BY <1>2
  <2>2. Wheel * k = Wheel * (k - 1) + Wheel /\ Wheel * (k - 1) >= 0
    BY <1>2, <2>1, FlowConstants
  <2>3. QED BY <1>2, <2>1, <2>2, FlowConstants
<1>5. d < Wheel => d = r
  BY <1>2, <1>4, FlowConstants
<1>6. QED BY <1>1, <1>2, <1>3, <1>5 DEF d

\* While a frame is processed the wheel stands at its second.
LEMMA InFrame ==
  ASSUME FlowInv, left # None \/ flows # {}
  PROVE  timeIndex \in Slots /\ timeIndex = now % Wheel
  BY DEF FlowInv, TypeOK, WheelDue

\* The empty table.
LEMMA FlowInit == Init => FlowInv
<1> SUFFICES ASSUME Init PROVE FlowInv
  OBVIOUS
<1>2. TypeOK
  <2>1. lifetime \in [Flows -> Nat] /\ expire \in [Flows -> Nat] /\ seen \in [Flows -> Nat]
    BY DEF Init
  <2>2. line \in [Keys -> SUBSET Flows] /\ wheel \in [Slots -> SUBSET Flows]
    BY DEF Init
  <2>3. /\ flows \subseteq Flows /\ flowsCpt \in Int
        /\ key \in [Flows -> Keys] /\ hashed \subseteq Keys
    BY DEF Init
  <2>4. /\ timeIndex \in Slots \cup {None} /\ now \in Nat
        /\ left \in Nat \cup {None}
    BY DEF Init
  <2>5. wild \in BOOLEAN /\ late \in BOOLEAN
    BY DEF Init
  <2>6. QED BY <2>1, <2>2, <2>3, <2>4, <2>5 DEF TypeOK
<1>3. Cardinality(flows) = 0
  BY FS_EmptySet DEF Init
<1>4. InAllOrNone
  BY <1>3 DEF Init, InAllOrNone
<1>5. WheelDue /\ NoneOverdue /\ OnTime
  BY DEF Init, WheelDue, NoneOverdue, OnTime
<1>6. QED BY <1>2, <1>4, <1>5 DEF FlowInv

\* There are finitely many flows.
LEMMA FiniteFlows == \A S \in SUBSET Flows : IsFiniteSet(S)
<1>1. IsFiniteSet(Flows)
  BY FS_Interval, FlowConstants DEF Flows
<1>2. QED BY <1>1, FS_Subset

\* The types.
LEMMA FlowTypes == FlowInv /\ [Next]_vars => TypeOK'
<1> SUFFICES ASSUME FlowInv, [Next]_vars PROVE TypeOK'
  OBVIOUS
<1>p. TypeOK
  BY DEF FlowInv
<1>0. CASE UNCHANGED vars
  BY <1>p, <1>0 DEF vars, table, frame, TypeOK
<1>1. ASSUME NEW n \in 1 .. Burst, NEW t \in now .. MaxNow, FrameStart(n, t)
      PROVE  TypeOK'
  <2>1. t \in Nat /\ n \in Nat
    BY <1>p, FlowConstants DEF TypeOK
  <2>2. t % Wheel \in Slots
    BY <2>1, DivMod, FlowConstants DEF Slots
  <2>3. timeIndex' \in Slots /\ wheel' \in [Slots -> SUBSET Flows]
    BY <1>p, <1>1, <2>2 DEF FrameStart, IndexUpdate, TypeOK
  <2>4. late' \in BOOLEAN
    BY <1>1 DEF FrameStart
  <2>5. QED BY <1>p, <1>1, <2>1, <2>3, <2>4 DEF FrameStart, TypeOK
<1>2. CASE Other
  BY <1>p, <1>2, FlowConstants DEF Other, Packet, Taken, table, TypeOK
<1>3. ASSUME NEW k \in Keys, NEW f \in Flows, Hit(k, f) PROVE TypeOK'
  <2>1. left \in Nat \ {0} /\ left' = left - 1
    BY <1>p, <1>3 DEF Hit, Packet, Taken, TypeOK
  <2>2. lifetime[f] \in Nat /\ now \in Nat /\ now + lifetime[f] \in Nat
    BY <1>p DEF TypeOK
  <2>3. wheel' \in [Slots -> SUBSET Flows]
    BY <1>p, <1>3, <2>2, InFrame, InsertedSlots DEF Hit, Packet, Resched
  <2>4. expire' \in [Flows -> Nat] /\ seen' \in [Flows -> Nat]
    BY <1>p, <1>3, <2>2 DEF Hit, Resched, TypeOK
  <2>5. QED BY <1>p, <1>3, <2>1, <2>3, <2>4 DEF Hit, Taken, TypeOK
<1>4. ASSUME NEW k \in Keys, NEW f \in Flows, Create(k, f) PROVE TypeOK'
  <2>1. left \in Nat \ {0} /\ left' = left - 1
    BY <1>p, <1>4 DEF Create, Packet, Taken, TypeOK
  <2>2. Default \in Nat /\ now \in Nat /\ now + Default \in Nat
    BY <1>p, FlowConstants DEF TypeOK
  <2>3. wheel' \in [Slots -> SUBSET Flows]
    BY <1>p, <1>4, <2>2, InFrame, InsertedSlots DEF Create, Packet
  <2>4. /\ expire' \in [Flows -> Nat] /\ lifetime' \in [Flows -> Nat]
        /\ seen' \in [Flows -> Nat]
        /\ key' \in [Flows -> Keys] /\ line' \in [Keys -> SUBSET Flows]
        /\ flowsCpt' \in Int
    BY <1>p, <1>4, <2>2 DEF Create, TypeOK
  <2>5. QED BY <1>p, <1>4, <2>1, <2>3, <2>4 DEF Create, Taken, TypeOK
<1>5. ASSUME NEW k \in Keys, AllocFails(k) PROVE TypeOK'
  BY <1>p, <1>5 DEF AllocFails, frame, TypeOK
<1>6. ASSUME NEW k \in Keys, OffPool(k) PROVE TypeOK'
  BY <1>p, <1>6 DEF OffPool, table, frame, TypeOK
<1>7. ASSUME NEW S \in SUBSET Flows, FrameEnd(S) PROVE TypeOK'
  <2>1. Cardinality(S) \in Nat
    BY FiniteFlows, FS_CardinalityType
  <2>2. flowsCpt' \in Int /\ late' \in BOOLEAN
    BY <1>p, <1>7, <2>1 DEF FrameEnd, Remove, TypeOK
  <2>3. /\ line' \in [Keys -> SUBSET Flows] /\ hashed' \subseteq Keys
        /\ wheel' \in [Slots -> SUBSET Flows] /\ flows' \subseteq Flows
    BY <1>p, <1>7 DEF FrameEnd, Remove, TypeOK
  <2>4. QED BY <1>p, <1>7, <2>2, <2>3 DEF FrameEnd, TypeOK
<1>8. ASSUME NEW k \in Keys, NEW f \in Flows, NEW l \in Lifetimes, Update(k, f, l)
      PROVE  TypeOK'
  BY <1>p, <1>8, FlowConstants DEF Update, frame, TypeOK
<1>9. QED
  BY <1>0, <1>1, <1>2, <1>3, <1>4, <1>5, <1>6, <1>7, <1>8 DEF Next

\* The pool, the lines and the wheel.
LEMMA FlowAllOrNone == FlowInv /\ [Next]_vars => InAllOrNone'
<1> SUFFICES ASSUME FlowInv, [Next]_vars PROVE InAllOrNone'
  OBVIOUS
<1>p. TypeOK /\ InAllOrNone
  BY DEF FlowInv
<1>0. CASE UNCHANGED vars
  BY <1>p, <1>0 DEF vars, table, frame, InAllOrNone
<1>1. ASSUME NEW n \in 1 .. Burst, NEW t \in now .. MaxNow, FrameStart(n, t)
      PROVE  InAllOrNone'
  <2>1. t % Wheel \in Slots
    BY <1>p, DivMod, FlowConstants DEF Slots, TypeOK
  <2>2. /\ \A f \in flows : \E s \in Slots : f \in wheel'[s]
        /\ \A s \in Slots : wheel'[s] \subseteq flows
        /\ \A s, r \in Slots : s # r => wheel'[s] \cap wheel'[r] = {}
    <3>1. CASE timeIndex = None \/ timeIndex = t % Wheel
      BY <1>p, <1>1, <3>1 DEF FrameStart, IndexUpdate, InAllOrNone
    <3>2. CASE timeIndex # None /\ timeIndex # t % Wheel
      <4> DEFINE r == t % Wheel
      <4>1. r \in Slots /\ timeIndex \in Slots /\ r # timeIndex
        BY <1>p, <2>1, <3>2 DEF TypeOK
      <4>2. wheel' = [wheel EXCEPT ![r] = @ \cup wheel[timeIndex],
                                   ![timeIndex] = {}]
        BY <1>1, <3>2 DEF FrameStart, IndexUpdate
      <4> HIDE DEF r
      <4>3. \A s \in Slots :
              wheel'[s] = IF s = timeIndex THEN {}
                          ELSE IF s = r THEN wheel[r] \cup wheel[timeIndex]
                          ELSE wheel[s]
        BY <1>p, <4>1, <4>2 DEF TypeOK
      <4>4. QED BY <1>p, <4>1, <4>3 DEF InAllOrNone
    <3>3. QED BY <3>1, <3>2
  <2>3. QED BY <1>p, <1>1, <2>2 DEF FrameStart, InAllOrNone
<1>2. CASE Other
  BY <1>p, <1>2 DEF Other, table, InAllOrNone
<1>3. ASSUME NEW k \in Keys, NEW f \in Flows, Hit(k, f) PROVE InAllOrNone'
  <2>1. f \in flows
    BY <1>p, <1>3 DEF Hit, InAllOrNone
  <2>i. PICK l \in Nat : timeIndex \in Slots /\ wheel' = Inserted(f, l)
    BY <1>p, <1>3, InFrame, FlowConstants DEF Hit, Packet, Resched, TypeOK
  <2>2. PICK r \in Slots :
          \A s \in Slots : \A g \in Flows :
            g \in wheel'[s] <=> IF g = f THEN s = r ELSE g \in wheel[s]
    BY <1>p, <2>i, InsertedSlots
  <2>3. wheel' \in [Slots -> SUBSET Flows]
    BY FlowTypes DEF TypeOK
  <2>4. /\ \A g \in flows : \E s \in Slots : g \in wheel'[s]
        /\ \A s \in Slots : wheel'[s] \subseteq flows
        /\ \A s, q \in Slots : s # q => wheel'[s] \cap wheel'[q] = {}
    BY <1>p, <2>1, <2>2, <2>3 DEF TypeOK, InAllOrNone
  <2>5. QED BY <1>p, <1>3, <2>4 DEF Hit, InAllOrNone
<1>4. ASSUME NEW k \in Keys, NEW f \in Flows, Create(k, f) PROVE InAllOrNone'
  <2>1. flows' = flows \cup {f} /\ f \notin flows
    BY <1>4 DEF Create
  <2>i. Default \in Nat /\ timeIndex \in Slots /\ wheel' = Inserted(f, Default)
    BY <1>p, <1>4, InFrame, FlowConstants DEF Create, Packet, TypeOK
  <2>2. PICK r \in Slots :
          \A s \in Slots : \A g \in Flows :
            g \in wheel'[s] <=> IF g = f THEN s = r ELSE g \in wheel[s]
    BY <1>p, <2>i, InsertedSlots
  <2>3. wheel' \in [Slots -> SUBSET Flows]
    BY FlowTypes DEF TypeOK
  <2>4. /\ \A g \in flows' : \E s \in Slots : g \in wheel'[s]
        /\ \A s \in Slots : wheel'[s] \subseteq flows'
        /\ \A s, q \in Slots : s # q => wheel'[s] \cap wheel'[q] = {}
    BY <1>p, <2>1, <2>2, <2>3 DEF TypeOK, InAllOrNone
  <2>5. flowsCpt' = Cardinality(flows')
    <3>1. IsFiniteSet(flows)
      BY <1>p, FiniteFlows DEF TypeOK
    <3>2. Cardinality(flows \cup {f}) = Cardinality(flows) + 1
      BY <2>1, <3>1, FS_AddElement
    <3>3. QED BY <1>p, <1>4, <2>1, <3>2 DEF Create, InAllOrNone
  <2>6. /\ \A q \in Keys : line'[q] = {g \in flows' : key'[g] = q}
        /\ \A g \in flows' : key'[g] \in hashed'
    BY <1>p, <1>4 DEF Create, TypeOK, InAllOrNone
  <2>7. QED BY <2>4, <2>5, <2>6 DEF InAllOrNone
<1>5. ASSUME NEW k \in Keys, AllocFails(k) PROVE InAllOrNone'
  BY <1>p, <1>5 DEF AllocFails, InAllOrNone
<1>6. ASSUME NEW k \in Keys, OffPool(k) PROVE InAllOrNone'
  BY <1>p, <1>6 DEF OffPool, table, InAllOrNone
<1>7. ASSUME NEW S \in SUBSET Flows, FrameEnd(S) PROVE InAllOrNone'
  <2>1. timeIndex \in Slots /\ S \subseteq wheel[timeIndex]
    BY <1>7, InFrame, FlowConstants DEF FrameEnd
  <2>2. S \subseteq flows /\ flows' = flows \ S
    BY <1>p, <1>7, <2>1 DEF FrameEnd, Remove, InAllOrNone
  <2>3. flowsCpt' = Cardinality(flows')
    <3>1. flows \cap S = S /\ IsFiniteSet(flows)
      BY <1>p, <2>2, FiniteFlows DEF TypeOK
    <3>2. Cardinality(flows \ S) = Cardinality(flows) - Cardinality(S)
      BY <3>1, FS_Difference
    <3>3. QED BY <1>p, <1>7, <2>2, <3>2 DEF FrameEnd, Remove, InAllOrNone
  <2>4. \A s \in Slots :
          wheel'[s] = IF s = timeIndex THEN wheel[s] \ S ELSE wheel[s]
    BY <1>p, <1>7, <2>1 DEF FrameEnd, TypeOK
  <2>5. /\ \A g \in flows' : \E s \in Slots : g \in wheel'[s]
        /\ \A s \in Slots : wheel'[s] \subseteq flows'
        /\ \A s, q \in Slots : s # q => wheel'[s] \cap wheel'[q] = {}
    <3>1. \A g \in flows' : \E s \in Slots : g \in wheel'[s]
      <4>1. TAKE g \in flows'
      <4>2. PICK s \in Slots : g \in wheel[s]
        BY <1>p, <2>2 DEF InAllOrNone
      <4>3. QED BY <2>2, <2>4, <4>2
    <3>2. ASSUME NEW s \in Slots PROVE wheel'[s] \subseteq flows'
      <4>1. wheel[s] \subseteq flows
        BY <1>p DEF InAllOrNone
      <4>2. s # timeIndex => wheel[s] \cap wheel[timeIndex] = {}
        BY <1>p, <2>1 DEF InAllOrNone
      <4>3. QED BY <2>1, <2>2, <2>4, <4>1, <4>2
    <3>3. ASSUME NEW s \in Slots, NEW q \in Slots, s # q
          PROVE  wheel'[s] \cap wheel'[q] = {}
      <4>1. wheel[s] \cap wheel[q] = {}
        BY <1>p, <3>3 DEF InAllOrNone
      <4>2. QED BY <2>4, <4>1
    <3>4. QED BY <3>1, <3>2, <3>3
  <2>6. /\ \A q \in Keys : line'[q] = {g \in flows' : key'[g] = q}
        /\ \A g \in flows' : key'[g] \in hashed'
    <3>1. /\ line' = [q \in Keys |-> line[q] \ S] /\ key' = key
          /\ hashed' = {q \in hashed : line[q] \cap S = {} \/ line[q] \ S # {}}
      BY <1>7 DEF FrameEnd, Remove
    <3>2. \A q \in Keys : line'[q] = {g \in flows' : key'[g] = q}
      BY <1>p, <2>2, <3>1 DEF InAllOrNone
    <3>3. ASSUME NEW g \in flows' PROVE key'[g] \in hashed'
      <4>1. g \in line[key[g]] /\ g \notin S /\ key[g] \in hashed
        BY <1>p, <2>2 DEF InAllOrNone, TypeOK
      <4>2. QED BY <3>1, <4>1
    <3>4. QED BY <3>2, <3>3
  <2>7. QED BY <2>3, <2>5, <2>6 DEF InAllOrNone
<1>8. ASSUME NEW k \in Keys, NEW f \in Flows, NEW l \in Lifetimes, Update(k, f, l)
      PROVE  InAllOrNone'
  BY <1>p, <1>8 DEF Update, InAllOrNone
<1>9. QED
  BY <1>0, <1>1, <1>2, <1>3, <1>4, <1>5, <1>6, <1>7, <1>8 DEF Next

\* A flow that is put into the wheel now is due when its lifetime, less its
\* whole turns, is over, and in the slot of that second.
LEMMA InsertedDue ==
  ASSUME FlowInv, NEW f \in Flows, NEW l \in Nat, left # None \/ flows # {},
         expire' = [expire EXCEPT ![f] = now + l], now' = now,
         seen' = [seen EXCEPT ![f] = now], wheel' = Inserted(f, l)
  PROVE  /\ \A g \in Flows : seen'[g] <= expire'[g]
         /\ \A s \in Slots : \A g \in wheel'[s] : Due(g, s)'
         /\ DueAt(f)' \in Nat /\ DueAt(f)' >= now
         /\ \A g \in Flows \ {f} : DueAt(g)' = DueAt(g)
<1>p. TypeOK /\ WheelDue
  BY DEF FlowInv
<1>1. timeIndex \in Slots /\ timeIndex = now % Wheel
  BY InFrame
<1> DEFINE r == l % Wheel
<1>2. now \in Nat /\ r \in 0 .. Wheel - 1
  BY <1>p, DivMod, FlowConstants DEF TypeOK
<1>3. (timeIndex + l) % Wheel = (now + r) % Wheel
  <2>1. (timeIndex + l) % Wheel = (now + l) % Wheel
    BY <1>1, <1>2, SlotAdd, FlowConstants
  <2>2. (r + now) % Wheel = (l + now) % Wheel
    BY <1>2, SlotAdd, FlowConstants
  <2>3. r + now = now + r /\ l + now = now + l
    BY <1>2
  <2>4. QED BY <2>1, <2>2, <2>3
<1>4. /\ wheel' \in [Slots -> SUBSET Flows]
      /\ \A s \in Slots : \A g \in Flows :
           g \in wheel'[s] <=> IF g = f THEN s = (now + r) % Wheel
                                      ELSE g \in wheel[s]
  BY <1>p, <1>1, <1>3, InsertedSlots
<1>5. DueAt(f)' = now + r
  <2>1. expire'[f] = now + l /\ seen'[f] = now /\ (now + l) - now = l
    BY <1>p, <1>2 DEF TypeOK
  <2>2. QED BY <2>1 DEF DueAt
<1>6. \A g \in Flows \ {f} : DueAt(g)' = DueAt(g)
  BY <1>p DEF DueAt, TypeOK
<1>7. \A g \in Flows : seen'[g] <= expire'[g]
  BY <1>p, <1>2 DEF TypeOK, WheelDue
<1> HIDE DEF r
<1>8. now + r \in Nat /\ now <= now + r /\ now + r < now + Wheel
  BY <1>2, FlowConstants
<1>9. ASSUME NEW s \in Slots, NEW g \in Flows, g \in wheel'[s] PROVE Due(g, s)'
  <2>1. CASE g = f
    BY <1>4, <1>5, <1>8, <1>9, <2>1 DEF Due
  <2>2. CASE g # f
    <3>1. Due(g, s)
      BY <1>p, <1>4, <1>9, <2>2 DEF WheelDue
    <3>2. QED BY <1>6, <2>2, <3>1 DEF Due
  <2>3. QED BY <2>1, <2>2
<1>10. QED BY <1>4, <1>5, <1>6, <1>7, <1>8, <1>9

\* The wheel and the clock.
LEMMA FlowWheel == FlowInv /\ [Next]_vars => (WheelDue /\ NoneOverdue /\ OnTime)'
<1> SUFFICES ASSUME FlowInv, [Next]_vars PROVE (WheelDue /\ NoneOverdue /\ OnTime)'
  OBVIOUS
<1>p. TypeOK /\ InAllOrNone /\ WheelDue /\ NoneOverdue /\ OnTime
  BY DEF FlowInv
<1>0. CASE UNCHANGED vars
  BY <1>p, <1>0 DEF vars, table, frame, WheelDue, Due, DueAt, NoneOverdue, OnTime
<1>1. ASSUME NEW n \in 1 .. Burst, NEW t \in now .. MaxNow, FrameStart(n, t)
      PROVE  (WheelDue /\ NoneOverdue /\ OnTime)'
  <2>1. /\ t \in Nat /\ now \in Nat /\ now <= t /\ now' = t
        /\ flows' = flows /\ expire' = expire /\ seen' = seen
        /\ timeIndex' = t % Wheel /\ t % Wheel \in Slots
        /\ left = None /\ left' # None
    BY <1>p, <1>1, DivMod, FlowConstants
       DEF FrameStart, IndexUpdate, TypeOK, Slots
  <2>2. /\ \A f \in flows : f \in Flows
        /\ \A s \in Slots : wheel[s] \subseteq flows
    BY <1>p DEF TypeOK, InAllOrNone
  <2>d. \A f \in Flows : DueAt(f) \in Nat /\ DueAt(f)' = DueAt(f)
    BY <1>p, <2>1, DueType DEF DueAt
  <2>3. \A s \in Slots : \A f \in wheel[s] : Due(f, s)'
    BY <1>p, <2>1, <2>2, <2>d, FlowConstants DEF Due, WheelDue
  <2>4. \A s \in Slots : \A f \in wheel'[s] : Due(f, s)'
    <3>1. CASE timeIndex = None \/ timeIndex = t % Wheel
      BY <1>1, <2>3, <3>1 DEF FrameStart, IndexUpdate
    <3>2. CASE timeIndex # None /\ timeIndex # t % Wheel
      <4>1. timeIndex \in Slots /\ timeIndex = now % Wheel
        BY <1>p, <3>2 DEF TypeOK, WheelDue
      <4>2. now < t
        BY <2>1, <3>2, <4>1
      <4>3. ASSUME NEW f \in wheel[timeIndex] PROVE DueAt(f) < t /\ f \in Flows
        <5>1. Due(f, timeIndex) /\ DueAt(f) \in Nat /\ f \in Flows
          BY <1>p, <2>2, <2>d, <4>1 DEF WheelDue
        <5>2. CASE DueAt(f) < now
          BY <2>1, <5>1, <5>2
        <5>3. CASE /\ now <= DueAt(f) /\ DueAt(f) < now + Wheel
                   /\ DueAt(f) % Wheel = now % Wheel
          <6>1. now = DueAt(f)
            BY <2>1, <5>1, <5>3, SlotUnique, FlowConstants
          <6>2. QED BY <4>2, <5>1, <6>1
        <5>4. QED BY <4>1, <5>1, <5>2, <5>3 DEF Due
      <4>4. \A s \in Slots : \A f \in wheel'[s] :
              f \in wheel[s] \/ f \in wheel[timeIndex]
        BY <1>p, <1>1, <2>1, <3>2, <4>1 DEF FrameStart, IndexUpdate, TypeOK
      <4>5. QED BY <2>1, <2>3, <2>d, <4>3, <4>4 DEF Due
    <3>3. QED BY <3>1, <3>2
  <2>5. WheelDue'
    BY <1>p, <2>1, <2>4, FlowConstants DEF WheelDue, Slots
  <2>6. NoneOverdue'
    <3>1. CASE timeIndex = None
      BY <1>p, <2>1, <3>1 DEF WheelDue, NoneOverdue
    <3>2. CASE timeIndex # None
      <4>1. SUFFICES ASSUME ~late', NEW f \in flows PROVE DueAt(f) >= t
        BY <2>1, <2>2, <2>d DEF NoneOverdue
      <4>2. ~late /\ t <= now + 1
        <5>1. ~(late \/ (timeIndex # None /\ t > now + 1))
          BY <1>1, <4>1, Zenon DEF FrameStart
        <5>2. ~late /\ ~(t > now + 1)
          BY <3>2, <5>1, Zenon
        <5>3. QED BY <2>1, <5>2
      <4>3. DueAt(f) \in Nat /\ DueAt(f) > now
        BY <1>p, <2>1, <2>2, <2>d, <4>2 DEF OnTime
      <4>4. QED BY <2>1, <4>2, <4>3
    <3>3. QED BY <3>1, <3>2
  <2>7. QED BY <2>1, <2>5, <2>6 DEF OnTime
<1>2. CASE Other
  <2>1. left \in Nat \ {0} /\ left' = left - 1 /\ left' # None
    BY <1>p, <1>2, FlowConstants DEF Other, Packet, Taken, TypeOK
  <2>2. QED
    BY <1>p, <1>2, <2>1
       DEF Other, Packet, Taken, table, WheelDue, Due, DueAt, NoneOverdue, OnTime
<1>3. ASSUME NEW k \in Keys, NEW f \in Flows, Hit(k, f)
      PROVE  (WheelDue /\ NoneOverdue /\ OnTime)'
  <2>1. left \in Nat \ {0} /\ left' = left - 1 /\ left # None /\ left' # None
    BY <1>p, <1>3, FlowConstants DEF Hit, Packet, Taken, TypeOK
  <2>2. /\ lifetime[f] \in Nat /\ wheel' = Inserted(f, lifetime[f])
        /\ expire' = [expire EXCEPT ![f] = now + lifetime[f]]
        /\ seen' = [seen EXCEPT ![f] = now]
        /\ now' = now /\ late' = late /\ flows' = flows /\ timeIndex' = timeIndex
    BY <1>p, <1>3 DEF Hit, Resched, Taken, TypeOK
  <2>i. /\ \A g \in Flows : seen'[g] <= expire'[g]
        /\ \A s \in Slots : \A g \in wheel'[s] : Due(g, s)'
        /\ DueAt(f)' >= now /\ \A g \in Flows \ {f} : DueAt(g)' = DueAt(g)
    BY <2>1, <2>2, InsertedDue
  <2>3. WheelDue'
    BY <1>p, <2>1, <2>2, <2>i DEF WheelDue
  <2>4. NoneOverdue'
    BY <1>p, <2>2, <2>i DEF NoneOverdue, TypeOK
  <2>5. QED BY <2>1, <2>3, <2>4 DEF OnTime
<1>4. ASSUME NEW k \in Keys, NEW f \in Flows, Create(k, f)
      PROVE  (WheelDue /\ NoneOverdue /\ OnTime)'
  <2>1. left \in Nat \ {0} /\ left' = left - 1 /\ left # None /\ left' # None
    BY <1>p, <1>4, FlowConstants DEF Create, Packet, Taken, TypeOK
  <2>2. /\ wheel' = Inserted(f, Default) /\ flows' = flows \cup {f}
        /\ expire' = [expire EXCEPT ![f] = now + Default]
        /\ seen' = [seen EXCEPT ![f] = now]
        /\ now' = now /\ late' = late /\ timeIndex' = timeIndex
    BY <1>4 DEF Create, Taken
  <2>3. timeIndex \in Slots /\ timeIndex = now % Wheel
    BY <2>1, InFrame
  <2>i. /\ \A g \in Flows : seen'[g] <= expire'[g]
        /\ \A s \in Slots : \A g \in wheel'[s] : Due(g, s)'
        /\ DueAt(f)' >= now /\ \A g \in Flows \ {f} : DueAt(g)' = DueAt(g)
    BY <2>1, <2>2, InsertedDue, FlowConstants
  <2>4. WheelDue'
    BY <1>p, <2>1, <2>2, <2>3, <2>i, FlowConstants DEF WheelDue, Slots
  <2>5. NoneOverdue'
    BY <1>p, <2>2, <2>i DEF NoneOverdue, TypeOK
  <2>6. QED BY <2>1, <2>4, <2>5 DEF OnTime
<1>5. ASSUME NEW k \in Keys, AllocFails(k)
      PROVE  (WheelDue /\ NoneOverdue /\ OnTime)'
  BY <1>p, <1>5
     DEF AllocFails, Packet, frame, WheelDue, Due, DueAt, NoneOverdue, OnTime
<1>6. ASSUME NEW k \in Keys, OffPool(k)
      PROVE  (WheelDue /\ NoneOverdue /\ OnTime)'
  BY <1>p, <1>6 DEF OffPool, table, frame, WheelDue, Due, DueAt, NoneOverdue, OnTime
<1>7. ASSUME NEW S \in SUBSET Flows, FrameEnd(S)
      PROVE  (WheelDue /\ NoneOverdue /\ OnTime)'
  <2>1. timeIndex \in Slots /\ timeIndex = now % Wheel
    BY <1>7, InFrame, FlowConstants DEF FrameEnd
  <2>2. /\ expire' = expire /\ seen' = seen /\ now' = now /\ timeIndex' = timeIndex
        /\ flows' = flows \ S /\ late' = (late \/ S # wheel[timeIndex])
    BY <1>7 DEF FrameEnd, Remove
  <2>3. \A s \in Slots : wheel'[s] \subseteq wheel[s]
    BY <1>p, <1>7 DEF FrameEnd, TypeOK
  <2>d. \A f \in Flows : DueAt(f)' = DueAt(f)
    BY <2>2 DEF DueAt
  <2>4. WheelDue'
    <3>1. \A s \in Slots : wheel[s] \subseteq Flows
      BY <1>p DEF TypeOK
    <3>2. \A s \in Slots : \A f \in wheel'[s] : Due(f, s)'
      BY <1>p, <2>2, <2>3, <2>d, <3>1 DEF WheelDue, Due
    <3>3. QED BY <1>p, <2>1, <2>2, <3>2, FlowConstants DEF WheelDue, Slots
  <2>5. NoneOverdue'
    BY <1>p, <2>2, <2>d DEF NoneOverdue, TypeOK
  <2>6. ASSUME ~late', NEW f \in flows' PROVE DueAt(f) > now
    <3>1. /\ f \in flows /\ f \notin wheel[timeIndex] /\ DueAt(f) >= now
          /\ DueAt(f) \in Nat /\ now \in Nat
      BY <1>p, <2>2, <2>6, DueType DEF NoneOverdue, TypeOK
    <3>2. PICK s \in Slots : f \in wheel[s]
      BY <1>p, <3>1 DEF InAllOrNone
    <3>3. Due(f, s) /\ s # timeIndex
      BY <1>p, <3>1, <3>2 DEF WheelDue
    <3>4. DueAt(f) % Wheel = s
      BY <3>1, <3>3 DEF Due
    <3>5. DueAt(f) # now
      BY <2>1, <3>3, <3>4
    <3>6. QED BY <3>1, <3>5
  <2>7. QED BY <1>p, <2>2, <2>4, <2>5, <2>6, <2>d DEF OnTime, TypeOK
<1>8. ASSUME NEW k \in Keys, NEW f \in Flows, NEW l \in Lifetimes, Update(k, f, l)
      PROVE  (WheelDue /\ NoneOverdue /\ OnTime)'
  BY <1>p, <1>8 DEF Update, frame, WheelDue, Due, DueAt, NoneOverdue, OnTime
<1>9. QED
  BY <1>0, <1>1, <1>2, <1>3, <1>4, <1>5, <1>6, <1>7, <1>8 DEF Next

\* What the wheel expires is due.
LEMMA ExpiresDue ==
  ASSUME FlowInv, Next, NEW f \in flows \ flows'
  PROVE  DueAt(f) <= now
<1>p. TypeOK /\ InAllOrNone /\ WheelDue
  BY DEF FlowInv
<1>1. PICK S \in SUBSET Flows : FrameEnd(S)
  BY DEF Next, FrameStart, Other, Hit, Create, AllocFails, OffPool, Update, table
<1>2. timeIndex \in Slots /\ timeIndex = now % Wheel
  BY <1>1, InFrame, FlowConstants DEF FrameEnd
<1>3. f \in wheel[timeIndex]
  BY <1>1 DEF FrameEnd, Remove
<1>4. Due(f, timeIndex) /\ DueAt(f) \in Nat /\ now \in Nat
  BY <1>p, <1>2, <1>3, DueType DEF WheelDue, TypeOK
<1>5. CASE DueAt(f) < now
  BY <1>4, <1>5
<1>6. CASE /\ now <= DueAt(f) /\ DueAt(f) < now + Wheel
           /\ DueAt(f) % Wheel = now % Wheel
  <2>1. now = DueAt(f)
    BY <1>4, <1>6, SlotUnique, FlowConstants
  <2>2. QED BY <1>4, <2>1
<1>7. QED BY <1>2, <1>4, <1>5, <1>6 DEF Due

\* FlowInv holds of every reachable state.
LEMMA FlowInvariance == Spec => []FlowInv
<1>1. FlowInv /\ [Next]_vars => FlowInv'
  BY FlowTypes, FlowAllOrNone, FlowWheel DEF FlowInv
<1>2. QED BY <1>1, FlowInit, PTL DEF Spec

-----------------------------------------------------------------------------
\* Every variable has its type: no index of the wheel is outside of it.
THEOREM FlowTypeCorrect == Spec => []TypeOK
<1>1. FlowInv => TypeOK
  BY DEF FlowInv
<1>2. QED BY <1>1, FlowInvariance, PTL

\* A flow is in the pool, in the line of its key and in one slot of the wheel,
\* or in none of them, through creation, rescheduling, moved slots and expiry.
THEOREM FlowsInAllOrNone == Spec => []InAllOrNone
<1>1. FlowInv => InAllOrNone
  BY DEF FlowInv
<1>2. QED BY <1>1, FlowInvariance, PTL

\* As long as a frame comes every second and not too many flows are due, a
\* flow that is due expires with the frame of that second.
THEOREM FlowsExpireOnTime == Spec => []OnTime
<1>1. FlowInv => OnTime
  BY DEF FlowInv
<1>2. QED BY <1>1, FlowInvariance, PTL

\* However far the clock jumps and whatever lifetimes clients ask for, a flow
\* does not expire before it is due.
THEOREM FlowsNeverEarly == Spec => NeverEarly
<1>1. FlowInv /\ [Next]_vars => [\A f \in flows \ flows' : DueAt(f) <= now]_vars
  BY ExpiresDue
<1>2. QED BY <1>1, FlowInvariance, PTL DEF Spec, NeverEarly

\* A flow whose lifetime was less than a turn of the wheel at its last packet,
\* as that of every flow no client has touched, does not expire before the
\* lifetime is over.
THEOREM ShortLifetimesKept ==
  Spec => [][\A f \in flows \ flows' :
               expire[f] - seen[f] < Wheel => expire[f] <= now]_vars
<1>1. FlowInv /\ [Next]_vars =>
        [\A f \in flows \ flows' : expire[f] - seen[f] < Wheel => expire[f] <= now]_vars
  <2> SUFFICES ASSUME FlowInv, Next, NEW f \in flows \ flows',
                      expire[f] - seen[f] < Wheel
               PROVE  expire[f] <= now
    BY DEF FlowInv
  <2>1. DueAt(f) <= now
    BY ExpiresDue
  <2>2. f \in Flows
    BY DEF FlowInv, TypeOK
  <2>3. QED BY <2>1, <2>2, DueType DEF FlowInv
<1>2. QED BY <1>1, FlowInvariance, PTL DEF Spec

\* A line is only left empty, for the next packet to look outside of the pool,
\* when the pool is full.
THEOREM LinesEmptyWhenFull == Spec => EmptyLineOnlyWhenFull
<1>1. FlowInv /\ [Next]_vars =>
        [\A k \in hashed' : line'[k] = {} =>
           (k \in hashed /\ line[k] = {}) \/ flowsCpt > MaxFlows]_vars
  <2> SUFFICES ASSUME FlowInv, Next, NEW k \in hashed', line'[k] = {},
                      ~(k \in hashed /\ line[k] = {})
               PROVE  flowsCpt > MaxFlows
    BY DEF FlowInv
  <2>p. TypeOK /\ InAllOrNone
    BY DEF FlowInv
  <2>1. ASSUME NEW j \in Keys, AllocFails(j) PROVE flowsCpt > MaxFlows
    BY <2>1 DEF AllocFails
  <2>2. ASSUME NEW j \in Keys, NEW f \in Flows, Create(j, f) PROVE FALSE
    <3>1. hashed' = hashed \cup {j} /\ line' = [line EXCEPT ![j] = @ \cup {f}]
      BY <2>2 DEF Create
    <3>2. QED BY <2>p, <3>1 DEF TypeOK
  <2>3. ASSUME NEW S \in SUBSET Flows, FrameEnd(S) PROVE FALSE
    <3>1. /\ hashed' = {i \in hashed : line[i] \cap S = {} \/ line[i] \ S # {}}
          /\ line' = [i \in Keys |-> line[i] \ S]
      BY <2>3 DEF FrameEnd, Remove
    <3>2. k \in hashed /\ k \in Keys /\ (line[k] \cap S = {} \/ line[k] \ S # {})
      BY <2>p, <3>1 DEF TypeOK
    <3>3. QED BY <3>1, <3>2
  <2>4. CASE UNCHANGED <<hashed, line>>
    BY <2>4
  <2>5. QED
    BY <2>1, <2>2, <2>3, <2>4
       DEF Next, FrameStart, Other, Hit, OffPool, Update, table
<1>2. QED BY <1>1, FlowInvariance, PTL DEF Spec, EmptyLineOnlyWhenFull
=============================================================================
