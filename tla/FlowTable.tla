----------------------------- MODULE FlowTable -----------------------------
(***************************************************************************)
(* The flow table of flowtable/0001-Add-flowtable-feature.patch: a pool of *)
(* flows, a hash table whose lines hold the flows of one key, and a timer  *)
(* wheel with one slot for each second.                                    *)
(*                                                                         *)
(* A packet is known by its key, the hash of its signature.  Within a line *)
(* lookup_create compares signatures at the address of a pointer, so which *)
(* flow of the line it takes for the packet's, if any, is not determined.  *)
(*                                                                         *)
(* A frame is processed packet by packet by one thread; messages of the    *)
(* API are handled in between.                                             *)
(***************************************************************************)
EXTENDS Integers, FiniteSets

CONSTANTS
    Keys,       \* hashes of signatures
    MaxFlows,   \* FM_POOL_COUNT
    Wheel,      \* TIMER_MAX_LIFETIME
    Default,    \* TIMER_DEFAULT_LIFETIME
    MaxExpire,  \* TIMER_MAX_EXPIRE
    Lifetimes,  \* lifetimes clients of the API ask for, in seconds
    None,       \* ~0
    Burst,      \* bound: packets in a frame
    MaxNow      \* bound: seconds

\* One more than FM_POOL_COUNT: the limit is checked with >.
Flows == 1 .. MaxFlows + 1
Slots == 0 .. Wheel - 1

ASSUME FlowConstants ==
    /\ MaxFlows \in Nat /\ Wheel \in Nat \ {0} /\ MaxExpire \in Nat \ {0}
    /\ Default \in Nat /\ Lifetimes \subseteq Nat
    /\ Burst \in Nat /\ MaxNow \in Nat
    /\ None \notin Keys /\ None \notin Nat

VARIABLES
    flows,      \* the flows allocated
    key,        \* sig_hash
    lifetime, expire,
    flowsCpt,   \* flows_cpt
    hashed,     \* keys of flows_ht
    line,       \* ht_lines: the flows of a key
    wheel,      \* timer_wheel: the flows of a slot, in no order
    timeIndex,  \* time_index
    now,        \* current_time
    left,       \* packets of the frame still to process, None between frames
    wild,       \* an element outside of its pool was read
    late,       \* a second was skipped, or more flows were due than may expire
    seen        \* the second of the flow's last packet

table == <<flows, key, lifetime, expire, flowsCpt, hashed, line, wheel>>
frame == <<now, left, late>>
vars == <<table, timeIndex, frame, wild, seen>>

Init ==
    /\ flows = {} /\ flowsCpt = 0
    /\ key \in [Flows -> Keys]
    /\ lifetime = [f \in Flows |-> 0] /\ expire = [f \in Flows |-> 0]
    /\ hashed = {} /\ line = [k \in Keys |-> {}]
    /\ wheel = [s \in Slots |-> {}]
    /\ timeIndex = None
    /\ now = 0 /\ left = None
    /\ wild = FALSE /\ late = FALSE
    /\ seen = [f \in Flows |-> 0]

-----------------------------------------------------------------------------
\* Mutant: the index does not wrap.
IndexUpdateNoWrap(t) == timeIndex' = t /\ UNCHANGED wheel

\* timer_wheel_index_update: what is left in the current slot goes to the new.
IndexUpdate(t) ==
    LET new == t % Wheel
    IN  /\ timeIndex' = new
        /\ IF timeIndex = None \/ timeIndex = new
             THEN UNCHANGED wheel
             ELSE wheel' = [wheel EXCEPT ![new] = @ \cup wheel[timeIndex],
                                         ![timeIndex] = {}]

\* flowtable_process, up to its first packet.
FrameStart(n, t) ==
    /\ left = None
    /\ left' = n /\ now' = t
    /\ IndexUpdate(t)
    /\ late' = (late \/ (timeIndex # None /\ t > now + 1))
    /\ UNCHANGED <<flows, key, lifetime, expire, flowsCpt, hashed, line,
                   wild, seen>>

\* There is a packet to process.
Packet == left # None /\ left # 0

Taken == left' = left - 1 /\ UNCHANGED <<now, late>>

\* A packet that is neither IPv4 nor IPv6.
Other ==
    /\ Packet
    /\ Taken
    /\ UNCHANGED <<table, timeIndex, wild, seen>>

\* Mutant: one second later.
InsertedLate(f, l) ==
    [s \in Slots |-> IF s = (timeIndex + l + 1) % Wheel THEN wheel[s] \cup {f}
                                                        ELSE wheel[s] \ {f}]

\* timer_wheel_insert_flow, after clib_dlist_remove from the slot it was in.
Inserted(f, l) ==
    [s \in Slots |-> IF s = (timeIndex + l) % Wheel THEN wheel[s] \cup {f}
                                                    ELSE wheel[s] \ {f}]

\* Mutant: the slot stays.
ReschedExpireOnly(f) ==
    /\ expire' = [expire EXCEPT ![f] = now + lifetime[f]]
    /\ seen' = [seen EXCEPT ![f] = now]
    /\ UNCHANGED wheel

\* timer_wheel_resched_flow
Resched(f) ==
    /\ expire' = [expire EXCEPT ![f] = now + lifetime[f]]
    /\ seen' = [seen EXCEPT ![f] = now]
    /\ wheel' = Inserted(f, lifetime[f])

\* The packet is taken for one of flow f.
Hit(k, f) ==
    /\ Packet
    /\ k \in hashed /\ f \in line[k]
    /\ Resched(f)
    /\ Taken
    /\ UNCHANGED <<flows, key, lifetime, flowsCpt, hashed, line, timeIndex,
                   wild>>

\* flowtable_entry_lookup_create makes a new flow, and a new line if need be.
Create(k, f) ==
    /\ Packet
    /\ k \in hashed => line[k] # {}
    /\ flowsCpt <= MaxFlows
    /\ f \notin flows
    /\ flows' = flows \cup {f} /\ flowsCpt' = flowsCpt + 1
    /\ key' = [key EXCEPT ![f] = k]
    /\ lifetime' = [lifetime EXCEPT ![f] = Default]
    /\ expire' = [expire EXCEPT ![f] = now + Default]
    /\ seen' = [seen EXCEPT ![f] = now]
    /\ wheel' = Inserted(f, Default)
    /\ hashed' = hashed \cup {k}
    /\ line' = [line EXCEPT ![k] = @ \cup {f}]
    /\ Taken
    /\ UNCHANGED <<timeIndex, wild>>

\* The pool is full.  A new line stays.  The frame does not advance: it takes
\* the packet again but reads it behind the header it has skipped, so that it
\* may be of any kind or key.
AllocFails(k) ==
    /\ Packet
    /\ k \in hashed => line[k] # {}
    /\ flowsCpt > MaxFlows
    /\ hashed' = hashed \cup {k}
    /\ UNCHANGED <<flows, key, lifetime, expire, flowsCpt, line, wheel,
                   timeIndex, frame, wild, seen>>

\* The first flow of an empty line is looked for outside of the pool.
OffPool(k) ==
    /\ Packet
    /\ k \in hashed /\ line[k] = {}
    /\ wild' = TRUE
    /\ UNCHANGED <<table, timeIndex, frame, seen>>

\* Mutant: an emptied line keeps its key.
RemoveKeepsKey(S) ==
    /\ flows' = flows \ S
    /\ flowsCpt' = flowsCpt - Cardinality(S)
    /\ line' = [k \in Keys |-> line[k] \ S]
    /\ UNCHANGED hashed

\* Mutant: a line goes with its first flow.
RemoveLine(S) ==
    /\ flows' = flows \ S
    /\ flowsCpt' = flowsCpt - Cardinality(S)
    /\ line' = [k \in Keys |-> line[k] \ S]
    /\ hashed' = {k \in hashed : line[k] \cap S = {}}

\* flowtable_entry_remove, for each flow of S.
Remove(S) ==
    /\ flows' = flows \ S
    /\ flowsCpt' = flowsCpt - Cardinality(S)
    /\ line' = [k \in Keys |-> line[k] \ S]
    /\ hashed' = {k \in hashed : line[k] \cap S = {} \/ line[k] \ S # {}}

\* flowtable_timer_expire, for up to MaxExpire flows of the current slot.
FrameEnd(S) ==
    /\ left = 0
    /\ S \subseteq wheel[timeIndex]
    /\ S = wheel[timeIndex] \/ Cardinality(S) = MaxExpire
    /\ Cardinality(S) <= MaxExpire
    /\ Remove(S)
    /\ wheel' = [wheel EXCEPT ![timeIndex] = @ \ S]
    /\ left' = None
    /\ late' = (late \/ S # wheel[timeIndex])
    /\ UNCHANGED <<key, lifetime, expire, timeIndex, now, wild, seen>>

\* flowtable_update: the flow that matches, or else the last of the line.  The
\* ASSERT that the lifetime is less than a turn of the wheel checks nothing in
\* a release build, and the API passes on whatever it is given.
Update(k, f, l) ==
    /\ left = None
    /\ k \in hashed /\ f \in line[k]
    /\ lifetime' = [lifetime EXCEPT ![f] = l]
    /\ UNCHANGED <<flows, key, expire, flowsCpt, hashed, line, wheel, timeIndex,
                   frame, wild, seen>>

-----------------------------------------------------------------------------
Next ==
    /\ ~wild
    /\ \/ \E n \in 1 .. Burst, t \in now .. MaxNow : FrameStart(n, t)
       \/ Other
       \/ \E k \in Keys, f \in Flows : Hit(k, f)
       \/ \E k \in Keys, f \in Flows : Create(k, f)
       \/ \E k \in Keys : AllocFails(k)
       \/ \E k \in Keys : OffPool(k)
       \/ \E S \in SUBSET Flows : FrameEnd(S)
       \/ \E k \in Keys, f \in Flows, l \in Lifetimes : Update(k, f, l)

Spec == Init /\ [][Next]_vars

-----------------------------------------------------------------------------
TypeOK ==
    /\ flows \subseteq Flows /\ flowsCpt \in Int
    /\ key \in [Flows -> Keys]
    /\ lifetime \in [Flows -> Nat] /\ expire \in [Flows -> Nat]
    /\ hashed \subseteq Keys /\ line \in [Keys -> SUBSET Flows]
    /\ wheel \in [Slots -> SUBSET Flows]
    /\ timeIndex \in Slots \cup {None}
    /\ now \in Nat /\ left \in Nat \cup {None}
    /\ wild \in BOOLEAN /\ late \in BOOLEAN
    /\ seen \in [Flows -> Nat]

\* A flow is in the pool, in the line of its key and in one slot of the wheel,
\* or in none of them, and the counter counts them.
InAllOrNone ==
    /\ \A k \in Keys : line[k] = {f \in flows : key[f] = k}
    /\ \A f \in flows : key[f] \in hashed
    /\ \A f \in flows : \E s \in Slots : f \in wheel[s]
    /\ \A s \in Slots : wheel[s] \subseteq flows
    /\ \A s, r \in Slots : s # r => wheel[s] \cap wheel[r] = {}
    /\ flowsCpt = Cardinality(flows)

\* A line is left without flows, and its key in the table for the next packet
\* to look outside of the pool, only by a packet the full pool has no flow for:
\* never by the expiry of its last flow.
EmptyLineOnlyWhenFull ==
    [][\A k \in hashed' : line'[k] = {} =>
         (k \in hashed /\ line[k] = {}) \/ flowsCpt > MaxFlows]_vars

\* The second a flow is due: that of its last packet plus its lifetime.  Of a
\* lifetime of one turn of the wheel or more, the whole turns are lost.
DueAt(f) == seen[f] + ((expire[f] - seen[f]) % Wheel)

\* A flow does not expire before it is due, however far the clock jumps from
\* one frame to the next and whatever lifetimes the clients ask for.
NeverEarly == [][\A f \in flows \ flows' : DueAt(f) <= now]_vars

\* A flow that is due expires with the frame of that second, as long as there
\* is one every second and not too many are due.
OnTime == ~late /\ left = None => \A f \in flows : DueAt(f) > now

\* Why: the flows of a slot are overdue or due when it is next current;
Due(f, s) == \/ DueAt(f) < now
             \/ now <= DueAt(f) /\ DueAt(f) < now + Wheel /\ DueAt(f) % Wheel = s

WheelDue ==
    /\ \A f \in Flows : seen[f] <= expire[f]
    /\ \A s \in Slots : \A f \in wheel[s] : Due(f, s)
    /\ timeIndex = None => flows = {} /\ left = None
    /\ timeIndex # None => timeIndex = now % Wheel

\* and unless a second was skipped none is overdue.
NoneOverdue == ~late => \A f \in flows : DueAt(f) >= now

\* The inductive invariant of FlowTableProofs.
FlowInv == TypeOK /\ InAllOrNone /\ WheelDue /\ NoneOverdue /\ OnTime
=============================================================================
