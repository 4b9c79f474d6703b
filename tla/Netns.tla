------------------------------- MODULE Netns -------------------------------
(***************************************************************************)
(* The namespace mirror of netlink/librtnl/netns.c on top of the streams   *)
(* of Rtnl.                                                                *)
(*                                                                         *)
(* A netns mirrors the links, addresses, routes and neighbours of one      *)
(* network namespace and is shared by the subscribers that opened it.  It  *)
(* owns one stream, whose messages arrive with the netns' index, and tells *)
(* every subscriber what the messages change.  netns.c runs on the main    *)
(* thread, in API calls and in the recv_message callback of rtnl_process.  *)
(*                                                                         *)
(* An entry of the mirror is a pair of the namespace it came from and the  *)
(* object it shows.  Which entries a message about an object is taken for  *)
(* is a matter of what the lookups compare: Found.                         *)
(***************************************************************************)
EXTENDS Rtnl, FiniteSets

CONSTANTS
    NsIdx,      \* indices of the pool netns_main.netnss
    MaxHandles, \* bound: the pool netns_main.handles has 0 .. MaxHandles - 1
    Found       \* the objects whose entry ns_get_... may find for a message

HIdx == 0 .. MaxHandles - 1

ASSUME NetnsConstants ==
    /\ MaxHandles \in Nat
    /\ Found \in [Objs -> SUBSET Objs]

VARIABLES
    nets,     \* the netnss in use
    nsname,   \* netns_p.netns.name
    nsstream, \* netns_p.rtnl_handle
    count,    \* netns_p.subscriber_count
    view,     \* the four object pools of netns_p.netns
    opaque,   \* rtnl_ns_t.stream.opaque, the index of the stream's netns
    hpool,    \* the handles in use
    hns,      \* netns_handle_t.netns_index
    aborted,  \* VPP is gone
    told,     \* what the subscriber's callbacks said exists
    full,     \* the subscriber has seen, or been told of, all there was
    gap       \* a notification of the slot's socket was dropped

netnss == <<nets, nsname, nsstream, count, view, opaque>>
handles == <<hpool, hns, aborted>>
history == <<told, full>>
netnsVars == <<netnss, handles, history>>
allVars == <<vars, netnsVars, gap>>

Things == Names \X Objs

NetnsInit ==
    /\ Init
    /\ nets = {}
    /\ \E n \in Names : nsname = [i \in NsIdx |-> n]
    /\ \E s \in Slots : nsstream = [i \in NsIdx |-> s]
    /\ count = [i \in NsIdx |-> 0]
    /\ view = [i \in NsIdx |-> {}]
    /\ \E i \in NsIdx : /\ opaque = [s \in Slots |-> i]
                        /\ hns = [h \in HIdx |-> i]
    /\ hpool = {}
    /\ aborted = FALSE
    /\ told = [h \in HIdx |-> {}]
    /\ full = [h \in HIdx |-> FALSE]
    /\ gap = [s \in Slots |-> FALSE]

-----------------------------------------------------------------------------
(***************************************************************************)
(* Subscribing.                                                            *)
(***************************************************************************)
Subscribers(i) == {h \in hpool : hns[h] = i}

\* pool_get: the freed index 0 (no other is ever freed), or a new one.
FreshHandle == IF 0 \notin hpool THEN 0 ELSE Cardinality(hpool)

Subscribe(i) ==
    LET h == FreshHandle IN
    /\ h \in HIdx
    /\ hpool' = hpool \cup {h}
    /\ hns' = [hns EXCEPT ![h] = i]
    /\ told' = [told EXCEPT ![h] = {}]
    /\ full' = [full EXCEPT ![h] = view'[i] = {}]

\* netns_open of a namespace somebody else has open.
NetnsJoin(i) ==
    /\ proc = "wait"
    /\ i \in nets
    /\ count' = [count EXCEPT ![i] = @ + 1]
    /\ UNCHANGED <<vars, nets, nsname, nsstream, view, opaque, aborted, gap>>
    /\ Subscribe(i)

\* netns_open of a namespace nobody has open: a new netns and its stream.
NetnsOpen(n, i, s) ==
    /\ i \notin nets /\ \A j \in nets : nsname[j] # n
    /\ StreamOpen(s, n)
    /\ nets' = nets \cup {i}
    /\ nsname' = [nsname EXCEPT ![i] = n]
    /\ nsstream' = [nsstream EXCEPT ![i] = s]
    /\ opaque' = [opaque EXCEPT ![s] = i]
    /\ view' = [view EXCEPT ![i] = {}]
    /\ count' = [count EXCEPT ![i] = 1]
    /\ Subscribe(i)
    /\ UNCHANGED <<aborted, gap>>

\* Mutant: the mirror goes, the stream stays.
NetnsDestroyKeepStream(i) ==
    /\ nets' = nets \ {i}
    /\ view' = [view EXCEPT ![i] = {}]
    /\ UNCHANGED vars

\* The last subscriber takes the stream and the mirror along.
NetnsDestroy(i) ==
    /\ StreamClose(nsstream[i])
    /\ nets' = nets \ {i}
    /\ view' = [view EXCEPT ![i] = {}]

\* pool_put(h, nm->handles) has its arguments swapped: it frees handle 0,
\* and asks for the bit 2^64 - h of any other's bitmap, which aborts.
NetnsClose(h) ==
    /\ proc = "wait"
    /\ h \in hpool
    /\ IF h # 0
         THEN /\ aborted' = TRUE
              /\ UNCHANGED <<vars, nets, view, count, hpool>>
         ELSE /\ hpool' = hpool \ {h}
              /\ count' = [count EXCEPT ![hns[h]] = @ - 1]
              /\ IF count[hns[h]] = 1
                   THEN NetnsDestroy(hns[h])
                   ELSE UNCHANGED <<vars, nets, view>>
              /\ UNCHANGED aborted
    /\ UNCHANGED <<nsname, nsstream, opaque, hns, history, gap>>

\* netns_callme: the callback hears of all existing objects, as added or as
\* deleted.
NetnsCallme(h, del) ==
    /\ proc = "wait"
    /\ h \in hpool
    /\ told' = [told EXCEPT ![h] = IF del THEN @ \ view[hns[h]]
                                          ELSE @ \cup view[hns[h]]]
    /\ full' = [full EXCEPT ![h] = IF del THEN view[hns[h]] = {} ELSE TRUE]
    /\ UNCHANGED <<vars, netnss, handles, gap>>

-----------------------------------------------------------------------------
(***************************************************************************)
(* ns_recv_rtnl.  A message changes the netns its stream was opened for,   *)
(* whatever is at that index now.                                          *)
(***************************************************************************)
Entries(i, o) == {x \in view[i] : x[2] \in Found[o]}

\* What may be left of an entry when one of it goes: the pool has no second
\* entry for an object whose messages find that object's entry and no other.
Copies(x) == IF Found[x[2]] = {x[2]} THEN {{}} ELSE {{}, {x}}

\* Mutant: only the first handle is called.
NotifyFirst(i, come, gone) ==
    told' = [h \in HIdx |->
               IF h \in Subscribers(i) /\ \A g \in Subscribers(i) : h <= g
                 THEN (told[h] \ gone) \cup come ELSE told[h]]

\* netns_notify: come was added, or gone was deleted.
Notify(i, come, gone) ==
    told' = [h \in HIdx |-> IF h \in Subscribers(i)
                              THEN (told[h] \ gone) \cup come ELSE told[h]]

\* A deletion takes the first entry found, and names it.  An addition
\* overwrites it or is a new entry, and is announced as added: nobody is told
\* of what was overwritten.
Deliver(s, m) ==
    LET i == opaque[s]
        new == <<name[s], m.obj>>
        found == IF m.kind \in {"NEW", "DEL"} THEN Entries(i, m.obj) ELSE {}
    IN  /\ \/ m.kind # "NEW" /\ found = {} /\ UNCHANGED <<view, told>>
           \/ /\ m.kind = "DEL"
              /\ \E x \in found : \E kept \in Copies(x) :
                   view' = [view EXCEPT ![i] = (@ \ {x}) \cup kept]
                     /\ Notify(i, {}, {x})
           \/ /\ m.kind = "NEW" /\ found = {}
              /\ view' = [view EXCEPT ![i] = @ \cup {new}]
              /\ Notify(i, {new}, {})
           \/ /\ m.kind = "NEW"
              /\ \E x \in found : \E kept \in Copies(x) :
                   view' = [view EXCEPT ![i] = (@ \ {x}) \cup kept \cup {new}]
              /\ Notify(i, {new}, {})
        /\ UNCHANGED <<nets, nsname, nsstream, count, opaque, handles, full>>

\* What Rtnl does by itself: all but the two API calls.
Receive(s) == (ReadRestart(s) \/ ReadOther(s)) /\ Deliver(s, Head(q[s]))

Engine(s) ==
    \/ ReadCb(s)
    \/ ProcessOpen(s) \/ ProcessClose(s)
    \/ ReadStart(s) \/ ReadEnd(s) \/ ReadDone(s)

MainLoop ==
    \/ Resume /\ UNCHANGED netnsVars
    \/ Suspend /\ UNCHANGED netnsVars
    \/ \E s \in Slots : Engine(s) /\ UNCHANGED netnsVars
    \/ \E s \in Slots : Receive(s)

Environment ==
    \/ \E s \in Slots : Expire(s) \/ KernelAnswer(s) \/ KernelError(s)
    \/ \E n \in Names, o \in Objs, h \in NoteHdrs : KernelChange(n, o, h)

\* A gap lasts until the socket is replaced.
Gaps == gap' = [s \in Slots |-> lost'[s] \/ (gap[s] /\ HasFd(s)')]

Streams == (MainLoop \/ (Environment /\ UNCHANGED netnsVars)) /\ Gaps

Api ==
    \/ \E n \in Names, i \in NsIdx, s \in Slots : NetnsOpen(n, i, s)
    \/ \E i \in NsIdx : NetnsJoin(i)
    \/ \E h \in HIdx : NetnsClose(h)
    \/ \E h \in HIdx, del \in BOOLEAN : NetnsCallme(h, del)

NetnsNext == ~aborted /\ (Api \/ Streams)

NetnsSpec == NetnsInit /\ [][NetnsNext]_allVars

\* As for Rtnl: the main loop runs, and the kernel answers.
NetnsLiveSpec ==
    /\ NetnsSpec
    /\ WF_allVars(~aborted /\ MainLoop /\ Gaps)
    /\ \A s \in Slots :
         /\ WF_allVars(~aborted /\ ReadCb(s) /\ UNCHANGED netnsVars /\ Gaps)
         /\ WF_allVars(~aborted /\ Expire(s) /\ UNCHANGED netnsVars /\ Gaps)
         /\ WF_allVars(~aborted /\ KernelAnswer(s) /\ UNCHANGED netnsVars /\ Gaps)

-----------------------------------------------------------------------------
NetnsTypeOK ==
    /\ TypeOK
    /\ nets \subseteq NsIdx
    /\ nsname \in [NsIdx -> Names]
    /\ nsstream \in [NsIdx -> Slots]
    /\ count \in [NsIdx -> Nat]
    /\ view \in [NsIdx -> SUBSET Things]
    /\ opaque \in [Slots -> NsIdx]
    /\ hpool \subseteq HIdx
    /\ hns \in [HIdx -> NsIdx]
    /\ aborted \in BOOLEAN
    /\ told \in [HIdx -> SUBSET Things]
    /\ full \in [HIdx -> BOOLEAN]
    /\ gap \in [Slots -> BOOLEAN]

\* Whoever opens a namespace shares one netns with its other users; the netns
\* counts them, lives exactly as long as one is left, and owns one open
\* stream, which is the only open stream that reports to its index.  The
\* handles in use are dense, so that the next one is not in use.
Shared ==
    /\ \A i \in nets :
         /\ count[i] = Cardinality(Subscribers(i)) /\ count[i] > 0
         /\ nsstream[i] \in alloc \ closes
         /\ opaque[nsstream[i]] = i /\ name[nsstream[i]] = nsname[i]
         /\ \A j \in nets : nsname[j] = nsname[i] => j = i
    /\ \A h \in hpool : hns[h] \in nets
    /\ \E k \in 0 .. MaxHandles : hpool \cup {0} = 0 .. k
    /\ \A s \in alloc \ closes : opaque[s] \in nets /\ nsstream[opaque[s]] = s

Drained(s) ==
    state[s] = "READY" /\ HasFd(s) /\ q[s] = <<>> /\ ~lost[s]

\* The objects that are not taken for one another.  Not among them are the
\* addresses two interfaces have in common, as the lookup of an address does
\* not look at the interface, nor the neighbours whose interfaces have the low
\* byte of their index in common.
Distinct == {o \in Objs : \A p \in Objs \ {o} : o \notin Found[p] /\ p \notin Found[o]}

\* What a mirror should show of its namespace.
Owed(i) == {nsname[i]} \X (kern[nsname[i]] \cap Distinct)

\* Nothing is missing from the mirror once its stream is READY and has read
\* all it was sent, unless the socket dropped a notification: what appeared
\* while a dump was running restarted the dumps.
MirrorComplete ==
    \A i \in nets : Drained(nsstream[i]) /\ ~gap[nsstream[i]] =>
        Owed(i) \subseteq view[i]

\* Nor is anything hidden from a subscriber that has asked for what there was
\* when it came, or came to an empty mirror: once the stream is READY and has
\* read all it was sent, the callbacks have announced all that exists.
Informed ==
    \A h \in hpool :
        LET i == hns[h] IN
        full[h] /\ Drained(nsstream[i]) /\ ~gap[nsstream[i]] =>
            Owed(i) \subseteq told[h]

\* Why: what is in the mirror has been announced.
Announced ==
    \A h \in hpool : full[h] =>
        \A x \in view[hns[h]] : x[2] \in Distinct => x \in told[h]

\* A mirror shows its own namespace; another one's objects get in only from a
\* stream that was opened for the index before and whose close is pending.
OnlyOwn ==
    [][\A i \in nets \cap nets' : \A x \in view'[i] \ view[i] :
         \/ x[1] = nsname[i]
         \/ \E s \in closes : opaque[s] = i /\ name[s] = x[1]]_allVars

\* What a namespace contains when it stops changing gets into its mirror,
\* unless the subscribers leave first or the socket dropped a notification.
MirrorCatchesUp ==
    \A i \in NsIdx : i \in nets /\ changes = MaxChanges ~>
        \/ i \notin nets \/ aborted \/ gap[nsstream[i]]
        \/ Owed(i) \subseteq view[i]
=============================================================================
