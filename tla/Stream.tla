------------------------------- MODULE Stream -------------------------------
(***************************************************************************)
(* What rtnl.h promises the users of a stream: a handle is theirs from     *)
(* rtnl_stream_open until they close it, it reports one namespace all that *)
(* time, it becomes ready once and stays so, and the pool gets it back     *)
(* once for every close.                                                   *)
(***************************************************************************)
CONSTANTS Slots, Names

VARIABLES
    phase,  \* of a handle
    of      \* the namespace it was opened for

TypeOK ==
    /\ phase \in [Slots -> {"free", "syncing", "ready", "closing"}]
    /\ of \in [Slots -> Names]

Init ==
    /\ phase = [s \in Slots |-> "free"]
    /\ of \in [Slots -> Names]

Open(s, n) ==
    /\ phase[s] = "free"
    /\ phase' = [phase EXCEPT ![s] = "syncing"]
    /\ of' = [of EXCEPT ![s] = n]

Synced(s) ==
    /\ phase[s] = "syncing"
    /\ phase' = [phase EXCEPT ![s] = "ready"]
    /\ UNCHANGED of

Close(s) ==
    /\ phase[s] \in {"syncing", "ready"}
    /\ phase' = [phase EXCEPT ![s] = "closing"]
    /\ UNCHANGED of

Free(s) ==
    /\ phase[s] = "closing"
    /\ phase' = [phase EXCEPT ![s] = "free"]
    /\ UNCHANGED of

Next ==
    \E s \in Slots :
        \/ \E n \in Names : Open(s, n)
        \/ Synced(s)
        \/ Close(s)
        \/ Free(s)

Spec == Init /\ [][Next]_<<phase, of>>
=============================================================================
