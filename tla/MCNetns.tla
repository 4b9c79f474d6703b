------------------------------ MODULE MCNetns ------------------------------
(* Instances of Netns for TLC. *)
EXTENDS Netns, TLC

CONSTANTS o1, o2

\* One object of the second dump, one of the last.
MCClassOf == [o \in Objs |-> IF o = o2 THEN "NEIGH" ELSE "ADDR"]

\* What the kernel sends by itself carries no sequence number.
MCNoteHdrs == {[seq |-> 0, notify |-> FALSE]}

\* The lookups find o1 for itself; o2 is a route with labels, which they never
\* find.
MCFound == [o \in Objs |-> {o} \ {o2}]

MCSym == Permutations(Slots) \cup Permutations(Fds \ {Fd0})
           \cup Permutations(Files \ {File0}) \cup Permutations(NsIdx) \cup Permutations(Names)
=============================================================================
