--------------------------- MODULE MCRouterNetlink ---------------------------
(* Instances of RouterNetlink for TLC. *)
EXTENDS RouterNetlink

CONSTANTS x1, x2, x3

\* x1 and x2 have the same low byte.
MCByte == [x \in IfIdx |-> IF x = x3 THEN 2 ELSE 1]

\* A route over x1 without labels, with a stack of two, the second of them
\* the bottom, and with stacks of Depth labels and of one more, both too long
\* to be compared.
Stack(n) == [i \in 1 .. n |-> [label |-> i, last |-> i = n]]

MCRoutes ==
    {[family |-> "ip4", dst |-> 1, oif |-> x1, encap |-> Stack(n)] :
        n \in {0, 2, Depth, Depth + 1}}
=============================================================================
