----------------------------- MODULE MCScanner -----------------------------
(***************************************************************************)
(* Instances of Scanner for TLC.                                           *)
(***************************************************************************)
EXTENDS Scanner, TLC

CONSTANTS a1, a2, a3

\* A network of four addresses, two of them hosts, and one of a single
\* address: validateCIDR counts it, the feeder never sends it, the ARP table
\* may know it.
MCRequests ==
    {[hosts |-> {a1, a2}, span |-> {a1, a2}, total |-> 2],
     [hosts |-> {},       span |-> {a2},     total |-> 1]}

\* Also networks in the IPv6 form: one whose broadcast address is sent too, and
\* one beside a network whose count overflowed.
MCOddRequests ==
    MCRequests \cup
    {[hosts |-> {a1, a2}, span |-> {a1, a2}, total |-> 1],
     [hosts |-> {a1},     span |-> {a1, a2}, total |-> -1]}
=============================================================================
