----------------------------- MODULE MCSnmpPoll -----------------------------
(***************************************************************************)
(* Instances of SnmpPoll for TLC.                                          *)
(***************************************************************************)
EXTENDS SnmpPoll, TLC

CONSTANTS p1, p2, h1, h2

Symmetry == Permutations(Poller) \cup Permutations(Handler)
=============================================================================
