------------------------------ MODULE MCTables ------------------------------
EXTENDS Tables, TLC

CONSTANTS net, a, b            \* rows of Topology
CONSTANTS d1, d2, d3           \* devices on the network
CONSTANTS i1, i2, i3, i4       \* ids of rows
CONSTANTS e1, e2, h1, h2       \* devices of one vendor, requests

\* Nothing, or a clue that a learned rule for "unknown" comes close to.
Found == {{}, {[type |-> "nas", weight |-> 70]}}

\* The discovered rows, the devices on the network, the ids, the devices of
\* the vendor and the requests are each interchangeable.
SymmetryOfRows == Permutations({a, b}) \cup Permutations(Mac) \cup Permutations(Id)
SymmetryOfTypes == Permutations(Host) \cup Permutations(Handler)
=============================================================================
