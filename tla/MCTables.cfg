\* The Internet node and two discovered devices; three devices on the network,
\* three addresses, four rows.
SPECIFICATION SpecAny
CONSTANTS
    Parts = {"relations", "rows"}
    net = net
    a = a
    b = b
    Device = {net, a, b}
    Internet = net
    Manual = {net}
    d1 = d1
    d2 = d2
    d3 = d3
    Mac = {d1, d2, d3}
    Address = {1, 2, 3}
    Gateway = 1
    i1 = i1
    i2 = i2
    i3 = i3
    i4 = i4
    Id = {i1, i2, i3, i4}
    e1 = e1
    e2 = e2
    h1 = h1
    h2 = h2
    Host = {e1, e2}
    Type = {"nas", "tv"}
    Finds <- Found
    SnmpType = {"unknown"}
    Handler = {h1, h2}
    MaxCorrections = 2
SYMMETRY SymmetryOfRows
INVARIANTS
    Sound
    NoSightingRefused
    NoBackAndForth
PROPERTIES
    ConfirmedKept
    AddingKeepsAcyclic
    ScanRootsAll
CHECK_DEADLOCK FALSE
