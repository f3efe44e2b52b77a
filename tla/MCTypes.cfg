\* Two devices of one vendor, two requests at a time, two corrections.
SPECIFICATION SpecAny
CONSTANTS
    Parts = {"types"}
    net = net
    a = a
    b = b
    Device = {net, a, b}
    Internet = net
    Manual = {net}
    d1 = d1
    d2 = d2
    d3 = d3
    Mac = {d1, d2, d3}
    Address = {1, 2, 3}
    Gateway = 1
    i1 = i1
    i2 = i2
    i3 = i3
    i4 = i4
    Id = {i1, i2, i3, i4}
    e1 = e1
    e2 = e2
    h1 = h1
    h2 = h2
    Host = {e1, e2}
    Type = {"nas"}
    Finds <- Found
    SnmpType = {"nas", "unknown"}
    Handler = {h1, h2}
    MaxCorrections = 2
SYMMETRY SymmetryOfTypes
INVARIANTS
    RuleRestsOnDevices
    TypeOfBestSighting
