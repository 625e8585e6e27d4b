SPECIFICATION Spec
CONSTANTS
    c1 = c1
    c2 = c2
    i1 = i1
    i2 = i2
    Absent = Absent
    Caller <- TwoCallers
    Careless <- Nobody
    Ip <- TwoIps
    MaxPerIp = 1
    MaxGlobal = 2
    Word = 16
    Window = 1
    MaxTime = 1
    MaxRelease = 0
SYMMETRY Symmetric
INVARIANT ActiveIsOpen
