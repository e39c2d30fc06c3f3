SPECIFICATION Spec
CONSTANTS
    w1 = w1
    w2 = w2
    i1 = i1
    i2 = i2
    Workers = {w1, w2}
    Items = {i1}
    Due <- MCDue
    RawSettings <- MCRenamed
    Absent = Absent
    Nobody = Nobody
    NoRecord = NoRecord
    MaxTime = 2
    MaxFaults = 1
SYMMETRY Processes
INVARIANTS
    SilenceIsSeen
    NoFaultsOneRunner
