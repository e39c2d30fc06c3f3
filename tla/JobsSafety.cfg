SPECIFICATION Spec
CONSTANTS
    w1 = w1
    w2 = w2
    i1 = i1
    i2 = i2
    Workers = {w1, w2}
    Items = {i1, i2}
    Due <- MCDue
    RawSettings <- MCSteady
    Absent = Absent
    Nobody = Nobody
    NoRecord = NoRecord
    MaxTime = 1
    MaxFaults = 2
INVARIANTS
    TypeOK
    EffectAtMostOnce
    EveryClaimAccounted
    AtMostOneAfterLoss
    OutcomeTellsTruth
PROPERTIES
    ImplementsEffectsOnce
SYMMETRY Processes
