SPECIFICATION Spec
CONSTANTS
    first = first
    repeat = repeat
    changed = changed
    bare = bare
    look = look
    k1 = k1
    b1 = b1
    b2 = b2
    Calls = {first, repeat}
    Keys = {k1}
    NoKey = NoKey
    Bodies = {b1, b2}
    KeyOf <- MCKeyOf
    BodyOf <- MCBodyOf
    Reading <- MCReading
    NoRow = NoRow
    Lifetime = 1
    MaxTime = 1
INVARIANTS
    WaiterSeesTheAnswer
