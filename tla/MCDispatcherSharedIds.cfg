SPECIFICATION Spec
CONSTANTS
    m1 = m1  m2 = m2
    Machines = {m1}
    Handles = {h1, h2}
    Ids = {a, b}
    Filters = {None}
    Positions = {0}
    None = None
    Batch = 2
    EffectLimit = 1
    Polling = FALSE
    Faults = FALSE
    MaxCalls = 1
    MaxLog = 2
INVARIANT LiveStaysSubscribed
CHECK_DEADLOCK FALSE
