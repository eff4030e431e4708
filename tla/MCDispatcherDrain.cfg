SPECIFICATION Spec
CONSTANTS
    m1 = m1  m2 = m2
    Machines = {m1, m2}
    Handles = {h1}
    Ids = {a}
    Filters <- MCFilters
    Positions = {0}
    None = None
    Batch = 2
    EffectLimit = 1
    Polling = FALSE
    Faults = FALSE
    MaxCalls = 1
    MaxLog = 3
INVARIANT DrainedAtExit
CHECK_DEADLOCK FALSE
