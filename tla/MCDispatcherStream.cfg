SPECIFICATION FairSpec
CONSTANTS
    m1 = m1  m2 = m2
    Machines = {m1, m2}
    Handles = {h1}
    Ids = {a}
    Filters <- MCFilters
    Positions = {0, 1}
    None = None
    Batch = 1
    EffectLimit = 1
    Polling = TRUE
    Faults = FALSE
    MaxCalls = 1
    MaxLog = 2
PROPERTIES EventuallyDelivered OutboxDrains
CHECK_DEADLOCK FALSE
