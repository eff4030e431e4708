SPECIFICATION Spec
CONSTANTS
    m1 = m1  m2 = m2
    Machines = {m1}
    Handles = {h1, h2}
    Ids = {a, b}
    Filters = {None}
    Positions = {0}
    None = None
    Batch = 2
    EffectLimit = 1
    Polling = TRUE
    Faults = TRUE
    MaxCalls = 1
    MaxLog = 2
SYMMETRY Symmetry
INVARIANTS ExactlyOnceInOrder PrunedSharesDeadId
CHECK_DEADLOCK FALSE
