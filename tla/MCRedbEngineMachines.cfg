SPECIFICATION Spec
CONSTANTS
    Writers = {w1, w2}
    Rows <- MCRows
    Versions = {1, 2}
    Keys = {k1}
    EffectIds = {1}
    Definitions <- MCDefinitions
    Inputs <- MachineInputs
    None = None
    Faults = TRUE
    SeqBase = 3
    SeqWidth = 2
    SeqModulus = 9
    MaxCalls = 2
INVARIANT StoredOnce
CHECK_DEADLOCK FALSE
