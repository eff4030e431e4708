SPECIFICATION Spec
CONSTANTS
    Writers = {w1, w2}
    Rows <- MCRows
    Versions = {1, 2}
    Keys = {k1}
    EffectIds = {1}
    Definitions <- OneDefinition
    Inputs <- UpsertInputs
    None = None
    Faults = TRUE
    SeqBase = 3
    SeqWidth = 2
    SeqModulus = 9
    MaxCalls = 3
INVARIANT UpsertsAreNext
CHECK_DEADLOCK FALSE
