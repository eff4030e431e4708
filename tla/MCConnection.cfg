SPECIFICATION FairSpec
CONSTANTS
    Callers = {a, b}
    Kinds = {"Current", "Subscribe"}
    None = None
    MaxRetries = 1
    MaxCalls = 2
    MaxPushes = 1
INVARIANTS AnswersMatch DeadStrandsNoOne NoRecordMissed
PROPERTIES BrokenReturns ConnectReturns
CHECK_DEADLOCK FALSE
